------------------------------- MODULE Framing -------------------------------
(***************************************************************************)
(* How bytes become packets: the identification line (version.rs), the     *)
(* plaintext framing (packet.rs) and the two AEAD framings (cipher.rs).    *)
(*                                                                         *)
(* Contents are symbolic, lengths are exact.  A frame is a record of the   *)
(* fields its bytes spell, and a receive buffer is known by how many bytes *)
(* of the stream it holds; a decoder may look at a field only once the     *)
(* bytes that spell it are there.  The tag of an AEAD frame verifies       *)
(* exactly under the cipher and the nonce that sealed it.                  *)
(***************************************************************************)
EXTENDS Integers, Sequences

MIN_PADDING       == 4
MIN_PACKET        == 16
BLOCK             == 8
MAX_PACKET_LENGTH == 1048576
TAG_LEN           == 16

Ciphers == {"none", "chacha20-poly1305", "aes256-gcm"}
BlockOf(cipher) == IF cipher = "aes256-gcm" THEN 16 ELSE 8   \* GCM_BLOCK, CHACHA_BLOCK
Tag(cipher)     == IF cipher = "none" THEN 0 ELSE TAG_LEN

\* The least padding that fills the last block and is not below the minimum.
FillBlock(unpadded, block) ==
    LET pad == block - (unpadded % block)
    IN  IF pad < MIN_PADDING THEN pad + block ELSE pad

\* With the length field in the aligned region; the loop that grows the packet
\* to MIN_PACKET needs one round at most.
padding_len(payload_len) ==
    LET pad == FillBlock(4 + 1 + payload_len, BLOCK)
    IN  IF 4 + 1 + payload_len + pad < MIN_PACKET THEN pad + BLOCK ELSE pad

\* The length field is not part of an AEAD packet's aligned region.
aead_padding_len(payload_len, block) == FillBlock(1 + payload_len, block)

Padding(cipher, payload_len) ==
    IF cipher = "none" THEN padding_len(payload_len)
                       ELSE aead_padding_len(payload_len, BlockOf(cipher))

\* Cipher::seal_into and the framings it calls.
seal_into(cipher, nonce, payload, payload_len) ==
    LET pad == Padding(cipher, payload_len)
    IN  [cipher |-> cipher, nonce |-> nonce, payload |-> payload,
         packet_length |-> 1 + payload_len + pad, padding_length |-> pad]

\* Bytes of a frame on the wire.
FrameBytes(f) == 4 + f.packet_length + Tag(f.cipher)

\* The bounds open puts on the length field.
LengthOk(cipher, packet_length) ==
    /\ packet_length <= MAX_PACKET_LENGTH
    /\ IF cipher = "none" THEN packet_length >= MIN_PACKET - 4
       ELSE packet_length >= BlockOf(cipher) /\ packet_length % BlockOf(cipher) = 0

PaddingOk(f) == f.padding_length >= MIN_PADDING /\ f.padding_length + 1 <= f.packet_length

PayloadLen(f) == f.packet_length - f.padding_length - 1

\* Fault: the length is checked only once the packet is complete.
open_late(cipher, nonce, f, have) ==
    IF have < 4 + f.packet_length + Tag(cipher) THEN "wait"
    ELSE IF ~LengthOk(cipher, f.packet_length) \/ ~PaddingOk(f) THEN "error"
    ELSE "ok"

\* Cipher::open with `have` bytes in the buffer, the first of them those of f.
open(cipher, nonce, f, have) ==
    IF have < 4 THEN "wait"
    ELSE IF ~LengthOk(cipher, f.packet_length) THEN "error"
    ELSE IF have < 4 + f.packet_length + Tag(cipher) THEN "wait"
    ELSE IF cipher # f.cipher \/ (cipher # "none" /\ nonce # f.nonce) THEN "error"
    ELSE IF ~PaddingOk(f) THEN "error"
    ELSE "ok"

-----------------------------------------------------------------------------
CONSTANTS MAX_LINE,     \* 255 bytes, CR LF included
          MAX_BANNER    \* MAX_LINE * 64, the longest unfinished line kept

ASSUME LineAssumption == MAX_LINE \in Nat /\ MAX_BANNER \in Nat

\* Bytes of the first n lines.
LineBytes(lines) == LET total[n \in 0..Len(lines)] ==
                          IF n = 0 THEN 0 ELSE total[n-1] + lines[n].len
                    IN  total

\* parse_peer_id over a buffer that holds the first `have` bytes of the lines;
\* a line is [len, ssh], ssh telling whether it starts with SSH-2.0- or
\* SSH-1.99-.  The verdict is that of the first complete line that has one.
Decides(line, allow_banner) == line.len > MAX_LINE \/ line.ssh \/ ~allow_banner

parse_peer_id(lines, have, allow_banner) ==
    LET total    == LineBytes(lines)
        complete == {n \in 1..Len(lines) : total[n] <= have}
        deciding == {n \in complete : Decides(lines[n], allow_banner)}
        first    == CHOOSE n \in deciding : \A m \in deciding : n <= m
        rest     == have - (IF complete = {} THEN 0
                            ELSE total[CHOOSE n \in complete : \A m \in complete : m <= n])
    IN  IF deciding # {}
        THEN IF lines[first].len <= MAX_LINE /\ lines[first].ssh
             THEN [verdict |-> "ok", consumed |-> total[first]]
             ELSE [verdict |-> "error", consumed |-> 0]
        ELSE [verdict |-> IF rest > MAX_BANNER THEN "error" ELSE "wait", consumed |-> 0]
=============================================================================
