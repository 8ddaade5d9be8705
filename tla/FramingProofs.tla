---------------------------- MODULE FramingProofs ----------------------------
(***************************************************************************)
(* For every payload length and every cipher, a packet that is sealed is   *)
(* accepted when it is opened and gives the payload length back.           *)
(***************************************************************************)
EXTENDS Framing, TLAPS

\* FillBlock pads to a whole number of blocks, with at least the minimum and
\* less than a block more than it.
LEMMA FillBlock8 ==
    ASSUME NEW n \in Nat
    PROVE  /\ FillBlock(n, 8) \in MIN_PADDING..(MIN_PADDING + 7)
           /\ (n + FillBlock(n, 8)) % 8 = 0
  BY DEF FillBlock, MIN_PADDING

LEMMA FillBlock16 ==
    ASSUME NEW n \in Nat
    PROVE  /\ FillBlock(n, 16) \in MIN_PADDING..(MIN_PADDING + 15)
           /\ (n + FillBlock(n, 16)) % 16 = 0
  BY DEF FillBlock, MIN_PADDING

\* The loop of padding_len never runs: block alignment and the minimum padding
\* alone bring a plaintext packet to MIN_PACKET bytes.
THEOREM PlainPacketLongEnough ==
    ASSUME NEW n \in Nat
    PROVE  /\ padding_len(n) = FillBlock(4 + 1 + n, BLOCK)
           /\ 4 + 1 + n + padding_len(n) >= MIN_PACKET
           /\ (4 + 1 + n + padding_len(n)) % BLOCK = 0
<1> DEFINE pad == FillBlock(4 + 1 + n, 8)
<1>1. pad \in 4..11 /\ (5 + n + pad) % 8 = 0
  BY FillBlock8, 4 + 1 + n \in Nat DEF MIN_PADDING
<1>2. 5 + n + pad >= 16
  BY <1>1
<1> QED
  BY <1>1, <1>2 DEF padding_len, BLOCK, MIN_PACKET

\* Every padding fits the one byte that carries it, and is at least the minimum.
THEOREM PaddingFitsByte ==
    ASSUME NEW c \in Ciphers, NEW n \in Nat
    PROVE  Padding(c, n) \in MIN_PADDING..19
<1>1. CASE c = "none"
  <2>1. padding_len(n) = FillBlock(5 + n, 8)
    BY PlainPacketLongEnough DEF BLOCK
  <2> QED
    BY <1>1, <2>1, FillBlock8, 5 + n \in Nat DEF Padding, MIN_PADDING
<1>2. CASE c = "chacha20-poly1305"
  BY <1>2, FillBlock8, 1 + n \in Nat DEF Padding, aead_padding_len, BlockOf, MIN_PADDING
<1>3. CASE c = "aes256-gcm"
  BY <1>3, FillBlock16, 1 + n \in Nat DEF Padding, aead_padding_len, BlockOf, MIN_PADDING
<1> QED
  BY <1>1, <1>2, <1>3 DEF Ciphers

\* The bounds open puts on the length field admit every packet seal_into makes,
\* up to the maximum length.
LEMMA SealedLengthOk ==
    ASSUME NEW c \in Ciphers, NEW n \in Nat,
           1 + n + Padding(c, n) <= MAX_PACKET_LENGTH
    PROVE  LengthOk(c, 1 + n + Padding(c, n))
<1>1. CASE c = "none"
  <2>1. 5 + n + padding_len(n) >= 16
    BY PlainPacketLongEnough DEF MIN_PACKET
  <2> QED
    BY <1>1, <2>1, PaddingFitsByte DEF LengthOk, Padding, MIN_PACKET, MIN_PADDING
<1>2. CASE c = "chacha20-poly1305"
  <2>1. (1 + n + FillBlock(1 + n, 8)) % 8 = 0 /\ FillBlock(1 + n, 8) \in 4..11
    BY FillBlock8, 1 + n \in Nat DEF MIN_PADDING
  <2>2. 1 + n + FillBlock(1 + n, 8) >= 8
    BY <2>1
  <2> QED
    BY <1>2, <2>1, <2>2 DEF LengthOk, Padding, aead_padding_len, BlockOf
<1>3. CASE c = "aes256-gcm"
  <2>1. (1 + n + FillBlock(1 + n, 16)) % 16 = 0 /\ FillBlock(1 + n, 16) \in 4..19
    BY FillBlock16, 1 + n \in Nat DEF MIN_PADDING
  <2>2. 1 + n + FillBlock(1 + n, 16) >= 16
    BY <2>1
  <2> QED
    BY <1>3, <2>1, <2>2 DEF LengthOk, Padding, aead_padding_len, BlockOf
<1> QED
  BY <1>1, <1>2, <1>3 DEF Ciphers

\* Cipher::open accepts what Cipher::seal_into made, as soon as all of it is in
\* the buffer and not before, whatever follows it there, and recovers the
\* payload's length; this is for every cipher, nonce and payload length.
THEOREM OpenAcceptsSealed ==
    ASSUME NEW c \in Ciphers, NEW nonce, NEW payload, NEW n \in Nat, NEW have \in Nat,
           1 + n + Padding(c, n) <= MAX_PACKET_LENGTH
    PROVE  LET f == seal_into(c, nonce, payload, n)
           IN  /\ open(c, nonce, f, have) = (IF have < FrameBytes(f) THEN "wait" ELSE "ok")
               /\ PayloadLen(f) = n
<1> DEFINE f == seal_into(c, nonce, payload, n)
<1>1. /\ f.cipher = c /\ f.nonce = nonce
      /\ f.packet_length = 1 + n + Padding(c, n) /\ f.padding_length = Padding(c, n)
  BY DEF seal_into
<1>2. Padding(c, n) \in 4..19
  BY PaddingFitsByte DEF MIN_PADDING
<1>3. LengthOk(c, f.packet_length)
  BY <1>1, SealedLengthOk
<1>4. PaddingOk(f) /\ PayloadLen(f) = n
  BY <1>1, <1>2 DEF PaddingOk, PayloadLen, MIN_PADDING
<1>5. FrameBytes(f) = 4 + f.packet_length + Tag(c) /\ FrameBytes(f) \in Nat /\ FrameBytes(f) >= 4
  BY <1>1, <1>2 DEF FrameBytes, Tag, TAG_LEN
<1>6. open(c, nonce, f, have) = (IF have < FrameBytes(f) THEN "wait" ELSE "ok")
  <2> HIDE DEF f
  <2>1. CASE have < 4
    BY <2>1, <1>5 DEF open
  <2>2. CASE ~(have < 4) /\ have < FrameBytes(f)
    BY <2>2, <1>3, <1>5 DEF open
  <2>3. CASE ~(have < FrameBytes(f))
    <3>1. ~(have < 4) /\ ~(have < 4 + f.packet_length + Tag(c))
      BY <2>3, <1>5
    <3> QED
      BY <2>3, <3>1, <1>1, <1>3, <1>4 DEF open
  <2> QED
    BY <2>1, <2>2, <2>3
<1> QED
  BY <1>4, <1>6
=============================================================================
