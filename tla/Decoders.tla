------------------------------ MODULE Decoders ------------------------------
(***************************************************************************)
(* The incremental decoders, one behind the other: a peer's byte stream    *)
(* (identification lines, plaintext packets, NEWKEYS, sealed packets that  *)
(* carry terminal input) arrives in pieces cut anywhere; Transport::drive  *)
(* takes packets off the receive buffer as they become complete, and the   *)
(* channel data they carry is fed to the InputParser of a terminal         *)
(* program.                                                                *)
(*                                                                         *)
(* A script is what the peer sends.  It is an honest peer's, with sealed   *)
(* payloads of any length and keystrokes cut into payloads anywhere but    *)
(* directly behind the ESC of a longer sequence (the decoder takes an ESC  *)
(* at the end of a read for the Esc key), or it ends in one malformed      *)
(* packet.                                                                 *)
(***************************************************************************)
EXTENDS Framing, InputParser, FiniteSets

CONSTANTS Cuts,         \* sizes of the pieces the socket delivers
          BannerLens,   \* lengths of lines before the identification
          MaxBanners,   \* how many of them there may be (bound)
          IdLens,       \* lengths of the identification line
          Lengths,      \* payload lengths of the plain and sealed packets
          MaxKeys,      \* keystrokes of a script (bound)
          HeadBytes     \* bytes of a malformed packet that are sent (bound)

ASSUME ScriptAssumption ==
    /\ Cuts \subseteq Nat \ {0} /\ BannerLens \subseteq Nat \ {0} /\ IdLens \subseteq Nat \ {0}
    /\ Lengths \subseteq Nat /\ MaxBanners \in Nat /\ MaxKeys \in Nat /\ HeadBytes \in Nat

VARIABLES script,   \* what the peer sends, fixed at the start
          fed,      \* bytes of it the socket has delivered
          rx        \* the receiving transport and the input parser

vars == <<script, fed, rx>>

-----------------------------------------------------------------------------
(* Scripts *)

\* Keystrokes: the bytes a terminal sends and the events they stand for.
One(code, mods) == <<Key(code, mods)>>
Typed ==
    ("a"          :> [bytes |-> <<97>>, events |-> One(Char(<<97>>), {})]) @@
    ("euro"       :> [bytes |-> <<226, 130, 172>>, events |-> One(Char(<<226, 130, 172>>), {})]) @@
    ("ctrl-c"     :> [bytes |-> <<3>>, events |-> One(Char(<<99>>), {"ctrl"})]) @@
    ("enter"      :> [bytes |-> <<13>>, events |-> One("Enter", {})]) @@
    ("up"         :> [bytes |-> <<27, 91, 65>>, events |-> One("Up", {})]) @@
    ("ctrl-right" :> [bytes |-> <<27, 91, 49, 59, 53, 67>>, events |-> One("Right", {"ctrl"})]) @@
    ("f12"        :> [bytes |-> <<27, 91, 50, 52, 126>>, events |-> One(F(12), {})]) @@
    ("f1"         :> [bytes |-> <<27, 79, 80>>, events |-> One(F(1), {})]) @@
    ("alt-euro"   :> [bytes |-> <<27, 226, 130, 172>>, events |-> One(Char(<<226, 130, 172>>), {"alt"})]) @@
    ("back-tab"   :> [bytes |-> <<27, 91, 90>>, events |-> One("BackTab", {"shift"})]) @@
    ("focus"      :> [bytes |-> <<27, 91, 73>>, events |-> <<>>]) @@
    ("stray"      :> [bytes |-> <<191>>, events |-> <<>>])

BytesTyped(keys) == FlattenSeq([i \in DOMAIN keys |-> Typed[keys[i]].bytes])

\* The payloads that carry the typed bytes: all in one, or cut in two.
Payloads(bytes) ==
    {<<bytes>>} \cup {<<SubSeq(bytes, 1, n), SubSeq(bytes, n + 1, Len(bytes))>> :
                         n \in {m \in 1..Len(bytes) - 1 : bytes[m] # ESC}}

KEXINIT(len) == seal_into("none", 0, [id |-> "KEXINIT"], len)
NEWKEYS      == seal_into("none", 0, [id |-> "NEWKEYS"], 1)

\* After NEWKEYS the nonce counts the packets of the epoch from zero, as the
\* sequence number (strict KEX) or as the counter of the IV.
Sealed(cipher, payloads) ==
    [i \in DOMAIN payloads |->
        seal_into(cipher, i - 1, [id |-> "CHANNEL_DATA", data |-> payloads[i]],
                  9 + Len(payloads[i]))]

Honest(lines, allow_banner, cipher, frames, keys) ==
    [lines |-> lines, allow_banner |-> allow_banner, cipher |-> cipher,
     frames |-> frames, keys |-> keys, bad |-> "none"]

IdLine(len) == [len |-> len, ssh |-> TRUE]
BannerLine(len) == [len |-> len, ssh |-> FALSE]
ShortestId == CHOOSE n \in IdLens : \A m \in IdLens : n <= m

\* A session of keystrokes behind a short handshake.
KeyScripts ==
    {Honest(<<IdLine(ShortestId)>>, FALSE, c, <<NEWKEYS>> \o Sealed(c, p), keys) :
        c \in Ciphers \ {"none"}, <<keys, p>> \in
          UNION {{<<k, q>> : q \in Payloads(BytesTyped(k))} :
                   k \in UNION {[1..n -> DOMAIN Typed] : n \in 1..MaxKeys}}}

\* A handshake behind banner lines, and packets of every length.
LengthScripts ==
    {Honest(Append([i \in DOMAIN b |-> BannerLine(b[i])], IdLine(ShortestId)), TRUE, c,
            <<KEXINIT(n), NEWKEYS, seal_into(c, 0, [id |-> "IGNORE"], n)>>, <<>>) :
        c \in Ciphers \ {"none"}, n \in Lengths,
        b \in UNION {[1..k -> BannerLens] : k \in 0..MaxBanners}}

\* The last packet, in the clear or sealed, is malformed.
Malformed(f) ==
    {[f EXCEPT !.packet_length = MAX_PACKET_LENGTH + 16],
     [f EXCEPT !.packet_length = IF f.cipher = "none" THEN 11 ELSE @ + 1],
     [f EXCEPT !.padding_length = MIN_PADDING - 1],
     [f EXCEPT !.padding_length = f.packet_length]}

LengthFault(f) == ~LengthOk(f.cipher, f.packet_length)

BadScripts ==
    {[Honest(<<IdLine(ShortestId)>>, FALSE, c,
             IF c = "none" THEN <<KEXINIT(5), f>> ELSE <<NEWKEYS, f>>, <<>>) EXCEPT !.bad = "frame"] :
        c \in Ciphers, f \in UNION {Malformed(seal_into(d, 0, [id |-> "IGNORE"], 5)) : d \in Ciphers}}

\* Lines only: a banner sent to a server, and identification lines at the limit.
LineScripts ==
    {[Honest(<<BannerLine(n), IdLine(ShortestId)>>, FALSE, "none", <<>>, <<>>) EXCEPT !.bad = "line"] :
        n \in BannerLens} \cup
    {[Honest(<<IdLine(n)>>, a, "none", <<>>, <<>>) EXCEPT !.bad = IF n > MAX_LINE THEN "line" ELSE "none"] :
        n \in IdLens, a \in BOOLEAN}

Scripts == KeyScripts \cup LengthScripts \cup LineScripts
             \cup {s \in BadScripts : s.frames[2].cipher = s.cipher}

\* Bytes of the script: its lines, then its frames; frames[k] ends at FrameEnd(k).
Lines == LineBytes(script.lines)[Len(script.lines)]
FrameEnd(k) == Lines + FoldLeft(LAMBDA n, f : n + FrameBytes(f), 0, SubSeq(script.frames, 1, k))
Total == IF script.bad = "frame" THEN FrameEnd(1) + HeadBytes ELSE FrameEnd(Len(script.frames))

-----------------------------------------------------------------------------
(* The receiver *)

Init ==
    /\ script \in Scripts
    /\ fed = 0
    /\ rx = [phase |-> "NeedPeerVersion", cipher_in |-> "none", rx_seq |-> 0, iv |-> 0,
             rx_pos |-> 0, frames |-> 0, err |-> FALSE,
             parser |-> [pending |-> <<>>, events |-> <<>>]]

\* The nonce the next packet is opened with; the IV's counter moves on with every
\* packet opened under it (gcm_increment).
NonceOf(r) == IF r.cipher_in = "aes256-gcm" THEN r.iv ELSE r.rx_seq

\* handle_packet, for what these decoders hand on.
Handle(r, f) ==
    CASE f.payload.id = "NEWKEYS" -> [r EXCEPT !.cipher_in = script.cipher, !.rx_seq = 0, !.iv = 0]
      [] f.payload.id = "CHANNEL_DATA" -> [r EXCEPT !.parser = feed(@, f.payload.data)]
      [] OTHER -> r

\* One iteration of the drive loop with `bytes` bytes received in all.
DriveOnce(r, bytes) ==
    LET have == bytes - r.rx_pos
        id   == parse_peer_id(script.lines, have, script.allow_banner)
        f    == script.frames[r.frames + 1]
        o    == open(r.cipher_in, NonceOf(r), f, have)
    IN  IF r.phase = "NeedPeerVersion"
        THEN [r EXCEPT !.phase = IF id.verdict = "ok" THEN "Handshake" ELSE @,
                       !.rx_pos = @ + id.consumed, !.err = id.verdict = "error"]
        ELSE IF r.frames = Len(script.frames) \/ o = "wait" THEN r
        ELSE IF o = "error" THEN [r EXCEPT !.err = TRUE]
        ELSE Handle([r EXCEPT !.rx_pos = @ + FrameBytes(f), !.frames = @ + 1, !.rx_seq = @ + 1,
                              !.iv = IF r.cipher_in = "aes256-gcm" THEN @ + 1 ELSE @], f)

\* drive: until it needs more input or has failed.
RECURSIVE drive(_, _)
drive(r, bytes) == LET s == DriveOnce(r, bytes)
                   IN  IF s = r \/ s.err THEN s ELSE drive(s, bytes)

on_input(n) ==
    /\ ~rx.err /\ fed < Total
    /\ fed' = IF fed + n > Total THEN Total ELSE fed + n
    /\ rx' = drive(rx, fed')
    /\ UNCHANGED script

Next == \E n \in Cuts : on_input(n)

Spec == Init /\ [][Next]_vars

-----------------------------------------------------------------------------
\* Where the receiver must be after the bytes received so far, whatever the
\* pieces they came in.
IdRefusedAt == IF script.bad # "line" THEN Total + 1
               ELSE IF script.lines[1].len > MAX_BANNER THEN MAX_BANNER + 1
               ELSE script.lines[1].len
GoodFrames  == IF script.bad = "frame" THEN 1 ELSE Len(script.frames)
RefusedAt   == IF script.bad # "frame" THEN IdRefusedAt
               ELSE FrameEnd(1) + (IF LengthFault(script.frames[2]) THEN 4
                                   ELSE FrameBytes(script.frames[2]))
Complete    == IF script.bad = "line" THEN 0
               ELSE Cardinality({k \in 1..GoodFrames : FrameEnd(k) <= fed})

\* Decoding does not depend on how the stream was cut.  After every input the
\* receiver has taken exactly the packets that are complete, none of them held
\* back or refused; it has failed exactly when the bytes that show the fault
\* are there, which for a bad length is the 4-byte header, before any of the
\* body is waited for; and what it keeps buffered is less than one packet
\* (parse_peer_id, decode_plain, Cipher::open, gcm_open, Transport::drive).
DecodedAsSent ==
    /\ rx.err = (fed >= RefusedAt)
    /\ rx.frames = Complete
    /\ rx.phase = "Handshake" => rx.rx_pos = FrameEnd(Complete)
    /\ script.bad # "line" => (rx.phase = "Handshake") = (fed >= Lines)

\* The keystrokes whose last byte has been delivered to the parser.
Delivered == FoldLeft(LAMBDA n, f : IF f.payload.id = "CHANNEL_DATA" THEN n + Len(f.payload.data) ELSE n,
                      0, SubSeq(script.frames, 1, rx.frames))
KeysDelivered ==
    {k \in DOMAIN script.keys : Len(BytesTyped(SubSeq(script.keys, 1, k))) <= Delivered}

\* A terminal program sees the keys that were typed, in order and each once,
\* although packets and reads cut escape sequences and UTF-8 characters in two
\* or join several keystrokes, and unknown sequences and stray bytes come in
\* between (InputParser::feed; the cut directly behind an ESC is excluded).
KeysAsTyped ==
    rx.parser.events =
        FlattenSeq([k \in 1..Cardinality(KeysDelivered) |-> Typed[script.keys[k]].events])
=============================================================================
