----------------------------- MODULE InputParser -----------------------------
(***************************************************************************)
(* The decoder of raw terminal input (crates/ssh-tui/src/input.rs): bytes  *)
(* read from a channel to key events.  Bytes are numbers; the character a  *)
(* UTF-8 sequence stands for is the sequence itself.                       *)
(***************************************************************************)
EXTENDS Integers, Sequences, SequencesExt, TLC

ESC == 27
LBRACKET == 91
SS3 == 79

Key(code, mods) == [code |-> code, mods |-> mods]
Char(s) == <<"Char", s>>
F(n) == <<"F", n>>

\* Outcomes of one attempt at the front of the buffer (enum Step).
Found(n, key) == [r |-> "key", n |-> n, key |-> key]
Skip(n) == [r |-> "skip", n |-> n]
Incomplete == [r |-> "wait"]

\* C0 control bytes and DEL.
IsControl(b) == b < 32 \/ b = 127
control(b) ==
    CASE b \in {13, 10} -> Key("Enter", {})
      [] b = 9          -> Key("Tab", {})
      [] b \in {8, 127} -> Key("Backspace", {})
      [] b = 0          -> Key(Char(<<32>>), {"ctrl"})
      [] b \in 1..26 \ {8, 9, 10, 13} -> Key(Char(<<96 + b>>), {"ctrl"})
      [] OTHER          -> Key(Char(<<64 + b>>), {"ctrl"})

Arrows == (65 :> "Up") @@ (66 :> "Down") @@ (67 :> "Right") @@ (68 :> "Left")
              @@ (72 :> "Home") @@ (70 :> "End")

\* The codes of the sequences that end in ~.
Tilde == (1 :> "Home") @@ (7 :> "Home") @@ (2 :> "Insert") @@ (3 :> "Delete")
             @@ (4 :> "End") @@ (8 :> "End") @@ (5 :> "PageUp") @@ (6 :> "PageDown")
             @@ [n \in 11..15 |-> F(n - 10)] @@ [n \in 17..21 |-> F(n - 11)]
             @@ [n \in 23..24 |-> F(n - 12)]

\* str::parse::<u16>, -1 when it fails.
Digits(s) == IF s # <<>> /\ Head(s) = 43 THEN Tail(s) ELSE s
ParseU16(s) ==
    LET v == FoldLeft(LAMBDA acc, d : IF acc > 65535 THEN acc ELSE acc * 10 + d - 48, 0, Digits(s))
    IN  IF Digits(s) = <<>> \/ (\E i \in DOMAIN Digits(s) : Digits(s)[i] \notin 48..57) \/ v > 65535
        THEN -1 ELSE v

\* xterm's 1 + bitfield.
from_csi_param(p) ==
    LET m == (IF p = 0 THEN 0 ELSE p - 1) % 8
    IN  {x \in {"shift", "alt", "ctrl"} :
           CASE x = "shift" -> m % 2 = 1 [] x = "alt" -> (m \div 2) % 2 = 1 [] OTHER -> m \div 4 = 1}

\* ESC [ params final
csi(buf) ==
    LET end    == SelectInSubSeq(buf, 3, Len(buf), LAMBDA b : b \in 64..126)
        raw    == SubSeq(buf, 3, end - 1)
        semi   == SelectInSeq(raw, LAMBDA b : b = 59)
        semi2  == IF semi = 0 THEN 0 ELSE SelectInSubSeq(raw, semi + 1, Len(raw), LAMBDA b : b = 59)
        first  == ParseU16(IF semi = 0 THEN raw ELSE SubSeq(raw, 1, semi - 1))
        second == IF semi = 0 THEN -1
                  ELSE ParseU16(SubSeq(raw, semi + 1, IF semi2 = 0 THEN Len(raw) ELSE semi2 - 1))
        mods   == IF second = -1 THEN {} ELSE from_csi_param(second)
    IN  CASE end = 0 -> Incomplete
          [] end # 0 /\ buf[end] \in DOMAIN Arrows -> Found(end, Key(Arrows[buf[end]], mods))
          [] end # 0 /\ buf[end] = 90 -> Found(end, Key("BackTab", {"shift"}))
          [] end # 0 /\ buf[end] = 126 /\ first \in DOMAIN Tilde -> Found(end, Key(Tilde[first], mods))
          [] OTHER -> Skip(end)

\* ESC O final
ss3(buf) ==
    IF Len(buf) < 3 THEN Incomplete
    ELSE IF buf[3] \in DOMAIN Arrows THEN Found(3, Key(Arrows[buf[3]], {}))
    ELSE IF buf[3] \in 80..83 THEN Found(3, Key(F(buf[3] - 79), {}))
    ELSE Skip(3)

\* str::from_utf8 on a sequence whose lead byte announces its length.
ValidUtf8(s) ==
    /\ \A i \in 2..Len(s) : s[i] \in 128..191
    /\ s[1] = 224 => s[2] >= 160
    /\ s[1] = 237 => s[2] <= 159
    /\ s[1] = 240 => s[2] >= 144
    /\ s[1] = 244 => s[2] <= 143

\* The length a lead byte announces; 0 for a byte that leads no character.
Announced(b) ==
    CASE b \in 0..127 -> 1 [] b \in 194..223 -> 2
      [] b \in 224..239 -> 3 [] b \in 240..244 -> 4 [] OTHER -> 0

Character(buf, n) == Found(n, Key(Char(SubSeq(buf, 1, n)), {}))

\* Fault: a character cut off at the end of a read is decoded as it stands, finds
\* itself invalid and is dropped.
utf8_eager(buf) ==
    LET want == Announced(buf[1])
    IN  IF want \in 1..Len(buf) /\ ValidUtf8(SubSeq(buf, 1, want))
        THEN Character(buf, want) ELSE Skip(1)

utf8(buf) ==
    LET want == Announced(buf[1])
    IN  CASE want = 0 -> Skip(1)
          [] want > Len(buf) -> Incomplete
          [] OTHER -> IF ValidUtf8(SubSeq(buf, 1, want)) THEN Character(buf, want) ELSE Skip(1)

Plain(buf) == IF IsControl(buf[1]) THEN Found(1, control(buf[1])) ELSE utf8(buf)

\* Escape-introduced input: the Esc key, CSI, SS3, or Alt and a key.  What comes
\* behind the ESC of an Alt key is never another ESC, so step recurs once only.
esc(buf) ==
    IF Len(buf) = 1 \/ (Len(buf) > 1 /\ buf[2] = ESC) THEN Found(1, Key("Esc", {}))
    ELSE IF buf[2] = LBRACKET THEN csi(buf)
    ELSE IF buf[2] = SS3 THEN ss3(buf)
    ELSE LET s == Plain(Tail(buf))
         IN  CASE s.r = "key" -> Found(s.n + 1, Key(s.key.code, s.key.mods \cup {"alt"}))
               [] s.r = "skip" -> Skip(s.n + 1)
               [] OTHER -> s

step(buf) == IF buf[1] = ESC THEN esc(buf) ELSE Plain(buf)

\* InputParser::feed: decode what is pending as far as it goes.
RECURSIVE DecodeAll(_, _)
DecodeAll(pending, events) ==
    IF pending = <<>> THEN [pending |-> pending, events |-> events]
    ELSE LET s == step(pending)
         IN  CASE s.r = "wait" -> [pending |-> pending, events |-> events]
               [] s.r = "key"  -> DecodeAll(SubSeq(pending, s.n + 1, Len(pending)), Append(events, s.key))
               [] OTHER        -> DecodeAll(SubSeq(pending, s.n + 1, Len(pending)), events)

feed(parser, bytes) == DecodeAll(parser.pending \o bytes, parser.events)
=============================================================================
