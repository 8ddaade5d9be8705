---------------------------- MODULE TransportProofs ----------------------------
(***************************************************************************)
(* Theorems about the two transports, for every re-key limit, epoch cap,   *)
(* size of the sequence space and number of packets, chaff and re-keys.    *)
(* The invariant of this module is one endpoint's alone: nothing is asked  *)
(* of the frames it reads but that a KEXINIT lists known compression       *)
(* names, so the theorems on nonces and on silence during a key exchange   *)
(* do not depend on what the peer sends. The last two sections say what    *)
(* each operation does to the packets on their way. What the two endpoints *)
(* make of each other is in TransportOrder, which extends this module.     *)
(***************************************************************************)
EXTENDS TransportPair, FiniteSetTheorems, WellFoundedInduction, SequenceTheorems, TLAPS

Fields ==
    {"role", "phase", "rng", "tx", "tx_seq", "rx_seq", "cipher_out", "cipher_in",
     "comp_out", "comp_in", "offered_ciphers", "offered_compression", "negotiated",
     "comp_name", "comp_active", "local_kexinit", "peer_kexinit", "kex_eph", "pending",
     "sent_newkeys", "recv_newkeys", "strict_kex", "initial_kex_done", "rekeying",
     "kexinit_sent", "tx_app_queue", "bytes_since_rekey", "tx_packets_since_rekey",
     "rx_packets_since_rekey", "consecutive_peer_rekeys", "session_id", "events",
     "peer_disconnected", "closing", "err"}

CompNames == {"none", "zlib"}
Deferred  == AppIds \cup {"IGNORE"}

IsSeq(s) == Len(s) \in Nat /\ DOMAIN s = 1..Len(s) /\ \E S : s \in Seq(S)

\* A KEXINIT lists compressions this code knows.
FrameOK(f) == f.msg.id = "KEXINIT" => f.msg.arg.comp \in Seq(CompNames)

\* The types of one endpoint.
Shape(e) ==
    /\ DOMAIN e = Fields /\ e.role \in Roles /\ e.phase \in Phases
    /\ e.tx_seq \in 0..SeqSpace-1 /\ e.rx_seq \in 0..SeqSpace-1
    /\ e.comp_out \in Nat /\ e.comp_in \in Nat
    /\ e.comp_name \in CompNames /\ e.negotiated.comp \in CompNames
    /\ e.offered_compression \in Seq(CompNames)
    /\ e.rekeying \in BOOLEAN /\ e.kexinit_sent \in BOOLEAN /\ e.closing \in BOOLEAN
    /\ e.sent_newkeys \in BOOLEAN
    /\ DOMAIN e.pending = {"some", "out", "inn"}
    /\ e.rng \in Nat /\ e.kex_eph \in 0..e.rng
    /\ e.tx_packets_since_rekey \in 0..EpochHardPackets
    /\ e.tx_packets_since_rekey = EpochHardPackets => e.closing
    /\ IsSeq(e.tx) /\ \A i \in 1..Len(e.tx) : FrameOK(e.tx[i])
    /\ IsSeq(e.tx_app_queue)
    /\ \A i \in 1..Len(e.tx_app_queue) : e.tx_app_queue[i].id \in Deferred

--------------------------------------------------------------------------------
(* Induction over the natural numbers, stated of sets *)

\* Every nonempty set of natural numbers has a least element: the intervals
\* from zero are finite sets, which inclusion orders well.
LEMMA LeastNumber ==
    ASSUME NEW T, T \subseteq Nat, T # {}
    PROVE  \E x \in T : \A y \in T : ~(y < x)
<1> DEFINE R == StrictSubsetOrdering(Nat)
           F == {0..m : m \in T}
<1>1. IsWellFoundedOn(R, FiniteSubsetsOf(Nat))
  BY FS_StrictSubsetOrderingWellFounded
<1>2. F \subseteq FiniteSubsetsOf(Nat) /\ F # {}
  <2>1. ASSUME NEW m \in T PROVE 0..m \in SUBSET Nat /\ IsFiniteSet(0..m)
    <3>1. m \in Int /\ 0 \in Int
      OBVIOUS
    <3> QED
      BY <3>1, FS_Interval
  <2> QED
    BY <2>1 DEF FiniteSubsetsOf
<1>3. PICK X \in F : \A Y \in F : ~(<<Y, X>> \in R)
  <2> HIDE DEF R, F
  <2> QED
    BY <1>1, <1>2, WFMin
<1>4. PICK x \in T : X = 0..x
  OBVIOUS
<1>5. ASSUME NEW y \in T, y < x PROVE FALSE
  <2>1. 0..y \subseteq 0..x /\ 0..y # 0..x /\ 0..x \subseteq Nat
    BY <1>5
  <2>2. <<0..y, 0..x>> \in R
    BY <2>1 DEF StrictSubsetOrdering
  <2> QED
    BY <1>3, <1>4, <2>2
<1> QED
  BY <1>5

\* A set with zero in it that is closed under successor holds every number.
LEMMA Induction ==
    ASSUME NEW S, 0 \in S, \A n \in Nat : n \in S => n + 1 \in S
    PROVE  Nat \subseteq S
<1>1. SUFFICES ASSUME Nat \ S # {} PROVE FALSE
  OBVIOUS
<1>2. PICK x \in Nat \ S : \A y \in Nat \ S : ~(y < x)
  BY <1>1, LeastNumber
<1>3. x # 0 /\ x - 1 \in Nat
  OBVIOUS
<1>4. x - 1 \in S
  BY <1>2, <1>3
<1> QED
  BY <1>3, <1>4

--------------------------------------------------------------------------------
(* Silence during a key exchange *)

\* QuietDuringKex, of one endpoint's output.
Hushed(tx) ==
    \A i, j \in 1..Len(tx) :
        i < j /\ tx[i].msg.id = "KEXINIT" /\ tx[j].msg.id \in Deferred
            => \E k \in i..j : tx[k].msg.id = "NEWKEYS"

\* The last KEXINIT has no NEWKEYS behind it.
Open(tx) ==
    \E i \in 1..Len(tx) : tx[i].msg.id = "KEXINIT"
                          /\ \A k \in i..Len(tx) : tx[k].msg.id # "NEWKEYS"

\* An exchange in the output is one the endpoint knows it is in.
QuietInv(e) ==
    /\ Hushed(e.tx)
    /\ Open(e.tx) => e.closing \/ (e.kexinit_sent /\ ~e.sent_newkeys)
    /\ e.phase = "Established" => (e.rekeying <=> e.kexinit_sent)

--------------------------------------------------------------------------------
(* Nonces *)

\* Two epochs' worth of packets fit the sequence space, as in the code, where
\* the cap is 2^31 and the sequence number has 32 bits: the packet counter
\* starts again when both NEWKEYS are exchanged, after the key has changed.
Wide == 2 * EpochHardPackets <= SeqSpace

\* The endpoint's own ephemeral value in a key's exchange hash.
Own(role, key) == IF role = "client" THEN key[2][3] ELSE key[2][4]

\* A key derived in an exchange the endpoint has finished.
Used(e, key) == Own(e.role, key) \in 1..e.rng /\ (e.role = "client" => Own(e.role, key) # e.kex_eph)

\* How many frames may be sealed with the current key by now.
Span(e) == IF e.sent_newkeys THEN e.tx_packets_since_rekey
                             ELSE EpochHardPackets + e.tx_packets_since_rekey

\* Frame i of the current key is at most Span old, and its number that far back.
Numbered(e) ==
    \A i \in 1..Len(e.tx) : e.tx[i].key = e.cipher_out =>
        LET age == Len(e.tx) + 1 - i
        IN  /\ age <= Span(e) /\ e.tx[i].seq \in 0..SeqSpace-1
            /\ \/ e.tx[i].seq + age = e.tx_seq
               \/ e.tx[i].seq + age = e.tx_seq + SeqSpace

\* NonceUnique, of one endpoint's output.
Distinct(tx) ==
    \A i, j \in 1..Len(tx) :
        i < j /\ tx[i].key # NoKey /\ tx[i].key = tx[j].key => tx[i].seq # tx[j].seq

NonceInv(e) ==
    /\ \A i \in 1..Len(e.tx) : e.tx[i].key # NoKey => Used(e, e.tx[i].key)
    /\ e.cipher_out # NoKey => Used(e, e.cipher_out)
    /\ e.cipher_out # NoKey /\ Wide => Numbered(e)
    /\ Wide => Distinct(e.tx)

--------------------------------------------------------------------------------
(* The session id *)

IsReply(f) == f.msg.id = "ECDH_REPLY"

\* Every key is derived from the session id, which for the server is the hash
\* signed in its first reply.
SidInv(e) ==
    /\ Len(e.tx) >= 1 /\ ~IsReply(e.tx[1])
    /\ e.session_id = <<>> \/ DOMAIN e.session_id = 1..5
    /\ \A i \in 1..Len(e.tx) : e.tx[i].key # NoKey =>
          e.session_id # <<>> /\ e.tx[i].key[3] = e.session_id
    /\ e.cipher_out # NoKey => e.session_id # <<>> /\ e.cipher_out[3] = e.session_id
    /\ e.role = "server" =>
         /\ \A i \in 1..Len(e.tx) : IsReply(e.tx[i]) =>
               /\ e.session_id # <<>>
               /\ \/ e.tx[i].msg.arg.signed = e.session_id
                  \/ \E k \in 1..(i - 1) : IsReply(e.tx[k])
         /\ e.session_id # <<>> => e.closing \/ \E i \in 1..Len(e.tx) : IsReply(e.tx[i])

EndInv(e) == Shape(e) /\ QuietInv(e) /\ NonceInv(e) /\ SidInv(e)

--------------------------------------------------------------------------------
(* Sequence numbers *)

LEMMA NextSeqFacts ==
    ASSUME NEW n \in 0..SeqSpace-1
    PROVE  NextSeq(n) \in 0..SeqSpace-1 /\ NextSeq(n) = IF n + 1 = SeqSpace THEN 0 ELSE n + 1
BY TransportAssumption DEF NextSeq

LEMMA OneOlder ==
    ASSUME NEW S \in Nat, NEW x \in 0..S-1, NEW s \in 0..S-1, NEW a \in Nat, a + 1 <= S,
           s + a = x \/ s + a = x + S,
           NEW n, n = IF x + 1 = S THEN 0 ELSE x + 1
    PROVE  s + (a + 1) = n \/ s + (a + 1) = n + S
<1>1. CASE x + 1 = S
  BY <1>1
<1>2. CASE x + 1 # S
  BY <1>2
<1> QED
  BY <1>1, <1>2

--------------------------------------------------------------------------------
(* write_packet *)

LEMMA AppendFacts ==
    ASSUME NEW s, IsSeq(s), NEW m
    PROVE  /\ IsSeq(Append(s, m)) /\ Len(Append(s, m)) = Len(s) + 1
           /\ Append(s, m)[Len(s) + 1] = m
           /\ \A i \in 1..Len(s) : Append(s, m)[i] = s[i]
<1>1. PICK S : s \in Seq(S)
  BY DEF IsSeq
<1>2. s \in Seq(S \cup {m})
  BY <1>1
<1>3. Append(s, m) \in Seq(S \cup {m})
  BY <1>2
<1> QED
  BY <1>2, <1>3 DEF IsSeq

\* The fields write_packet may change.
Written == {"tx", "comp_out", "comp_in", "comp_active", "tx_packets_since_rekey",
            "tx_seq", "closing"}

LEMMA WriteFacts ==
    ASSUME NEW e, Shape(e), ~e.closing, NEW m
    PROVE  LET w == write_packet(e, m)
               f == [key |-> e.cipher_out, seq |-> e.tx_seq, comp |-> e.comp_out, msg |-> m]
           IN  /\ DOMAIN w = Fields
               /\ \A x \in Fields \ Written : w[x] = e[x]
               /\ w.tx = Append(e.tx, f)
               /\ w.comp_out \in Nat /\ w.comp_in \in Nat
               /\ w.tx_packets_since_rekey = e.tx_packets_since_rekey + 1
               /\ w.tx_seq = NextSeq(e.tx_seq)
               /\ w.closing \in BOOLEAN
               /\ w.closing <=> e.tx_packets_since_rekey + 1 >= EpochHardPackets
<1> DEFINE f == [key |-> e.cipher_out, seq |-> e.tx_seq, comp |-> e.comp_out, msg |-> m]
           q == Append(e.tx, f)
           c == IF e.comp_out = NoContext THEN e.comp_out ELSE e.comp_out + 1
           p == e.tx_packets_since_rekey + 1
           n == NextSeq(e.tx_seq)
           b == (p >= EpochHardPackets)
           s == [e EXCEPT !.tx = q, !.comp_out = c, !.tx_packets_since_rekey = p,
                          !.tx_seq = n, !.closing = b]
<1>1. write_packet(e, m) = s \/ write_packet(e, m) = activate_compression(s)
  BY DEF write_packet, Muted, EpochExhausted
<1>2. DOMAIN e = Fields /\ c \in Nat /\ e.comp_in \in Nat /\ b \in BOOLEAN
  BY DEF Shape, NoContext
<1> HIDE DEF q, c, p, n, b
<1>3. /\ DOMAIN s = Fields /\ \A x \in Fields \ Written : s[x] = e[x]
      /\ s.tx = q /\ s.comp_out \in Nat /\ s.comp_in \in Nat /\ s.tx_packets_since_rekey = p
      /\ s.tx_seq = n /\ s.closing = b
  BY <1>2 DEF Fields, Written
<1> HIDE DEF s
<1>4. NewContext(s) \in Nat
  BY DEF NewContext, Fresh, NoContext
<1>5. LET a == activate_compression(s)
      IN  /\ DOMAIN a = Fields /\ \A x \in Fields \ Written : a[x] = e[x]
          /\ a.tx = q /\ a.comp_out \in Nat /\ a.comp_in \in Nat /\ a.tx_packets_since_rekey = p
          /\ a.tx_seq = n /\ a.closing = b
  BY <1>3, <1>4 DEF Fields, Written, activate_compression
<1> QED
  BY <1>1, <1>2, <1>3, <1>5 DEF q, p, n, b

\* The fields the invariant is about, other than those written.
Alike(e, w) ==
    /\ DOMAIN w = Fields /\ w.role = e.role /\ w.phase = e.phase /\ w.rng = e.rng
    /\ w.cipher_out = e.cipher_out /\ w.offered_compression = e.offered_compression
    /\ w.negotiated = e.negotiated /\ w.comp_name = e.comp_name /\ w.kex_eph = e.kex_eph
    /\ w.pending = e.pending /\ w.sent_newkeys = e.sent_newkeys /\ w.rekeying = e.rekeying
    /\ w.kexinit_sent = e.kexinit_sent /\ w.tx_app_queue = e.tx_app_queue
    /\ w.rx_seq = e.rx_seq /\ w.session_id = e.session_id

LEMMA WriteAlike ==
    ASSUME NEW e, Shape(e), NEW m
    PROVE  Alike(e, write_packet(e, m))
<1>1. CASE e.closing
  BY <1>1 DEF write_packet, Muted, Alike, Shape
<1>2. CASE ~e.closing
  <2> DEFINE w == write_packet(e, m)
  <2>1. DOMAIN w = Fields /\ \A x \in Fields \ Written : w[x] = e[x]
    BY <1>2, WriteFacts
  <2> HIDE DEF w
  <2>2. Alike(e, w)
    BY <2>1 DEF Alike, Fields, Written
  <2> QED
    BY <2>2 DEF w
<1> QED
  BY <1>1, <1>2

MessageOK(m) == m.id = "KEXINIT" => m.arg.comp \in Seq(CompNames)

LEMMA WriteShape ==
    ASSUME NEW e, Shape(e), NEW m, MessageOK(m)
    PROVE  Shape(write_packet(e, m))
<1> DEFINE w == write_packet(e, m)
<1>1. CASE e.closing
  BY <1>1 DEF write_packet, Muted
<1>2. CASE ~e.closing
  <2> DEFINE f == [key |-> e.cipher_out, seq |-> e.tx_seq, comp |-> e.comp_out, msg |-> m]
  <2>1. /\ w.tx = Append(e.tx, f) /\ w.comp_out \in Nat /\ w.comp_in \in Nat
        /\ w.tx_packets_since_rekey = e.tx_packets_since_rekey + 1
        /\ w.tx_seq = NextSeq(e.tx_seq) /\ w.closing \in BOOLEAN
        /\ w.closing <=> e.tx_packets_since_rekey + 1 >= EpochHardPackets
    BY <1>2, WriteFacts
  <2>2. Alike(e, w)
    BY WriteAlike
  <2>3. FrameOK(f)
    BY DEF FrameOK, MessageOK
  <2> HIDE DEF w, f
  <2>4. IsSeq(w.tx) /\ \A i \in 1..Len(w.tx) : FrameOK(w.tx[i])
    <3>1. /\ IsSeq(e.tx) /\ Len(e.tx) \in Nat /\ \A i \in 1..Len(e.tx) : FrameOK(e.tx[i])
      BY DEF Shape, IsSeq
    <3>2. /\ IsSeq(w.tx) /\ Len(w.tx) = Len(e.tx) + 1 /\ w.tx[Len(e.tx) + 1] = f
          /\ \A i \in 1..Len(e.tx) : w.tx[i] = e.tx[i]
      BY <2>1, <3>1, AppendFacts
    <3>3. \A i \in 1..Len(w.tx) : i \in 1..Len(e.tx) \/ i = Len(e.tx) + 1
      BY <3>1, <3>2
    <3> QED
      BY <2>3, <3>1, <3>2, <3>3
  <2>5. w.tx_seq \in 0..SeqSpace-1
    BY <2>1, NextSeqFacts DEF Shape
  <2>6. /\ w.tx_packets_since_rekey \in 0..EpochHardPackets
        /\ w.tx_packets_since_rekey = EpochHardPackets => w.closing
        /\ w.closing \in BOOLEAN
    <3>1. /\ e.tx_packets_since_rekey \in 0..EpochHardPackets
          /\ e.tx_packets_since_rekey # EpochHardPackets
          /\ EpochHardPackets \in Nat
      BY <1>2, TransportAssumption DEF Shape
    <3> QED
      BY <2>1, <3>1
  <2>7. Shape(w)
    BY <2>1, <2>2, <2>4, <2>5, <2>6 DEF Shape, Alike
  <2> QED
    BY <2>7 DEF w
<1> QED
  BY <1>1, <1>2

LEMMA WriteNonce ==
    ASSUME NEW e, Shape(e), NonceInv(e), NEW m
    PROVE  NonceInv(write_packet(e, m))
<1> DEFINE w == write_packet(e, m)
           f == [key |-> e.cipher_out, seq |-> e.tx_seq, comp |-> e.comp_out, msg |-> m]
           k == Len(e.tx) + 1
           t == e.tx_packets_since_rekey
<1>1. CASE e.closing
  BY <1>1 DEF write_packet, Muted
<1>2. CASE ~e.closing
  <2>1. /\ w.tx = Append(e.tx, f) /\ w.tx_packets_since_rekey = t + 1
        /\ w.tx_seq = NextSeq(e.tx_seq)
    BY <1>2, WriteFacts
  <2>2. /\ w.role = e.role /\ w.rng = e.rng /\ w.cipher_out = e.cipher_out /\ w.kex_eph = e.kex_eph
        /\ w.sent_newkeys = e.sent_newkeys
    BY WriteAlike DEF Alike
  <2>3. f.key = e.cipher_out /\ f.seq = e.tx_seq
    OBVIOUS
  <2> HIDE DEF w, f
  <2>4. /\ Len(e.tx) \in Nat /\ Len(w.tx) = k /\ w.tx[k] = f
        /\ \A i \in 1..Len(e.tx) : w.tx[i] = e.tx[i]
        /\ \A i \in 1..Len(w.tx) : i \in 1..Len(e.tx) \/ i = k
    <3>1. Len(e.tx) \in Nat /\ IsSeq(e.tx)
      BY DEF Shape, IsSeq
    <3>2. /\ Len(w.tx) = k /\ w.tx[k] = f /\ \A i \in 1..Len(e.tx) : w.tx[i] = e.tx[i]
      BY <2>1, <3>1, AppendFacts
    <3> QED
      BY <3>1, <3>2
  <2>5. \A key : Used(w, key) <=> Used(e, key)
    BY <2>2 DEF Used
  <2>6. \A i \in 1..Len(w.tx) : w.tx[i].key # NoKey => Used(w, w.tx[i].key)
    BY <2>2, <2>3, <2>4, <2>5 DEF NonceInv
  <2>7. /\ e.tx_seq \in 0..SeqSpace-1 /\ t \in Nat /\ t < EpochHardPackets
        /\ EpochHardPackets \in Nat /\ SeqSpace \in Nat
    BY <1>2, TransportAssumption DEF Shape
  <2>8. /\ w.tx_seq \in 0..SeqSpace-1
        /\ w.tx_seq = IF e.tx_seq + 1 = SeqSpace THEN 0 ELSE e.tx_seq + 1
    BY <2>1, <2>7, NextSeqFacts
  <2>9. Span(w) = Span(e) + 1 /\ Span(e) \in Nat /\ Span(e) < 2 * EpochHardPackets
    BY <2>1, <2>2, <2>7, SMTT(40) DEF Span
  <2>10. ASSUME e.cipher_out # NoKey, Wide, NEW i \in 1..Len(w.tx), w.tx[i].key = w.cipher_out
         PROVE  LET age == Len(w.tx) + 1 - i
                IN  /\ age <= Span(w) /\ w.tx[i].seq \in 0..SeqSpace-1
                    /\ \/ w.tx[i].seq + age = w.tx_seq
                       \/ w.tx[i].seq + age = w.tx_seq + SeqSpace
    <3>1. CASE i = k
      <4>1. Len(w.tx) + 1 - i = 1 /\ w.tx[i].seq = e.tx_seq
        BY <2>3, <2>4, <3>1
      <4>2. 1 <= Span(w)
        BY <2>9
      <4>3. e.tx_seq + 1 = w.tx_seq \/ e.tx_seq + 1 = w.tx_seq + SeqSpace
        BY <2>7, <2>8
      <4> QED
        BY <2>7, <4>1, <4>2, <4>3
    <3>2. CASE i \in 1..Len(e.tx)
      <4> DEFINE age == Len(e.tx) + 1 - i
                 sq  == e.tx[i].seq
      <4>1. age <= Span(e) /\ sq \in 0..SeqSpace-1
            /\ (sq + age = e.tx_seq \/ sq + age = e.tx_seq + SeqSpace)
        BY <2>2, <2>4, <2>10, <3>2 DEF NonceInv, Numbered
      <4>2. w.tx[i].seq = sq /\ Len(w.tx) + 1 - i = age + 1 /\ age \in Nat
        BY <2>4, <3>2
      <4>3. age + 1 <= SeqSpace
        BY <2>7, <2>9, <2>10, <4>1, <4>2 DEF Wide
      <4> HIDE DEF age, sq
      <4> QED
        <5>1. age + 1 <= Span(w)
          BY <2>9, <4>1, <4>2
        <5>2. sq + (age + 1) = w.tx_seq \/ sq + (age + 1) = w.tx_seq + SeqSpace
          <6> DEFINE x == e.tx_seq
                     n == w.tx_seq
          <6>1. SeqSpace \in Nat /\ x \in 0..SeqSpace-1 /\ sq \in 0..SeqSpace-1 /\ age \in Nat
            BY <2>7, <4>1, <4>2
          <6>2. n = IF x + 1 = SeqSpace THEN 0 ELSE x + 1
            BY <2>8
          <6>3. sq + age = x \/ sq + age = x + SeqSpace
            BY <4>1
          <6> HIDE DEF x, n
          <6>4. sq + (age + 1) = n \/ sq + (age + 1) = n + SeqSpace
            BY <4>3, <6>1, <6>2, <6>3, OneOlder
          <6> QED
            BY <6>4 DEF n
        <5> QED
          BY <4>1, <4>2, <5>1, <5>2
    <3> QED
      BY <2>4, <3>1, <3>2
  <2>11. ASSUME Wide PROVE Distinct(w.tx)
    <3>1. SUFFICES ASSUME NEW i \in 1..Len(w.tx), NEW j \in 1..Len(w.tx), i < j,
                          w.tx[i].key # NoKey, w.tx[i].key = w.tx[j].key
                   PROVE  w.tx[i].seq # w.tx[j].seq
      BY DEF Distinct
    <3>2. CASE j = k
      <4>1. i \in 1..Len(e.tx) /\ e.tx[i].key = e.cipher_out /\ e.cipher_out # NoKey
        BY <2>3, <2>4, <3>1, <3>2
      <4> DEFINE age == Len(e.tx) + 1 - i
                 sq  == e.tx[i].seq
      <4>2. age <= Span(e) /\ sq \in 0..SeqSpace-1
            /\ (sq + age = e.tx_seq \/ sq + age = e.tx_seq + SeqSpace)
        BY <2>11, <4>1 DEF NonceInv, Numbered
      <4>3. age \in Nat /\ age >= 1
        BY <2>4, <4>1
      <4>4. age < SeqSpace
        BY <2>7, <2>9, <2>11, <4>2, <4>3 DEF Wide
      <4>5. w.tx[i].seq = sq /\ w.tx[j].seq = e.tx_seq
        BY <2>3, <2>4, <3>2, <4>1
      <4> HIDE DEF age, sq
      <4> QED
        BY <2>7, <4>2, <4>3, <4>4, <4>5
    <3>3. CASE j \in 1..Len(e.tx)
      <4>1. i \in 1..Len(e.tx)
        BY <2>4, <3>1, <3>3
      <4> QED
        BY <2>4, <2>11, <3>1, <3>3, <4>1 DEF NonceInv, Distinct
    <3> QED
      BY <2>4, <3>2, <3>3
  <2>12. e.cipher_out # NoKey /\ Wide => Numbered(w)
    BY <2>10 DEF Numbered
  <2> QED
    BY <2>2, <2>5, <2>6, <2>11, <2>12 DEF NonceInv, w
<1> QED
  BY <1>1, <1>2

\* What a frame does to silence.
LEMMA WriteQuiet ==
    ASSUME NEW e, Shape(e), Hushed(e.tx), NEW m,
           m.id \in Deferred => e.closing \/ ~Open(e.tx)
    PROVE  LET w == write_packet(e, m)
           IN  /\ Hushed(w.tx)
               /\ e.closing => w.closing
               /\ m.id # "KEXINIT" => (Open(w.tx) => Open(e.tx))
               /\ m.id = "NEWKEYS" => ~Open(w.tx) \/ w.closing
<1> DEFINE w == write_packet(e, m)
           f == [key |-> e.cipher_out, seq |-> e.tx_seq, comp |-> e.comp_out, msg |-> m]
           k == Len(e.tx) + 1
<1>1. CASE e.closing
  BY <1>1 DEF write_packet, Muted
<1>2. CASE ~e.closing
  <2>1. w.tx = Append(e.tx, f)
    BY <1>2, WriteFacts
  <2>3. f.msg = m
    OBVIOUS
  <2> HIDE DEF w, f
  <2>4. /\ Len(e.tx) \in Nat /\ Len(w.tx) = k /\ w.tx[k] = f
        /\ \A i \in 1..Len(e.tx) : w.tx[i] = e.tx[i]
        /\ \A i \in 1..Len(w.tx) : i \in 1..Len(e.tx) \/ i = k
    <3>1. Len(e.tx) \in Nat /\ IsSeq(e.tx)
      BY DEF Shape, IsSeq
    <3>2. /\ Len(w.tx) = k /\ w.tx[k] = f /\ \A i \in 1..Len(e.tx) : w.tx[i] = e.tx[i]
      BY <2>1, <3>1, AppendFacts
    <3> QED
      BY <3>1, <3>2
  <2>5. Hushed(w.tx)
    <3>1. SUFFICES ASSUME NEW i \in 1..Len(w.tx), NEW j \in 1..Len(w.tx), i < j,
                          w.tx[i].msg.id = "KEXINIT", w.tx[j].msg.id \in Deferred
                   PROVE  \E x \in i..j : w.tx[x].msg.id = "NEWKEYS"
      BY DEF Hushed
    <3>2. i \in 1..Len(e.tx)
      BY <2>4, <3>1
    <3>3. CASE j = k
      <4>1. ~Open(e.tx)
        BY <1>2, <2>3, <2>4, <3>1, <3>3
      <4>2. PICK x \in i..Len(e.tx) : e.tx[x].msg.id = "NEWKEYS"
        BY <2>4, <3>1, <3>2, <4>1 DEF Open
      <4>3. x \in 1..Len(e.tx) /\ x \in i..j
        BY <2>4, <3>2, <3>3
      <4> QED
        BY <2>4, <4>2, <4>3
    <3>4. CASE j \in 1..Len(e.tx)
      <4>1. PICK x \in i..j : e.tx[x].msg.id = "NEWKEYS"
        BY <2>4, <3>1, <3>2, <3>4 DEF Hushed
      <4>2. x \in 1..Len(e.tx)
        BY <2>4, <3>2, <3>4
      <4> QED
        BY <2>4, <4>1, <4>2
    <3> QED
      BY <2>4, <3>3, <3>4
  <2>6. ASSUME m.id # "KEXINIT", Open(w.tx) PROVE Open(e.tx)
    <3>1. PICK i \in 1..Len(w.tx) : /\ w.tx[i].msg.id = "KEXINIT"
                                    /\ \A x \in i..Len(w.tx) : w.tx[x].msg.id # "NEWKEYS"
      BY <2>6 DEF Open
    <3>2. i \in 1..Len(e.tx)
      BY <2>3, <2>4, <2>6, <3>1
    <3>3. \A x \in i..Len(e.tx) : x \in i..Len(w.tx) /\ x \in 1..Len(e.tx)
      BY <2>4, <3>2
    <3> QED
      BY <2>4, <3>1, <3>2, <3>3 DEF Open
  <2>7. ASSUME m.id = "NEWKEYS" PROVE ~Open(w.tx)
    <3>1. ASSUME NEW i \in 1..Len(w.tx) PROVE k \in i..Len(w.tx)
      BY <2>4
    <3> QED
      BY <2>3, <2>4, <2>7, <3>1 DEF Open
  <2> QED
    BY <1>2, <2>5, <2>6, <2>7 DEF w
<1> QED
  BY <1>1, <1>2

\* Output is only added to.
Grows(tx, ty) == Len(tx) <= Len(ty) /\ \A i \in 1..Len(tx) : ty[i] = tx[i]

LEMMA WriteGrows ==
    ASSUME NEW e, Shape(e), NEW m
    PROVE  Grows(e.tx, write_packet(e, m).tx)
<1> DEFINE w == write_packet(e, m)
           f == [key |-> e.cipher_out, seq |-> e.tx_seq, comp |-> e.comp_out, msg |-> m]
<1>0. IsSeq(e.tx) /\ Len(e.tx) \in Nat
  BY DEF Shape, IsSeq
<1>1. CASE e.closing
  BY <1>0, <1>1 DEF write_packet, Muted, Grows
<1>2. CASE ~e.closing
  <2>1. w.tx = Append(e.tx, f)
    BY <1>2, WriteFacts
  <2> HIDE DEF w, f
  <2>2. Grows(e.tx, w.tx)
    BY <1>0, <2>1, AppendFacts DEF Grows
  <2> QED
    BY <2>2 DEF w
<1> QED
  BY <1>1, <1>2

LEMMA WriteSid ==
    ASSUME NEW e, Shape(e), SidInv(e), NEW m, m.id # "ECDH_REPLY"
    PROVE  SidInv(write_packet(e, m))
<1> DEFINE w == write_packet(e, m)
           f == [key |-> e.cipher_out, seq |-> e.tx_seq, comp |-> e.comp_out, msg |-> m]
           k == Len(e.tx) + 1
<1>1. CASE e.closing
  BY <1>1 DEF write_packet, Muted
<1>2. CASE ~e.closing
  <2>1. w.tx = Append(e.tx, f)
    BY <1>2, WriteFacts
  <2>2. w.role = e.role /\ w.cipher_out = e.cipher_out /\ w.session_id = e.session_id
    BY WriteAlike DEF Alike
  <2>3. f.key = e.cipher_out /\ ~IsReply(f)
    BY DEF IsReply
  <2> HIDE DEF w, f
  <2>4. /\ Len(e.tx) \in Nat /\ Len(w.tx) = k /\ w.tx[k] = f
        /\ \A i \in 1..Len(e.tx) : w.tx[i] = e.tx[i]
        /\ \A i \in 1..Len(w.tx) : i \in 1..Len(e.tx) \/ i = k
    <3>1. Len(e.tx) \in Nat /\ IsSeq(e.tx)
      BY DEF Shape, IsSeq
    <3>2. /\ Len(w.tx) = k /\ w.tx[k] = f /\ \A i \in 1..Len(e.tx) : w.tx[i] = e.tx[i]
      BY <2>1, <3>1, AppendFacts
    <3> QED
      BY <3>1, <3>2
  <2>5. \A i \in 1..Len(w.tx) : w.tx[i].key # NoKey =>
            w.session_id # <<>> /\ w.tx[i].key[3] = w.session_id
    BY <2>2, <2>3, <2>4 DEF SidInv
  <2>6. ASSUME e.role = "server", NEW i \in 1..Len(w.tx), IsReply(w.tx[i])
        PROVE  /\ w.session_id # <<>>
               /\ \/ w.tx[i].msg.arg.signed = w.session_id
                  \/ \E x \in 1..(i - 1) : IsReply(w.tx[x])
    <3>1. i \in 1..Len(e.tx) /\ IsReply(e.tx[i]) /\ w.tx[i] = e.tx[i]
      BY <2>3, <2>4, <2>6
    <3>2. \A x \in 1..(i - 1) : w.tx[x] = e.tx[x]
      BY <2>4, <3>1
    <3> QED
      BY <2>2, <2>6, <3>1, <3>2 DEF SidInv
  <2>7. e.role = "server" /\ e.session_id # <<>> => \E i \in 1..Len(w.tx) : IsReply(w.tx[i])
    BY <1>2, <2>4 DEF SidInv
  <2>8. Len(w.tx) >= 1 /\ ~IsReply(w.tx[1])
    BY <2>4 DEF SidInv
  <2>9. SidInv(w)
    BY <2>2, <2>5, <2>6, <2>7, <2>8 DEF SidInv
  <2> QED
    BY <2>9 DEF w
<1> QED
  BY <1>1, <1>2

LEMMA AlikeTransitive ==
    ASSUME NEW a, NEW b, NEW c, Alike(a, b), Alike(b, c)
    PROVE  Alike(a, c)
BY DEF Alike

LEMMA GrowsTransitive ==
    ASSUME NEW a, NEW b, NEW c, Grows(a, b), Grows(b, c),
           Len(a) \in Nat, Len(b) \in Nat, Len(c) \in Nat
    PROVE  Grows(a, c)
BY DEF Grows

--------------------------------------------------------------------------------
(* The queue of deferred packets *)

\* The endpoint after each of the packets of q, from b.
Flushed(w, b, q) ==
    w = [i \in 0..Len(q) |-> IF i = 0 THEN b ELSE write_packet(w[i - 1], q[i])]

\* The recursion of FlushQueue has a solution.
LEMMA FlushDefined ==
    ASSUME NEW b, NEW q, Len(q) \in Nat
    PROVE  \E w : Flushed(w, b, q)
<1> DEFINE S == {n \in Nat :
                  \E w : w = [i \in 0..n |-> IF i = 0 THEN b ELSE write_packet(w[i - 1], q[i])]}
<1>1. 0 \in S
  <2> DEFINE w == [i \in 0..0 |-> b]
  <2>1. w = [i \in 0..0 |-> IF i = 0 THEN b ELSE write_packet(w[i - 1], q[i])]
    OBVIOUS
  <2> QED
    BY <2>1
<1>2. ASSUME NEW n \in Nat, n \in S PROVE n + 1 \in S
  <2>1. PICK w : w = [i \in 0..n |-> IF i = 0 THEN b ELSE write_packet(w[i - 1], q[i])]
    BY <1>2
  <2> DEFINE v == [i \in 0..(n + 1) |-> IF i = n + 1 THEN write_packet(w[n], q[n + 1]) ELSE w[i]]
  <2>2. ASSUME NEW i \in 0..(n + 1)
        PROVE  v[i] = IF i = 0 THEN b ELSE write_packet(v[i - 1], q[i])
    <3>1. CASE i = n + 1
      BY <3>1
    <3>2. CASE i \in 0..n
      BY <2>1, <3>2
    <3> QED
      BY <3>1, <3>2
  <2>3. v = [i \in 0..(n + 1) |-> IF i = 0 THEN b ELSE write_packet(v[i - 1], q[i])]
    BY <2>2
  <2> HIDE DEF v
  <2> QED
    BY <2>3
<1>3. Nat \subseteq S
  <2> HIDE DEF S
  <2> QED
    BY <1>1, <1>2, Induction
<1> QED
  BY <1>3 DEF Flushed

\* What a round that is over asks of the endpoint that flushes its queue.
Idle(e) ==
    /\ Shape(e) /\ NonceInv(e) /\ SidInv(e) /\ Hushed(e.tx)
    /\ e.closing \/ ~Open(e.tx)

LEMMA WriteIdle ==
    ASSUME NEW e, Idle(e), NEW m, m.id \in Deferred
    PROVE  Idle(write_packet(e, m))
<1>1. MessageOK(m) /\ m.id # "KEXINIT" /\ m.id # "ECDH_REPLY"
  BY DEF MessageOK, Deferred, AppIds
<1> DEFINE w == write_packet(e, m)
<1>2. Shape(w) /\ NonceInv(w) /\ SidInv(w)
  BY <1>1, WriteShape, WriteNonce, WriteSid DEF Idle
<1>3. Hushed(w.tx) /\ (e.closing => w.closing) /\ (Open(w.tx) => Open(e.tx))
  BY <1>1, WriteQuiet DEF Idle
<1> QED
  BY <1>2, <1>3 DEF Idle

LEMMA FlushKeeps ==
    ASSUME NEW e, Idle(e)
    PROVE  LET r == FlushQueue(e)
           IN  /\ Idle(r) /\ Grows(e.tx, r.tx)
               /\ Alike([e EXCEPT !.tx_app_queue = <<>>], r)
<1> DEFINE q == e.tx_app_queue
           b == [e EXCEPT !.tx_app_queue = <<>>]
<1>0. IsSeq(q) /\ Len(q) \in Nat /\ \A i \in 1..Len(q) : q[i].id \in Deferred
  BY DEF Idle, Shape, IsSeq
<1>1. PICK w : /\ w = [i \in 0..Len(q) |-> IF i = 0 THEN b ELSE write_packet(w[i - 1], q[i])]
               /\ FlushQueue(e) = w[Len(q)]
  <2>1. \E w : w = [i \in 0..Len(q) |-> IF i = 0 THEN b ELSE write_packet(w[i - 1], q[i])]
    <3>1. \E w : Flushed(w, b, q)
      BY <1>0, FlushDefined
    <3> QED
      BY <3>1, Zenon DEF Flushed
  <2> DEFINE v == CHOOSE w : w = [i \in 0..Len(q) |-> IF i = 0 THEN b
                                                    ELSE write_packet(w[i - 1], q[i])]
  <2>2. v = [i \in 0..Len(q) |-> IF i = 0 THEN b ELSE write_packet(v[i - 1], q[i])]
    BY <2>1, Zenon
  <2>3. FlushQueue(e) = v[Len(q)]
    BY Zenon DEF FlushQueue
  <2> HIDE DEF v
  <2> QED
    BY <2>2, <2>3
<1>2. Idle(b) /\ Grows(e.tx, b.tx) /\ Alike(b, b)
  <2>1. DOMAIN b = Fields /\ b.tx_app_queue = <<>>
        /\ \A x \in Fields \ {"tx_app_queue"} : b[x] = e[x]
    BY DEF Idle, Shape, Fields
  <2> HIDE DEF b
  <2>0. IsSeq(b.tx_app_queue) /\ \A i \in 1..Len(b.tx_app_queue) : b.tx_app_queue[i].id \in Deferred
    <3>1. <<>> \in Seq({}) /\ Len(<<>>) = 0 /\ DOMAIN <<>> = 1..Len(<<>>)
      OBVIOUS
    <3> QED
      BY <2>1, <3>1 DEF IsSeq
  <2>2. Shape(b)
    <3>1. /\ b.role = e.role /\ b.phase = e.phase /\ b.tx_seq = e.tx_seq /\ b.rx_seq = e.rx_seq
          /\ b.comp_out = e.comp_out /\ b.comp_in = e.comp_in /\ b.comp_name = e.comp_name
          /\ b.negotiated = e.negotiated /\ b.offered_compression = e.offered_compression
          /\ b.rekeying = e.rekeying /\ b.kexinit_sent = e.kexinit_sent /\ b.closing = e.closing
          /\ b.sent_newkeys = e.sent_newkeys /\ b.pending = e.pending /\ b.rng = e.rng
          /\ b.kex_eph = e.kex_eph /\ b.tx_packets_since_rekey = e.tx_packets_since_rekey
          /\ b.tx = e.tx
      BY <2>1 DEF Fields
    <3> QED
      BY <2>0, <2>1, <3>1 DEF Idle, Shape
  <2>3. /\ b.tx = e.tx /\ b.role = e.role /\ b.cipher_out = e.cipher_out /\ b.rng = e.rng
        /\ b.kex_eph = e.kex_eph /\ b.sent_newkeys = e.sent_newkeys /\ b.tx_seq = e.tx_seq
        /\ b.tx_packets_since_rekey = e.tx_packets_since_rekey /\ b.closing = e.closing
        /\ b.session_id = e.session_id
    BY <2>1 DEF Fields
  <2>4. NonceInv(b)
    BY <2>3 DEF Idle, NonceInv, Used, Numbered, Span
  <2>5. SidInv(b)
    BY <2>3 DEF Idle, SidInv
  <2>6. Grows(e.tx, b.tx)
    BY <2>3 DEF Grows, Idle, Shape, IsSeq
  <2> QED
    BY <2>1, <2>2, <2>3, <2>4, <2>5, <2>6 DEF Idle, Alike
<1> HIDE DEF b
<1> DEFINE S == {n \in Nat : n <= Len(q) => Idle(w[n]) /\ Grows(e.tx, w[n].tx) /\ Alike(b, w[n])}
<1>3. 0 \in S
  <2>1. w[0] = b
    BY <1>0, <1>1
  <2> QED
    BY <1>2, <2>1
<1>4. ASSUME NEW n \in Nat, n \in S PROVE n + 1 \in S
  <2> SUFFICES ASSUME n + 1 <= Len(q)
               PROVE  Idle(w[n + 1]) /\ Grows(e.tx, w[n + 1].tx) /\ Alike(b, w[n + 1])
    OBVIOUS
  <2>1. Idle(w[n]) /\ Grows(e.tx, w[n].tx) /\ Alike(b, w[n])
    BY <1>0, <1>4
  <2>2. n + 1 \in 1..Len(q) /\ n + 1 \in 0..Len(q)
    BY <1>0
  <2>3. w[n + 1] = write_packet(w[n], q[n + 1])
    BY <1>0, <1>1, <2>2, SMTT(30)
  <2>4. Idle(w[n + 1])
    BY <1>0, <2>1, <2>2, <2>3, WriteIdle
  <2>5. Grows(w[n].tx, w[n + 1].tx) /\ Alike(w[n], w[n + 1])
    BY <2>1, <2>3, WriteGrows, WriteAlike DEF Idle
  <2>6. Len(e.tx) \in Nat /\ Len(w[n].tx) \in Nat /\ Len(w[n + 1].tx) \in Nat
    BY <2>1, <2>4 DEF Idle, Shape, IsSeq
  <2> QED
    BY <2>1, <2>4, <2>5, <2>6, GrowsTransitive, AlikeTransitive
<1>5. Nat \subseteq S
  <2> HIDE DEF S
  <2> QED
    BY <1>3, <1>4, Induction
<1>6. Idle(w[Len(q)]) /\ Grows(e.tx, w[Len(q)].tx) /\ Alike(b, w[Len(q)])
  BY <1>0, <1>5
<1> QED
  BY <1>1, <1>6 DEF b

--------------------------------------------------------------------------------
(* Changes of one endpoint *)

\* r differs from e in the fields X at most.
Changed(e, r, X) == DOMAIN r = Fields /\ \A x \in Fields \ X : r[x] = e[x]

\* What every step of an endpoint does to what its peer may see.
Stays(e, r) ==
    /\ r.role = e.role /\ Grows(e.tx, r.tx)
    /\ r.phase = e.phase \/ r.phase = "Established"

\* Fields whose type alone matters to the invariant.
Settings ==
    {"bytes_since_rekey", "rx_packets_since_rekey", "consecutive_peer_rekeys", "events",
     "peer_disconnected", "err", "peer_kexinit", "local_kexinit", "strict_kex",
     "initial_kex_done", "recv_newkeys", "cipher_in", "offered_ciphers", "comp_active",
     "rx_seq", "comp_in", "comp_out", "comp_name", "negotiated", "pending"}

Typed(r) ==
    /\ r.rx_seq \in 0..SeqSpace-1 /\ r.comp_in \in Nat /\ r.comp_out \in Nat
    /\ r.comp_name \in CompNames /\ r.negotiated.comp \in CompNames
    /\ DOMAIN r.pending = {"some", "out", "inn"}

LEMMA GrowsReflexive ==
    ASSUME NEW e, Shape(e)
    PROVE  Grows(e.tx, e.tx) /\ Len(e.tx) \in Nat
BY DEF Grows, Shape, IsSeq

LEMMA StaysTransitive ==
    ASSUME NEW a, NEW b, NEW c, Shape(a), Shape(b), Shape(c), Stays(a, b), Stays(b, c)
    PROVE  Stays(a, c)
<1>1. Len(a.tx) \in Nat /\ Len(b.tx) \in Nat /\ Len(c.tx) \in Nat
  BY GrowsReflexive
<1>2. Grows(a.tx, c.tx)
  BY <1>1, GrowsTransitive DEF Stays
<1> QED
  BY <1>2 DEF Stays

LEMMA WriteStays ==
    ASSUME NEW e, Shape(e), NEW m
    PROVE  Stays(e, write_packet(e, m))
BY WriteGrows, WriteAlike DEF Stays, Alike

\* The fields silence, nonces and session id are about.
Same(e, r) ==
    /\ r.tx = e.tx /\ r.role = e.role /\ r.cipher_out = e.cipher_out /\ r.rng = e.rng
    /\ r.kex_eph = e.kex_eph /\ r.sent_newkeys = e.sent_newkeys /\ r.tx_seq = e.tx_seq
    /\ r.tx_packets_since_rekey = e.tx_packets_since_rekey /\ r.closing = e.closing
    /\ r.session_id = e.session_id /\ r.phase = e.phase /\ r.rekeying = e.rekeying
    /\ r.kexinit_sent = e.kexinit_sent

LEMMA SameKeeps ==
    ASSUME NEW e, NEW r, Same(e, r)
    PROVE  /\ NonceInv(e) => NonceInv(r)
           /\ SidInv(e) => SidInv(r)
           /\ QuietInv(e) => QuietInv(r)
<1>1. NonceInv(e) => NonceInv(r)
  BY DEF Same, NonceInv, Used, Numbered, Span
<1>2. SidInv(e) => SidInv(r)
  BY DEF Same, SidInv
<1>3. QuietInv(e) => QuietInv(r)
  BY DEF Same, QuietInv
<1> QED
  BY <1>1, <1>2, <1>3

LEMMA SettingKeeps ==
    ASSUME NEW e, NEW r, Shape(e), Changed(e, r, Settings), Typed(r)
    PROVE  Shape(r) /\ Stays(e, r) /\ Same(e, r)
<1>1. /\ r.tx = e.tx /\ r.role = e.role /\ r.cipher_out = e.cipher_out /\ r.rng = e.rng
      /\ r.kex_eph = e.kex_eph /\ r.sent_newkeys = e.sent_newkeys /\ r.tx_seq = e.tx_seq
      /\ r.tx_packets_since_rekey = e.tx_packets_since_rekey /\ r.closing = e.closing
      /\ r.session_id = e.session_id /\ r.phase = e.phase /\ r.rekeying = e.rekeying
      /\ r.kexinit_sent = e.kexinit_sent /\ r.tx_app_queue = e.tx_app_queue
      /\ r.offered_compression = e.offered_compression /\ DOMAIN r = Fields
  BY DEF Changed, Fields, Settings
<1>2. Shape(r)
  BY <1>1 DEF Shape, Typed
<1>3. Stays(e, r)
  BY <1>1, GrowsReflexive DEF Stays
<1> QED
  BY <1>1, <1>2, <1>3 DEF Same

\* A change of settings keeps the whole invariant.
LEMMA SettingInv ==
    ASSUME NEW e, NEW r, EndInv(e), Changed(e, r, Settings), Typed(r)
    PROVE  EndInv(r) /\ Stays(e, r) /\ r.session_id = e.session_id /\ r.closing = e.closing
BY SettingKeeps, SameKeeps DEF EndInv, Same

LEMMA FailKeeps ==
    ASSUME NEW e, EndInv(e), NEW why
    PROVE  LET r == Fail(e, why)
           IN  /\ EndInv(r) /\ Stays(e, r) /\ r.session_id = e.session_id
               /\ r.err = why /\ r.closing = e.closing
<1> DEFINE r == Fail(e, why)
<1>1. DOMAIN e = Fields /\ Typed(e)
  BY DEF EndInv, Shape, Typed
<1>2. DOMAIN r = Fields /\ r.err = why /\ \A x \in Fields \ {"err"} : r[x] = e[x]
  BY <1>1 DEF Fail, Fields
<1> HIDE DEF r
<1>3. Changed(e, r, Settings) /\ Typed(r)
  BY <1>1, <1>2 DEF Changed, Settings, Fields, Typed
<1>4. EndInv(r) /\ Stays(e, r) /\ r.session_id = e.session_id /\ r.closing = e.closing
  BY <1>3, SettingInv
<1> QED
  BY <1>2, <1>4 DEF r

--------------------------------------------------------------------------------
(* disconnect, send_kexinit, send_packet *)

LEMMA DisconnectKeeps ==
    ASSUME NEW e, EndInv(e)
    PROVE  LET r == disconnect(e)
           IN  EndInv(r) /\ Stays(e, r) /\ r.session_id = e.session_id
<1> DEFINE m == Msg("DISCONNECT", 0)
           w == write_packet(e, m)
           r == [w EXCEPT !.closing = TRUE]
<1>1. CASE e.closing
  BY <1>1, GrowsReflexive DEF disconnect, Stays, EndInv
<1>2. CASE ~e.closing
  <2>1. m.id = "DISCONNECT" /\ MessageOK(m) /\ m.id \notin Deferred
    BY DEF Msg, MessageOK, Deferred, AppIds
  <2> HIDE DEF m
  <2>2. /\ Shape(w) /\ NonceInv(w) /\ SidInv(w) /\ Hushed(w.tx) /\ Stays(e, w) /\ Alike(e, w)
    BY <2>1, WriteShape, WriteNonce, WriteSid, WriteQuiet, WriteStays, WriteAlike
       DEF EndInv, QuietInv
  <2> HIDE DEF w
  <2>3. DOMAIN r = Fields /\ r.closing = TRUE /\ \A x \in Fields \ {"closing"} : r[x] = w[x]
    BY <2>2 DEF Shape, Fields
  <2> HIDE DEF r
  <2>4. /\ r.tx = w.tx /\ r.role = w.role /\ r.cipher_out = w.cipher_out /\ r.rng = w.rng
        /\ r.kex_eph = w.kex_eph /\ r.sent_newkeys = w.sent_newkeys /\ r.tx_seq = w.tx_seq
        /\ r.tx_packets_since_rekey = w.tx_packets_since_rekey
        /\ r.session_id = w.session_id /\ r.phase = w.phase /\ r.rekeying = w.rekeying
        /\ r.kexinit_sent = w.kexinit_sent /\ r.tx_app_queue = w.tx_app_queue
        /\ r.offered_compression = w.offered_compression /\ DOMAIN r = Fields
        /\ r.rx_seq = w.rx_seq /\ r.comp_in = w.comp_in /\ r.comp_out = w.comp_out
        /\ r.comp_name = w.comp_name /\ r.negotiated = w.negotiated /\ r.pending = w.pending
    BY <2>3 DEF Fields
  <2>5. Shape(r)
    BY <2>2, <2>3, <2>4 DEF Shape
  <2>6. NonceInv(r)
    BY <2>2, <2>4 DEF NonceInv, Used, Numbered, Span
  <2>7. SidInv(r)
    BY <2>2, <2>3, <2>4 DEF SidInv
  <2>8. QuietInv(r)
    BY <2>2, <2>3, <2>4 DEF QuietInv, EndInv, Alike
  <2>9. Stays(e, r) /\ r.session_id = e.session_id
    BY <2>2, <2>4 DEF Stays, Alike
  <2>10. disconnect(e) = r
    BY <1>2 DEF disconnect, r, w, m
  <2> QED
    BY <2>5, <2>6, <2>7, <2>8, <2>9, <2>10 DEF EndInv
<1> QED
  BY <1>1, <1>2

\* The fields no draw, key exchange message or packet changes.
LEMMA DrawKeeps ==
    ASSUME NEW e, NEW r, Shape(e), NonceInv(e), SidInv(e),
           Changed(e, r, {"rng"}), r.rng = e.rng + 1
    PROVE  /\ Shape(r) /\ NonceInv(r) /\ SidInv(r) /\ Stays(e, r) /\ r.tx = e.tx
           /\ r.session_id = e.session_id
<1>1. /\ r.tx = e.tx /\ r.role = e.role /\ r.cipher_out = e.cipher_out
      /\ r.kex_eph = e.kex_eph /\ r.sent_newkeys = e.sent_newkeys /\ r.tx_seq = e.tx_seq
      /\ r.tx_packets_since_rekey = e.tx_packets_since_rekey /\ r.closing = e.closing
      /\ r.session_id = e.session_id /\ r.phase = e.phase /\ r.rekeying = e.rekeying
      /\ r.kexinit_sent = e.kexinit_sent /\ r.tx_app_queue = e.tx_app_queue
      /\ r.offered_compression = e.offered_compression /\ DOMAIN r = Fields
      /\ r.rx_seq = e.rx_seq /\ r.comp_in = e.comp_in /\ r.comp_out = e.comp_out
      /\ r.comp_name = e.comp_name /\ r.negotiated = e.negotiated /\ r.pending = e.pending
  BY DEF Changed, Fields
<1>2. e.rng \in Nat /\ e.kex_eph \in 0..e.rng
  BY DEF Shape
<1>3. r.rng \in Nat /\ r.kex_eph \in 0..r.rng
  BY <1>1, <1>2
<1>4. Shape(r)
  BY <1>1, <1>3 DEF Shape
<1>5. \A key : Used(e, key) => Used(r, key)
  BY <1>1, <1>2 DEF Used
<1>6. Numbered(e) => Numbered(r)
  BY <1>1 DEF Numbered, Span
<1>7. NonceInv(r)
  BY <1>1, <1>5, <1>6 DEF NonceInv
<1>8. SidInv(r)
  BY <1>1 DEF SidInv
<1>9. Stays(e, r)
  BY <1>1, GrowsReflexive DEF Stays
<1> QED
  BY <1>1, <1>4, <1>7, <1>8, <1>9

\* An endpoint that may begin a round.
Calm(e) ==
    /\ Shape(e) /\ NonceInv(e) /\ SidInv(e) /\ Hushed(e.tx)
    /\ ~e.sent_newkeys /\ (e.phase = "Established" => e.rekeying)

LEMMA SendKexinitKeeps ==
    ASSUME NEW e, Calm(e)
    PROVE  LET r == send_kexinit(e)
           IN  EndInv(r) /\ Stays(e, r) /\ r.session_id = e.session_id
<1> DEFINE ki == ours_with(e.role, e.rng + 1, e.offered_ciphers, e.offered_compression)
           m == Msg("KEXINIT", ki)
           a == [e EXCEPT !.rng = ki.cookie]
           w == write_packet(a, m)
           r == [w EXCEPT !.local_kexinit = ki.cookie, !.kexinit_sent = TRUE]
<1>1. ki.cookie = e.rng + 1 /\ ki.comp = e.offered_compression
  BY DEF ours_with
<1>2. m.id = "KEXINIT" /\ MessageOK(m) /\ m.id \notin Deferred
  <2> HIDE DEF ki
  <2>1. m.id = "KEXINIT" /\ m.arg = ki
    BY DEF Msg
  <2>2. e.offered_compression \in Seq(CompNames)
    BY DEF Calm, Shape
  <2> QED
    BY <1>1, <2>1, <2>2 DEF MessageOK, Deferred, AppIds
<1>3. Changed(e, a, {"rng"}) /\ a.rng = e.rng + 1
  <2> HIDE DEF ki
  <2> QED
    BY <1>1 DEF Changed, Calm, Shape, Fields
<1> HIDE DEF a, m
<1>4. Shape(a) /\ NonceInv(a) /\ SidInv(a) /\ Stays(e, a) /\ a.tx = e.tx
      /\ a.session_id = e.session_id
  BY <1>3, DrawKeeps DEF Calm
<1>5. a.sent_newkeys = e.sent_newkeys /\ a.phase = e.phase /\ a.rekeying = e.rekeying
  BY <1>3 DEF Changed, Fields
<1>6. Shape(w) /\ NonceInv(w) /\ SidInv(w) /\ Hushed(w.tx) /\ Stays(a, w) /\ Alike(a, w)
  <2>1. Hushed(a.tx)
    BY <1>4 DEF Calm
  <2> QED
    BY <1>2, <1>4, <2>1, WriteShape, WriteNonce, WriteSid, WriteQuiet, WriteStays, WriteAlike
<1> HIDE DEF w, ki
<1>7. /\ DOMAIN r = Fields /\ r.kexinit_sent = TRUE
      /\ \A x \in Fields \ {"local_kexinit", "kexinit_sent"} : r[x] = w[x]
  BY <1>6 DEF Shape, Fields
<1> HIDE DEF r
<1>8. /\ r.tx = w.tx /\ r.role = w.role /\ r.cipher_out = w.cipher_out /\ r.rng = w.rng
      /\ r.kex_eph = w.kex_eph /\ r.sent_newkeys = w.sent_newkeys /\ r.tx_seq = w.tx_seq
      /\ r.tx_packets_since_rekey = w.tx_packets_since_rekey
      /\ r.session_id = w.session_id /\ r.phase = w.phase /\ r.rekeying = w.rekeying
      /\ r.closing = w.closing /\ r.tx_app_queue = w.tx_app_queue
      /\ r.offered_compression = w.offered_compression /\ DOMAIN r = Fields
      /\ r.rx_seq = w.rx_seq /\ r.comp_in = w.comp_in /\ r.comp_out = w.comp_out
      /\ r.comp_name = w.comp_name /\ r.negotiated = w.negotiated /\ r.pending = w.pending
  BY <1>7 DEF Fields
<1>9. Shape(r)
  BY <1>6, <1>7, <1>8 DEF Shape
<1>10. NonceInv(r)
  BY <1>6, <1>8 DEF NonceInv, Used, Numbered, Span
<1>11. SidInv(r)
  BY <1>6, <1>8 DEF SidInv
<1>12. QuietInv(r)
  BY <1>5, <1>6, <1>7, <1>8 DEF QuietInv, Alike, Calm
<1>13. Stays(e, r) /\ r.session_id = e.session_id
  <2>1. Stays(e, w)
    BY <1>4, <1>6, StaysTransitive DEF Calm
  <2> QED
    BY <1>4, <1>6, <1>8, <2>1 DEF Stays, Alike
<1>14. send_kexinit(e) = r
  BY DEF send_kexinit, r, w, a, m, ki
<1> QED
  BY <1>9, <1>10, <1>11, <1>12, <1>13, <1>14 DEF EndInv

LEMMA BeginRoundKeeps ==
    ASSUME NEW e, EndInv(e)
    PROVE  LET r == begin_rekey_round(e)
           IN  EndInv(r) /\ Stays(e, r) /\ r.session_id = e.session_id
<1> DEFINE a == [e EXCEPT !.rekeying = TRUE,
                          !.sent_newkeys = FALSE, !.recv_newkeys = FALSE,
                          !.negotiated = NotNegotiated,
                          !.peer_kexinit = 0, !.kex_eph = 0]
<1>1. /\ DOMAIN a = Fields /\ a.rekeying = TRUE /\ a.sent_newkeys = FALSE
      /\ a.negotiated = NotNegotiated /\ a.kex_eph = 0
      /\ \A x \in Fields \ {"rekeying", "sent_newkeys", "recv_newkeys", "negotiated",
                            "peer_kexinit", "kex_eph"} : a[x] = e[x]
  BY DEF EndInv, Shape, Fields
<1> HIDE DEF a
<1>2. /\ a.tx = e.tx /\ a.role = e.role /\ a.cipher_out = e.cipher_out /\ a.rng = e.rng
      /\ a.tx_seq = e.tx_seq
      /\ a.tx_packets_since_rekey = e.tx_packets_since_rekey /\ a.closing = e.closing
      /\ a.session_id = e.session_id /\ a.phase = e.phase
      /\ a.kexinit_sent = e.kexinit_sent /\ a.tx_app_queue = e.tx_app_queue
      /\ a.offered_compression = e.offered_compression
      /\ a.rx_seq = e.rx_seq /\ a.comp_in = e.comp_in /\ a.comp_out = e.comp_out
      /\ a.comp_name = e.comp_name /\ a.pending = e.pending
  BY <1>1 DEF Fields
<1>3. Shape(e) /\ NonceInv(e) /\ SidInv(e) /\ Hushed(e.tx)
  BY DEF EndInv, QuietInv
<1>4. Shape(a)
  <2>1. a.negotiated.comp \in CompNames
    <3>1. NotNegotiated.comp = "none"
      BY Zenon DEF NotNegotiated
    <3> QED
      BY <1>1, <3>1 DEF CompNames
  <2>2. a.rng \in Nat /\ a.kex_eph \in 0..a.rng
    <3>1. e.rng \in Nat
      BY <1>3 DEF Shape
    <3> QED
      BY <1>1, <1>2, <3>1
  <2> QED
    BY <1>1, <1>2, <1>3, <2>1, <2>2 DEF Shape
<1>5. \A key : Used(e, key) => Used(a, key)
  BY <1>1, <1>2 DEF Used
<1>6. Numbered(e) => Numbered(a)
  <2>1. Span(e) <= Span(a) /\ Span(e) \in Nat /\ Span(a) \in Nat
    BY <1>1, <1>2, <1>3, TransportAssumption, SMTT(40) DEF Span, Shape
  <2>2. Len(e.tx) \in Nat
    BY <1>3, GrowsReflexive
  <2> HIDE DEF Span
  <2> QED
    BY <1>2, <2>1, <2>2 DEF Numbered
<1>7. NonceInv(a)
  BY <1>2, <1>3, <1>5, <1>6 DEF NonceInv
<1>8. SidInv(a)
  BY <1>2, <1>3 DEF SidInv
<1>9. Calm(a)
  BY <1>1, <1>2, <1>3, <1>4, <1>7, <1>8 DEF Calm
<1>10. Stays(e, a)
  BY <1>2, <1>3, GrowsReflexive DEF Stays
<1> DEFINE r == send_kexinit(a)
<1>11. EndInv(r) /\ Stays(a, r) /\ r.session_id = a.session_id
  BY <1>9, SendKexinitKeeps
<1>12. begin_rekey_round(e) = r
  BY DEF begin_rekey_round, r, a
<1> HIDE DEF r
<1>13. Stays(e, r)
  BY <1>3, <1>4, <1>10, <1>11, StaysTransitive DEF EndInv
<1> QED
  BY <1>2, <1>11, <1>12, <1>13

LEMMA InitiateKeeps ==
    ASSUME NEW e, EndInv(e)
    PROVE  LET r == initiate_rekey(e)
           IN  EndInv(r) /\ Stays(e, r) /\ r.session_id = e.session_id
<1>1. Stays(e, e)
  BY GrowsReflexive DEF EndInv, Stays
<1> QED
  BY <1>1, BeginRoundKeeps DEF initiate_rekey

LEMMA SendPacketKeeps ==
    ASSUME NEW e, EndInv(e), e.phase = "Established", NEW m, m.id \in Deferred
    PROVE  LET r == send_packet(e, m)
           IN  EndInv(r) /\ Stays(e, r) /\ r.session_id = e.session_id
<1> DEFINE w == write_packet(e, m)
           s == [w EXCEPT !.bytes_since_rekey = w.bytes_since_rekey + PayloadLen]
<1>1. CASE e.rekeying
  <2> DEFINE q == Append(e.tx_app_queue, m)
             r == [e EXCEPT !.tx_app_queue = q]
  <2>1. IsSeq(q) /\ \A i \in 1..Len(q) : q[i].id \in Deferred
    <3>1. /\ IsSeq(e.tx_app_queue) /\ Len(e.tx_app_queue) \in Nat
          /\ \A i \in 1..Len(e.tx_app_queue) : e.tx_app_queue[i].id \in Deferred
      BY DEF EndInv, Shape, IsSeq
    <3>2. /\ IsSeq(q) /\ Len(q) = Len(e.tx_app_queue) + 1 /\ q[Len(e.tx_app_queue) + 1] = m
          /\ \A i \in 1..Len(e.tx_app_queue) : q[i] = e.tx_app_queue[i]
      BY <3>1, AppendFacts
    <3> HIDE DEF q
    <3>3. \A i \in 1..Len(q) : i \in 1..Len(e.tx_app_queue) \/ i = Len(e.tx_app_queue) + 1
      BY <3>1, <3>2
    <3> QED
      BY <3>1, <3>2, <3>3
  <2> HIDE DEF q
  <2>2. DOMAIN r = Fields /\ r.tx_app_queue = q /\ \A x \in Fields \ {"tx_app_queue"} : r[x] = e[x]
    BY DEF EndInv, Shape, Fields
  <2> HIDE DEF r
  <2>3. Same(e, r)
    BY <2>2 DEF Same, Fields
  <2>4. Shape(r)
    <3>1. /\ r.offered_compression = e.offered_compression
          /\ r.rx_seq = e.rx_seq /\ r.comp_in = e.comp_in /\ r.comp_out = e.comp_out
          /\ r.comp_name = e.comp_name /\ r.negotiated = e.negotiated /\ r.pending = e.pending
      BY <2>2 DEF Fields
    <3> QED
      BY <2>1, <2>2, <2>3, <3>1 DEF EndInv, Shape, Same
  <2>5. Stays(e, r) /\ r.session_id = e.session_id
    BY <2>3, GrowsReflexive DEF Stays, Same, EndInv
  <2>6. send_packet(e, m) = r
    BY <1>1 DEF send_packet, Deferring, r, q
  <2> QED
    BY <2>3, <2>4, <2>5, <2>6, SameKeeps DEF EndInv
<1>2. CASE ~e.rekeying
  <2>1. MessageOK(m) /\ m.id # "KEXINIT" /\ m.id # "ECDH_REPLY"
    BY DEF MessageOK, Deferred, AppIds
  <2>2. e.closing \/ ~Open(e.tx)
    BY <1>2 DEF EndInv, QuietInv
  <2>3. /\ Shape(w) /\ NonceInv(w) /\ SidInv(w) /\ Hushed(w.tx) /\ Stays(e, w) /\ Alike(e, w)
        /\ (e.closing => w.closing) /\ (Open(w.tx) => Open(e.tx))
    BY <2>1, <2>2, WriteShape, WriteNonce, WriteSid, WriteQuiet, WriteStays, WriteAlike
       DEF EndInv, QuietInv
  <2> HIDE DEF w
  <2>4. EndInv(w)
    BY <1>2, <2>2, <2>3 DEF EndInv, QuietInv, Alike
  <2> DEFINE n == w.bytes_since_rekey + PayloadLen
  <2>5. Changed(w, s, Settings) /\ Typed(s)
    <3>0. s = [w EXCEPT !.bytes_since_rekey = n]
      OBVIOUS
    <3> HIDE DEF n
    <3>1. DOMAIN s = Fields /\ \A x \in Fields \ {"bytes_since_rekey"} : s[x] = w[x]
      BY <2>3, <3>0 DEF Shape, Fields
    <3> HIDE DEF s
    <3> QED
      BY <2>3, <3>1 DEF Changed, Settings, Fields, Typed, Shape
  <2> HIDE DEF s
  <2>6. EndInv(s) /\ Stays(w, s) /\ s.session_id = w.session_id
    BY <2>4, <2>5, SettingInv
  <2>7. Stays(e, s) /\ s.session_id = e.session_id
    BY <2>3, <2>6, StaysTransitive DEF EndInv, Alike
  <2> DEFINE r == initiate_rekey(s)
  <2>8. EndInv(r) /\ Stays(s, r) /\ r.session_id = s.session_id
    BY <2>6, InitiateKeeps
  <2>9. Stays(e, r)
    BY <2>6, <2>7, <2>8, StaysTransitive DEF EndInv
  <2>10. send_packet(e, m) = s \/ send_packet(e, m) = r
    BY <1>2 DEF send_packet, Deferring, s, w
  <2> HIDE DEF r
  <2> QED
    BY <2>6, <2>7, <2>8, <2>9, <2>10
<1> QED
  BY <1>1, <1>2 DEF EndInv, Shape

--------------------------------------------------------------------------------
(* NEWKEYS and the end of a round *)

LEMMA CompleteKeeps ==
    ASSUME NEW e, EndInv(e)
    PROVE  LET r == maybe_complete_kex(e)
           IN  EndInv(r) /\ Stays(e, r) /\ r.session_id = e.session_id
<1>1. CASE ~(e.sent_newkeys /\ e.recv_newkeys)
  BY <1>1, GrowsReflexive DEF maybe_complete_kex, EndInv, Stays
<1>2. CASE e.sent_newkeys /\ e.recv_newkeys
  <2> DEFINE a == [e EXCEPT !.pending = NoPending, !.initial_kex_done = TRUE,
                            !.phase = "Established"]
             b == EndRound(a)
             r == FlushQueue(b)
  <2>1. /\ DOMAIN a = Fields /\ a.pending = NoPending /\ a.phase = "Established"
        /\ \A x \in Fields \ {"pending", "initial_kex_done", "phase"} : a[x] = e[x]
    BY DEF EndInv, Shape, Fields
  <2> HIDE DEF a
  <2>2. /\ DOMAIN b = Fields /\ b.rekeying = FALSE /\ b.kexinit_sent = FALSE
        /\ b.sent_newkeys = FALSE /\ b.tx_packets_since_rekey = 0
        /\ \A x \in Fields \ {"rekeying", "kexinit_sent", "sent_newkeys", "recv_newkeys",
                              "bytes_since_rekey", "tx_packets_since_rekey",
                              "rx_packets_since_rekey"} : b[x] = a[x]
    BY <2>1 DEF EndRound, Fields
  <2> HIDE DEF b
  <2>3. /\ b.tx = e.tx /\ b.role = e.role /\ b.cipher_out = e.cipher_out /\ b.rng = e.rng
        /\ b.kex_eph = e.kex_eph /\ b.tx_seq = e.tx_seq
        /\ b.closing = e.closing /\ b.session_id = e.session_id /\ b.phase = "Established"
        /\ b.tx_app_queue = e.tx_app_queue /\ b.pending = NoPending
        /\ b.offered_compression = e.offered_compression
        /\ b.rx_seq = e.rx_seq /\ b.comp_in = e.comp_in /\ b.comp_out = e.comp_out
        /\ b.comp_name = e.comp_name /\ b.negotiated = e.negotiated
    BY <2>1, <2>2 DEF Fields
  <2>4. Shape(e) /\ NonceInv(e) /\ SidInv(e) /\ Hushed(e.tx) /\ (e.closing \/ ~Open(e.tx))
    BY <1>2 DEF EndInv, QuietInv
  <2>5. Shape(b)
    <3>1. DOMAIN b.pending = {"some", "out", "inn"}
      <4>1. DOMAIN NoPending = {"some", "out", "inn"}
        BY DEF NoPending
      <4> QED
        BY <2>3, <4>1
    <3>2. /\ b.tx_packets_since_rekey \in 0..EpochHardPackets
          /\ b.tx_packets_since_rekey # EpochHardPackets
      BY <2>2, TransportAssumption
    <3> QED
      BY <2>2, <2>3, <2>4, <3>1, <3>2 DEF Shape, Phases
  <2>6. Numbered(e) => Numbered(b)
    <3>1. Span(e) <= Span(b) /\ Span(e) \in Nat /\ Span(b) \in Nat
      BY <1>2, <2>2, <2>4, TransportAssumption DEF Span, Shape
    <3>2. Len(e.tx) \in Nat
      BY <2>4, GrowsReflexive
    <3> HIDE DEF Span
    <3> QED
      BY <2>3, <3>1, <3>2 DEF Numbered
  <2>7. \A key : Used(e, key) => Used(b, key)
    BY <2>3 DEF Used
  <2>8. NonceInv(b)
    BY <2>3, <2>4, <2>6, <2>7 DEF NonceInv
  <2>9. SidInv(b)
    BY <2>3, <2>4 DEF SidInv
  <2>10. Idle(b)
    BY <2>3, <2>4, <2>5, <2>8, <2>9 DEF Idle
  <2> DEFINE c == [b EXCEPT !.tx_app_queue = <<>>]
  <2>11. Idle(r) /\ Grows(b.tx, r.tx) /\ Alike(c, r)
    BY <2>10, FlushKeeps
  <2>12. c.phase = b.phase /\ c.role = b.role /\ c.session_id = b.session_id
         /\ c.rekeying = FALSE /\ c.kexinit_sent = FALSE
    BY <2>2 DEF Fields
  <2>13. maybe_complete_kex(e) = r
    BY <1>2 DEF maybe_complete_kex, r, b, a
  <2> HIDE DEF r, c
  <2>14. /\ r.role = e.role /\ r.phase = "Established" /\ r.session_id = e.session_id
         /\ r.rekeying = FALSE /\ r.kexinit_sent = FALSE
    BY <2>3, <2>11, <2>12 DEF Alike
  <2>15. EndInv(r)
    BY <2>11, <2>14 DEF EndInv, Idle, QuietInv
  <2> QED
    BY <2>3, <2>11, <2>13, <2>14, <2>15 DEF Stays
<1> QED
  BY <1>1, <1>2

LEMMA OnNewkeysKeeps ==
    ASSUME NEW e, EndInv(e)
    PROVE  LET r == on_newkeys(e)
           IN  EndInv(r) /\ Stays(e, r) /\ r.session_id = e.session_id
<1>1. CASE ~e.pending.some
  BY <1>1, FailKeeps DEF on_newkeys
<1>2. CASE e.pending.some
  <2> DEFINE c == IF e.comp_active THEN NewContext(e) ELSE e.comp_in
             n == IF e.strict_kex THEN 0 ELSE e.rx_seq
             p == [e.pending EXCEPT !.inn = NoKey]
             a == [e EXCEPT !.cipher_in = e.pending.inn, !.pending.inn = NoKey,
                            !.comp_in = c, !.rx_seq = n, !.recv_newkeys = TRUE]
             r == maybe_complete_kex(a)
  <2>1. c \in Nat /\ n \in 0..SeqSpace-1 /\ DOMAIN p = {"some", "out", "inn"}
    <3>1. e.comp_in \in Nat /\ e.rx_seq \in 0..SeqSpace-1 /\ DOMAIN e.pending = {"some", "out", "inn"}
      BY DEF EndInv, Shape
    <3>2. NewContext(e) \in Nat
      BY DEF NewContext, Fresh, NoContext
    <3>3. 0 \in 0..SeqSpace-1
      BY TransportAssumption
    <3> QED
      BY <3>1, <3>2, <3>3
  <2>2. /\ DOMAIN a = Fields /\ a.comp_in = c /\ a.rx_seq = n /\ a.pending = p
        /\ \A x \in Fields \ {"cipher_in", "pending", "comp_in", "rx_seq", "recv_newkeys"} :
               a[x] = e[x]
    <3> HIDE DEF c, n
    <3> QED
      BY DEF EndInv, Shape, Fields
  <2>3. on_newkeys(e) = r
    BY <1>2 DEF on_newkeys
  <2> HIDE DEF a, c, n, p
  <2>4. Changed(e, a, Settings) /\ Typed(a)
    BY <2>1, <2>2 DEF Changed, Settings, Fields, Typed, EndInv, Shape
  <2>5. EndInv(a) /\ Stays(e, a) /\ a.session_id = e.session_id
    BY <2>4, SettingInv
  <2>6. EndInv(r) /\ Stays(a, r) /\ r.session_id = a.session_id
    BY <2>5, CompleteKeeps
  <2> HIDE DEF r
  <2>7. Stays(e, r)
    BY <2>5, <2>6, StaysTransitive DEF EndInv
  <2> QED
    BY <2>3, <2>5, <2>6, <2>7
<1> QED
  BY <1>1, <1>2

\* The key an endpoint is about to seal with is new to it.
FreshKey(e) ==
    /\ e.pending.out # NoKey /\ Used(e, e.pending.out)
    /\ e.session_id # <<>> /\ e.pending.out[3] = e.session_id
    /\ e.pending.out # e.cipher_out
    /\ \A i \in 1..Len(e.tx) : e.tx[i].key # e.pending.out

LEMMA SendNewkeysKeeps ==
    ASSUME NEW e, EndInv(e), FreshKey(e)
    PROVE  LET r == send_newkeys(e)
           IN  EndInv(r) /\ Stays(e, r) /\ r.session_id = e.session_id
<1> DEFINE m == Msg("NEWKEYS", 0)
           w == write_packet(e, m)
           key == NewOutKey(w)
           p == [w.pending EXCEPT !.out = NoKey]
           c == NewOutContext(w)
           n == SeqAfterNewkeys(w)
           a == [w EXCEPT !.cipher_out = key, !.pending.out = NoKey, !.comp_out = c,
                          !.tx_seq = n, !.sent_newkeys = TRUE]
           r == maybe_complete_kex(a)
<1>1. m.id = "NEWKEYS" /\ MessageOK(m) /\ m.id \notin Deferred
  BY DEF Msg, MessageOK, Deferred, AppIds
<1>2. send_newkeys(e) = r
  BY DEF send_newkeys
<1> HIDE DEF m
<1>3. /\ Shape(w) /\ NonceInv(w) /\ SidInv(w) /\ Hushed(w.tx) /\ Stays(e, w) /\ Alike(e, w)
      /\ (~Open(w.tx) \/ w.closing)
  BY <1>1, WriteShape, WriteNonce, WriteSid, WriteQuiet, WriteStays, WriteAlike
     DEF EndInv, QuietInv
<1>4. key = e.pending.out
  BY <1>3 DEF NewOutKey, Alike
<1>5. \A i \in 1..Len(w.tx) : w.tx[i].key # key
  <2>1. CASE e.closing
    BY <1>4, <2>1 DEF write_packet, Muted, FreshKey
  <2>2. CASE ~e.closing
    <3> DEFINE f == [key |-> e.cipher_out, seq |-> e.tx_seq, comp |-> e.comp_out, msg |-> m]
    <3>1. w.tx = Append(e.tx, f)
      BY <2>2, WriteFacts DEF EndInv
    <3>2. f.key = e.cipher_out
      OBVIOUS
    <3> HIDE DEF f, w
    <3>3. IsSeq(e.tx) /\ Len(e.tx) \in Nat
      BY DEF EndInv, Shape, IsSeq
    <3>4. /\ Len(w.tx) = Len(e.tx) + 1 /\ w.tx[Len(e.tx) + 1] = f
          /\ \A i \in 1..Len(e.tx) : w.tx[i] = e.tx[i]
      BY <3>1, <3>3, AppendFacts
    <3>5. \A i \in 1..Len(w.tx) : i \in 1..Len(e.tx) \/ i = Len(e.tx) + 1
      BY <3>3, <3>4
    <3> QED
      BY <1>4, <3>2, <3>4, <3>5 DEF FreshKey
  <2> QED
    BY <2>1, <2>2
<1>6. c \in Nat /\ n \in 0..SeqSpace-1 /\ DOMAIN p = {"some", "out", "inn"}
  <2> HIDE DEF w
  <2>1. w.comp_out \in Nat /\ w.tx_seq \in 0..SeqSpace-1 /\ DOMAIN w.pending = {"some", "out", "inn"}
    BY <1>3 DEF Shape
  <2>2. NewContext(w) \in Nat
    BY DEF NewContext, Fresh, NoContext
  <2>3. 0 \in 0..SeqSpace-1
    BY TransportAssumption
  <2> QED
    BY <2>1, <2>2, <2>3 DEF NewOutContext, SeqAfterNewkeys
<1> HIDE DEF w
<1>7. /\ DOMAIN a = Fields /\ a.cipher_out = key /\ a.comp_out = c /\ a.tx_seq = n
      /\ a.pending = p /\ a.sent_newkeys = TRUE
      /\ \A x \in Fields \ {"cipher_out", "pending", "comp_out", "tx_seq", "sent_newkeys"} :
             a[x] = w[x]
  <2> HIDE DEF c, n, key
  <2> QED
    BY <1>3 DEF Shape, Fields
<1> HIDE DEF a, c, n, key, p
<1>8. /\ a.tx = w.tx /\ a.role = w.role /\ a.rng = w.rng /\ a.kex_eph = w.kex_eph
      /\ a.tx_packets_since_rekey = w.tx_packets_since_rekey /\ a.closing = w.closing
      /\ a.session_id = w.session_id /\ a.phase = w.phase /\ a.rekeying = w.rekeying
      /\ a.kexinit_sent = w.kexinit_sent /\ a.tx_app_queue = w.tx_app_queue
      /\ a.offered_compression = w.offered_compression
      /\ a.rx_seq = w.rx_seq /\ a.comp_in = w.comp_in
      /\ a.comp_name = w.comp_name /\ a.negotiated = w.negotiated
  BY <1>7 DEF Fields
<1>9. Shape(a)
  BY <1>3, <1>6, <1>7, <1>8 DEF Shape
<1>10. NonceInv(a)
  <2>1. \A k : Used(a, k) <=> Used(w, k)
    BY <1>8 DEF Used
  <2>2. Used(w, key)
    BY <1>3, <1>4 DEF Used, FreshKey, Alike
  <2>3. Numbered(a)
    BY <1>5, <1>7, <1>8 DEF Numbered
  <2> QED
    BY <1>3, <1>7, <1>8, <2>1, <2>2, <2>3 DEF NonceInv
<1>11. SidInv(a)
  <2>1. a.session_id # <<>> /\ key[3] = a.session_id
    BY <1>3, <1>4, <1>8 DEF FreshKey, Alike
  <2>2. a.cipher_out # NoKey => a.session_id # <<>> /\ a.cipher_out[3] = a.session_id
    BY <1>7, <2>1
  <2>3. /\ Len(a.tx) >= 1 /\ ~IsReply(a.tx[1])
        /\ a.session_id = <<>> \/ DOMAIN a.session_id = 1..5
        /\ \A i \in 1..Len(a.tx) : a.tx[i].key # NoKey =>
              a.session_id # <<>> /\ a.tx[i].key[3] = a.session_id
        /\ a.role = "server" =>
             /\ \A i \in 1..Len(a.tx) : IsReply(a.tx[i]) =>
                   /\ a.session_id # <<>>
                   /\ \/ a.tx[i].msg.arg.signed = a.session_id
                      \/ \E k \in 1..(i - 1) : IsReply(a.tx[k])
             /\ a.session_id # <<>> => a.closing \/ \E i \in 1..Len(a.tx) : IsReply(a.tx[i])
    BY <1>3, <1>8 DEF SidInv
  <2> QED
    BY <2>2, <2>3 DEF SidInv
<1>12. QuietInv(a)
  BY <1>3, <1>8 DEF QuietInv, EndInv, Alike
<1>13. EndInv(a) /\ Stays(e, a) /\ a.session_id = e.session_id
  BY <1>3, <1>8, <1>9, <1>10, <1>11, <1>12 DEF EndInv, Stays, Alike
<1>14. EndInv(r) /\ Stays(a, r) /\ r.session_id = a.session_id
  BY <1>13, CompleteKeeps
<1> HIDE DEF r
<1>15. Stays(e, r)
  BY <1>13, <1>14, StaysTransitive DEF EndInv
<1> QED
  BY <1>2, <1>13, <1>14, <1>15

--------------------------------------------------------------------------------
(* The exchange itself *)

\* r is e once finish_kex has derived the keys of hash h.
Finished(e, h, r) ==
    /\ DOMAIN r = Fields /\ r.session_id = SessionId(e, h)
    /\ r.comp_name = e.negotiated.comp
    /\ DOMAIN r.pending = {"some", "out", "inn"}
    /\ r.pending.out # NoKey /\ r.pending.out[2] = h /\ r.pending.out[3] = SessionId(e, h)
    /\ \A x \in Fields \ {"session_id", "pending", "comp_name"} : r[x] = e[x]

LEMMA FinishFacts ==
    ASSUME NEW e, Shape(e), NEW h
    PROVE  Finished(e, h, finish_kex(e, h))
<1> DEFINE sid == SessionId(e, h)
           c2s == <<"c2s", h, sid, e.negotiated.cipher>>
           s2c == <<"s2c", h, sid, e.negotiated.cipher>>
           p == IF e.role = "client" THEN [some |-> TRUE, out |-> c2s, inn |-> s2c]
                                     ELSE [some |-> TRUE, out |-> s2c, inn |-> c2s]
           n == e.negotiated.comp
           r == [e EXCEPT !.session_id = sid, !.pending = p, !.comp_name = n]
<1>1. c2s # NoKey /\ c2s[2] = h /\ c2s[3] = sid
  BY DEF NoKey
<1>2. s2c # NoKey /\ s2c[2] = h /\ s2c[3] = sid
  BY DEF NoKey
<1> HIDE DEF c2s, s2c
<1>3. DOMAIN p = {"some", "out", "inn"} /\ (p.out = c2s \/ p.out = s2c)
  OBVIOUS
<1>4. finish_kex(e, h) = r
  BY DEF finish_kex, c2s, s2c
<1> HIDE DEF p, sid, n
<1>5. DOMAIN r = Fields /\ r.session_id = sid /\ r.pending = p /\ r.comp_name = n
      /\ \A x \in Fields \ {"session_id", "pending", "comp_name"} : r[x] = e[x]
  BY DEF Shape, Fields
<1> HIDE DEF r
<1>6. r.pending.out # NoKey /\ r.pending.out[2] = h /\ r.pending.out[3] = sid
  BY <1>1, <1>2, <1>3, <1>5
<1> QED
  BY <1>3, <1>4, <1>5, <1>6 DEF Finished, sid, n

\* finish_kex changes the session id, but only from none.
LEMMA FinishKeeps ==
    ASSUME NEW e, Shape(e), NonceInv(e), QuietInv(e), NEW h, SidInv(finish_kex(e, h)),
           Own(e.role, <<"", h>>) \in 1..e.rng,
           e.role = "client" => Own(e.role, <<"", h>>) # e.kex_eph,
           e.cipher_out # NoKey => Own(e.role, e.cipher_out) # Own(e.role, <<"", h>>),
           \A i \in 1..Len(e.tx) : e.tx[i].key # NoKey =>
               Own(e.role, e.tx[i].key) # Own(e.role, <<"", h>>),
           SessionId(e, h) # <<>>
    PROVE  LET r == finish_kex(e, h)
           IN  EndInv(r) /\ FreshKey(r) /\ Stays(e, r) /\ r.session_id = SessionId(e, h)
<1> DEFINE r == finish_kex(e, h)
           sid == SessionId(e, h)
<1>1. /\ DOMAIN r = Fields /\ r.session_id = sid
      /\ r.comp_name = e.negotiated.comp
      /\ DOMAIN r.pending = {"some", "out", "inn"}
      /\ r.pending.out # NoKey /\ r.pending.out[2] = h /\ r.pending.out[3] = sid
      /\ \A x \in Fields \ {"session_id", "pending", "comp_name"} : r[x] = e[x]
  <2>1. Finished(e, h, r)
    BY FinishFacts
  <2> HIDE DEF r
  <2> QED
    BY <2>1 DEF Finished
<1> HIDE DEF r, sid
<1>2. /\ r.tx = e.tx /\ r.role = e.role /\ r.cipher_out = e.cipher_out /\ r.rng = e.rng
      /\ r.kex_eph = e.kex_eph /\ r.sent_newkeys = e.sent_newkeys /\ r.tx_seq = e.tx_seq
      /\ r.tx_packets_since_rekey = e.tx_packets_since_rekey /\ r.closing = e.closing
      /\ r.phase = e.phase /\ r.rekeying = e.rekeying
      /\ r.kexinit_sent = e.kexinit_sent /\ r.tx_app_queue = e.tx_app_queue
      /\ r.offered_compression = e.offered_compression
      /\ r.rx_seq = e.rx_seq /\ r.comp_in = e.comp_in /\ r.comp_out = e.comp_out
      /\ r.negotiated = e.negotiated
  BY <1>1 DEF Fields
<1>3. Shape(r)
  BY <1>1, <1>2 DEF Shape
<1>4. NonceInv(r)
  BY <1>2 DEF NonceInv, Used, Numbered, Span
<1>5. QuietInv(r)
  BY <1>2 DEF QuietInv
<1>6. Stays(e, r)
  BY <1>2, GrowsReflexive DEF Stays
<1>7. EndInv(r)
  BY <1>3, <1>4, <1>5 DEF EndInv, r
<1>8. \A role \in Roles : Own(role, r.pending.out) = Own(role, <<"", h>>)
  BY <1>1 DEF Own
<1>9. e.role \in Roles
  BY DEF Shape
<1>10. FreshKey(r)
  <2>1. Used(r, r.pending.out)
    BY <1>2, <1>8, <1>9 DEF Used
  <2>2. r.pending.out # r.cipher_out
    BY <1>1, <1>2, <1>8, <1>9
  <2>3. \A i \in 1..Len(r.tx) : r.tx[i].key # r.pending.out
    <3>1. ASSUME NEW i \in 1..Len(e.tx), e.tx[i].key # NoKey, e.tx[i].key = r.pending.out PROVE FALSE
      <4>1. Own(e.role, e.tx[i].key) # Own(e.role, <<"", h>>)
        BY <3>1
      <4>2. Own(e.role, e.tx[i].key) = Own(e.role, r.pending.out)
        BY <3>1
      <4> QED
        BY <1>8, <1>9, <4>1, <4>2
    <3> QED
      BY <1>1, <1>2, <3>1
  <2> QED
    BY <1>1, <2>1, <2>2, <2>3 DEF FreshKey, sid
<1> QED
  BY <1>1, <1>6, <1>7, <1>10 DEF r, sid

LEMMA HashFacts ==
    ASSUME NEW e, NEW x, NEW y
    PROVE  LET h == compute_exchange_hash(e, x, y)
           IN  DOMAIN h = 1..5 /\ h # <<>> /\ h[3] = x /\ h[4] = y
<1> DEFINE a == <<e.local_kexinit, e.peer_kexinit, x, y, e.negotiated.kex>>
           b == <<e.peer_kexinit, e.local_kexinit, x, y, e.negotiated.kex>>
<1>1. DOMAIN a = 1..5 /\ a # <<>> /\ a[3] = x /\ a[4] = y
  OBVIOUS
<1>2. DOMAIN b = 1..5 /\ b # <<>> /\ b[3] = x /\ b[4] = y
  OBVIOUS
<1> QED
  BY <1>1, <1>2 DEF compute_exchange_hash

\* The server's reply, and the session id it fixes.
LEMMA ReplySid ==
    ASSUME NEW a, Shape(a), SidInv(a), NEW m, IsReply([msg |-> m]), NEW h, m.arg.signed = h,
           h # <<>>, DOMAIN h = 1..5
    PROVE  SidInv(finish_kex(write_packet(a, m), h))
<1> DEFINE w == write_packet(a, m)
           r == finish_kex(w, h)
           f == [key |-> a.cipher_out, seq |-> a.tx_seq, comp |-> a.comp_out, msg |-> m]
           k == Len(a.tx) + 1
<1>0. m.id = "ECDH_REPLY" /\ MessageOK(m)
  BY DEF IsReply, MessageOK
<1>1. Shape(w) /\ Alike(a, w)
  BY <1>0, WriteShape, WriteAlike
<1>2. Finished(w, h, r)
  BY <1>1, FinishFacts
<1>3. f.key = a.cipher_out /\ f.msg = m
  OBVIOUS
<1>4. ~a.closing => w.tx = Append(a.tx, f)
  BY WriteFacts
<1>5. a.closing => w = a
  BY DEF write_packet, Muted
<1> HIDE DEF w, f, r
<1>6. /\ r.tx = w.tx /\ r.role = a.role /\ r.cipher_out = a.cipher_out
      /\ r.session_id = IF a.session_id = <<>> THEN h ELSE a.session_id
      /\ r.closing = w.closing
  BY <1>1, <1>2, SMTT(30) DEF Finished, Fields, Alike, SessionId
<1>7. r.session_id # <<>> /\ DOMAIN r.session_id = 1..5
  BY <1>6 DEF SidInv
<1>8. Len(a.tx) \in Nat /\ Len(a.tx) >= 1 /\ IsSeq(a.tx)
  BY DEF Shape, IsSeq, SidInv
<1>9. \A i \in 1..Len(a.tx) : a.tx[i].key # NoKey => a.tx[i].key[3] = r.session_id
  BY <1>6 DEF SidInv
<1>10. a.cipher_out # NoKey => a.cipher_out[3] = r.session_id
  BY <1>6 DEF SidInv
<1>11. ASSUME a.role = "server", NEW i \in 1..Len(a.tx), IsReply(a.tx[i])
       PROVE  a.tx[i].msg.arg.signed = r.session_id \/ \E x \in 1..(i - 1) : IsReply(a.tx[x])
  BY <1>6, <1>11 DEF SidInv
<1>12. CASE a.closing
  <2>1. r.tx = a.tx /\ r.closing
    BY <1>5, <1>6, <1>12
  <2> QED
    BY <1>6, <1>7, <1>9, <1>10, <1>11, <2>1 DEF SidInv, r, w
<1>13. CASE ~a.closing
  <2>1. /\ Len(r.tx) = k /\ r.tx[k] = f
        /\ \A i \in 1..Len(a.tx) : r.tx[i] = a.tx[i]
        /\ \A i \in 1..Len(r.tx) : i \in 1..Len(a.tx) \/ i = k
    <3>1. Len(r.tx) = k /\ r.tx[k] = f /\ \A i \in 1..Len(a.tx) : r.tx[i] = a.tx[i]
      BY <1>4, <1>6, <1>8, <1>13, AppendFacts
    <3> QED
      BY <1>8, <3>1
  <2>2. Len(r.tx) >= 1 /\ ~IsReply(r.tx[1])
    BY <1>8, <2>1 DEF SidInv
  <2>3. \A i \in 1..Len(r.tx) : r.tx[i].key # NoKey => r.tx[i].key[3] = r.session_id
    BY <1>3, <1>9, <1>10, <2>1
  <2>4. IsReply(r.tx[k]) /\ k \in 1..Len(r.tx) /\ r.tx[k].msg.arg.signed = h
    BY <1>0, <1>3, <1>8, <2>1 DEF IsReply
  <2>5. ASSUME a.role = "server", NEW i \in 1..Len(r.tx), IsReply(r.tx[i])
        PROVE  r.tx[i].msg.arg.signed = r.session_id \/ \E x \in 1..(i - 1) : IsReply(r.tx[x])
    <3>1. CASE i \in 1..Len(a.tx)
      <4>1. \A x \in 1..(i - 1) : x \in 1..Len(a.tx)
        BY <1>8, <3>1
      <4> QED
        BY <1>11, <2>1, <2>5, <3>1, <4>1
    <3>2. CASE i = k
      <4>1. CASE a.session_id = <<>>
        BY <1>6, <2>4, <3>2, <4>1
      <4>2. CASE a.session_id # <<>>
        <5>1. PICK x \in 1..Len(a.tx) : IsReply(a.tx[x])
          BY <1>13, <2>5, <4>2 DEF SidInv
        <5>2. x \in 1..(i - 1)
          BY <1>8, <3>2
        <5> QED
          BY <2>1, <5>1, <5>2
      <4> QED
        BY <4>1, <4>2
    <3> QED
      BY <2>1, <3>1, <3>2
  <2>6. SidInv(r)
    BY <1>6, <1>7, <1>10, <2>2, <2>3, <2>4, <2>5 DEF SidInv
  <2> QED
    BY <2>6 DEF r, w
<1> QED
  BY <1>12, <1>13

LEMMA OnEcdhInitKeeps ==
    ASSUME NEW e, EndInv(e), e.role = "server", NEW m
    PROVE  LET r == on_ecdh_init(e, m)
           IN  /\ EndInv(r) /\ Stays(e, r)
               /\ e.session_id # <<>> => r.session_id = e.session_id
<1> DEFINE q == e.rng + 1
           h == compute_exchange_hash(e, m.arg, q)
           n == Msg("ECDH_REPLY", [q_s |-> q, signed |-> h])
           a == [e EXCEPT !.rng = q]
           w == write_packet(a, n)
           b == finish_kex(w, h)
           r == send_newkeys(b)
<1>1. CASE e.peer_kexinit = 0
  BY <1>1, FailKeeps DEF on_ecdh_init
<1>2. CASE e.peer_kexinit # 0
  <2>1. DOMAIN h = 1..5 /\ h # <<>> /\ h[4] = q
    BY HashFacts
  <2>2. n.id = "ECDH_REPLY" /\ n.arg.signed = h /\ IsReply([msg |-> n]) /\ MessageOK(n)
        /\ n.id \notin Deferred
    <3> HIDE DEF h, q
    <3> QED
      BY DEF Msg, IsReply, MessageOK, Deferred, AppIds
  <2>3. Changed(e, a, {"rng"}) /\ a.rng = e.rng + 1
    BY DEF Changed, EndInv, Shape, Fields
  <2>4. on_ecdh_init(e, m) = r
    BY <1>2 DEF on_ecdh_init
  <2> HIDE DEF h, n, a
  <2>5. Shape(a) /\ NonceInv(a) /\ SidInv(a) /\ Stays(e, a) /\ a.tx = e.tx
        /\ a.session_id = e.session_id
    BY <2>3, DrawKeeps DEF EndInv
  <2>6. /\ a.role = "server" /\ a.cipher_out = e.cipher_out /\ a.closing = e.closing
        /\ a.kexinit_sent = e.kexinit_sent /\ a.sent_newkeys = e.sent_newkeys
        /\ a.phase = e.phase /\ a.rekeying = e.rekeying
    BY <2>3 DEF Changed, Fields
  <2>7. QuietInv(a)
    BY <2>5, <2>6 DEF EndInv, QuietInv
  <2>8. /\ Shape(w) /\ NonceInv(w) /\ Stays(a, w) /\ Alike(a, w) /\ Hushed(w.tx)
        /\ (a.closing => w.closing) /\ (Open(w.tx) => Open(a.tx))
    BY <2>2, <2>5, <2>7, WriteShape, WriteNonce, WriteQuiet, WriteStays, WriteAlike DEF QuietInv
  <2>9. SidInv(b)
    BY <2>1, <2>2, <2>5, ReplySid
  <2>10. \A i \in 1..Len(w.tx) : w.tx[i].key # NoKey => w.tx[i].key[2][4] # q
    <3>1. \A key : Used(e, key) => key[2][4] # q
      <4>1. e.rng \in Nat
        BY DEF EndInv, Shape
      <4> QED
        BY <4>1 DEF Used, Own
    <3>2. \A i \in 1..Len(a.tx) : a.tx[i].key # NoKey => a.tx[i].key[2][4] # q
      BY <2>5, <3>1 DEF EndInv, NonceInv
    <3>3. e.cipher_out # NoKey => e.cipher_out[2][4] # q
      BY <3>1 DEF EndInv, NonceInv
    <3>4. CASE a.closing
      BY <3>2, <3>4 DEF write_packet, Muted
    <3>5. CASE ~a.closing
      <4> DEFINE f == [key |-> a.cipher_out, seq |-> a.tx_seq, comp |-> a.comp_out, msg |-> n]
      <4>1. w.tx = Append(a.tx, f)
        BY <2>5, <3>5, WriteFacts
      <4>2. f.key = e.cipher_out
        BY <2>6
      <4> HIDE DEF f, w, q
      <4>3. IsSeq(a.tx) /\ Len(a.tx) \in Nat
        BY <2>5 DEF Shape, IsSeq
      <4>4. /\ Len(w.tx) = Len(a.tx) + 1 /\ w.tx[Len(a.tx) + 1] = f
            /\ \A i \in 1..Len(a.tx) : w.tx[i] = a.tx[i]
        BY <4>1, <4>3, AppendFacts
      <4>5. \A i \in 1..Len(w.tx) : i \in 1..Len(a.tx) \/ i = Len(a.tx) + 1
        BY <4>3, <4>4
      <4> QED
        BY <3>2, <3>3, <4>2, <4>4, <4>5
    <3> QED
      BY <3>4, <3>5
  <2> HIDE DEF w
  <2>11. EndInv(b) /\ FreshKey(b) /\ Stays(w, b) /\ b.session_id = SessionId(w, h)
    <3>1. w.role = "server" /\ w.rng = q /\ w.cipher_out = e.cipher_out /\ w.session_id = e.session_id
      BY <2>3, <2>5, <2>6, <2>8 DEF Alike
    <3>2. QuietInv(w)
      BY <2>7, <2>8 DEF QuietInv, Alike
    <3>3. Own(w.role, <<"", h>>) = q /\ q \in 1..w.rng
      <4>1. e.rng \in Nat
        BY DEF EndInv, Shape
      <4> QED
        BY <2>1, <3>1, <4>1 DEF Own
    <3>4. w.cipher_out # NoKey => Own(w.role, w.cipher_out) # q
      <4>1. e.cipher_out # NoKey => Used(e, e.cipher_out)
        BY DEF EndInv, NonceInv
      <4>2. e.rng \in Nat
        BY DEF EndInv, Shape
      <4> QED
        BY <3>1, <4>1, <4>2 DEF Used, Own
    <3>5. \A i \in 1..Len(w.tx) : w.tx[i].key # NoKey => Own(w.role, w.tx[i].key) # q
      BY <2>10, <3>1 DEF Own
    <3>6. SessionId(w, h) # <<>>
      BY <2>1 DEF SessionId
    <3> HIDE DEF q
    <3> QED
      BY <2>8, <2>9, <3>1, <3>2, <3>3, <3>4, <3>5, <3>6, FinishKeeps
  <2> HIDE DEF b
  <2>12. EndInv(r) /\ Stays(b, r) /\ r.session_id = b.session_id
    BY <2>11, SendNewkeysKeeps
  <2>13. Stays(e, w)
    BY <2>5, <2>8, StaysTransitive DEF EndInv
  <2>14. Stays(e, b)
    BY <2>8, <2>11, <2>13, StaysTransitive DEF EndInv
  <2> HIDE DEF r
  <2>15. Stays(e, r)
    BY <2>11, <2>12, <2>14, StaysTransitive DEF EndInv
  <2>16. w.session_id = e.session_id
    BY <2>5, <2>8 DEF Alike
  <2> QED
    BY <2>4, <2>11, <2>12, <2>15, <2>16 DEF SessionId
<1> QED
  BY <1>1, <1>2

\* The client takes the session id from the first reply it accepts.
LEMMA OnEcdhReplyKeeps ==
    ASSUME NEW e, EndInv(e), e.role = "client", NEW m
    PROVE  LET r == on_ecdh_reply(e, m)
           IN  /\ EndInv(r) /\ Stays(e, r)
               /\ e.session_id # <<>> => r.session_id = e.session_id
               /\ \/ r.err # "none" /\ r.session_id = e.session_id
                  \/ /\ r.session_id # <<>>
                     /\ e.session_id = <<>> => r.session_id = m.arg.signed
<1> DEFINE h == compute_exchange_hash(e, e.kex_eph, m.arg.q_s)
           a == [e EXCEPT !.kex_eph = 0]
           b == finish_kex(a, h)
           r == send_newkeys(b)
<1>1. CASE e.kex_eph = 0
  <2> DEFINE f == Fail(e, "KEX_ECDH_REPLY before INIT")
  <2>1. on_ecdh_reply(e, m) = f
    BY <1>1 DEF on_ecdh_reply
  <2>2. EndInv(f) /\ Stays(e, f) /\ f.session_id = e.session_id /\ f.err = "KEX_ECDH_REPLY before INIT"
    BY FailKeeps
  <2> HIDE DEF f
  <2> QED
    BY <2>1, <2>2
<1>2. CASE e.kex_eph # 0 /\ (e.peer_kexinit = 0 \/ m.arg.signed # h)
  <2> DEFINE f == Fail(e, "host key signature")
  <2>1. on_ecdh_reply(e, m) = f
    BY <1>2 DEF on_ecdh_reply
  <2>2. EndInv(f) /\ Stays(e, f) /\ f.session_id = e.session_id /\ f.err = "host key signature"
    BY FailKeeps
  <2> HIDE DEF f
  <2> QED
    BY <2>1, <2>2
<1>3. CASE e.kex_eph # 0 /\ ~(e.peer_kexinit = 0 \/ m.arg.signed # h)
  <2>1. DOMAIN h = 1..5 /\ h # <<>> /\ h[3] = e.kex_eph
    BY HashFacts
  <2>2. DOMAIN a = Fields /\ a.kex_eph = 0 /\ \A x \in Fields \ {"kex_eph"} : a[x] = e[x]
    BY DEF EndInv, Shape, Fields
  <2>3. on_ecdh_reply(e, m) = r
    BY <1>3 DEF on_ecdh_reply
  <2> HIDE DEF h, a
  <2>4. /\ a.tx = e.tx /\ a.role = e.role /\ a.cipher_out = e.cipher_out /\ a.rng = e.rng
        /\ a.sent_newkeys = e.sent_newkeys /\ a.tx_seq = e.tx_seq
        /\ a.tx_packets_since_rekey = e.tx_packets_since_rekey /\ a.closing = e.closing
        /\ a.session_id = e.session_id /\ a.phase = e.phase /\ a.rekeying = e.rekeying
        /\ a.kexinit_sent = e.kexinit_sent /\ a.tx_app_queue = e.tx_app_queue
        /\ a.offered_compression = e.offered_compression
        /\ a.rx_seq = e.rx_seq /\ a.comp_in = e.comp_in /\ a.comp_out = e.comp_out
        /\ a.comp_name = e.comp_name /\ a.negotiated = e.negotiated /\ a.pending = e.pending
    BY <2>2 DEF Fields
  <2>5. e.rng \in Nat /\ e.kex_eph \in 1..e.rng
    BY <1>3 DEF EndInv, Shape
  <2>6. Shape(a)
    <3>1. a.kex_eph \in 0..a.rng
      BY <2>2, <2>4, <2>5
    <3> QED
      BY <2>2, <2>4, <3>1 DEF EndInv, Shape
  <2>7. NonceInv(a)
    <3>1. \A key : Used(e, key) => Used(a, key)
      BY <2>2, <2>4, <2>5 DEF Used
    <3>2. Numbered(e) => Numbered(a)
      BY <2>4 DEF Numbered, Span
    <3> QED
      BY <2>4, <3>1, <3>2 DEF EndInv, NonceInv
  <2>8. QuietInv(a)
    BY <2>4 DEF EndInv, QuietInv
  <2>9. Stays(e, a)
    BY <2>4, GrowsReflexive DEF EndInv, Stays
  <2>10. Finished(a, h, b)
    BY <2>6, FinishFacts
  <2>11. SidInv(b)
    <3> HIDE DEF b
    <3>1. /\ b.tx = e.tx /\ b.role = "client" /\ b.cipher_out = e.cipher_out
          /\ b.session_id = IF e.session_id = <<>> THEN h ELSE e.session_id
      BY <2>4, <2>10 DEF Finished, Fields, SessionId
    <3>2. SidInv(e)
      BY DEF EndInv
    <3>3. b.session_id # <<>> /\ DOMAIN b.session_id = 1..5
      BY <2>1, <3>1, <3>2 DEF SidInv
    <3>4. \A i \in 1..Len(b.tx) : b.tx[i].key # NoKey => b.tx[i].key[3] = b.session_id
      BY <3>1, <3>2 DEF SidInv
    <3>5. b.cipher_out # NoKey => b.cipher_out[3] = b.session_id
      BY <3>1, <3>2 DEF SidInv
    <3>6. Len(b.tx) >= 1 /\ ~IsReply(b.tx[1])
      BY <3>1, <3>2 DEF SidInv
    <3> QED
      BY <3>1, <3>3, <3>4, <3>5, <3>6 DEF SidInv
  <2>12. EndInv(b) /\ FreshKey(b) /\ Stays(a, b) /\ b.session_id = SessionId(a, h)
    <3>1. Own(a.role, <<"", h>>) = e.kex_eph /\ e.kex_eph \in 1..a.rng
      BY <2>1, <2>4, <2>5 DEF Own
    <3>2. a.role = "client" => e.kex_eph # a.kex_eph
      BY <1>3, <2>2
    <3>3. a.cipher_out # NoKey => Own(a.role, a.cipher_out) # e.kex_eph
      BY <2>4 DEF EndInv, NonceInv, Used
    <3>4. \A i \in 1..Len(a.tx) : a.tx[i].key # NoKey => Own(a.role, a.tx[i].key) # e.kex_eph
      BY <2>4 DEF EndInv, NonceInv, Used
    <3>5. SessionId(a, h) # <<>>
      BY <2>1 DEF SessionId
    <3> QED
      BY <2>6, <2>7, <2>8, <2>11, <3>1, <3>2, <3>3, <3>4, <3>5, FinishKeeps
  <2> HIDE DEF b
  <2>13. EndInv(r) /\ Stays(b, r) /\ r.session_id = b.session_id
    BY <2>12, SendNewkeysKeeps
  <2> HIDE DEF r
  <2>14. Stays(e, b)
    BY <2>6, <2>9, <2>12, StaysTransitive DEF EndInv
  <2>15. Stays(e, r)
    BY <2>12, <2>13, <2>14, StaysTransitive DEF EndInv
  <2>16. r.session_id = IF e.session_id = <<>> THEN h ELSE e.session_id
    BY <2>4, <2>12, <2>13 DEF SessionId
  <2>17. r.session_id # <<>> /\ (e.session_id = <<>> => r.session_id = m.arg.signed)
    BY <1>3, <2>1, <2>16
  <2> QED
    BY <2>3, <2>13, <2>15, <2>16, <2>17
<1> QED
  BY <1>1, <1>2, <1>3

--------------------------------------------------------------------------------
(* The peer's KEXINIT *)

\* pick returns a name of the client's list, or none.
LEMMA PickFacts ==
    ASSUME NEW S, NEW client \in Seq(S), NEW server
    PROVE  pick(client, server) = "" \/ pick(client, server) \in S
<1> DEFINE I == {i \in 1..Len(client) : Contains(server, client[i])}
           n == IF I # {} THEN Min(I) ELSE 0
<1>1. pick(client, server) = IF n = 0 THEN "" ELSE client[n]
  BY DEF pick, SelectInSeq
<1>2. CASE I = {}
  BY <1>1, <1>2
<1>3. CASE I # {}
  <2>1. I \subseteq Nat
    OBVIOUS
  <2>2. \E x \in I : \A y \in I : ~(y < x)
    BY <1>3, <2>1, LeastNumber
  <2>3. \E x \in I : \A y \in I : x =< y
    BY <2>1, <2>2
  <2>4. Min(I) \in I
    BY <2>3 DEF Min
  <2>5. n \in 1..Len(client)
    BY <1>3, <2>4
  <2>6. client[n] \in S
    BY <2>5
  <2> HIDE DEF n
  <2> QED
    BY <1>1, <2>6
<1> QED
  BY <1>2, <1>3

LEMMA AgreedFacts ==
    ASSUME NEW role, NEW local, NEW peer,
           local.comp \in Seq(CompNames), peer.comp \in Seq(CompNames),
           ~NoCommon(Agreed(role, local, peer))
    PROVE  Agreed(role, local, peer).comp \in CompNames
<1>1. ASSUME NEW c, NEW s, c.comp \in Seq(CompNames), ~NoCommon(negotiate(c, s))
      PROVE  negotiate(c, s).comp \in CompNames
  <2>1. negotiate(c, s).comp = pick(c.comp, s.comp)
    BY DEF negotiate
  <2>2. negotiate(c, s).comp # ""
    BY <1>1 DEF NoCommon
  <2> QED
    BY <1>1, <2>1, <2>2, PickFacts
<1> QED
  BY <1>1 DEF Agreed

LEMMA WriteKeys ==
    ASSUME NEW e, Shape(e), NEW m
    PROVE  LET w == write_packet(e, m)
           IN  \A i \in 1..Len(w.tx) : \/ w.tx[i].key = e.cipher_out
                                       \/ \E j \in 1..Len(e.tx) : w.tx[i].key = e.tx[j].key
<1> DEFINE w == write_packet(e, m)
           f == [key |-> e.cipher_out, seq |-> e.tx_seq, comp |-> e.comp_out, msg |-> m]
<1>1. CASE e.closing
  BY <1>1 DEF write_packet, Muted
<1>2. CASE ~e.closing
  <2>1. w.tx = Append(e.tx, f)
    BY <1>2, WriteFacts
  <2>2. f.key = e.cipher_out
    OBVIOUS
  <2> HIDE DEF f, w
  <2>3. IsSeq(e.tx) /\ Len(e.tx) \in Nat
    BY DEF Shape, IsSeq
  <2>4. /\ Len(w.tx) = Len(e.tx) + 1 /\ w.tx[Len(e.tx) + 1] = f
        /\ \A i \in 1..Len(e.tx) : w.tx[i] = e.tx[i]
    BY <2>1, <2>3, AppendFacts
  <2>5. \A i \in 1..Len(w.tx) : i \in 1..Len(e.tx) \/ i = Len(e.tx) + 1
    BY <2>3, <2>4
  <2> QED
    BY <2>2, <2>4, <2>5 DEF w
<1> QED
  BY <1>1, <1>2

\* The client's draw of a new ephemeral value, sent to the server.
LEMMA SendInitKeeps ==
    ASSUME NEW e, EndInv(e)
    PROVE  LET q == e.rng + 1
               r == [write_packet([e EXCEPT !.rng = q], Msg("ECDH_INIT", q)) EXCEPT !.kex_eph = q]
           IN  EndInv(r) /\ Stays(e, r) /\ r.session_id = e.session_id
<1> DEFINE q == e.rng + 1
           m == Msg("ECDH_INIT", q)
           a == [e EXCEPT !.rng = q]
           w == write_packet(a, m)
           r == [w EXCEPT !.kex_eph = q]
<1>1. m.id = "ECDH_INIT" /\ MessageOK(m) /\ m.id \notin Deferred
  <2> HIDE DEF q
  <2> QED
    BY DEF Msg, MessageOK, Deferred, AppIds
<1>2. Changed(e, a, {"rng"}) /\ a.rng = e.rng + 1
  BY DEF Changed, EndInv, Shape, Fields
<1> HIDE DEF m, a
<1>3. Shape(a) /\ NonceInv(a) /\ SidInv(a) /\ Stays(e, a) /\ a.tx = e.tx
      /\ a.session_id = e.session_id
  BY <1>2, DrawKeeps DEF EndInv
<1>4. /\ a.role = e.role /\ a.cipher_out = e.cipher_out /\ a.closing = e.closing
      /\ a.kexinit_sent = e.kexinit_sent /\ a.sent_newkeys = e.sent_newkeys
      /\ a.phase = e.phase /\ a.rekeying = e.rekeying
  BY <1>2 DEF Changed, Fields
<1>5. QuietInv(a)
  BY <1>3, <1>4 DEF EndInv, QuietInv
<1>6. /\ Shape(w) /\ NonceInv(w) /\ SidInv(w) /\ Stays(a, w) /\ Alike(a, w) /\ Hushed(w.tx)
      /\ (a.closing => w.closing) /\ (Open(w.tx) => Open(a.tx))
  BY <1>1, <1>3, <1>5, WriteShape, WriteNonce, WriteSid, WriteQuiet, WriteStays, WriteAlike
     DEF QuietInv
<1>7. \A i \in 1..Len(w.tx) : \/ w.tx[i].key = a.cipher_out
                              \/ \E j \in 1..Len(a.tx) : w.tx[i].key = a.tx[j].key
  BY <1>3, WriteKeys
<1> HIDE DEF w
<1>8. QuietInv(w)
  BY <1>5, <1>6 DEF QuietInv, Alike
<1>9. e.rng \in Nat
  BY DEF EndInv, Shape
<1>10. \A key : Used(e, key) => Own(e.role, key) \in 1..q /\ Own(e.role, key) # q
  BY <1>9 DEF Used
<1>11. \A i \in 1..Len(w.tx) : w.tx[i].key # NoKey => Used(e, w.tx[i].key)
  BY <1>3, <1>4, <1>7 DEF EndInv, NonceInv
<1>12. DOMAIN r = Fields /\ r.kex_eph = q /\ \A x \in Fields \ {"kex_eph"} : r[x] = w[x]
  <2> HIDE DEF q
  <2> QED
    BY <1>6 DEF Shape, Fields
<1> HIDE DEF r
<1>13. /\ r.tx = w.tx /\ r.role = w.role /\ r.cipher_out = w.cipher_out /\ r.rng = w.rng
       /\ r.sent_newkeys = w.sent_newkeys /\ r.tx_seq = w.tx_seq
       /\ r.tx_packets_since_rekey = w.tx_packets_since_rekey /\ r.closing = w.closing
       /\ r.session_id = w.session_id /\ r.phase = w.phase /\ r.rekeying = w.rekeying
       /\ r.kexinit_sent = w.kexinit_sent /\ r.tx_app_queue = w.tx_app_queue
       /\ r.offered_compression = w.offered_compression
       /\ r.rx_seq = w.rx_seq /\ r.comp_in = w.comp_in /\ r.comp_out = w.comp_out
       /\ r.comp_name = w.comp_name /\ r.negotiated = w.negotiated /\ r.pending = w.pending
  BY <1>12 DEF Fields
<1>14. r.role = e.role /\ r.rng = q /\ r.cipher_out = e.cipher_out /\ r.session_id = e.session_id
  BY <1>2, <1>3, <1>4, <1>6, <1>13 DEF Alike
<1>15. Shape(r)
  <2>1. r.kex_eph \in 0..r.rng
    BY <1>9, <1>12, <1>14
  <2> QED
    BY <1>6, <1>12, <1>13, <2>1 DEF Shape
<1>16. NonceInv(r)
  <2>1. \A key : Used(e, key) => Used(r, key)
    BY <1>10, <1>12, <1>14 DEF Used
  <2>2. Numbered(w) => Numbered(r)
    BY <1>13 DEF Numbered, Span
  <2>3. e.cipher_out # NoKey => Used(e, e.cipher_out)
    BY DEF EndInv, NonceInv
  <2> QED
    BY <1>6, <1>11, <1>13, <1>14, <2>1, <2>2, <2>3 DEF NonceInv
<1>17. SidInv(r)
  BY <1>6, <1>13 DEF SidInv
<1>18. QuietInv(r)
  BY <1>8, <1>13 DEF QuietInv
<1>19. Stays(e, r)
  <2>1. Stays(e, w)
    BY <1>3, <1>6, StaysTransitive DEF EndInv
  <2> QED
    BY <1>13, <2>1 DEF Stays
<1>20. EndInv(r) /\ Stays(e, r) /\ r.session_id = e.session_id
  BY <1>14, <1>15, <1>16, <1>17, <1>18, <1>19 DEF EndInv
<1> QED
  BY <1>20 DEF r, w, a, m

LEMMA OnPeerKexinitKeeps ==
    ASSUME NEW e, EndInv(e), NEW m, m.arg.comp \in Seq(CompNames)
    PROVE  LET r == on_peer_kexinit(e, m)
           IN  EndInv(r) /\ Stays(e, r) /\ r.session_id = e.session_id
<1> DEFINE n       == e.consecutive_peer_rekeys + 1
           counted == [e EXCEPT !.consecutive_peer_rekeys = n]
           round   == IF PeerBegins(e) THEN begin_rekey_round(counted) ELSE e
           local   == ours_with(e.role, round.local_kexinit, e.offered_ciphers, e.offered_compression)
           agreed  == Agreed(e.role, local, m.arg)
           strict  == IF round.initial_kex_done THEN round.strict_kex
                      ELSE \E role \in Roles \ {e.role} : Contains(m.arg.kex, StrictName(role))
           known   == [round EXCEPT !.peer_kexinit = m.arg.cookie, !.negotiated = agreed,
                                    !.strict_kex = strict]
           q       == known.rng + 1
           sent    == [write_packet([known EXCEPT !.rng = q], Msg("ECDH_INIT", q)) EXCEPT !.kex_eph = q]
           r       == on_peer_kexinit(e, m)
<1>1. EndInv(counted) /\ Stays(e, counted) /\ counted.session_id = e.session_id
  <2> HIDE DEF n
  <2>1. DOMAIN counted = Fields /\ \A x \in Fields \ {"consecutive_peer_rekeys"} : counted[x] = e[x]
    BY DEF EndInv, Shape, Fields
  <2> HIDE DEF counted
  <2>2. Changed(e, counted, Settings) /\ Typed(counted)
    BY <2>1 DEF Changed, Settings, Fields, Typed, EndInv, Shape
  <2> QED
    BY <2>2, SettingInv
<1>2. local.comp \in Seq(CompNames)
  <2>1. local.comp = e.offered_compression
    <3> HIDE DEF round
    <3> QED
      BY DEF ours_with
  <2> QED
    BY <2>1 DEF EndInv, Shape
<1>3. \/ r = disconnect(counted)
      \/ NoCommon(agreed) /\ r = Fail(round, "no common algorithm")
      \/ ~NoCommon(agreed) /\ (r = sent \/ r = known)
  BY DEF on_peer_kexinit
<1> HIDE DEF counted
<1>4. EndInv(round) /\ Stays(e, round) /\ round.session_id = e.session_id
  <2> DEFINE b == begin_rekey_round(counted)
  <2>1. EndInv(b) /\ Stays(counted, b) /\ b.session_id = counted.session_id
    BY <1>1, BeginRoundKeeps
  <2>2. Stays(e, b)
    BY <1>1, <2>1, StaysTransitive DEF EndInv
  <2>3. Stays(e, e)
    BY GrowsReflexive DEF EndInv, Stays
  <2> HIDE DEF b
  <2>4. round = b \/ round = e
    BY DEF b
  <2> QED
    BY <1>1, <2>1, <2>2, <2>3, <2>4
<1> HIDE DEF round, r
<1>5. CASE r = disconnect(counted)
  <2> DEFINE d == disconnect(counted)
  <2>1. EndInv(d) /\ Stays(counted, d) /\ d.session_id = counted.session_id
    BY <1>1, DisconnectKeeps
  <2> HIDE DEF d
  <2>2. Stays(e, d)
    BY <1>1, <2>1, StaysTransitive DEF EndInv
  <2>3. EndInv(r) /\ Stays(e, r) /\ r.session_id = e.session_id
    BY <1>1, <1>5, <2>1, <2>2 DEF d
  <2> QED
    BY <2>3 DEF r
<1>6. CASE r = Fail(round, "no common algorithm")
  <2> DEFINE d == Fail(round, "no common algorithm")
  <2>1. EndInv(d) /\ Stays(round, d) /\ d.session_id = round.session_id
    BY <1>4, FailKeeps
  <2> HIDE DEF d
  <2>2. Stays(e, d)
    BY <1>4, <2>1, StaysTransitive DEF EndInv
  <2>3. EndInv(r) /\ Stays(e, r) /\ r.session_id = e.session_id
    BY <1>4, <1>6, <2>1, <2>2 DEF d
  <2> QED
    BY <2>3 DEF r
<1>7. CASE ~NoCommon(agreed) /\ (r = sent \/ r = known)
  <2>1. agreed.comp \in CompNames
    BY <1>2, <1>7, AgreedFacts
  <2> HIDE DEF agreed, strict
  <2>2. /\ DOMAIN known = Fields /\ known.negotiated = agreed
        /\ \A x \in Fields \ {"peer_kexinit", "negotiated", "strict_kex"} : known[x] = round[x]
    BY <1>4 DEF EndInv, Shape, Fields
  <2> HIDE DEF known
  <2>3. Changed(round, known, Settings) /\ Typed(known)
    BY <1>4, <2>1, <2>2 DEF Changed, Settings, Fields, Typed, EndInv, Shape
  <2>4. EndInv(known) /\ Stays(round, known) /\ known.session_id = round.session_id
    BY <1>4, <2>3, SettingInv
  <2>5. Stays(e, known) /\ known.session_id = e.session_id
    BY <1>4, <2>4, StaysTransitive DEF EndInv
  <2>6. EndInv(sent) /\ Stays(known, sent) /\ sent.session_id = known.session_id
    BY <2>4, SendInitKeeps
  <2> HIDE DEF sent
  <2>7. Stays(e, sent)
    BY <2>4, <2>5, <2>6, StaysTransitive DEF EndInv
  <2>8. EndInv(r) /\ Stays(e, r) /\ r.session_id = e.session_id
    BY <1>7, <2>4, <2>5, <2>6, <2>7
  <2> QED
    BY <2>8 DEF r
<1> QED
  BY <1>3, <1>5, <1>6, <1>7

--------------------------------------------------------------------------------
(* Receiving *)

\* What a message may do to the endpoint that reads it.
Received(e, m, r) ==
    /\ EndInv(r) /\ Stays(e, r)
    /\ e.session_id # <<>> => r.session_id = e.session_id
    /\ e.role = "client" /\ m.id # "ECDH_REPLY" => r.session_id = e.session_id
    /\ e.role = "client" /\ m.id = "ECDH_REPLY" =>
          \/ r.err # "none" /\ r.session_id = e.session_id
          \/ r.session_id # <<>> /\ (e.session_id = <<>> => r.session_id = m.arg.signed)

LEMMA PlainReceived ==
    ASSUME NEW e, NEW m, NEW r, EndInv(r), Stays(e, r), r.session_id = e.session_id,
           e.role = "client" /\ m.id = "ECDH_REPLY" => r.err # "none"
    PROVE  Received(e, m, r)
BY DEF Received

LEMMA HandlePacketKeeps ==
    ASSUME NEW e, EndInv(e), NEW m, MessageOK(m)
    PROVE  Received(e, m, handle_packet(e, m))
<1> DEFINE r == handle_packet(e, m)
           sunk == Fail(e, "unexpected message during strict KEX")
           late == Fail(e, "unexpected message during handshake")
           gone == [e EXCEPT !.peer_disconnected = TRUE]
           told == Deliver(e, m)
<1>0. e.role \in Roles
  BY DEF EndInv, Shape
<1>1. Stays(e, e)
  BY GrowsReflexive DEF EndInv, Stays
<1>2. EndInv(sunk) /\ Stays(e, sunk) /\ sunk.session_id = e.session_id
      /\ sunk.err = "unexpected message during strict KEX"
  BY FailKeeps
<1>3. EndInv(late) /\ Stays(e, late) /\ late.session_id = e.session_id
      /\ late.err = "unexpected message during handshake"
  BY FailKeeps
<1>4. EndInv(gone) /\ Stays(e, gone) /\ gone.session_id = e.session_id
  <2>1. DOMAIN gone = Fields /\ \A x \in Fields \ {"peer_disconnected"} : gone[x] = e[x]
    BY DEF EndInv, Shape, Fields
  <2> HIDE DEF gone
  <2>2. Changed(e, gone, Settings) /\ Typed(gone)
    BY <2>1 DEF Changed, Settings, Fields, Typed, EndInv, Shape
  <2> QED
    BY <2>2, SettingInv
<1>5. EndInv(told) /\ Stays(e, told) /\ told.session_id = e.session_id
  <2> DEFINE v == Append(e.events, m.arg)
  <2>1. told = [e EXCEPT !.consecutive_peer_rekeys = 0, !.events = v]
    BY DEF Deliver
  <2> HIDE DEF v, told
  <2>2. DOMAIN told = Fields
        /\ \A x \in Fields \ {"consecutive_peer_rekeys", "events"} : told[x] = e[x]
    BY <2>1 DEF EndInv, Shape, Fields
  <2>3. Changed(e, told, Settings) /\ Typed(told)
    BY <2>2 DEF Changed, Settings, Fields, Typed, EndInv, Shape
  <2> QED
    BY <2>3, SettingInv
<1> HIDE DEF sunk, late, gone, told
<1>6. CASE e.strict_kex /\ e.phase # "Established" /\ m.id = "IGNORE"
  <2>1. r = sunk
    BY <1>6 DEF handle_packet, sunk
  <2> QED
    BY <1>2, <1>6, <2>1, PlainReceived
<1>7. CASE ~(e.strict_kex /\ e.phase # "Established" /\ m.id = "IGNORE")
  <2>1. CASE m.id = "IGNORE"
    <3>1. r = e
      BY <1>7, <2>1 DEF handle_packet
    <3> QED
      BY <1>1, <2>1, <3>1, PlainReceived
  <2>2. CASE m.id = "DISCONNECT"
    <3>1. r = gone
      BY <1>7, <2>2 DEF handle_packet, gone
    <3> QED
      BY <1>4, <2>2, <3>1, PlainReceived
  <2>3. CASE m.id = "KEXINIT"
    <3>1. r = on_peer_kexinit(e, m)
      BY <1>7, <2>3 DEF handle_packet
    <3>2. m.arg.comp \in Seq(CompNames)
      BY <2>3 DEF MessageOK
    <3>3. EndInv(r) /\ Stays(e, r) /\ r.session_id = e.session_id
      BY <3>1, <3>2, OnPeerKexinitKeeps
    <3> QED
      BY <2>3, <3>3, PlainReceived
  <2>4. CASE m.id = "ECDH_INIT" /\ e.role = "server"
    <3>1. r = on_ecdh_init(e, m)
      BY <1>7, <2>4 DEF handle_packet
    <3>2. EndInv(r) /\ Stays(e, r) /\ (e.session_id # <<>> => r.session_id = e.session_id)
      BY <2>4, <3>1, OnEcdhInitKeeps
    <3> HIDE DEF r
    <3>3. Received(e, m, r)
      BY <2>4, <3>2 DEF Received
    <3> QED
      BY <3>3 DEF r
  <2>5. CASE m.id = "ECDH_REPLY" /\ e.role = "client"
    <3>1. r = on_ecdh_reply(e, m)
      BY <1>7, <2>5 DEF handle_packet
    <3>2. /\ EndInv(r) /\ Stays(e, r)
          /\ e.session_id # <<>> => r.session_id = e.session_id
          /\ \/ r.err # "none" /\ r.session_id = e.session_id
             \/ /\ r.session_id # <<>>
                /\ e.session_id = <<>> => r.session_id = m.arg.signed
      BY <2>5, <3>1, OnEcdhReplyKeeps
    <3> HIDE DEF r
    <3>3. Received(e, m, r)
      BY <2>5, <3>2 DEF Received
    <3> QED
      BY <3>3 DEF r
  <2>6. CASE m.id = "NEWKEYS"
    <3>1. r = on_newkeys(e)
      BY <1>7, <2>6 DEF handle_packet
    <3>2. EndInv(r) /\ Stays(e, r) /\ r.session_id = e.session_id
      BY <3>1, OnNewkeysKeeps
    <3> QED
      BY <2>6, <3>2, PlainReceived
  <2>7. CASE /\ m.id \notin {"IGNORE", "DISCONNECT", "KEXINIT", "NEWKEYS"}
             /\ ~(m.id = "ECDH_INIT" /\ e.role = "server")
             /\ ~(m.id = "ECDH_REPLY" /\ e.role = "client")
    <3>1. r = told \/ r = late
      BY <1>7, <2>7 DEF handle_packet, told, late
    <3> QED
      BY <1>3, <1>5, <2>7, <3>1, PlainReceived
  <2> QED
    BY <2>1, <2>2, <2>3, <2>4, <2>5, <2>6, <2>7
<1> QED
  BY <1>6, <1>7

\* What one iteration of the drive loop may do.
Driven(e, f, r) ==
    /\ EndInv(r) /\ r.role = e.role /\ Grows(e.tx, r.tx) /\ r.phase # "NeedPeerVersion"
    /\ e.session_id # <<>> => r.session_id = e.session_id
    /\ e.role = "client" /\ (e.phase = "NeedPeerVersion" \/ ~IsReply(f)) =>
          r.session_id = e.session_id
    /\ e.role = "client" /\ e.phase # "NeedPeerVersion" /\ IsReply(f) =>
          \/ r.err # "none" /\ r.session_id = e.session_id
          \/ r.session_id # <<>> /\ (e.session_id = <<>> => r.session_id = f.msg.arg.signed)

LEMMA DriveKeeps ==
    ASSUME NEW e, EndInv(e), NEW f, FrameOK(f)
    PROVE  Driven(e, f, drive(e, f))
<1> DEFINE n       == NextSeq(e.rx_seq)
           p       == e.rx_packets_since_rekey + 1
           opened  == [e EXCEPT !.rx_seq = n, !.rx_packets_since_rekey = p]
           c       == IF opened.comp_in = NoContext THEN opened.comp_in ELSE opened.comp_in + 1
           plain   == [opened EXCEPT !.comp_in = c]
           handled == handle_packet(plain, f.msg)
           active  == IF /\ handled.role = "client" /\ ~handled.comp_active
                         /\ handled.comp_name = "zlib"
                         /\ f.msg.id = "USERAUTH_SUCCESS"
                      THEN activate_compression(handled) ELSE handled
           r == drive(e, f)
<1>1. CASE e.phase = "NeedPeerVersion"
  <2> DEFINE a == [e EXCEPT !.phase = "Handshake"]
  <2>1. DOMAIN a = Fields /\ a.phase = "Handshake" /\ \A x \in Fields \ {"phase"} : a[x] = e[x]
    BY DEF EndInv, Shape, Fields
  <2>2. drive(e, f) = a
    BY <1>1 DEF drive
  <2> HIDE DEF a
  <2>3. /\ a.tx = e.tx /\ a.role = e.role /\ a.cipher_out = e.cipher_out /\ a.rng = e.rng
        /\ a.kex_eph = e.kex_eph /\ a.sent_newkeys = e.sent_newkeys /\ a.tx_seq = e.tx_seq
        /\ a.tx_packets_since_rekey = e.tx_packets_since_rekey /\ a.closing = e.closing
        /\ a.session_id = e.session_id /\ a.rekeying = e.rekeying
        /\ a.kexinit_sent = e.kexinit_sent /\ a.tx_app_queue = e.tx_app_queue
        /\ a.offered_compression = e.offered_compression
        /\ a.rx_seq = e.rx_seq /\ a.comp_in = e.comp_in /\ a.comp_out = e.comp_out
        /\ a.comp_name = e.comp_name /\ a.negotiated = e.negotiated /\ a.pending = e.pending
    BY <2>1 DEF Fields
  <2>4. Shape(a)
    BY <2>1, <2>3 DEF EndInv, Shape, Phases
  <2>5. NonceInv(a)
    BY <2>3 DEF EndInv, NonceInv, Used, Numbered, Span
  <2>6. SidInv(a)
    BY <2>3 DEF EndInv, SidInv
  <2>7. QuietInv(a)
    BY <2>1, <2>3 DEF EndInv, QuietInv
  <2>8. Grows(e.tx, a.tx)
    BY <2>3, GrowsReflexive DEF EndInv
  <2> QED
    BY <1>1, <2>1, <2>2, <2>3, <2>4, <2>5, <2>6, <2>7, <2>8 DEF Driven, EndInv
<1>2. CASE e.phase # "NeedPeerVersion"
  <2>1. EndInv(opened) /\ Stays(e, opened) /\ opened.session_id = e.session_id
        /\ opened.comp_in = e.comp_in
    <3>1. n \in 0..SeqSpace-1
      BY NextSeqFacts DEF EndInv, Shape
    <3> HIDE DEF n, p
    <3>2. /\ DOMAIN opened = Fields /\ opened.rx_seq = n
          /\ \A x \in Fields \ {"rx_seq", "rx_packets_since_rekey"} : opened[x] = e[x]
      BY DEF EndInv, Shape, Fields
    <3> HIDE DEF opened
    <3>3. Changed(e, opened, Settings) /\ Typed(opened)
      BY <3>1, <3>2 DEF Changed, Settings, Fields, Typed, EndInv, Shape
    <3>4. opened.comp_in = e.comp_in
      BY <3>2 DEF Fields
    <3> QED
      BY <3>3, <3>4, SettingInv
  <2>2. \/ r = Fail(e, "open") \/ r = Fail(opened, "epoch packet limit")
        \/ r = Fail(opened, "decompress")
        \/ handled.err = "none" /\ r = initiate_rekey(active)
        \/ r = active
    BY <1>2 DEF drive
  <2> HIDE DEF opened, r
  <2>3. EndInv(plain) /\ Stays(opened, plain) /\ plain.session_id = opened.session_id
    <3>1. c \in Nat
      BY <2>1, SMTT(40) DEF EndInv, Shape, NoContext
    <3> HIDE DEF c
    <3>2. /\ DOMAIN plain = Fields /\ plain.comp_in = c
          /\ \A x \in Fields \ {"comp_in"} : plain[x] = opened[x]
      BY <2>1 DEF EndInv, Shape, Fields
    <3> HIDE DEF plain
    <3>3. Changed(opened, plain, Settings) /\ Typed(plain)
      BY <2>1, <3>1, <3>2 DEF Changed, Settings, Fields, Typed, EndInv, Shape
    <3> QED
      BY <2>1, <3>3, SettingInv
  <2> HIDE DEF plain
  <2>4. Stays(e, plain) /\ plain.session_id = e.session_id /\ plain.role = e.role
    <3>1. Stays(e, plain)
      BY <2>1, <2>3, StaysTransitive DEF EndInv
    <3> QED
      BY <2>1, <2>3, <3>1 DEF Stays
  <2>5. MessageOK(f.msg)
    BY DEF FrameOK, MessageOK
  <2>6. Received(plain, f.msg, handled)
    BY <2>3, <2>5, HandlePacketKeeps
  <2> HIDE DEF handled
  <2>7. EndInv(active) /\ Stays(handled, active) /\ active.session_id = handled.session_id
        /\ (active.err = handled.err \/ ~IsReply(f))
    <3>1. CASE active = handled
      <4>1. Stays(handled, handled)
        BY <2>6, GrowsReflexive DEF Received, EndInv, Stays
      <4> QED
        BY <2>6, <3>1, <4>1 DEF Received
    <3>2. CASE active = activate_compression(handled) /\ f.msg.id = "USERAUTH_SUCCESS"
      <4> DEFINE x == NewContext(handled)
                 a == [handled EXCEPT !.comp_active = TRUE, !.comp_out = x, !.comp_in = x]
      <4>1. activate_compression(handled) = a
        BY DEF activate_compression
      <4>2. x \in Nat
        BY DEF NewContext, Fresh, NoContext
      <4>3. EndInv(handled)
        BY <2>6 DEF Received
      <4> HIDE DEF x
      <4>4. /\ DOMAIN a = Fields /\ a.comp_in = x /\ a.comp_out = x
            /\ \A y \in Fields \ {"comp_active", "comp_out", "comp_in"} : a[y] = handled[y]
        BY <4>3 DEF EndInv, Shape, Fields
      <4> HIDE DEF a
      <4>5. Changed(handled, a, Settings) /\ Typed(a)
        BY <4>2, <4>3, <4>4 DEF Changed, Settings, Fields, Typed, EndInv, Shape
      <4>6. EndInv(a) /\ Stays(handled, a) /\ a.session_id = handled.session_id
        BY <4>3, <4>5, SettingInv
      <4> QED
        BY <3>2, <4>1, <4>6 DEF IsReply
    <3> QED
      BY <3>1, <3>2
  <2> HIDE DEF active
  <2> DEFINE i == initiate_rekey(active)
  <2>8. EndInv(i) /\ Stays(active, i) /\ i.session_id = active.session_id
    BY <2>7, InitiateKeeps
  <2>9. Stays(e, handled) /\ Stays(e, active)
    <3>1. Stays(e, handled)
      BY <2>3, <2>4, <2>6, StaysTransitive DEF EndInv, Received
    <3> QED
      BY <2>6, <2>7, <3>1, StaysTransitive DEF EndInv, Received
  <2>10. Stays(e, i)
    BY <2>7, <2>8, <2>9, StaysTransitive DEF EndInv
  <2>11. ASSUME NEW x, Stays(e, x) PROVE x.phase # "NeedPeerVersion"
    BY <1>2, <2>11 DEF Stays
  <2>12. ASSUME NEW x, EndInv(x), Stays(e, x), x.session_id = handled.session_id,
                x.err = handled.err \/ handled.err = "none" \/ ~IsReply(f)
         PROVE  Driven(e, f, x)
    <3>1. x.role = e.role /\ Grows(e.tx, x.tx) /\ x.phase # "NeedPeerVersion"
      BY <2>11, <2>12 DEF Stays
    <3>2. e.session_id # <<>> => x.session_id = e.session_id
      BY <2>4, <2>6, <2>12 DEF Received
    <3>3. e.role = "client" /\ ~IsReply(f) => x.session_id = e.session_id
      BY <2>4, <2>6, <2>12 DEF Received, IsReply
    <3>4. e.role = "client" /\ IsReply(f) =>
             \/ x.err # "none" /\ x.session_id = e.session_id
             \/ x.session_id # <<>> /\ (e.session_id = <<>> => x.session_id = f.msg.arg.signed)
      <4>1. e.role = "client" /\ IsReply(f) =>
               \/ handled.err # "none" /\ handled.session_id = e.session_id
               \/ /\ handled.session_id # <<>>
                  /\ e.session_id = <<>> => handled.session_id = f.msg.arg.signed
        BY <2>4, <2>6 DEF Received, IsReply
      <4> QED
        BY <2>12, <4>1
    <3> QED
      BY <1>2, <2>12, <3>1, <3>2, <3>3, <3>4 DEF Driven
  <2>13. CASE r = active \/ (handled.err = "none" /\ r = i)
    <3> HIDE DEF i
    <3>1. Driven(e, f, active)
      BY <2>7, <2>9, <2>12
    <3>2. handled.err = "none" => Driven(e, f, i)
      BY <2>7, <2>8, <2>10, <2>12
    <3>3. Driven(e, f, r)
      BY <2>13, <3>1, <3>2
    <3> QED
      BY <3>3 DEF r
  <2>14. ASSUME NEW x, EndInv(x), Stays(e, x), x.session_id = e.session_id, NEW why, why # "none"
         PROVE  Driven(e, f, Fail(x, why))
    <3> DEFINE y == Fail(x, why)
    <3>1. EndInv(y) /\ Stays(x, y) /\ y.session_id = x.session_id /\ y.err = why
      BY <2>14, FailKeeps
    <3> HIDE DEF y
    <3>2. Stays(e, y)
      BY <2>14, <3>1, StaysTransitive DEF EndInv
    <3>3. Driven(e, f, y)
      BY <2>11, <2>14, <3>1, <3>2 DEF Driven, Stays
    <3> QED
      BY <3>3 DEF y
  <2>15. Stays(e, e)
    BY GrowsReflexive DEF EndInv, Stays
  <2>16. CASE r = Fail(e, "open")
    BY <2>14, <2>15, <2>16 DEF r
  <2>17. CASE r = Fail(opened, "epoch packet limit") \/ r = Fail(opened, "decompress")
    BY <2>1, <2>14, <2>17 DEF r
  <2> QED
    BY <2>2, <2>13, <2>16, <2>17
<1> QED
  BY <1>1, <1>2

--------------------------------------------------------------------------------
(* The pair *)

\* A new endpoint, before it writes its KEXINIT.
Blank(e, role, ciphers, compressions) ==
    /\ Calm(e) /\ e.role = role /\ e.phase = "NeedPeerVersion" /\ e.session_id = <<>>
    /\ IsSeq(e.tx) /\ Len(e.tx) = 1 /\ e.tx[1] = VersionLine
    /\ e.tx_seq = 0 /\ e.rx_seq = 0 /\ e.cipher_out = NoKey /\ e.cipher_in = NoKey
    /\ e.comp_in = NoContext /\ e.comp_out = NoContext /\ e.comp_name = "none" /\ ~e.comp_active
    /\ e.offered_ciphers = ciphers /\ e.offered_compression = compressions
    /\ ~e.closing /\ ~e.recv_newkeys /\ ~e.rekeying /\ ~e.sent_newkeys /\ ~e.pending.some
    /\ ~e.strict_kex /\ ~e.initial_kex_done /\ e.negotiated.comp = "none"
    /\ e.tx_packets_since_rekey = 0 /\ e.rx_packets_since_rekey = 0
    /\ e.consecutive_peer_rekeys = 0 /\ e.err = "none"
    /\ Len(e.tx_app_queue) = 0 /\ e.events = <<>>

LEMMA StartFrom ==
    ASSUME NEW role \in Roles, NEW ciphers, NEW compressions \in Seq(CompNames)
    PROVE  \E e : /\ start(role, ciphers, compressions) = send_kexinit(e)
                  /\ Blank(e, role, ciphers, compressions)
<1> DEFINE no == FALSE
           tx == <<VersionLine>>
           e == [role |-> role, phase |-> "NeedPeerVersion", rng |-> 0, tx |-> tx,
                 tx_seq |-> 0, rx_seq |-> 0, cipher_out |-> NoKey, cipher_in |-> NoKey,
                 comp_out |-> NoContext, comp_in |-> NoContext,
                 offered_ciphers |-> ciphers, offered_compression |-> compressions,
                 negotiated |-> NotNegotiated, comp_name |-> "none", comp_active |-> no,
                 local_kexinit |-> 0, peer_kexinit |-> 0, kex_eph |-> 0, pending |-> NoPending,
                 sent_newkeys |-> no, recv_newkeys |-> no,
                 strict_kex |-> no, initial_kex_done |-> no,
                 rekeying |-> no, kexinit_sent |-> no, tx_app_queue |-> <<>>,
                 bytes_since_rekey |-> 0, tx_packets_since_rekey |-> 0,
                 rx_packets_since_rekey |-> 0, consecutive_peer_rekeys |-> 0,
                 session_id |-> <<>>, events |-> <<>>, peer_disconnected |-> no,
                 closing |-> no, err |-> "none"]
<1>1. /\ VersionLine.key = NoKey /\ VersionLine.msg.id = "VERSION"
      /\ FrameOK(VersionLine) /\ ~IsReply(VersionLine)
  BY DEF VersionLine, Msg, FrameOK, IsReply
<1>2. IsSeq(tx) /\ Len(tx) = 1 /\ tx[1] = VersionLine
  <2> HIDE DEF VersionLine
  <2>1. tx \in Seq({VersionLine}) /\ Len(tx) = 1 /\ DOMAIN tx = 1..1 /\ tx[1] = VersionLine
    OBVIOUS
  <2> HIDE DEF tx
  <2> QED
    BY <2>1 DEF IsSeq
<1>3. start(role, ciphers, compressions) = send_kexinit(e)
  BY DEF start
<1> HIDE DEF tx
<1>4. /\ DOMAIN e = Fields /\ e.role = role /\ e.phase = "NeedPeerVersion" /\ e.rng = 0
      /\ e.tx = tx /\ e.tx_seq = 0 /\ e.rx_seq = 0 /\ e.cipher_out = NoKey
      /\ e.comp_out = NoContext /\ e.comp_in = NoContext
      /\ e.offered_compression = compressions /\ e.negotiated = NotNegotiated
      /\ e.comp_name = "none" /\ e.kex_eph = 0 /\ e.pending = NoPending
      /\ e.sent_newkeys = FALSE /\ e.rekeying = FALSE /\ e.kexinit_sent = FALSE
      /\ e.tx_app_queue = <<>> /\ e.tx_packets_since_rekey = 0 /\ e.session_id = <<>>
      /\ e.closing = FALSE
  BY DEF Fields
<1>13. /\ e.cipher_in = NoKey /\ e.offered_ciphers = ciphers /\ e.comp_active = FALSE
       /\ e.recv_newkeys = FALSE /\ e.strict_kex = FALSE /\ e.initial_kex_done = FALSE
       /\ e.rx_packets_since_rekey = 0 /\ e.consecutive_peer_rekeys = 0 /\ e.err = "none"
       /\ e.events = <<>>
  OBVIOUS
<1> HIDE DEF e
<1>5. /\ NotNegotiated.comp = "none" /\ DOMAIN NoPending = {"some", "out", "inn"}
      /\ ~NoPending.some
  <2>1. NotNegotiated.comp = "none"
    BY Zenon DEF NotNegotiated
  <2>2. DOMAIN NoPending = {"some", "out", "inn"} /\ ~NoPending.some
    BY DEF NoPending
  <2> QED
    BY <2>1, <2>2
<1>6. IsSeq(<<>>) /\ Len(<<>>) = 0
  <2>1. <<>> \in Seq({}) /\ Len(<<>>) = 0 /\ DOMAIN <<>> = 1..Len(<<>>)
    OBVIOUS
  <2> QED
    BY <2>1 DEF IsSeq
<1>7. Shape(e)
  <2>1. /\ 0 \in 0..SeqSpace-1 /\ 0 \in 0..0 /\ 0 \in 0..EpochHardPackets /\ EpochHardPackets # 0
    BY TransportAssumption
  <2>2. \A i \in 1..Len(tx) : FrameOK(tx[i])
    BY <1>1, <1>2
  <2>3. e.comp_out \in Nat /\ e.comp_in \in Nat
    BY <1>4 DEF NoContext
  <2>4. \A i \in 1..Len(e.tx_app_queue) : e.tx_app_queue[i].id \in Deferred
    BY <1>4, <1>6
  <2>5. e.comp_name \in CompNames /\ e.negotiated.comp \in CompNames
    BY <1>4, <1>5 DEF CompNames
  <2>6. /\ e.tx_seq \in 0..SeqSpace-1 /\ e.rx_seq \in 0..SeqSpace-1
        /\ e.rng \in Nat /\ e.kex_eph \in 0..e.rng
        /\ e.tx_packets_since_rekey \in 0..EpochHardPackets
        /\ e.tx_packets_since_rekey # EpochHardPackets
    BY <1>4, <2>1
  <2>7. /\ e.rekeying \in BOOLEAN /\ e.kexinit_sent \in BOOLEAN /\ e.closing \in BOOLEAN
        /\ e.sent_newkeys \in BOOLEAN /\ e.phase \in Phases /\ e.role \in Roles
    BY <1>4 DEF Phases
  <2>8. IsSeq(e.tx) /\ IsSeq(e.tx_app_queue) /\ \A i \in 1..Len(e.tx) : FrameOK(e.tx[i])
    BY <1>2, <1>4, <1>6, <2>2
  <2> QED
    BY <1>4, <1>5, <2>3, <2>4, <2>5, <2>6, <2>7, <2>8 DEF Shape
<1>8. NonceInv(e)
  <2>1. \A i \in 1..Len(tx) : tx[i].key = NoKey
    BY <1>1, <1>2
  <2> QED
    BY <1>4, <2>1 DEF NonceInv, Distinct
<1>9. SidInv(e)
  <2>1. Len(tx) >= 1 /\ \A i \in 1..Len(tx) : tx[i].key = NoKey /\ ~IsReply(tx[i])
    BY <1>1, <1>2
  <2>2. ~IsReply(tx[1])
    BY <1>1, <1>2
  <2> QED
    BY <1>4, <2>1, <2>2 DEF SidInv
<1>10. Hushed(e.tx)
  <2>1. \A i \in 1..Len(tx) : tx[i].msg.id # "KEXINIT"
    BY <1>1, <1>2
  <2> QED
    BY <1>4, <2>1 DEF Hushed
<1>11. Calm(e)
  BY <1>4, <1>7, <1>8, <1>9, <1>10 DEF Calm
<1>12. Blank(e, role, ciphers, compressions)
  BY <1>2, <1>4, <1>5, <1>6, <1>11, <1>13 DEF Blank
<1> QED
  BY <1>3, <1>12

LEMMA StartKeeps ==
    ASSUME NEW role \in Roles, NEW ciphers, NEW compressions \in Seq(CompNames)
    PROVE  LET e == start(role, ciphers, compressions)
           IN  EndInv(e) /\ e.role = role /\ e.session_id = <<>>
<1>1. PICK b : start(role, ciphers, compressions) = send_kexinit(b)
               /\ Blank(b, role, ciphers, compressions)
  BY StartFrom
<1>2. LET r == send_kexinit(b) IN EndInv(r) /\ Stays(b, r) /\ r.session_id = b.session_id
  BY <1>1, SendKexinitKeeps DEF Blank
<1> QED
  BY <1>1, <1>2 DEF Blank, Stays

CallSet == [chaff : 0..MaxChaff, rekey : 0..MaxRekeys, disconnect : 0..1]

\* What holds of each endpoint, and of how far its output is read.
EndsInv ==
    /\ DOMAIN ep = Roles /\ DOMAIN taken = Roles
    /\ \A r \in Roles : EndInv(ep[r]) /\ ep[r].role = r /\ taken[r] \in 0..Len(ep[r].tx)
    /\ accepted \in [Roles -> 0..MaxApp] /\ calls \in [Roles -> CallSet]

\* The client's session id is the one in the first reply, which it has read.
AgreedInv ==
    /\ ep["client"].phase = "NeedPeerVersion" => taken["server"] = 0
    /\ ep["client"].session_id = <<>> /\ ep["client"].err = "none" =>
          \A i \in 1..taken["server"] : ~IsReply(ep["server"].tx[i])
    /\ ep["client"].session_id # <<>> => ep["server"].session_id = ep["client"].session_id

PairInv == EndsInv /\ AgreedInv

LEMMA InitInv == Init => PairInv
<1> SUFFICES ASSUME Init PROVE PairInv
  OBVIOUS
<1> DEFINE Starts(e, r) == EndInv(e) /\ e.role = r /\ e.session_id = <<>>
<1>1. COMPRESSIONS \in Seq(CompNames) /\ Reverse(COMPRESSIONS) \in Seq(CompNames)
  <2>1. COMPRESSIONS \in Seq(CompNames) /\ Len(COMPRESSIONS) = 2
    BY DEF COMPRESSIONS, CompNames
  <2>2. \A i \in 1..2 : 2 - i + 1 \in 1..2
    OBVIOUS
  <2>3. \A i \in 1..2 : COMPRESSIONS[2 - i + 1] \in CompNames
    BY <2>1, <2>2
  <2>4. Reverse(COMPRESSIONS) = [i \in 1..2 |-> COMPRESSIONS[2 - i + 1]]
    BY <2>1 DEF Reverse
  <2>5. [i \in 1..2 |-> COMPRESSIONS[2 - i + 1]] \in [1..2 -> CompNames]
    BY <2>3
  <2>6. ASSUME NEW f \in [1..2 -> CompNames] PROVE f \in Seq(CompNames)
    BY SeqDef
  <2> QED
    BY <2>1, <2>4, <2>5, <2>6
<1>2. Starts(start("server", CIPHERS, COMPRESSIONS), "server")
  BY <1>1, StartKeeps DEF Roles
<1>3. ASSUME NEW name PROVE Starts(ClientStart(name), "client")
  <2>1. Starts(start("client", CIPHERS, COMPRESSIONS), "client")
    BY <1>1, StartKeeps DEF Roles
  <2>2. Starts(start("client", Reverse(CIPHERS), Reverse(COMPRESSIONS)), "client")
    BY <1>1, StartKeeps DEF Roles
  <2> QED
    BY <2>1, <2>2 DEF ClientStart
<1> HIDE DEF Starts
<1>4. DOMAIN ep = Roles /\ \A r \in Roles : Starts(ep[r], r)
  BY <1>2, <1>3 DEF Init, Roles
<1>5. /\ taken = [r \in Roles |-> 0] /\ accepted = [r \in Roles |-> 0]
      /\ calls = [r \in Roles |-> [chaff |-> 0, rekey |-> 0, disconnect |-> 0]]
  BY DEF Init
<1>6. [chaff |-> 0, rekey |-> 0, disconnect |-> 0] \in CallSet
  BY PairAssumption DEF CallSet
<1>7. \A r \in Roles : taken[r] \in 0..Len(ep[r].tx)
  <2>1. \A r \in Roles : Len(ep[r].tx) \in Nat
    BY <1>4, GrowsReflexive DEF Starts, EndInv
  <2> QED
    BY <1>5, <2>1
<1>8. accepted \in [Roles -> 0..MaxApp] /\ calls \in [Roles -> CallSet]
  BY <1>5, <1>6, PairAssumption
<1>9. EndsInv
  BY <1>4, <1>5, <1>7, <1>8 DEF EndsInv, Starts
<1>10. AgreedInv
  <2>1. taken["server"] = 0 /\ ep["client"].session_id = <<>>
    BY <1>4, <1>5 DEF Roles, Starts
  <2> QED
    BY <2>1 DEF AgreedInv
<1> QED
  BY <1>9, <1>10 DEF PairInv

\* One endpoint moves on, and its peer has not read more.
Moves(r, x) ==
    /\ EndInv(x) /\ Stays(ep[r], x) /\ x.session_id = ep[r].session_id
    /\ Running(r) /\ ep' = [ep EXCEPT ![r] = x] /\ taken' = taken

LEMMA MovesKeeps ==
    ASSUME PairInv, NEW r \in Roles, NEW x, Moves(r, x),
           accepted' \in [Roles -> 0..MaxApp], calls' \in [Roles -> CallSet]
    PROVE  PairInv'
<1>1. /\ DOMAIN ep = Roles /\ DOMAIN taken = Roles
      /\ \A q \in Roles : EndInv(ep[q]) /\ ep[q].role = q /\ taken[q] \in 0..Len(ep[q].tx)
  BY DEF PairInv, EndsInv
<1>2. ep'[r] = x /\ DOMAIN ep' = Roles /\ \A q \in Roles \ {r} : ep'[q] = ep[q]
  BY <1>1 DEF Moves
<1>3. /\ x.role = ep[r].role /\ Grows(ep[r].tx, x.tx) /\ x.session_id = ep[r].session_id
      /\ EndInv(x) /\ taken' = taken /\ ep[r].err = "none"
      /\ x.phase = ep[r].phase \/ x.phase = "Established"
  BY DEF Moves, Stays, Running
<1>4. \A q \in Roles : /\ ep'[q].session_id = ep[q].session_id /\ Grows(ep[q].tx, ep'[q].tx)
                       /\ ep'[q].phase = ep[q].phase \/ ep'[q].phase = "Established"
                       /\ EndInv(ep'[q]) /\ ep'[q].role = q
  <2>1. \A q \in Roles : Grows(ep[q].tx, ep[q].tx)
    BY <1>1, GrowsReflexive DEF EndInv
  <2> QED
    BY <1>1, <1>2, <1>3, <2>1
<1>5. \A q \in Roles : Len(ep[q].tx) \in Nat /\ Len(ep'[q].tx) \in Nat
  BY <1>1, <1>4, GrowsReflexive DEF EndInv
<1>6. \A q \in Roles : taken'[q] \in 0..Len(ep'[q].tx)
  BY <1>1, <1>3, <1>4, <1>5 DEF Grows
<1>7. EndsInv'
  BY <1>1, <1>2, <1>3, <1>4, <1>6 DEF EndsInv
<1>8. "client" \in Roles /\ "server" \in Roles
  BY DEF Roles
<1>9. ASSUME ep'["client"].session_id = <<>>, ep'["client"].err = "none"
      PROVE  \A i \in 1..taken["server"] : ~IsReply(ep'["server"].tx[i])
  <2>1. ep["client"].session_id = <<>>
    BY <1>4, <1>8, <1>9
  <2>2. ep["client"].err = "none"
    BY <1>2, <1>3, <1>8, <1>9
  <2>3. \A i \in 1..taken["server"] : ~IsReply(ep["server"].tx[i]) /\ i \in 1..Len(ep["server"].tx)
    BY <1>1, <1>5, <1>8, <2>1, <2>2 DEF PairInv, AgreedInv
  <2> QED
    BY <1>4, <1>8, <2>3 DEF Grows
<1>10. AgreedInv'
  <2>1. ep'["client"].phase = "NeedPeerVersion" => taken'["server"] = 0
    BY <1>3, <1>4, <1>8 DEF PairInv, AgreedInv
  <2>2. ep'["client"].session_id # <<>> => ep'["server"].session_id = ep'["client"].session_id
    BY <1>4, <1>8 DEF PairInv, AgreedInv
  <2> QED
    BY <1>3, <1>9, <2>1, <2>2 DEF AgreedInv
<1> QED
  BY <1>7, <1>10 DEF PairInv

LEMMA ReceiveKeeps ==
    ASSUME PairInv, NEW r \in Roles, Receive(r)
    PROVE  PairInv'
<1> DEFINE p == Peer(r)
           n == taken[p] + 1
           f == ep[p].tx[n]
           x == drive(ep[r], f)
<1>1. p \in Roles /\ p # r /\ \A q \in Roles : q = p \/ q = r
  BY DEF Peer, Roles
<1>2. /\ DOMAIN ep = Roles /\ DOMAIN taken = Roles
      /\ \A q \in Roles : EndInv(ep[q]) /\ ep[q].role = q /\ taken[q] \in 0..Len(ep[q].tx)
  BY DEF PairInv, EndsInv
<1>3. \A q \in Roles : Len(ep[q].tx) \in Nat /\ Grows(ep[q].tx, ep[q].tx)
  BY <1>2, GrowsReflexive DEF EndInv
<1>4. n \in 1..Len(ep[p].tx) /\ ep[r].err = "none"
  BY <1>1, <1>2, <1>3 DEF Receive, ReadNext, Running
<1>5. FrameOK(f)
  BY <1>1, <1>2, <1>4 DEF EndInv, Shape
<1>6. Driven(ep[r], f, x)
  BY <1>2, <1>5, DriveKeeps
<1>7. /\ ep' = [ep EXCEPT ![r] = x] /\ taken' = [taken EXCEPT ![p] = n]
      /\ accepted' = accepted /\ calls' = calls
  BY DEF Receive, ReadNext
<1> HIDE DEF x, p
<1>8. ep'[r] = x /\ ep'[p] = ep[p] /\ DOMAIN ep' = Roles
      /\ taken'[p] = n /\ taken'[r] = taken[r] /\ DOMAIN taken' = Roles
  BY <1>1, <1>2, <1>7
<1>9. EndInv(x) /\ x.role = r /\ Grows(ep[r].tx, x.tx)
  BY <1>2, <1>6 DEF Driven
<1>10. Len(x.tx) \in Nat
  BY <1>9, GrowsReflexive DEF EndInv
<1>11. \A q \in Roles : EndInv(ep'[q]) /\ ep'[q].role = q /\ taken'[q] \in 0..Len(ep'[q].tx)
  <2>1. taken'[p] \in 0..Len(ep'[p].tx)
    BY <1>1, <1>3, <1>4, <1>8
  <2>2. taken'[r] \in 0..Len(ep'[r].tx)
    BY <1>2, <1>3, <1>8, <1>9, <1>10 DEF Grows
  <2> QED
    BY <1>1, <1>2, <1>8, <1>9, <2>1, <2>2
<1>12. EndsInv'
  BY <1>7, <1>8, <1>11 DEF EndsInv, PairInv
<1>13. AgreedInv
  BY DEF PairInv
<1>14. CASE r = "server"
  <2>1. p = "client"
    BY <1>14 DEF p, Peer
  <2>2. ep["server"].session_id # <<>> => x.session_id = ep["server"].session_id
    BY <1>6, <1>14 DEF Driven
  <2>3. \A i \in 1..taken["server"] : i \in 1..Len(ep["server"].tx)
    BY <1>2, <1>3, <1>14
  <2>4. \A i \in 1..taken["server"] : x.tx[i] = ep["server"].tx[i]
    BY <1>9, <1>14, <2>3 DEF Grows
  <2> QED
    BY <1>8, <1>12, <1>13, <1>14, <2>1, <2>2, <2>4 DEF AgreedInv, PairInv
<1>15. CASE r = "client"
  <2>1. p = "server"
    BY <1>15 DEF p, Peer
  <2> DEFINE c == ep["client"]
             s == ep["server"]
  <2>2. ep'["client"] = x /\ ep'["server"] = s /\ taken'["server"] = n
        /\ n = taken["server"] + 1 /\ f = s.tx[n] /\ c.role = "client" /\ c.err = "none"
    BY <1>2, <1>4, <1>8, <1>15, <2>1
  <2>3. /\ x.phase # "NeedPeerVersion"
        /\ c.session_id # <<>> => x.session_id = c.session_id
        /\ (c.phase = "NeedPeerVersion" \/ ~IsReply(f)) => x.session_id = c.session_id
        /\ c.phase # "NeedPeerVersion" /\ IsReply(f) =>
              \/ x.err # "none" /\ x.session_id = c.session_id
              \/ x.session_id # <<>> /\ (c.session_id = <<>> => x.session_id = f.msg.arg.signed)
    BY <1>6, <1>15, <2>2 DEF Driven
  <2> HIDE DEF f
  <2>4. SidInv(s) /\ s.role = "server" /\ taken["server"] \in 0..Len(s.tx) /\ Len(s.tx) \in Nat
    BY <1>1, <1>2, <1>3, <2>1 DEF EndInv
  <2>5. c.phase = "NeedPeerVersion" => ~IsReply(f)
    <3>1. ~IsReply(s.tx[1])
      BY <2>4 DEF SidInv
    <3> QED
      BY <1>13, <2>2, <3>1 DEF AgreedInv
  <2>6. c.session_id = <<>> => \A i \in 1..taken["server"] : ~IsReply(s.tx[i])
    BY <1>13, <2>2 DEF AgreedInv
  <2>7. ASSUME x.session_id = <<>>, x.err = "none" PROVE \A i \in 1..n : ~IsReply(s.tx[i])
    <3>1. c.session_id = <<>>
      BY <2>3, <2>7
    <3>2. ~IsReply(f)
      BY <2>3, <2>5, <2>7
    <3>3. \A i \in 1..n : i \in 1..taken["server"] \/ i = n
      BY <2>2, <2>4
    <3> QED
      BY <2>2, <2>6, <3>1, <3>2, <3>3
  <2>8. x.session_id # <<>> => s.session_id = x.session_id
    <3>1. CASE x.session_id = c.session_id
      BY <1>13, <3>1 DEF AgreedInv
    <3>2. CASE x.session_id # c.session_id
      <4>1. IsReply(f) /\ c.session_id = <<>> /\ x.session_id = f.msg.arg.signed
        BY <2>3, <2>5, <3>2
      <4>2. n \in 1..Len(s.tx) /\ \A k \in 1..(n - 1) : k \in 1..taken["server"]
        BY <1>4, <2>1, <2>2, <2>4
      <4>3. f.msg.arg.signed = s.session_id \/ \E k \in 1..(n - 1) : IsReply(s.tx[k])
        BY <2>2, <2>4, <4>1, <4>2 DEF SidInv
      <4> QED
        BY <2>6, <4>1, <4>2, <4>3
    <3> QED
      BY <3>1, <3>2
  <2>9. AgreedInv'
    BY <2>2, <2>3, <2>7, <2>8 DEF AgreedInv
  <2> QED
    BY <1>12, <2>9 DEF PairInv
<1> QED
  BY <1>14, <1>15 DEF Roles

LEMMA NextKeeps == PairInv /\ [Next]_vars => PairInv'
<1> SUFFICES ASSUME PairInv, [Next]_vars PROVE PairInv'
  OBVIOUS
<1>0. /\ \A q \in Roles : EndInv(ep[q])
      /\ accepted \in [Roles -> 0..MaxApp] /\ calls \in [Roles -> CallSet]
      /\ MaxApp \in Nat /\ MaxChaff \in Nat /\ MaxRekeys \in Nat
  BY PairAssumption DEF PairInv, EndsInv
<1>1. ASSUME NEW r \in Roles, Receive(r) PROVE PairInv'
  BY <1>1, ReceiveKeeps
<1>2. ASSUME NEW r \in Roles, SendApp(r) PROVE PairInv'
  <2>1. PICK id \in Deferred :
           /\ Running(r) /\ ep[r].phase = "Established" /\ accepted[r] < MaxApp
           /\ accepted' = [accepted EXCEPT ![r] = @ + 1]
           /\ ep' = [ep EXCEPT ![r] = send_packet(@, Msg(id, accepted[r] + 1))]
           /\ taken' = taken /\ calls' = calls
    BY <1>2 DEF SendApp, Deferred, AppIds
  <2> DEFINE m == Msg(id, accepted[r] + 1)
             x == send_packet(ep[r], m)
  <2>2. m.id \in Deferred
    BY DEF Msg
  <2> HIDE DEF m
  <2>3. EndInv(x) /\ Stays(ep[r], x) /\ x.session_id = ep[r].session_id
    BY <1>0, <2>1, <2>2, SendPacketKeeps
  <2>4. ep' = [ep EXCEPT ![r] = x]
    BY <2>1 DEF m
  <2> HIDE DEF x
  <2>5. Moves(r, x)
    BY <2>1, <2>3, <2>4 DEF Moves
  <2>6. accepted' \in [Roles -> 0..MaxApp]
    BY <1>0, <2>1
  <2> QED
    BY <1>0, <2>1, <2>5, <2>6, MovesKeeps
<1>3. ASSUME NEW r \in Roles, send_chaff(r) PROVE PairInv'
  <2> DEFINE m == Msg("IGNORE", calls[r].chaff + 1)
             x == send_packet(ep[r], m)
  <2>1. /\ Running(r) /\ ep[r].phase = "Established" /\ calls[r].chaff < MaxChaff
        /\ calls' = [calls EXCEPT ![r].chaff = @ + 1]
        /\ ep' = [ep EXCEPT ![r] = x]
        /\ taken' = taken /\ accepted' = accepted
    BY <1>3 DEF send_chaff
  <2>2. m.id \in Deferred
    BY DEF Msg, Deferred
  <2> HIDE DEF m
  <2>3. EndInv(x) /\ Stays(ep[r], x) /\ x.session_id = ep[r].session_id
    BY <1>0, <2>1, <2>2, SendPacketKeeps
  <2> HIDE DEF x
  <2>4. Moves(r, x)
    BY <2>1, <2>3 DEF Moves
  <2>5. calls' \in [Roles -> CallSet]
    BY <1>0, <2>1 DEF CallSet
  <2> QED
    BY <1>0, <2>1, <2>4, <2>5, MovesKeeps
<1>4. ASSUME NEW r \in Roles, InitiateRekey(r) PROVE PairInv'
  <2> DEFINE x == initiate_rekey(ep[r])
  <2>1. /\ Running(r) /\ calls[r].rekey < MaxRekeys
        /\ calls' = [calls EXCEPT ![r].rekey = @ + 1]
        /\ ep' = [ep EXCEPT ![r] = x]
        /\ taken' = taken /\ accepted' = accepted
    BY <1>4 DEF InitiateRekey
  <2>2. EndInv(x) /\ Stays(ep[r], x) /\ x.session_id = ep[r].session_id
    BY <1>0, InitiateKeeps
  <2> HIDE DEF x
  <2>3. Moves(r, x)
    BY <2>1, <2>2 DEF Moves
  <2>4. calls' \in [Roles -> CallSet]
    BY <1>0, <2>1 DEF CallSet
  <2> QED
    BY <1>0, <2>1, <2>3, <2>4, MovesKeeps
<1>5. ASSUME NEW r \in Roles, Disconnect(r) PROVE PairInv'
  <2> DEFINE x == disconnect(ep[r])
  <2>1. /\ Running(r) /\ calls' = [calls EXCEPT ![r].disconnect = 1]
        /\ ep' = [ep EXCEPT ![r] = x]
        /\ taken' = taken /\ accepted' = accepted
    BY <1>5 DEF Disconnect
  <2>2. EndInv(x) /\ Stays(ep[r], x) /\ x.session_id = ep[r].session_id
    BY <1>0, DisconnectKeeps
  <2> HIDE DEF x
  <2>3. Moves(r, x)
    BY <2>1, <2>2 DEF Moves
  <2>4. calls' \in [Roles -> CallSet]
    BY <1>0, <2>1 DEF CallSet
  <2> QED
    BY <1>0, <2>1, <2>3, <2>4, MovesKeeps
<1>6. CASE UNCHANGED vars
  BY <1>6 DEF vars, PairInv, EndsInv, AgreedInv
<1> QED
  BY <1>1, <1>2, <1>3, <1>4, <1>5, <1>6 DEF Next

--------------------------------------------------------------------------------
(* Theorems *)

\* Every reachable state of the pair satisfies the inductive invariant: each
\* endpoint's types, its silence during a key exchange, the freshness of its
\* keys and numbers, and the session id both sides derive their keys from.
THEOREM TransportInvariant == Spec => []PairInv
<1>1. Init => PairInv
  BY InitInv
<1>2. PairInv /\ [Next]_vars => PairInv'
  BY NextKeeps
<1> QED
  BY <1>1, <1>2, PTL DEF Spec

\* The types of both endpoints: the phases, the wrapping sequence numbers, the
\* compression contexts and the flags of struct Transport, and the counters.
THEOREM TransportTypeCorrect == Spec => []TypeOK
<1>1. PairInv => TypeOK
  <2> SUFFICES ASSUME PairInv, NEW r \in Roles
               PROVE  /\ ep[r].role = r /\ ep[r].phase \in Phases
                      /\ ep[r].tx_seq \in 0..SeqSpace-1 /\ ep[r].rx_seq \in 0..SeqSpace-1
                      /\ ep[r].comp_out \in Nat /\ ep[r].comp_in \in Nat
                      /\ ep[r].comp_name \in {"none", "zlib"}
                      /\ ep[r].rekeying \in BOOLEAN /\ ep[r].kexinit_sent \in BOOLEAN
                      /\ ep[r].closing \in BOOLEAN
                      /\ taken[r] \in 0..Len(ep[r].tx)
                      /\ accepted[r] \in 0..MaxApp
                      /\ calls[r] \in [chaff : 0..MaxChaff, rekey : 0..MaxRekeys, disconnect : 0..1]
    BY DEF TypeOK
  <2>1. Shape(ep[r]) /\ ep[r].role = r /\ taken[r] \in 0..Len(ep[r].tx)
    BY DEF PairInv, EndsInv, EndInv
  <2>2. accepted[r] \in 0..MaxApp /\ calls[r] \in CallSet
    BY DEF PairInv, EndsInv
  <2> QED
    BY <2>1, <2>2 DEF Shape, CompNames, CallSet
<1> QED
  BY <1>1, TransportInvariant, PTL

\* Between its KEXINIT and its NEWKEYS no endpoint writes an application packet
\* or chaff (send_packet defers them, maybe_complete_kex flushes them), whatever
\* its limits are and however re-keys cross on the wire.
THEOREM SilenceDuringKex == Spec => []QuietDuringKex
<1>1. PairInv => QuietDuringKex
  <2> SUFFICES ASSUME PairInv, NEW r \in Roles PROVE Hushed(ep[r].tx)
    BY DEF QuietDuringKex, Hushed, Deferred
  <2> QED
    BY DEF PairInv, EndsInv, EndInv, QuietInv
<1> QED
  BY <1>1, TransportInvariant, PTL

\* No endpoint ever seals two frames with the same key and sequence number
\* (write_packet, send_newkeys), if two epochs' packets fit the sequence space:
\* EPOCH_HARD_PACKETS is 2^31 and the sequence number has 32 bits, so in the
\* code they fit exactly.
THEOREM NoncesNeverRepeat ==
    ASSUME Wide
    PROVE  Spec => []NonceUnique
<1>1. PairInv => NonceUnique
  <2> SUFFICES ASSUME PairInv, NEW r \in Roles PROVE Distinct(ep[r].tx)
    BY DEF NonceUnique, Distinct
  <2> QED
    BY DEF PairInv, EndsInv, EndInv, NonceInv
<1> QED
  BY <1>1, TransportInvariant, PTL

\* Both endpoints hold the same session id once the client has one, and every
\* key either of them ever sealed with is derived from it, through any number
\* of re-keys (finish_kex, on_ecdh_reply).
THEOREM SessionIdAgreed == Spec => []SessionIdAgreement
<1>1. PairInv => SessionIdAgreement
  <2> SUFFICES ASSUME PairInv PROVE SessionIdAgreement
    OBVIOUS
  <2>1. ep["client"].session_id # <<>> => ep["server"].session_id = ep["client"].session_id
    BY DEF PairInv, AgreedInv
  <2>2. ASSUME NEW r \in Roles, NEW i \in 1..Len(ep[r].tx), ep[r].tx[i].key # NoKey,
               NEW q \in Roles, ep[q].session_id # <<>>
        PROVE  ep[r].tx[i].key[3] = ep[q].session_id
    <3>1. ep[r].session_id # <<>> /\ ep[r].tx[i].key[3] = ep[r].session_id
      BY <2>2 DEF PairInv, EndsInv, EndInv, SidInv
    <3>2. ep[r].session_id = ep[q].session_id
      BY <2>1, <2>2, <3>1 DEF Roles
    <3> QED
      BY <3>1, <3>2
  <2> QED
    BY <2>1, <2>2 DEF SessionIdAgreement
<1> QED
  BY <1>1, TransportInvariant, PTL

--------------------------------------------------------------------------------
(* Sequences of messages and the packets among them *)

LEMMA SameSeq ==
    ASSUME NEW s, IsSeq(s), NEW t, IsSeq(t), Len(s) = Len(t), \A i \in 1..Len(s) : s[i] = t[i]
    PROVE  s = t
<1>1. PICK S : s \in Seq(S)
  BY DEF IsSeq
<1>2. PICK T : t \in Seq(T)
  BY DEF IsSeq
<1>3. s \in [1..Len(s) -> S] /\ t \in [1..Len(s) -> T]
  BY <1>1, <1>2
<1> QED
  BY <1>3

LEMMA ConcatFacts ==
    ASSUME NEW s, IsSeq(s), NEW t, IsSeq(t)
    PROVE  /\ IsSeq(s \o t) /\ Len(s \o t) = Len(s) + Len(t)
           /\ \A i \in 1..Len(s) : (s \o t)[i] = s[i]
           /\ \A i \in 1..Len(t) : (s \o t)[Len(s) + i] = t[i]
<1>1. PICK S : s \in Seq(S)
  BY DEF IsSeq
<1>2. PICK T : t \in Seq(T)
  BY DEF IsSeq
<1> DEFINE U == S \cup T
<1>3. s \in Seq(U) /\ t \in Seq(U)
  BY <1>1, <1>2
<1>4. Len(s) \in Nat /\ Len(t) \in Nat
  BY DEF IsSeq
<1> HIDE DEF U
<1>5. s \o t \in Seq(U) /\ Len(s \o t) = Len(s) + Len(t)
  BY <1>3
<1>6. \A i \in 1..(Len(s) + Len(t)) : (s \o t)[i] = IF i <= Len(s) THEN s[i] ELSE t[i - Len(s)]
  BY <1>3, ConcatProperties
<1>7. Len(s \o t) \in Nat /\ DOMAIN (s \o t) = 1..Len(s \o t)
  BY <1>3, <1>5
<1>8. IsSeq(s \o t)
  BY <1>5, <1>7 DEF IsSeq
<1>9. ASSUME NEW i \in 1..Len(t) PROVE (s \o t)[Len(s) + i] = t[i]
  <2>1. Len(s) + i \in 1..(Len(s) + Len(t)) /\ ~(Len(s) + i <= Len(s)) /\ Len(s) + i - Len(s) = i
    BY <1>4
  <2> QED
    BY <1>6, <2>1
<1>10. ASSUME NEW i \in 1..Len(s) PROVE (s \o t)[i] = s[i]
  <2>1. i \in 1..(Len(s) + Len(t)) /\ i <= Len(s)
    BY <1>4
  <2> QED
    BY <1>6, <2>1
<1> QED
  BY <1>5, <1>8, <1>9, <1>10

Joined(c, s, t) ==
    /\ IsSeq(c) /\ Len(c) = Len(s) + Len(t)
    /\ \A i \in 1..Len(s) : c[i] = s[i]
    /\ \A i \in 1..Len(t) : c[Len(s) + i] = t[i]

LEMMA ConcatJoins ==
    ASSUME NEW s, IsSeq(s), NEW t, IsSeq(t)
    PROVE  Joined(s \o t, s, t)
BY ConcatFacts DEF Joined

LEMMA SeqIsSeq ==
    ASSUME NEW S, NEW z \in Seq(S)
    PROVE  IsSeq(z)
<1>1. Len(z) \in Nat /\ DOMAIN z = 1..Len(z)
  OBVIOUS
<1> QED
  BY <1>1 DEF IsSeq

LEMMA EmptyIsSeq == IsSeq(<<>>)
<1>1. <<>> \in Seq({})
  OBVIOUS
<1> QED
  BY <1>1, SeqIsSeq

LEMMA SeqEmpty ==
    ASSUME NEW z, IsSeq(z), Len(z) = 0
    PROVE  z = <<>>
<1>1. PICK S : z \in Seq(S)
  BY DEF IsSeq
<1> QED
  BY <1>1

LEMMA ConcatEmpty ==
    ASSUME NEW s, IsSeq(s)
    PROVE  s \o <<>> = s /\ <<>> \o s = s
<1>1. PICK S : s \in Seq(S)
  BY DEF IsSeq
<1> QED
  BY <1>1, ConcatEmptySeq

LEMMA ConcatAppend ==
    ASSUME NEW s, IsSeq(s), NEW t, IsSeq(t), NEW m
    PROVE  s \o Append(t, m) = Append(s \o t, m)
<1>1. Len(s) \in Nat /\ Len(t) \in Nat
  BY DEF IsSeq
<1> DEFINE a == Append(t, m)
           c == s \o t
           l == s \o a
           r == Append(c, m)
<1>2. /\ IsSeq(a) /\ Len(a) = Len(t) + 1 /\ a[Len(t) + 1] = m
      /\ \A i \in 1..Len(t) : a[i] = t[i]
  BY AppendFacts
<1>3. /\ IsSeq(c) /\ Len(c) = Len(s) + Len(t)
      /\ \A i \in 1..Len(s) : c[i] = s[i]
      /\ \A i \in 1..Len(t) : c[Len(s) + i] = t[i]
  BY ConcatFacts
<1> HIDE DEF a, c
<1>4. /\ IsSeq(l) /\ Len(l) = Len(s) + Len(a)
      /\ \A i \in 1..Len(s) : l[i] = s[i]
      /\ \A i \in 1..Len(a) : l[Len(s) + i] = a[i]
  <2>1. IsSeq(a)
    BY <1>2
  <2> QED
    BY <2>1, ConcatFacts
<1>5. /\ IsSeq(r) /\ Len(r) = Len(c) + 1 /\ r[Len(c) + 1] = m
      /\ \A i \in 1..Len(c) : r[i] = c[i]
  BY <1>3, AppendFacts
<1> HIDE DEF l, r
<1>6. Len(l) = Len(r) /\ Len(l) = Len(s) + Len(t) + 1
  BY <1>1, <1>2, <1>3, <1>4, <1>5
<1>7. ASSUME NEW i \in 1..Len(l) PROVE l[i] = r[i]
  <2>1. CASE i \in 1..Len(s)
    <3>1. i \in 1..Len(c)
      BY <1>1, <1>3, <2>1
    <3> QED
      BY <1>3, <1>4, <1>5, <2>1, <3>1
  <2>2. CASE i \in (Len(s) + 1)..(Len(s) + Len(t))
    <3> DEFINE j == i - Len(s)
    <3>1. j \in 1..Len(t) /\ j \in 1..Len(a) /\ i = Len(s) + j /\ i \in 1..Len(c)
      BY <1>1, <1>2, <1>3, <2>2
    <3> HIDE DEF j
    <3> QED
      BY <1>2, <1>3, <1>4, <1>5, <3>1
  <2>3. CASE i = Len(s) + Len(t) + 1
    <3>1. Len(t) + 1 \in 1..Len(a) /\ i = Len(s) + (Len(t) + 1) /\ i = Len(c) + 1
      BY <1>1, <1>2, <1>3, <2>3
    <3> QED
      BY <1>2, <1>4, <1>5, <3>1
  <2> QED
    BY <1>1, <1>6, <2>1, <2>2, <2>3
<1>8. l = r
  BY <1>4, <1>5, <1>6, <1>7, SameSeq
<1> QED
  BY <1>8 DEF l, r, a, c

\* The packets among the first messages of s, one by one.
Gathered(a, s) == a = [i \in 0..Len(s) |-> IF i = 0 THEN <<>> ELSE WithPacket(a[i - 1], s[i])]

\* The recursion of AppArgs has a solution.
LEMMA GatherDefined ==
    ASSUME NEW s, Len(s) \in Nat
    PROVE  \E a : Gathered(a, s)
<1> DEFINE S == {n \in Nat :
                  \E a : a = [i \in 0..n |-> IF i = 0 THEN <<>> ELSE WithPacket(a[i - 1], s[i])]}
<1>1. 0 \in S
  <2> DEFINE a == [i \in 0..0 |-> <<>>]
  <2>1. a = [i \in 0..0 |-> IF i = 0 THEN <<>> ELSE WithPacket(a[i - 1], s[i])]
    OBVIOUS
  <2> QED
    BY <2>1
<1>2. ASSUME NEW n \in Nat, n \in S PROVE n + 1 \in S
  <2>1. PICK a : a = [i \in 0..n |-> IF i = 0 THEN <<>> ELSE WithPacket(a[i - 1], s[i])]
    BY <1>2
  <2> DEFINE b == [i \in 0..(n + 1) |-> IF i = n + 1 THEN WithPacket(a[n], s[n + 1]) ELSE a[i]]
  <2>2. ASSUME NEW i \in 0..(n + 1)
        PROVE  b[i] = IF i = 0 THEN <<>> ELSE WithPacket(b[i - 1], s[i])
    <3>1. CASE i = n + 1
      BY <3>1
    <3>2. CASE i \in 0..n
      BY <2>1, <3>2
    <3> QED
      BY <3>1, <3>2
  <2>3. b = [i \in 0..(n + 1) |-> IF i = 0 THEN <<>> ELSE WithPacket(b[i - 1], s[i])]
    BY <2>2
  <2> HIDE DEF b
  <2> QED
    BY <2>3
<1>3. Nat \subseteq S
  <2> HIDE DEF S
  <2> QED
    BY <1>1, <1>2, Induction
<1> QED
  BY <1>3 DEF Gathered

Chain(a, s, n) == a[0] = <<>> /\ \A i \in 1..n : a[i] = WithPacket(a[i - 1], s[i])

LEMMA GatherFacts ==
    ASSUME NEW s, Len(s) \in Nat
    PROVE  \E a : AppArgs(s) = a[Len(s)] /\ Chain(a, s, Len(s))
<1> DEFINE a == CHOOSE a : Gathered(a, s)
<1>1. Gathered(a, s)
  BY GatherDefined
<1>2. AppArgs(s) = a[Len(s)]
  BY Zenon DEF AppArgs, Gathered
<1> HIDE DEF a
<1>3. \A i \in 0..Len(s) : a[i] = IF i = 0 THEN <<>> ELSE WithPacket(a[i - 1], s[i])
  BY <1>1 DEF Gathered
<1>4. Chain(a, s, Len(s))
  BY <1>3 DEF Chain
<1> QED
  BY <1>2, <1>4

\* Two sequences that begin alike have the same packets there.
LEMMA GatherSame ==
    ASSUME NEW a, NEW s, NEW b, NEW t, NEW n \in Nat, Chain(a, s, n), Chain(b, t, n),
           \A i \in 1..n : s[i] = t[i]
    PROVE  a[n] = b[n]
<1> DEFINE S == {i \in Nat : i <= n => a[i] = b[i]}
<1>1. 0 \in S
  BY DEF Chain
<1>2. ASSUME NEW i \in Nat, i \in S PROVE i + 1 \in S
  <2> SUFFICES ASSUME i + 1 <= n PROVE a[i + 1] = b[i + 1]
    OBVIOUS
  <2>1. i + 1 \in 1..n /\ i + 1 - 1 = i /\ a[i] = b[i]
    BY <1>2
  <2> QED
    BY <2>1 DEF Chain
<1>3. Nat \subseteq S
  <2> HIDE DEF S
  <2> QED
    BY <1>1, <1>2, Induction
<1> QED
  BY <1>3

LEMMA AppsNone == AppArgs(<<>>) = <<>>
<1>1. Len(<<>>) = 0
  OBVIOUS
<1>2. PICK a : AppArgs(<<>>) = a[Len(<<>>)] /\ Chain(a, <<>>, Len(<<>>))
  BY <1>1, GatherFacts
<1> QED
  BY <1>1, <1>2 DEF Chain

LEMMA AppsAppend ==
    ASSUME NEW s, IsSeq(s), NEW m
    PROVE  AppArgs(Append(s, m)) = WithPacket(AppArgs(s), m)
<1> DEFINE t == Append(s, m)
<1>1. Len(s) \in Nat
  BY DEF IsSeq
<1>2. Len(t) = Len(s) + 1 /\ t[Len(s) + 1] = m /\ \A i \in 1..Len(s) : s[i] = t[i]
  BY AppendFacts
<1> HIDE DEF t
<1>3. PICK a : AppArgs(s) = a[Len(s)] /\ Chain(a, s, Len(s))
  BY <1>1, GatherFacts
<1>4. Len(t) \in Nat
  BY <1>1, <1>2
<1>5. PICK b : AppArgs(t) = b[Len(t)] /\ Chain(b, t, Len(t))
  BY <1>4, GatherFacts
<1>6. Chain(b, t, Len(s))
  BY <1>1, <1>2, <1>5 DEF Chain
<1>7. \A i \in 1..Len(s) : s[i] = t[i]
  BY <1>2
<1>8. a[Len(s)] = b[Len(s)]
  BY <1>1, <1>3, <1>6, <1>7, GatherSame
<1>9. Len(s) + 1 \in 1..Len(t) /\ Len(s) + 1 - 1 = Len(s)
  BY <1>1, <1>2
<1>10. b[Len(s) + 1] = WithPacket(b[Len(s)], m)
  BY <1>2, <1>5, <1>9 DEF Chain
<1>11. AppArgs(t) = WithPacket(AppArgs(s), m)
  BY <1>2, <1>3, <1>5, <1>8, <1>10
<1> QED
  BY <1>11 DEF t

LEMMA TakeLast ==
    ASSUME NEW t, IsSeq(t), NEW n \in Nat, Len(t) = n + 1
    PROVE  \E s : IsSeq(s) /\ Len(s) = n /\ t = Append(s, t[n + 1])
<1>1. PICK S : t \in Seq(S)
  BY DEF IsSeq
<1> DEFINE s == [i \in 1..n |-> t[i]]
           a == Append(s, t[n + 1])
<1>2. s \in Seq(S) /\ Len(s) = n
  <2>1. s \in [1..n -> S]
    BY <1>1
  <2> HIDE DEF s
  <2> QED
    BY <2>1
<1>3. IsSeq(s)
  <2> HIDE DEF s
  <2> QED
    BY <1>2, SeqIsSeq
<1>4. \A i \in 1..n : s[i] = t[i]
  OBVIOUS
<1> HIDE DEF s
<1>5. /\ IsSeq(a) /\ Len(a) = Len(s) + 1 /\ a[Len(s) + 1] = t[n + 1]
      /\ \A i \in 1..Len(s) : a[i] = s[i]
  BY <1>3, AppendFacts
<1> HIDE DEF a
<1>6. \A i \in 1..Len(t) : t[i] = a[i]
  BY <1>2, <1>4, <1>5
<1>7. t = a
  BY <1>2, <1>5, <1>6, SameSeq
<1> QED
  BY <1>2, <1>3, <1>7 DEF a

LEMMA WithPacketFacts ==
    ASSUME NEW a, IsSeq(a), NEW b, IsSeq(b), NEW m
    PROVE  IsSeq(WithPacket(b, m)) /\ a \o WithPacket(b, m) = WithPacket(a \o b, m)
BY AppendFacts, ConcatAppend DEF WithPacket

LEMMA AppsConcat ==
    ASSUME NEW s, IsSeq(s), NEW t, IsSeq(t)
    PROVE  IsSeq(AppArgs(t)) /\ (IsSeq(AppArgs(s)) => AppArgs(s \o t) = AppArgs(s) \o AppArgs(t))
<1> DEFINE P(u) == IsSeq(AppArgs(u)) /\ (IsSeq(AppArgs(s)) => AppArgs(s \o u) = AppArgs(s) \o AppArgs(u))
           S == {n \in Nat : \A u : IsSeq(u) /\ Len(u) = n => P(u)}
<1>1. 0 \in S
  <2> SUFFICES ASSUME NEW u, IsSeq(u), Len(u) = 0 PROVE P(u)
    OBVIOUS
  <2>1. u = <<>>
    BY SeqEmpty
  <2>2. IsSeq(AppArgs(u)) /\ AppArgs(u) = <<>>
    BY <2>1, AppsNone, EmptyIsSeq
  <2>3. s \o u = s
    BY <2>1, ConcatEmpty
  <2>4. IsSeq(AppArgs(s)) => AppArgs(s) \o AppArgs(u) = AppArgs(s)
    BY <2>2, ConcatEmpty
  <2> QED
    BY <2>2, <2>3, <2>4
<1>2. ASSUME NEW n \in Nat, n \in S PROVE n + 1 \in S
  <2> SUFFICES ASSUME NEW u, IsSeq(u), Len(u) = n + 1 PROVE P(u)
    OBVIOUS
  <2>1. PICK v : IsSeq(v) /\ Len(v) = n /\ u = Append(v, u[n + 1])
    BY TakeLast
  <2> DEFINE m == u[n + 1]
  <2>2. P(v)
    BY <1>2, <2>1
  <2>3. u = Append(v, m)
    BY <2>1
  <2> HIDE DEF m
  <2>4. AppArgs(u) = WithPacket(AppArgs(v), m)
    BY <2>1, <2>3, AppsAppend
  <2>5. s \o u = Append(s \o v, m)
    BY <2>1, <2>3, ConcatAppend
  <2>6. AppArgs(s \o u) = WithPacket(AppArgs(s \o v), m)
    BY <2>1, <2>5, ConcatFacts, AppsAppend
  <2>7. IsSeq(AppArgs(v))
    BY <2>2
  <2>8. IsSeq(AppArgs(u))
    BY <2>4, <2>7, WithPacketFacts
  <2>9. ASSUME IsSeq(AppArgs(s)) PROVE AppArgs(s \o u) = AppArgs(s) \o AppArgs(u)
    <3>1. AppArgs(s \o v) = AppArgs(s) \o AppArgs(v)
      BY <2>2, <2>9
    <3>2. AppArgs(s) \o WithPacket(AppArgs(v), m) = WithPacket(AppArgs(s) \o AppArgs(v), m)
      BY <2>7, <2>9, WithPacketFacts
    <3> QED
      BY <2>4, <2>6, <3>1, <3>2
  <2> QED
    BY <2>8, <2>9
<1>3. Nat \subseteq S
  <2> HIDE DEF S
  <2> QED
    BY <1>1, <1>2, Induction
<1>4. Len(t) \in Nat
  BY DEF IsSeq
<1> QED
  BY <1>3, <1>4

LEMMA Apps ==
    ASSUME NEW s, IsSeq(s), NEW t, IsSeq(t)
    PROVE  IsSeq(AppArgs(t)) /\ AppArgs(s \o t) = AppArgs(s) \o AppArgs(t)
<1>1. IsSeq(AppArgs(s))
  BY AppsConcat
<1> QED
  BY <1>1, AppsConcat

--------------------------------------------------------------------------------
(* What is on its way from an endpoint *)

Unread(tx, n) == [i \in 1..(Len(tx) - n) |-> tx[n + i].msg]
Queued(q, c)  == IF c THEN <<>> ELSE q

\* The packets of the output tx and the queue q behind its first n frames; a
\* closing endpoint never writes what it has queued.
Flight(tx, q, c, n) == AppArgs(Unread(tx, n) \o Queued(q, c))

LEMMA UnreadFacts ==
    ASSUME NEW tx, IsSeq(tx), NEW n \in 0..Len(tx)
    PROVE  /\ IsSeq(Unread(tx, n)) /\ Len(Unread(tx, n)) = Len(tx) - n
           /\ \A i \in 1..(Len(tx) - n) : Unread(tx, n)[i] = tx[n + i].msg
<1> DEFINE u == Unread(tx, n)
           k == Len(tx) - n
           M == {tx[n + i].msg : i \in 1..k}
<1>1. k \in Nat
  BY DEF IsSeq
<1>2. u = [i \in 1..k |-> tx[n + i].msg]
  BY DEF Unread
<1>3. \A i \in 1..k : u[i] = tx[n + i].msg
  BY <1>2
<1>4. u \in [1..k -> M]
  BY <1>2
<1> HIDE DEF u, M, k
<1>5. u \in Seq(M) /\ Len(u) = k
  BY <1>1, <1>4
<1>6. IsSeq(u)
  BY <1>5, SeqIsSeq
<1> QED
  BY <1>3, <1>5, <1>6 DEF u, k

LEMMA UnreadAppend ==
    ASSUME NEW tx, IsSeq(tx), NEW n \in 0..Len(tx), NEW f
    PROVE  Unread(Append(tx, f), n) = Append(Unread(tx, n), f.msg)
<1> DEFINE b == Append(tx, f)
           u == Unread(tx, n)
           v == Unread(b, n)
           w == Append(u, f.msg)
<1>1. Len(tx) \in Nat
  BY DEF IsSeq
<1>2. /\ IsSeq(b) /\ Len(b) = Len(tx) + 1 /\ b[Len(tx) + 1] = f
      /\ \A i \in 1..Len(tx) : b[i] = tx[i]
  BY AppendFacts
<1> HIDE DEF b
<1>3. /\ IsSeq(u) /\ Len(u) = Len(tx) - n /\ \A i \in 1..(Len(tx) - n) : u[i] = tx[n + i].msg
  BY UnreadFacts
<1>4. n \in 0..Len(b)
  BY <1>1, <1>2
<1>5. IsSeq(b)
  BY <1>2
<1>6. /\ IsSeq(v) /\ Len(v) = Len(b) - n /\ \A i \in 1..(Len(b) - n) : v[i] = b[n + i].msg
  BY <1>4, <1>5, UnreadFacts
<1> HIDE DEF u, v
<1>7. /\ IsSeq(w) /\ Len(w) = Len(u) + 1 /\ w[Len(u) + 1] = f.msg
      /\ \A i \in 1..Len(u) : w[i] = u[i]
  BY <1>3, AppendFacts
<1> HIDE DEF w
<1>8. Len(v) = Len(w)
  BY <1>1, <1>2, <1>3, <1>6, <1>7
<1>9. ASSUME NEW i \in 1..Len(v) PROVE v[i] = w[i]
  <2>1. CASE i \in 1..Len(u)
    <3>1. i \in 1..(Len(tx) - n) /\ i \in 1..(Len(b) - n) /\ n + i \in 1..Len(tx)
      BY <1>1, <1>2, <1>3, <2>1
    <3>2. v[i] = b[n + i].msg /\ b[n + i] = tx[n + i]
      BY <1>2, <1>6, <3>1
    <3>3. w[i] = u[i] /\ u[i] = tx[n + i].msg
      BY <1>3, <1>7, <2>1, <3>1
    <3> QED
      BY <3>2, <3>3
  <2>2. CASE i = Len(u) + 1
    <3>1. i \in 1..(Len(b) - n) /\ n + i = Len(tx) + 1
      BY <1>1, <1>2, <1>3, <2>2
    <3> QED
      BY <1>2, <1>6, <1>7, <2>2, <3>1
  <2>3. Len(u) \in Nat
    BY <1>3 DEF IsSeq
  <2>4. i \in 1..(Len(u) + 1)
    BY <1>7, <1>8
  <2>5. i \in 1..Len(u) \/ i = Len(u) + 1
    BY <2>3, <2>4
  <2> QED
    BY <2>1, <2>2, <2>5
<1>10. v = w
  BY <1>6, <1>7, <1>8, <1>9, SameSeq
<1> QED
  BY <1>10 DEF v, w, u, b

\* The sequence q is m and then p.
HeadOf(q, m, p) ==
    /\ IsSeq(q) /\ IsSeq(p) /\ Len(q) = Len(p) + 1 /\ q[1] = m
    /\ \A i \in 1..Len(p) : q[i + 1] = p[i]

\* The first element of a sequence, moved to the end of the one before.
Carried(u, m, p, q) == Append(u, m) \o p = u \o q

LEMMA HeadMoves ==
    ASSUME NEW u, IsSeq(u), NEW m, NEW q, NEW p, HeadOf(q, m, p)
    PROVE  Carried(u, m, p, q)
<1>1. Len(u) \in Nat /\ Len(p) \in Nat
  BY DEF IsSeq, HeadOf
<1>0. /\ IsSeq(q) /\ IsSeq(p) /\ Len(q) = Len(p) + 1 /\ q[1] = m
      /\ \A i \in 1..Len(p) : q[i + 1] = p[i]
  BY DEF HeadOf
<1> DEFINE a == Append(u, m)
           l == a \o p
           r == u \o q
<1>2. /\ IsSeq(a) /\ Len(a) = Len(u) + 1 /\ a[Len(u) + 1] = m
      /\ \A i \in 1..Len(u) : a[i] = u[i]
  BY AppendFacts
<1> HIDE DEF a
<1>3. IsSeq(a)
  BY <1>2
<1>4. /\ IsSeq(l) /\ Len(l) = Len(a) + Len(p)
      /\ \A i \in 1..Len(a) : l[i] = a[i]
      /\ \A i \in 1..Len(p) : l[Len(a) + i] = p[i]
  <2>1. IsSeq(p)
    BY <1>0
  <2>2. Joined(l, a, p)
    BY <1>3, <2>1, ConcatJoins
  <2> HIDE DEF l
  <2> QED
    BY <2>2 DEF Joined
<1>5. /\ IsSeq(r) /\ Len(r) = Len(u) + Len(q)
      /\ \A i \in 1..Len(u) : r[i] = u[i]
      /\ \A i \in 1..Len(q) : r[Len(u) + i] = q[i]
  <2>1. Joined(r, u, q)
    BY <1>0, ConcatJoins
  <2> HIDE DEF r
  <2> QED
    BY <2>1 DEF Joined
<1> HIDE DEF l, r
<1>6. Len(l) = Len(r) /\ Len(l) = Len(u) + 1 + Len(p)
  BY <1>0, <1>1, <1>2, <1>4, <1>5
<1>7. ASSUME NEW i \in 1..Len(l) PROVE l[i] = r[i]
  <2>1. CASE i \in 1..Len(u)
    <3>1. i \in 1..Len(a)
      BY <1>1, <1>2, <2>1
    <3>2. l[i] = a[i] /\ a[i] = u[i] /\ r[i] = u[i]
      BY <1>2, <1>4, <1>5, <2>1, <3>1
    <3> QED
      BY <3>2
  <2>2. CASE i = Len(u) + 1
    <3>1. i \in 1..Len(a) /\ 1 \in 1..Len(q)
      BY <1>0, <1>1, <1>2, <2>2
    <3>2. l[i] = a[i] /\ a[i] = m
      BY <1>2, <1>4, <2>2, <3>1
    <3>3. r[Len(u) + 1] = q[1]
      BY <1>5, <3>1
    <3> QED
      BY <1>0, <2>2, <3>2, <3>3
  <2>3. CASE i \in (Len(u) + 2)..(Len(u) + 1 + Len(p))
    <3> DEFINE j == i - Len(u) - 1
    <3>1. /\ j \in 1..Len(p) /\ j + 1 \in 1..Len(q) /\ i = Len(a) + j /\ i = Len(u) + (j + 1)
      BY <1>0, <1>1, <1>2, <2>3
    <3> HIDE DEF j
    <3>2. l[Len(a) + j] = p[j] /\ r[Len(u) + (j + 1)] = q[j + 1] /\ q[j + 1] = p[j]
      BY <1>0, <1>4, <1>5, <3>1
    <3> QED
      BY <3>1, <3>2
  <2>4. i \in 1..(Len(u) + 1 + Len(p))
    BY <1>6
  <2> QED
    BY <1>1, <2>1, <2>2, <2>3, <2>4
<1>8. l = r
  BY <1>4, <1>5, <1>6, <1>7, SameSeq
<1> QED
  BY <1>8, Zenon DEF l, r, a, Carried

\* The first unread frame.
LEMMA UnreadHead ==
    ASSUME NEW tx, IsSeq(tx), NEW n \in 0..(Len(tx) - 1), NEW q, IsSeq(q)
    PROVE  Unread(tx, n) \o q = Append(<<>>, tx[n + 1].msg) \o (Unread(tx, n + 1) \o q)
<1> DEFINE u == Unread(tx, n)
           v == Unread(tx, n + 1)
           a == u \o q
           b == v \o q
           m == tx[n + 1].msg
<1>1. Len(tx) \in Nat /\ Len(q) \in Nat
  BY DEF IsSeq
<1>2. n \in 0..Len(tx) /\ n + 1 \in 0..Len(tx) /\ Len(tx) - n = Len(tx) - (n + 1) + 1
  BY <1>1
<1>3. /\ IsSeq(u) /\ Len(u) = Len(tx) - n /\ \A i \in 1..(Len(tx) - n) : u[i] = tx[n + i].msg
  BY <1>2, UnreadFacts
<1>4. /\ IsSeq(v) /\ Len(v) = Len(tx) - (n + 1)
      /\ \A i \in 1..(Len(tx) - (n + 1)) : v[i] = tx[n + 1 + i].msg
  BY <1>2, UnreadFacts
<1> HIDE DEF u, v
<1>5. /\ IsSeq(a) /\ Len(a) = Len(u) + Len(q)
      /\ \A i \in 1..Len(u) : a[i] = u[i]
      /\ \A i \in 1..Len(q) : a[Len(u) + i] = q[i]
  <2>1. IsSeq(u)
    BY <1>3
  <2>2. Joined(a, u, q)
    BY <2>1, ConcatJoins
  <2> HIDE DEF a
  <2> QED
    BY <2>2 DEF Joined
<1>6. /\ IsSeq(b) /\ Len(b) = Len(v) + Len(q)
      /\ \A i \in 1..Len(v) : b[i] = v[i]
      /\ \A i \in 1..Len(q) : b[Len(v) + i] = q[i]
  <2>1. IsSeq(v)
    BY <1>4
  <2>2. Joined(b, v, q)
    BY <2>1, ConcatJoins
  <2> HIDE DEF b
  <2> QED
    BY <2>2 DEF Joined
<1> HIDE DEF a, b
<1>7. Len(u) = Len(v) + 1 /\ Len(v) \in Nat /\ Len(a) = Len(b) + 1 /\ Len(b) \in Nat
  BY <1>1, <1>2, <1>3, <1>4, <1>5, <1>6
<1>8. a[1] = m
  <2>1. 1 \in 1..Len(u) /\ 1 \in 1..(Len(tx) - n)
    BY <1>3, <1>7
  <2>2. a[1] = u[1] /\ u[1] = tx[n + 1].msg
    BY <1>3, <1>5, <2>1
  <2> QED
    BY <2>2
<1>9. ASSUME NEW i \in 1..Len(b) PROVE a[i + 1] = b[i]
  <2>1. CASE i \in 1..Len(v)
    <3>1. i + 1 \in 1..Len(u) /\ i + 1 \in 1..(Len(tx) - n) /\ n + (i + 1) = n + 1 + i
          /\ i \in 1..(Len(tx) - (n + 1))
      BY <1>1, <1>2, <1>3, <1>4, <1>7, <2>1
    <3>2. a[i + 1] = u[i + 1] /\ u[i + 1] = tx[n + (i + 1)].msg
      BY <1>3, <1>5, <3>1
    <3>3. b[i] = v[i] /\ v[i] = tx[n + 1 + i].msg
      BY <1>4, <1>6, <2>1, <3>1
    <3> QED
      BY <3>1, <3>2, <3>3
  <2>2. CASE i \in (Len(v) + 1)..(Len(v) + Len(q))
    <3> DEFINE j == i - Len(v)
    <3>1. j \in 1..Len(q) /\ i + 1 = Len(u) + j /\ i = Len(v) + j
      BY <1>1, <1>7, <2>2
    <3> HIDE DEF j
    <3>2. a[Len(u) + j] = q[j] /\ b[Len(v) + j] = q[j]
      BY <1>5, <1>6, <3>1
    <3> QED
      BY <3>1, <3>2
  <2>3. i \in 1..(Len(v) + Len(q))
    BY <1>6
  <2> QED
    BY <1>1, <1>7, <2>1, <2>2, <2>3
<1>10. Append(<<>>, m) \o b = <<>> \o a
  <2> HIDE DEF m
  <2>1. IsSeq(a) /\ IsSeq(b)
    BY <1>5, <1>6
  <2>2. HeadOf(a, m, b)
    BY <1>7, <1>8, <1>9, <2>1 DEF HeadOf
  <2> DEFINE z == <<>>
  <2>3. IsSeq(z)
    BY EmptyIsSeq
  <2> HIDE DEF z
  <2> HIDE DEF a, b
  <2>4. Carried(z, m, b, a)
    BY <2>2, <2>3, HeadMoves
  <2>5. Append(z, m) \o b = z \o a
    BY <2>4, Zenon DEF Carried
  <2> QED
    BY <2>5 DEF z
<1>11. <<>> \o a = a
  BY <1>5, ConcatEmpty
<1> QED
  BY <1>10, <1>11 DEF a, b, u, v, m

\* s is what is left of t when its end is dropped.
Cut(s, t) == \E k \in 0..Len(t) : s = SubSeq(t, 1, k)

LEMMA CutConcat ==
    ASSUME NEW s, IsSeq(s), NEW t, IsSeq(t)
    PROVE  Cut(s, s \o t)
<1> DEFINE c == s \o t
           k == Len(s)
           u == SubSeq(c, 1, k)
<1>1. Joined(c, s, t)
  BY ConcatJoins
<1> HIDE DEF c
<1>2. IsSeq(c) /\ Len(c) = Len(s) + Len(t) /\ \A i \in 1..Len(s) : c[i] = s[i]
  BY <1>1 DEF Joined
<1>3. k \in Nat /\ Len(t) \in Nat
  BY DEF IsSeq
<1>4. k \in 0..Len(c)
  BY <1>2, <1>3
<1>5. PICK S : c \in Seq(S)
  BY <1>2 DEF IsSeq
<1>6. u = [i \in 1..k |-> c[i]]
  BY <1>4, <1>5
<1>7. u \in Seq(S) /\ Len(u) = k
  <2>1. c \in [1..Len(c) -> S]
    BY <1>5
  <2>2. \A i \in 1..k : i \in 1..Len(c)
    BY <1>3, <1>4
  <2>3. \A i \in 1..k : c[i] \in S
    BY <2>1, <2>2
  <2>4. u \in [1..k -> S]
    BY <1>6, <2>3
  <2> HIDE DEF u
  <2> QED
    BY <1>3, <2>4
<1>8. \A i \in 1..k : u[i] = s[i]
  BY <1>2, <1>6
<1> HIDE DEF u
<1>9. IsSeq(u)
  BY <1>7, SeqIsSeq
<1>10. u = s
  BY <1>7, <1>8, <1>9, SameSeq
<1> QED
  BY <1>4, <1>10 DEF Cut, u, c

LEMMA CutSelf ==
    ASSUME NEW s, IsSeq(s)
    PROVE  Cut(s, s)
<1>1. Cut(s, s \o <<>>)
  BY EmptyIsSeq, CutConcat
<1> QED
  BY <1>1, ConcatEmpty

LEMMA QueuedSeq ==
    ASSUME NEW q, IsSeq(q), NEW c
    PROVE  IsSeq(Queued(q, c))
BY EmptyIsSeq DEF Queued

LEMMA FlightParts ==
    ASSUME NEW tx, IsSeq(tx), NEW q, IsSeq(q), NEW c, NEW n \in 0..Len(tx)
    PROVE  /\ Flight(tx, q, c, n) = AppArgs(Unread(tx, n)) \o AppArgs(Queued(q, c))
           /\ IsSeq(AppArgs(Unread(tx, n))) /\ IsSeq(AppArgs(Queued(q, c)))
           /\ IsSeq(Flight(tx, q, c, n))
<1> DEFINE u == Unread(tx, n)
           v == Queued(q, c)
<1>1. IsSeq(u) /\ IsSeq(v)
  BY UnreadFacts, QueuedSeq
<1> HIDE DEF u, v
<1>2. AppArgs(u \o v) = AppArgs(u) \o AppArgs(v) /\ IsSeq(AppArgs(u)) /\ IsSeq(AppArgs(v))
  BY <1>1, Apps
<1>3. IsSeq(AppArgs(u) \o AppArgs(v))
  BY <1>2, ConcatFacts
<1> QED
  BY <1>2, <1>3 DEF u, v, Flight

\* A frame that carries no packet changes nothing.
LEMMA FlightOther ==
    ASSUME NEW tx, IsSeq(tx), NEW q, IsSeq(q), NEW c, NEW n \in 0..Len(tx), NEW f, f.msg.id \notin AppIds
    PROVE  Flight(Append(tx, f), q, c, n) = Flight(tx, q, c, n)
<1> DEFINE b == Append(tx, f)
<1>1. Len(tx) \in Nat
  BY DEF IsSeq
<1>2. IsSeq(b) /\ Len(b) = Len(tx) + 1
  BY AppendFacts
<1>3. Unread(b, n) = Append(Unread(tx, n), f.msg)
  BY UnreadAppend
<1> HIDE DEF b
<1>4. n \in 0..Len(b)
  BY <1>1, <1>2
<1>5. IsSeq(Unread(tx, n))
  BY UnreadFacts
<1>6. AppArgs(Unread(b, n)) = AppArgs(Unread(tx, n))
  BY <1>3, <1>5, AppsAppend DEF WithPacket
<1>7. Flight(b, q, c, n) = AppArgs(Unread(b, n)) \o AppArgs(Queued(q, c))
  BY <1>2, <1>4, FlightParts
<1>8. Flight(tx, q, c, n) = AppArgs(Unread(tx, n)) \o AppArgs(Queued(q, c))
  BY FlightParts
<1>9. Flight(b, q, c, n) = Flight(tx, q, c, n)
  BY <1>6, <1>7, <1>8
<1> QED
  BY <1>9 DEF b

\* A packet that waits.
LEMMA FlightDefers ==
    ASSUME NEW tx, IsSeq(tx), NEW q, IsSeq(q), NEW n \in 0..Len(tx), NEW m, NEW c, ~c
    PROVE  Flight(tx, Append(q, m), c, n) = WithPacket(Flight(tx, q, c, n), m)
<1> DEFINE u == Unread(tx, n)
           a == Append(q, m)
           w == u \o q
<1>1. IsSeq(u)
  BY UnreadFacts
<1> HIDE DEF u
<1>2. u \o a = Append(w, m) /\ IsSeq(w)
  <2>1. u \o a = Append(w, m)
    BY <1>1, ConcatAppend
  <2>2. IsSeq(w)
    BY <1>1, ConcatFacts
  <2> QED
    BY <2>1, <2>2
<1> HIDE DEF a, w
<1>3. AppArgs(Append(w, m)) = WithPacket(AppArgs(w), m)
  BY <1>2, AppsAppend
<1>4. AppArgs(u \o a) = WithPacket(AppArgs(w), m)
  BY <1>2, <1>3
<1>5. Flight(tx, a, c, n) = AppArgs(u \o a) /\ Flight(tx, q, c, n) = AppArgs(w)
  BY DEF Flight, Queued, u, w
<1> QED
  BY <1>4, <1>5 DEF a

\* Without a queue closing loses nothing, and a frame is the last packet.
LEMMA FlightWrites ==
    ASSUME NEW tx, IsSeq(tx), NEW q, IsSeq(q), Len(q) = 0, NEW c, NEW d, NEW n \in 0..Len(tx), NEW f
    PROVE  /\ Flight(tx, q, c, n) = Flight(tx, q, d, n)
           /\ Flight(Append(tx, f), q, c, n) = WithPacket(Flight(tx, q, d, n), f.msg)
<1>1. q = <<>>
  BY SeqEmpty
<1>2. Queued(q, c) = <<>> /\ Queued(q, d) = <<>>
  BY <1>1 DEF Queued
<1> DEFINE b == Append(tx, f)
<1>3. Len(tx) \in Nat
  BY DEF IsSeq
<1>4. IsSeq(b) /\ Len(b) = Len(tx) + 1
  BY AppendFacts
<1>5. Unread(b, n) = Append(Unread(tx, n), f.msg)
  BY UnreadAppend
<1> HIDE DEF b
<1>6. n \in 0..Len(b)
  BY <1>3, <1>4
<1>7. IsSeq(Unread(tx, n)) /\ IsSeq(Unread(b, n))
  BY <1>4, <1>6, UnreadFacts
<1>8. Unread(tx, n) \o <<>> = Unread(tx, n) /\ Unread(b, n) \o <<>> = Unread(b, n)
  BY <1>7, ConcatEmpty
<1>9. /\ Flight(tx, q, c, n) = AppArgs(Unread(tx, n)) /\ Flight(tx, q, d, n) = AppArgs(Unread(tx, n))
      /\ Flight(b, q, c, n) = AppArgs(Unread(b, n))
  BY <1>2, <1>8 DEF Flight
<1>10. AppArgs(Unread(b, n)) = WithPacket(AppArgs(Unread(tx, n)), f.msg)
  BY <1>5, <1>7, AppsAppend
<1> QED
  BY <1>9, <1>10 DEF b

\* Closing drops the queue.
LEMMA FlightCloses ==
    ASSUME NEW tx, IsSeq(tx), NEW q, IsSeq(q), NEW n \in 0..Len(tx)
    PROVE  Cut(Flight(tx, q, TRUE, n), Flight(tx, q, FALSE, n))
<1> DEFINE u == AppArgs(Unread(tx, n))
           v == AppArgs(q)
<1>1. Queued(q, TRUE) = <<>> /\ Queued(q, FALSE) = q
  BY DEF Queued
<1>2. /\ Flight(tx, q, TRUE, n) = u \o AppArgs(<<>>) /\ Flight(tx, q, FALSE, n) = u \o v
      /\ IsSeq(u) /\ IsSeq(v)
  <2>1. Flight(tx, q, TRUE, n) = u \o AppArgs(Queued(q, TRUE)) /\ IsSeq(u)
    BY FlightParts
  <2>2. Flight(tx, q, FALSE, n) = u \o AppArgs(Queued(q, FALSE)) /\ IsSeq(AppArgs(Queued(q, FALSE)))
    BY FlightParts
  <2> QED
    BY <1>1, <2>1, <2>2
<1> HIDE DEF u, v
<1>3. u \o AppArgs(<<>>) = u
  BY <1>2, AppsNone, ConcatEmpty
<1>4. Cut(u, u \o v)
  BY <1>2, CutConcat
<1> QED
  BY <1>2, <1>3, <1>4

LEMMA FlightStops ==
    ASSUME NEW tx, IsSeq(tx), NEW q, IsSeq(q), NEW n \in 0..Len(tx),
           NEW c \in BOOLEAN, NEW d \in BOOLEAN, d => c
    PROVE  Cut(Flight(tx, q, c, n), Flight(tx, q, d, n))
<1>1. CASE c = d
  BY <1>1, FlightParts, CutSelf
<1>2. CASE c # d
  <2>1. Queued(q, c) = Queued(q, TRUE) /\ Queued(q, d) = Queued(q, FALSE)
    BY <1>2 DEF Queued
  <2>2. Flight(tx, q, c, n) = Flight(tx, q, TRUE, n) /\ Flight(tx, q, d, n) = Flight(tx, q, FALSE, n)
    BY <2>1 DEF Flight
  <2> QED
    BY <2>2, FlightCloses
<1> QED
  BY <1>1, <1>2

\* The first packet of the queue is written.
LEMMA FlightFlushes ==
    ASSUME NEW tx, IsSeq(tx), NEW n \in 0..Len(tx), NEW f, NEW q, NEW p, HeadOf(q, f.msg, p), NEW c, ~c
    PROVE  Flight(Append(tx, f), p, c, n) = Flight(tx, q, c, n)
<1> DEFINE m == f.msg
           u == Unread(tx, n)
<1>1. Unread(Append(tx, f), n) = Append(u, m)
  BY UnreadAppend
<1>2. IsSeq(u)
  BY UnreadFacts
<1>3. HeadOf(q, m, p)
  OBVIOUS
<1> HIDE DEF m, u
<1>4. Append(u, m) \o p = u \o q
  <2>1. Carried(u, m, p, q)
    BY <1>2, <1>3, HeadMoves
  <2> QED
    BY <2>1, Zenon DEF Carried
<1>5. Flight(Append(tx, f), p, c, n) = AppArgs(Append(u, m) \o p)
  BY <1>1 DEF Flight, Queued
<1>6. Flight(tx, q, c, n) = AppArgs(u \o q)
  BY DEF Flight, Queued, u
<1> QED
  BY <1>4, <1>5, <1>6

\* A frame is read.
LEMMA FlightReads ==
    ASSUME NEW tx, IsSeq(tx), NEW q, IsSeq(q), NEW c, NEW n \in 0..(Len(tx) - 1)
    PROVE  Flight(tx, q, c, n) = WithPacket(<<>>, tx[n + 1].msg) \o Flight(tx, q, c, n + 1)
<1> DEFINE m == tx[n + 1].msg
           h == Append(<<>>, m)
           v == Queued(q, c)
           w == Unread(tx, n + 1) \o v
<1>1. IsSeq(v)
  BY QueuedSeq
<1> HIDE DEF v
<1>2. Unread(tx, n) \o v = h \o w
  BY <1>1, UnreadHead
<1>3. IsSeq(h)
  BY EmptyIsSeq, AppendFacts
<1>4. n + 1 \in 0..Len(tx)
  BY DEF IsSeq
<1>5. IsSeq(w)
  BY <1>1, <1>4, UnreadFacts, ConcatFacts
<1>6. AppArgs(h) = WithPacket(<<>>, m)
  BY EmptyIsSeq, AppsAppend, AppsNone
<1> HIDE DEF h, w
<1>7. AppArgs(h \o w) = AppArgs(h) \o AppArgs(w)
  BY <1>3, <1>5, Apps
<1>8. Flight(tx, q, c, n) = AppArgs(h \o w)
  BY <1>2 DEF Flight, v
<1>9. Flight(tx, q, c, n + 1) = AppArgs(w)
  BY DEF Flight, v, w
<1> QED
  BY <1>6, <1>7, <1>8, <1>9 DEF m

--------------------------------------------------------------------------------
(* What the operations of an endpoint do to the packets on their way *)

Piped(e) ==
    /\ DOMAIN e = Fields /\ IsSeq(e.tx) /\ IsSeq(e.tx_app_queue) /\ e.closing \in BOOLEAN

\* Packets wait only while a re-key is in progress.
Drained(e) == e.closing \/ e.rekeying \/ Len(e.tx_app_queue) = 0

Ahead(e, n) == Flight(e.tx, e.tx_app_queue, e.closing, n)

\* No packet comes on its way from e to x; one that waits may be dropped if the
\* endpoint closes.
Undisturbed(e, x, n) ==
    /\ Cut(Ahead(x, n), Ahead(e, n))
    /\ (e.closing = x.closing \/ Len(e.tx_app_queue) = 0) => Ahead(x, n) = Ahead(e, n)

Flows(e, x) ==
    /\ Piped(x) /\ x.events = e.events /\ Len(e.tx) <= Len(x.tx)
    /\ (e.closing => x.closing) /\ (Drained(e) => Drained(x))
    /\ (Len(e.tx_app_queue) = 0 => Len(x.tx_app_queue) = 0)
    /\ \A n \in 0..Len(e.tx) : Undisturbed(e, x, n)

LEMMA AheadSeq ==
    ASSUME NEW e, Piped(e), NEW n \in 0..Len(e.tx)
    PROVE  IsSeq(Ahead(e, n))
BY FlightParts DEF Piped, Ahead

LEMMA FlowsSame ==
    ASSUME NEW e, Piped(e), NEW x, DOMAIN x = Fields, x.tx = e.tx, x.tx_app_queue = e.tx_app_queue,
           x.closing = e.closing, x.events = e.events, Drained(e) => Drained(x)
    PROVE  Flows(e, x)
<1>1. Piped(x) /\ Len(e.tx) \in Nat
  BY DEF Piped, IsSeq
<1>2. ASSUME NEW n \in 0..Len(e.tx) PROVE Undisturbed(e, x, n)
  <2>1. Ahead(x, n) = Ahead(e, n)
    BY DEF Ahead
  <2>2. Cut(Ahead(e, n), Ahead(e, n))
    BY AheadSeq, CutSelf
  <2> QED
    BY <2>1, <2>2 DEF Undisturbed
<1> QED
  BY <1>1, <1>2 DEF Flows

LEMMA FlowsOn ==
    ASSUME NEW e, Piped(e), NEW x, Flows(e, x), NEW y, Flows(x, y)
    PROVE  Flows(e, y)
<1>1. /\ Piped(x) /\ Piped(y) /\ e.closing \in BOOLEAN /\ x.closing \in BOOLEAN /\ y.closing \in BOOLEAN
      /\ Len(e.tx) \in Nat /\ Len(x.tx) \in Nat /\ Len(y.tx) \in Nat
  BY DEF Flows, Piped, IsSeq
<1>2. ASSUME NEW n \in 0..Len(e.tx) PROVE Undisturbed(e, y, n)
  <2>1. n \in 0..Len(x.tx)
    BY <1>1 DEF Flows
  <2>2. Undisturbed(e, x, n) /\ Undisturbed(x, y, n)
    BY <2>1 DEF Flows
  <2>3. (e.closing => x.closing) /\ (x.closing => y.closing)
    BY DEF Flows
  <2>4. Len(e.tx_app_queue) = 0 => Len(x.tx_app_queue) = 0
    BY DEF Flows
  <2> DEFINE p == Ahead(e, n)
             q == Ahead(x, n)
             r == Ahead(y, n)
  <2>5. /\ Cut(q, p) /\ Cut(r, q)
        /\ (e.closing = x.closing \/ Len(e.tx_app_queue) = 0) => q = p
        /\ (x.closing = y.closing \/ Len(x.tx_app_queue) = 0) => r = q
    BY <2>2 DEF Undisturbed
  <2> HIDE DEF p, q, r
  <2>6. Cut(r, p)
    <3>1. CASE e.closing = x.closing
      BY <2>5, <3>1
    <3>2. CASE x.closing = y.closing
      BY <2>5, <3>2
    <3> QED
      BY <1>1, <2>3, <3>1, <3>2
  <2>7. ASSUME e.closing = y.closing \/ Len(e.tx_app_queue) = 0 PROVE r = p
    <3>1. CASE e.closing = y.closing
      <4>1. e.closing = x.closing /\ x.closing = y.closing
        BY <1>1, <2>3, <3>1
      <4> QED
        BY <2>5, <4>1
    <3>2. CASE Len(e.tx_app_queue) = 0
      BY <2>4, <2>5, <3>2
    <3> QED
      BY <2>7, <3>1, <3>2
  <2> QED
    BY <2>6, <2>7 DEF Undisturbed, p, r
<1>3. Len(e.tx) <= Len(y.tx)
  BY <1>1 DEF Flows
<1> QED
  BY <1>1, <1>2, <1>3 DEF Flows

\* A frame with the message m goes out and may be the last.
Writes(e, m, w) ==
    /\ DOMAIN w = Fields /\ w.closing \in BOOLEAN /\ w.events = e.events
    /\ w.rekeying = e.rekeying /\ w.tx_app_queue = e.tx_app_queue
    /\ \E f : f.msg = m /\ w.tx = Append(e.tx, f)

LEMMA WriteWrites ==
    ASSUME NEW e, Piped(e), ~e.closing, NEW m
    PROVE  Writes(e, m, write_packet(e, m))
<1> DEFINE f == [key |-> e.cipher_out, seq |-> e.tx_seq, comp |-> e.comp_out, msg |-> m]
           q == Append(e.tx, f)
           c == IF e.comp_out = NoContext THEN e.comp_out ELSE e.comp_out + 1
           p == e.tx_packets_since_rekey + 1
           n == NextSeq(e.tx_seq)
           b == (p >= EpochHardPackets)
           s == [e EXCEPT !.tx = q, !.comp_out = c, !.tx_packets_since_rekey = p,
                          !.tx_seq = n, !.closing = b]
           a == activate_compression(s)
           w == write_packet(e, m)
<1>1. w = s \/ w = a
  BY DEF write_packet, Muted, EpochExhausted
<1>2. f.msg = m /\ b \in BOOLEAN
  OBVIOUS
<1> HIDE DEF w, f, c, p, n, b
<1>3. \E g : g.msg = m /\ q = Append(e.tx, g)
  BY <1>2
<1> HIDE DEF q
<1>4. /\ DOMAIN s = Fields /\ s.tx = q /\ s.closing = b /\ s.events = e.events
      /\ s.rekeying = e.rekeying /\ s.tx_app_queue = e.tx_app_queue
  BY DEF Fields, Piped
<1> HIDE DEF s
<1>5. /\ DOMAIN a = Fields /\ a.tx = q /\ a.closing = b /\ a.events = e.events
      /\ a.rekeying = e.rekeying /\ a.tx_app_queue = e.tx_app_queue
  BY <1>4 DEF Fields, activate_compression
<1> HIDE DEF a
<1>6. Writes(e, m, w)
  BY <1>1, <1>2, <1>3, <1>4, <1>5 DEF Writes
<1> QED
  BY <1>6 DEF w

LEMMA FlowsWrite ==
    ASSUME NEW e, Piped(e), NEW m, m.id \notin AppIds
    PROVE  Flows(e, write_packet(e, m))
<1> DEFINE w == write_packet(e, m)
<1>1. CASE e.closing
  <2>1. w = e
    BY <1>1 DEF write_packet, Muted
  <2>2. Flows(e, e)
    BY FlowsSame DEF Piped
  <2> QED
    BY <2>1, <2>2
<1>2. CASE ~e.closing
  <2>1. Writes(e, m, w)
    BY <1>2, WriteWrites
  <2> HIDE DEF w
  <2>2. PICK f : f.msg = m /\ w.tx = Append(e.tx, f)
    BY <2>1 DEF Writes
  <2>3. /\ IsSeq(e.tx) /\ IsSeq(e.tx_app_queue) /\ e.closing = FALSE /\ f.msg.id \notin AppIds
        /\ Len(e.tx) \in Nat
    BY <1>2, <2>2 DEF Piped, IsSeq
  <2>4. IsSeq(w.tx) /\ Len(w.tx) = Len(e.tx) + 1
    BY <2>2, <2>3, AppendFacts
  <2>5. Piped(w) /\ w.closing \in BOOLEAN /\ w.tx_app_queue = e.tx_app_queue
    BY <2>1, <2>3, <2>4 DEF Writes, Piped
  <2>6. ASSUME NEW n \in 0..Len(e.tx) PROVE Undisturbed(e, w, n)
    <3> DEFINE q == e.tx_app_queue
    <3>1. IsSeq(q)
      BY <2>3
    <3> HIDE DEF q
    <3> DEFINE c == w.closing
               d == e.closing
    <3>2. c \in BOOLEAN /\ d \in BOOLEAN /\ (d => c)
      BY <2>3, <2>5
    <3>3. Ahead(w, n) = Flight(w.tx, q, c, n) /\ Ahead(e, n) = Flight(e.tx, q, d, n)
      BY <2>5 DEF Ahead, q
    <3>4. Len(q) = Len(e.tx_app_queue)
      BY DEF q
    <3> HIDE DEF c, d
    <3>5. Flight(w.tx, q, c, n) = Flight(e.tx, q, c, n)
      BY <2>2, <2>3, <3>1, FlightOther
    <3>6. Cut(Flight(e.tx, q, c, n), Flight(e.tx, q, d, n))
      BY <2>3, <3>1, <3>2, FlightStops
    <3>7. Len(q) = 0 => Flight(e.tx, q, c, n) = Flight(e.tx, q, d, n)
      BY <2>3, <3>1, FlightWrites
    <3>8. c = d => Flight(e.tx, q, c, n) = Flight(e.tx, q, d, n)
      OBVIOUS
    <3> QED
      BY <3>3, <3>4, <3>5, <3>6, <3>7, <3>8 DEF Undisturbed, c, d
  <2>7. Drained(e) => Drained(w)
    BY <2>1, <2>3 DEF Writes, Drained
  <2>8. Flows(e, w)
    BY <2>1, <2>3, <2>4, <2>5, <2>6, <2>7 DEF Flows, Writes
  <2> QED
    BY <2>8 DEF w
<1> QED
  BY <1>1, <1>2

FlowFields == {"tx", "tx_app_queue", "closing", "events", "rekeying"}

LEMMA FlowsKept ==
    ASSUME NEW e, Piped(e), NEW x, DOMAIN x = Fields, \A y \in FlowFields : x[y] = e[y]
    PROVE  Flows(e, x)
<1>1. /\ x.tx = e.tx /\ x.tx_app_queue = e.tx_app_queue /\ x.closing = e.closing
      /\ x.events = e.events /\ x.rekeying = e.rekeying
  BY DEF FlowFields
<1>2. Drained(e) => Drained(x)
  BY <1>1 DEF Drained
<1> QED
  BY <1>1, <1>2, FlowsSame

\* What is left of a queue after i packets.
Rest(q, i) == [j \in 1..(Len(q) - i) |-> q[i + j]]

LEMMA RestFacts ==
    ASSUME NEW q, IsSeq(q), NEW i \in 0..Len(q)
    PROVE  /\ IsSeq(Rest(q, i)) /\ Len(Rest(q, i)) = Len(q) - i
           /\ \A j \in 1..(Len(q) - i) : Rest(q, i)[j] = q[i + j]
<1> DEFINE u == Rest(q, i)
           k == Len(q) - i
           M == {q[i + j] : j \in 1..k}
<1>1. k \in Nat
  BY DEF IsSeq
<1>2. u = [j \in 1..k |-> q[i + j]]
  BY DEF Rest
<1>3. \A j \in 1..k : u[j] = q[i + j]
  BY <1>2
<1>4. u \in [1..k -> M]
  BY <1>2
<1> HIDE DEF u, M, k
<1>5. u \in Seq(M) /\ Len(u) = k
  BY <1>1, <1>4
<1>6. IsSeq(u)
  BY <1>5, SeqIsSeq
<1> QED
  BY <1>3, <1>5, <1>6 DEF u, k

LEMMA RestBegins ==
    ASSUME NEW q, IsSeq(q), NEW i \in 0..(Len(q) - 1)
    PROVE  HeadOf(Rest(q, i), q[i + 1], Rest(q, i + 1))
<1> DEFINE a == Rest(q, i)
           b == Rest(q, i + 1)
<1>1. Len(q) \in Nat
  BY DEF IsSeq
<1>2. i \in 0..Len(q) /\ i + 1 \in 0..Len(q) /\ Len(q) - i = Len(q) - (i + 1) + 1
  BY <1>1
<1>3. IsSeq(a) /\ Len(a) = Len(q) - i /\ \A j \in 1..(Len(q) - i) : a[j] = q[i + j]
  BY <1>2, RestFacts
<1>4. IsSeq(b) /\ Len(b) = Len(q) - (i + 1) /\ \A j \in 1..(Len(q) - (i + 1)) : b[j] = q[i + 1 + j]
  BY <1>2, RestFacts
<1> HIDE DEF a, b
<1>5. Len(a) = Len(b) + 1
  BY <1>2, <1>3, <1>4
<1>6. a[1] = q[i + 1]
  BY <1>1, <1>3
<1>7. ASSUME NEW j \in 1..Len(b) PROVE a[j + 1] = b[j]
  <2>1. j \in 1..(Len(q) - (i + 1)) /\ j + 1 \in 1..(Len(q) - i) /\ i + (j + 1) = i + 1 + j
    BY <1>1, <1>4
  <2>2. b[j] = q[i + 1 + j] /\ a[j + 1] = q[i + (j + 1)]
    BY <1>3, <1>4, <2>1
  <2> QED
    BY <2>1, <2>2
<1>8. HeadOf(a, q[i + 1], b)
  BY <1>3, <1>4, <1>5, <1>6, <1>7 DEF HeadOf
<1> QED
  BY <1>8 DEF a, b

\* The endpoint x after i packets of the queue q of e have been written.
Flushing(e, x, p) ==
    /\ DOMAIN x = Fields /\ IsSeq(x.tx) /\ x.tx_app_queue = <<>> /\ x.closing \in BOOLEAN
    /\ x.events = e.events /\ Len(e.tx) <= Len(x.tx) /\ (e.closing => x.closing)
    /\ \A n \in 0..Len(e.tx) :
          /\ Cut(Flight(x.tx, p, x.closing, n), Ahead(e, n))
          /\ e.closing = x.closing => Flight(x.tx, p, x.closing, n) = Ahead(e, n)

LEMMA FlushingStarts ==
    ASSUME NEW e, Piped(e)
    PROVE  Flushing(e, [e EXCEPT !.tx_app_queue = <<>>], Rest(e.tx_app_queue, 0))
<1> DEFINE x == [e EXCEPT !.tx_app_queue = <<>>]
           q == e.tx_app_queue
           p == Rest(q, 0)
<1>1. IsSeq(q) /\ Len(q) \in Nat /\ IsSeq(e.tx) /\ Len(e.tx) \in Nat
  BY DEF Piped, IsSeq
<1>2. p = q
  <2>1. 0 \in 0..Len(q) /\ Len(q) - 0 = Len(q) /\ \A j \in 1..Len(q) : 0 + j = j
    BY <1>1
  <2>2. IsSeq(p) /\ Len(p) = Len(q) - 0 /\ \A j \in 1..(Len(q) - 0) : p[j] = q[0 + j]
    BY <1>1, <2>1, RestFacts
  <2> HIDE DEF p
  <2>3. IsSeq(p) /\ Len(p) = Len(q) /\ \A j \in 1..Len(q) : p[j] = q[j]
    BY <2>1, <2>2
  <2> HIDE DEF q
  <2> QED
    BY <1>1, <2>3, SameSeq
<1>3. /\ DOMAIN x = Fields /\ x.tx = e.tx /\ x.tx_app_queue = <<>> /\ x.closing = e.closing
      /\ x.events = e.events
  BY DEF Fields, Piped
<1> HIDE DEF x, p
<1>4. ASSUME NEW n \in 0..Len(e.tx) 
      PROVE  Flight(x.tx, p, x.closing, n) = Ahead(e, n) /\ Cut(Ahead(e, n), Ahead(e, n))
  <2>1. Flight(x.tx, p, x.closing, n) = Ahead(e, n)
    BY <1>2, <1>3 DEF Ahead
  <2> QED
    BY <2>1, AheadSeq, CutSelf
<1>5. Flushing(e, x, p)
  BY <1>1, <1>3, <1>4 DEF Flushing, Piped
<1> QED
  BY <1>5 DEF x, p, q

LEMMA FlushingGoesOn ==
    ASSUME NEW e, Piped(e), NEW x, NEW m, NEW p, NEW t, Flushing(e, x, p), HeadOf(p, m, t)
    PROVE  Flushing(e, write_packet(x, m), t)
<1> DEFINE w == write_packet(x, m)
<1>0. /\ DOMAIN x = Fields /\ IsSeq(x.tx) /\ x.tx_app_queue = <<>> /\ x.closing \in BOOLEAN
      /\ x.events = e.events /\ Len(e.tx) <= Len(x.tx) /\ (e.closing => x.closing)
      /\ Len(e.tx) \in Nat /\ Len(x.tx) \in Nat /\ e.closing \in BOOLEAN
      /\ IsSeq(p) /\ IsSeq(t)
  BY DEF Flushing, Piped, IsSeq, HeadOf
<1>1. CASE x.closing
  <2>1. w = x
    BY <1>1 DEF write_packet, Muted
  <2>2. ASSUME NEW n PROVE Flight(x.tx, t, x.closing, n) = Flight(x.tx, p, x.closing, n)
    BY <1>1 DEF Flight, Queued
  <2>3. Flushing(e, x, t)
    BY <2>2 DEF Flushing
  <2> QED
    BY <2>1, <2>3
<1>2. CASE ~x.closing
  <2>1. Piped(x)
    BY <1>0, EmptyIsSeq DEF Piped
  <2>2. Writes(x, m, w)
    BY <1>2, <2>1, WriteWrites
  <2> HIDE DEF w
  <2>3. PICK f : f.msg = m /\ w.tx = Append(x.tx, f)
    BY <2>2 DEF Writes
  <2>4. IsSeq(w.tx) /\ Len(w.tx) = Len(x.tx) + 1
    BY <1>0, <2>3, AppendFacts
  <2>5. ASSUME NEW n \in 0..Len(e.tx)
        PROVE  /\ Cut(Flight(w.tx, t, w.closing, n), Ahead(e, n))
               /\ e.closing = w.closing => Flight(w.tx, t, w.closing, n) = Ahead(e, n)
    <3>1. n \in 0..Len(x.tx) /\ n \in 0..Len(w.tx)
      BY <1>0, <2>4
    <3>2. e.closing = x.closing
      BY <1>0, <1>2
    <3>3. Flight(x.tx, p, x.closing, n) = Ahead(e, n)
      BY <3>2 DEF Flushing
    <3>5. HeadOf(p, f.msg, t)
      BY <2>3
    <3>6. IsSeq(x.tx)
      BY <1>0
    <3>7. Flight(Append(x.tx, f), t, x.closing, n) = Flight(x.tx, p, x.closing, n)
      BY <1>2, <3>1, <3>5, <3>6, FlightFlushes
    <3>8. Flight(w.tx, t, x.closing, n) = Ahead(e, n)
      BY <2>3, <3>3, <3>7
    <3> DEFINE c == w.closing
               d == x.closing
    <3>9. c \in BOOLEAN /\ d \in BOOLEAN /\ (d => c)
      BY <1>0, <1>2, <2>2 DEF Writes
    <3>10. IsSeq(w.tx) /\ IsSeq(t)
      BY <1>0, <2>4
    <3>11. Flight(w.tx, t, d, n) = Ahead(e, n) /\ e.closing = d
      BY <3>2, <3>8
    <3> HIDE DEF c, d
    <3>12. Cut(Flight(w.tx, t, c, n), Flight(w.tx, t, d, n))
      BY <3>1, <3>9, <3>10, FlightStops
    <3>13. Cut(Flight(w.tx, t, c, n), Ahead(e, n)) /\ (e.closing = c => Flight(w.tx, t, c, n) = Ahead(e, n))
      BY <3>11, <3>12
    <3> QED
      BY <3>13 DEF c
  <2>6. /\ DOMAIN w = Fields /\ w.tx_app_queue = <<>> /\ w.closing \in BOOLEAN /\ w.events = e.events
        /\ Len(e.tx) <= Len(w.tx) /\ (e.closing => w.closing)
    BY <1>0, <1>2, <2>2, <2>4 DEF Writes
  <2>7. Flushing(e, w, t)
    BY <2>4, <2>5, <2>6 DEF Flushing
  <2> QED
    BY <2>7 DEF w
<1> QED
  BY <1>0, <1>1, <1>2

LEMMA FlowsFlush ==
    ASSUME NEW e, Piped(e)
    PROVE  Flows(e, FlushQueue(e)) /\ Len(FlushQueue(e).tx_app_queue) = 0
<1> DEFINE q == e.tx_app_queue
           b == [e EXCEPT !.tx_app_queue = <<>>]
           x == FlushQueue(e)
<1>1. IsSeq(q) /\ Len(q) \in Nat /\ Len(e.tx) \in Nat
  BY DEF Piped, IsSeq
<1>2. Flushing(e, b, Rest(q, 0))
  BY FlushingStarts
<1>3. PICK w : /\ \A i \in 0..Len(q) : w[i] = IF i = 0 THEN b ELSE write_packet(w[i - 1], q[i])
               /\ x = w[Len(q)]
  <2> DEFINE v == CHOOSE v : Flushed(v, b, q)
  <2>1. Flushed(v, b, q)
    BY <1>1, FlushDefined
  <2>2. \A i \in 0..Len(q) : v[i] = IF i = 0 THEN b ELSE write_packet(v[i - 1], q[i])
    <3> HIDE DEF v, b, q
    <3> QED
      BY <2>1 DEF Flushed
  <2>3. x = v[Len(q)]
    BY Zenon DEF FlushQueue, Flushed
  <2> HIDE DEF v, b, q, x
  <2> QED
    BY <2>2, <2>3
<1>4. /\ DOMAIN b = Fields /\ b.tx = e.tx /\ b.tx_app_queue = <<>> /\ b.closing = e.closing
      /\ b.events = e.events /\ b.rekeying = e.rekeying
  BY DEF Fields, Piped
<1> HIDE DEF b, x
<1>5. CASE Len(q) = 0
  <2>1. q = <<>>
    BY <1>1, <1>5, SeqEmpty
  <2>2. x = b
    BY <1>3, <1>5
  <2>3. Drained(e) => Drained(b)
    BY <1>4, <2>1 DEF Drained
  <2>4. Flows(e, b)
    BY <1>4, <2>1, <2>3, FlowsSame
  <2>5. Len(x.tx_app_queue) = 0
    BY <1>4, <2>2
  <2> QED
    BY <2>2, <2>4, <2>5 DEF x
<1> HIDE DEF q
<1>6. CASE Len(q) # 0
  <2> DEFINE S == {i \in Nat : i <= Len(q) => Flushing(e, w[i], Rest(q, i))}
  <2>1. 0 \in S
    BY <1>1, <1>2, <1>3
  <2>2. ASSUME NEW i \in Nat, i \in S PROVE i + 1 \in S
    <3> SUFFICES ASSUME i + 1 <= Len(q) PROVE Flushing(e, w[i + 1], Rest(q, i + 1))
      OBVIOUS
    <3>1. i + 1 \in 0..Len(q) /\ i + 1 # 0 /\ i + 1 - 1 = i /\ i <= Len(q) /\ i \in 0..(Len(q) - 1)
      BY <1>1
    <3>2. w[i + 1] = write_packet(w[i], q[i + 1]) /\ Flushing(e, w[i], Rest(q, i))
      BY <1>3, <2>2, <3>1
    <3>3. HeadOf(Rest(q, i), q[i + 1], Rest(q, i + 1))
      BY <1>1, <3>1, RestBegins
    <3> QED
      BY <3>2, <3>3, FlushingGoesOn
  <2>3. Len(q) \in S
    <3> HIDE DEF S
    <3>1. Nat \subseteq S
      BY <2>1, <2>2, Induction
    <3> QED
      BY <1>1, <3>1
  <2> DEFINE p == Rest(q, Len(q))
  <2>4. Flushing(e, x, p)
    BY <1>1, <1>3, <2>3
  <2>5. p = <<>>
    <3>1. Len(q) \in 0..Len(q) /\ Len(q) - Len(q) = 0
      BY <1>1
    <3>2. IsSeq(p) /\ Len(p) = 0
      BY <1>1, <3>1, RestFacts
    <3> HIDE DEF p
    <3> QED
      BY <3>2, SeqEmpty
  <2> HIDE DEF p
  <2>6. Piped(x) /\ x.tx_app_queue = <<>>
    BY <2>4, EmptyIsSeq DEF Flushing, Piped
  <2>7. Drained(x) /\ Len(x.tx_app_queue) = 0
    BY <2>6 DEF Drained
  <2>8. ASSUME NEW n \in 0..Len(e.tx) PROVE Undisturbed(e, x, n)
    <3>1. Ahead(x, n) = Flight(x.tx, p, x.closing, n)
      BY <2>5, <2>6 DEF Ahead
    <3>2. Cut(Ahead(x, n), Ahead(e, n)) /\ (e.closing = x.closing => Ahead(x, n) = Ahead(e, n))
      BY <2>4, <3>1 DEF Flushing
    <3> QED
      BY <1>6, <3>2 DEF Undisturbed, q
  <2>9. Flows(e, x)
    BY <1>6, <2>4, <2>6, <2>7, <2>8 DEF Flows, Flushing
  <2> QED
    BY <2>7, <2>9 DEF x
<1> QED
  BY <1>5, <1>6 DEF q

\* The endpoint b differs from e in other fields and in rekeying.
LEMMA FlowsAlso ==
    ASSUME NEW e, Piped(e), NEW b, b.tx = e.tx, b.tx_app_queue = e.tx_app_queue, b.closing = e.closing,
           b.events = e.events, NEW x, Flows(b, x), Drained(x)
    PROVE  Flows(e, x)
<1>1. \A n \in 0..Len(e.tx) : Undisturbed(b, x, n)
  BY DEF Flows
<1>2. \A n \in 0..Len(e.tx) : Ahead(b, n) = Ahead(e, n)
  BY DEF Ahead
<1>3. \A n \in 0..Len(e.tx) : Undisturbed(e, x, n)
  BY <1>1, <1>2 DEF Undisturbed
<1> QED
  BY <1>3 DEF Flows

LEMMA FlowsKexinit ==
    ASSUME NEW e, Piped(e)
    PROVE  Flows(e, send_kexinit(e)) /\ (e.rekeying => send_kexinit(e).rekeying)
<1> DEFINE ki == ours_with(e.role, e.rng + 1, e.offered_ciphers, e.offered_compression)
           m == Msg("KEXINIT", ki)
           n == ki.cookie
           a == [e EXCEPT !.rng = n]
           w == write_packet(a, m)
           r == [w EXCEPT !.local_kexinit = n, !.kexinit_sent = TRUE]
<1>1. send_kexinit(e) = r
  BY DEF send_kexinit
<1>2. m.id \notin AppIds
  BY DEF Msg, AppIds
<1> HIDE DEF m, n
<1>3. DOMAIN a = Fields /\ \A x \in FlowFields : a[x] = e[x]
  BY DEF Piped, Fields, FlowFields
<1> HIDE DEF a
<1>4. Flows(e, a) /\ Piped(a)
  BY <1>3, FlowsKept DEF Flows
<1>5. Flows(a, w)
  BY <1>2, <1>4, FlowsWrite
<1>6. w.rekeying = a.rekeying
  <2>1. CASE a.closing
    BY <2>1 DEF write_packet, Muted
  <2>2. CASE ~a.closing
    <3>1. Writes(a, m, w)
      BY <1>4, <2>2, WriteWrites
    <3> HIDE DEF w
    <3> QED
      BY <3>1 DEF Writes
  <2> QED
    BY <2>1, <2>2
<1> HIDE DEF w
<1>7. Flows(e, w) /\ Piped(w)
  BY <1>4, <1>5, FlowsOn DEF Flows
<1>8. DOMAIN r = Fields /\ \A x \in FlowFields : r[x] = w[x]
  BY <1>7 DEF Piped, Fields, FlowFields
<1> HIDE DEF r
<1>9. Flows(w, r)
  BY <1>7, <1>8, FlowsKept
<1>10. r.rekeying = e.rekeying
  BY <1>3, <1>6, <1>8 DEF FlowFields
<1> QED
  BY <1>1, <1>7, <1>9, <1>10, FlowsOn

LEMMA FlowsBegin ==
    ASSUME NEW e, Piped(e)
    PROVE  Flows(e, begin_rekey_round(e))
<1> DEFINE a == [e EXCEPT !.rekeying = TRUE,
                          !.sent_newkeys = FALSE, !.recv_newkeys = FALSE,
                          !.negotiated = NotNegotiated,
                          !.peer_kexinit = 0, !.kex_eph = 0]
<1>1. begin_rekey_round(e) = send_kexinit(a)
  BY DEF begin_rekey_round
<1>2. DOMAIN a = Fields /\ a.rekeying /\ \A x \in FlowFields \ {"rekeying"} : a[x] = e[x]
  BY DEF Piped, Fields, FlowFields
<1> HIDE DEF a
<1>3. a.tx = e.tx /\ a.tx_app_queue = e.tx_app_queue /\ a.closing = e.closing /\ a.events = e.events
  BY <1>2 DEF FlowFields
<1>4. Flows(e, a) /\ Piped(a)
  BY <1>2, <1>3, FlowsSame DEF Flows, Drained
<1> QED
  BY <1>1, <1>4, FlowsKexinit, FlowsOn

LEMMA FlowsItself ==
    ASSUME NEW e, Piped(e)
    PROVE  Flows(e, e)
BY FlowsSame DEF Piped

LEMMA FlowsInitiate ==
    ASSUME NEW e, Piped(e)
    PROVE  Flows(e, initiate_rekey(e))
BY FlowsBegin, FlowsItself DEF initiate_rekey

\* The endpoint closes.
LEMMA FlowsStop ==
    ASSUME NEW e, Piped(e), NEW x, DOMAIN x = Fields, x.tx = e.tx, x.tx_app_queue = e.tx_app_queue,
           x.events = e.events, x.closing \in BOOLEAN, x.closing
    PROVE  Flows(e, x)
<1>1. Piped(x) /\ Len(e.tx) \in Nat /\ IsSeq(e.tx) /\ Drained(x)
  BY DEF Piped, IsSeq, Drained
<1>2. ASSUME NEW n \in 0..Len(e.tx) PROVE Undisturbed(e, x, n)
  <2> DEFINE q == e.tx_app_queue
             c == x.closing
             d == e.closing
  <2>1. IsSeq(q) /\ c \in BOOLEAN /\ d \in BOOLEAN /\ (d => c)
    BY DEF Piped
  <2>2. Ahead(x, n) = Flight(e.tx, q, c, n) /\ Ahead(e, n) = Flight(e.tx, q, d, n)
    BY DEF Ahead
  <2>3. Len(q) = Len(e.tx_app_queue)
    OBVIOUS
  <2>4. c = x.closing /\ d = e.closing
    OBVIOUS
  <2> HIDE DEF q, c, d
  <2>5. Cut(Flight(e.tx, q, c, n), Flight(e.tx, q, d, n))
    BY <1>1, <2>1, FlightStops
  <2>6. Len(q) = 0 => Flight(e.tx, q, c, n) = Flight(e.tx, q, d, n)
    BY <1>1, <2>1, FlightWrites
  <2> QED
    BY <2>2, <2>3, <2>4, <2>5, <2>6 DEF Undisturbed
<1> QED
  BY <1>1, <1>2 DEF Flows

LEMMA FlowsDisconnect ==
    ASSUME NEW e, Piped(e)
    PROVE  Flows(e, disconnect(e))
<1> DEFINE m == Msg("DISCONNECT", 0)
           w == write_packet(e, m)
           r == [w EXCEPT !.closing = TRUE]
<1>1. disconnect(e) = e \/ disconnect(e) = r
  BY DEF disconnect
<1>2. m.id \notin AppIds
  BY DEF Msg, AppIds
<1> HIDE DEF m
<1>3. Flows(e, w) /\ Piped(w)
  BY <1>2, FlowsWrite DEF Flows
<1> HIDE DEF w
<1>4. /\ DOMAIN r = Fields /\ r.tx = w.tx /\ r.tx_app_queue = w.tx_app_queue /\ r.events = w.events
      /\ r.closing
  BY <1>3 DEF Piped, Fields
<1>5. r.closing \in BOOLEAN
  BY <1>3 DEF Piped, Fields
<1> HIDE DEF r
<1>6. Flows(w, r)
  BY <1>3, <1>4, <1>5, FlowsStop
<1> QED
  BY <1>1, <1>3, <1>6, FlowsOn, FlowsItself

LEMMA FlowsComplete ==
    ASSUME NEW e, Piped(e)
    PROVE  Flows(e, maybe_complete_kex(e))
<1> DEFINE a == [e EXCEPT !.pending = NoPending, !.initial_kex_done = TRUE, !.phase = "Established"]
           b == EndRound(a)
           x == FlushQueue(b)
<1>1. maybe_complete_kex(e) = e \/ maybe_complete_kex(e) = x
  BY DEF maybe_complete_kex
<1>2. DOMAIN a = Fields /\ \A y \in FlowFields : a[y] = e[y]
  BY DEF Piped, Fields, FlowFields
<1> HIDE DEF a
<1>3. DOMAIN b = Fields /\ \A y \in FlowFields \ {"rekeying"} : b[y] = a[y]
  BY <1>2 DEF Fields, FlowFields, EndRound
<1> HIDE DEF b
<1>4. b.tx = e.tx /\ b.tx_app_queue = e.tx_app_queue /\ b.closing = e.closing /\ b.events = e.events
  BY <1>2, <1>3 DEF FlowFields
<1>5. Piped(b)
  BY <1>3, <1>4 DEF Piped
<1>6. Flows(b, x) /\ Drained(x)
  BY <1>5, FlowsFlush DEF Drained
<1> HIDE DEF x
<1> QED
  BY <1>1, <1>4, <1>6, FlowsAlso, FlowsItself

LEMMA FlowsFinish ==
    ASSUME NEW e, Piped(e), NEW h
    PROVE  Flows(e, finish_kex(e, h))
<1> DEFINE sid == SessionId(e, h)
           c2s == <<"c2s", h, sid, e.negotiated.cipher>>
           s2c == <<"s2c", h, sid, e.negotiated.cipher>>
           p == IF e.role = "client" THEN [some |-> TRUE, out |-> c2s, inn |-> s2c]
                                     ELSE [some |-> TRUE, out |-> s2c, inn |-> c2s]
           n == e.negotiated.comp
           r == [e EXCEPT !.session_id = sid, !.pending = p, !.comp_name = n]
<1>1. finish_kex(e, h) = r
  BY DEF finish_kex
<1> HIDE DEF p, sid, n
<1>2. DOMAIN r = Fields /\ \A x \in FlowFields : r[x] = e[x]
  BY DEF Piped, Fields, FlowFields
<1> HIDE DEF r
<1> QED
  BY <1>1, <1>2, FlowsKept

LEMMA FlowsSendNewkeys ==
    ASSUME NEW e, Piped(e)
    PROVE  Flows(e, send_newkeys(e))
<1> DEFINE m == Msg("NEWKEYS", 0)
           w == write_packet(e, m)
           k == NewOutKey(w)
           c == NewOutContext(w)
           n == SeqAfterNewkeys(w)
           r == [w EXCEPT !.cipher_out = k, !.pending.out = NoKey, !.comp_out = c,
                          !.tx_seq = n, !.sent_newkeys = TRUE]
<1>1. send_newkeys(e) = maybe_complete_kex(r)
  BY DEF send_newkeys
<1>2. m.id \notin AppIds
  BY DEF Msg, AppIds
<1> HIDE DEF m
<1>3. Flows(e, w) /\ Piped(w)
  BY <1>2, FlowsWrite DEF Flows
<1> HIDE DEF w, k, c, n
<1>4. DOMAIN r = Fields /\ \A x \in FlowFields : r[x] = w[x]
  BY <1>3 DEF Piped, Fields, FlowFields
<1> HIDE DEF r
<1>5. Flows(w, r)
  BY <1>3, <1>4, FlowsKept
<1>6. Flows(e, r) /\ Piped(r)
  BY <1>3, <1>5, FlowsOn DEF Flows
<1> QED
  BY <1>1, <1>6, FlowsComplete, FlowsOn

LEMMA FlowsFail ==
    ASSUME NEW e, Piped(e), NEW why
    PROVE  Flows(e, Fail(e, why))
<1> DEFINE r == Fail(e, why)
<1>1. DOMAIN r = Fields /\ \A x \in FlowFields : r[x] = e[x]
  BY DEF Fail, Piped, Fields, FlowFields
<1> HIDE DEF r
<1>2. Flows(e, r)
  BY <1>1, FlowsKept
<1> QED
  BY <1>2 DEF r

LEMMA FlowsOnNewkeys ==
    ASSUME NEW e, Piped(e)
    PROVE  Flows(e, on_newkeys(e))
<1> DEFINE k == e.pending.inn
           c == IF e.comp_active THEN NewContext(e) ELSE e.comp_in
           n == IF e.strict_kex THEN 0 ELSE e.rx_seq
           r == [e EXCEPT !.cipher_in = k, !.pending.inn = NoKey, !.comp_in = c,
                          !.rx_seq = n, !.recv_newkeys = TRUE]
           f == Fail(e, "NEWKEYS before key exchange")
<1>1. on_newkeys(e) = f \/ on_newkeys(e) = maybe_complete_kex(r)
  BY DEF on_newkeys
<1>2. Flows(e, f)
  BY FlowsFail
<1> HIDE DEF k, c, n, f
<1>3. DOMAIN r = Fields /\ \A x \in FlowFields : r[x] = e[x]
  BY DEF Piped, Fields, FlowFields
<1> HIDE DEF r
<1>4. Flows(e, r) /\ Piped(r)
  BY <1>3, FlowsKept DEF Flows
<1>5. Flows(e, maybe_complete_kex(r))
  BY <1>4, FlowsComplete, FlowsOn
<1> QED
  BY <1>1, <1>2, <1>5

LEMMA FlowsOnKexinit ==
    ASSUME NEW e, Piped(e), NEW m
    PROVE  Flows(e, on_peer_kexinit(e, m))
<1> DEFINE n       == e.consecutive_peer_rekeys + 1
           counted == [e EXCEPT !.consecutive_peer_rekeys = n]
           idle    == PeerBegins(e)
           round   == IF idle THEN begin_rekey_round(counted) ELSE e
           local   == ours_with(e.role, round.local_kexinit, e.offered_ciphers, e.offered_compression)
           agreed  == Agreed(e.role, local, m.arg)
           strict  == IF round.initial_kex_done THEN round.strict_kex
                      ELSE \E role \in Roles \ {e.role} : Contains(m.arg.kex, StrictName(role))
           c       == m.arg.cookie
           known   == [round EXCEPT !.peer_kexinit = c, !.negotiated = agreed, !.strict_kex = strict]
           q_c     == known.rng + 1
           drawn   == [known EXCEPT !.rng = q_c]
           init    == Msg("ECDH_INIT", q_c)
           w       == write_packet(drawn, init)
           sent    == [w EXCEPT !.kex_eph = q_c]
           r       == on_peer_kexinit(e, m)
<1>1. r \in {disconnect(counted), Fail(round, "no common algorithm"), sent, known}
  BY DEF on_peer_kexinit
<1> HIDE DEF r
<1>2. DOMAIN counted = Fields /\ \A x \in FlowFields : counted[x] = e[x]
  BY DEF Piped, Fields, FlowFields
<1>3. Flows(e, counted) /\ Piped(counted)
  <2> HIDE DEF counted
  <2> QED
    BY <1>2, FlowsKept DEF Flows
<1> HIDE DEF counted
<1>4. Flows(e, round) /\ Piped(round)
  <2>1. Flows(e, begin_rekey_round(counted))
    BY <1>3, FlowsBegin, FlowsOn
  <2>2. Flows(e, round)
    BY <2>1, FlowsItself
  <2> HIDE DEF round
  <2> QED
    BY <2>2 DEF Flows
<1> HIDE DEF round, agreed, strict, c
<1>5. DOMAIN known = Fields /\ \A x \in FlowFields : known[x] = round[x]
  BY <1>4 DEF Piped, Fields, FlowFields
<1> HIDE DEF known
<1>6. Flows(round, known)
  BY <1>4, <1>5, FlowsKept
<1>7. Flows(e, known) /\ Piped(known)
  BY <1>4, <1>6, FlowsOn DEF Flows
<1> HIDE DEF q_c
<1>8. DOMAIN drawn = Fields /\ \A x \in FlowFields : drawn[x] = known[x]
  BY <1>7 DEF Piped, Fields, FlowFields
<1> HIDE DEF drawn
<1>9. Flows(known, drawn) /\ Piped(drawn)
  BY <1>7, <1>8, FlowsKept DEF Flows
<1>10. init.id \notin AppIds
  BY DEF Msg, AppIds
<1> HIDE DEF init
<1>11. Flows(drawn, w) /\ Piped(w)
  BY <1>9, <1>10, FlowsWrite DEF Flows
<1> HIDE DEF w
<1>12. Flows(e, w)
  <2>1. Flows(e, drawn)
    BY <1>7, <1>9, FlowsOn
  <2> QED
    BY <1>11, <2>1, FlowsOn
<1>13. DOMAIN sent = Fields /\ \A x \in FlowFields : sent[x] = w[x]
  BY <1>11 DEF Piped, Fields, FlowFields
<1> HIDE DEF sent
<1>14. Flows(w, sent)
  BY <1>11, <1>13, FlowsKept
<1>15. Flows(e, sent)
  BY <1>12, <1>14, FlowsOn
<1>16. Flows(e, disconnect(counted)) /\ Flows(e, Fail(round, "no common algorithm"))
  <2>1. Flows(counted, disconnect(counted)) /\ Flows(round, Fail(round, "no common algorithm"))
    BY <1>3, <1>4, FlowsDisconnect, FlowsFail
  <2> QED
    BY <1>3, <1>4, <2>1, FlowsOn
<1>17. Flows(e, r)
  BY <1>1, <1>7, <1>15, <1>16
<1> QED
  BY <1>17 DEF r

LEMMA FlowsOnInit ==
    ASSUME NEW e, Piped(e), NEW m
    PROVE  Flows(e, on_ecdh_init(e, m))
<1> DEFINE q_s == e.rng + 1
           h   == compute_exchange_hash(e, m.arg, q_s)
           a   == [e EXCEPT !.rng = q_s]
           y   == Msg("ECDH_REPLY", [q_s |-> q_s, signed |-> h])
           w   == write_packet(a, y)
           f   == finish_kex(w, h)
<1>1. on_ecdh_init(e, m) \in {Fail(e, "missing peer kexinit"), send_newkeys(f)}
  BY DEF on_ecdh_init
<1>2. y.id \notin AppIds
  BY DEF Msg, AppIds
<1> HIDE DEF y, h, q_s
<1>3. DOMAIN a = Fields /\ \A x \in FlowFields : a[x] = e[x]
  BY DEF Piped, Fields, FlowFields
<1> HIDE DEF a
<1>4. Flows(e, a) /\ Piped(a)
  BY <1>3, FlowsKept DEF Flows
<1>5. Flows(a, w) /\ Piped(w)
  BY <1>2, <1>4, FlowsWrite DEF Flows
<1> HIDE DEF w
<1>6. Flows(e, w)
  BY <1>4, <1>5, FlowsOn
<1>7. Flows(w, f) /\ Piped(f)
  BY <1>5, FlowsFinish DEF Flows
<1> HIDE DEF f
<1>8. Flows(e, f)
  BY <1>6, <1>7, FlowsOn
<1>9. Flows(f, send_newkeys(f))
  BY <1>7, FlowsSendNewkeys
<1>10. Flows(e, send_newkeys(f)) /\ Flows(e, Fail(e, "missing peer kexinit"))
  BY <1>8, <1>9, FlowsOn, FlowsFail
<1> QED
  BY <1>1, <1>10

LEMMA FlowsOnReply ==
    ASSUME NEW e, Piped(e), NEW m
    PROVE  Flows(e, on_ecdh_reply(e, m))
<1> DEFINE h == compute_exchange_hash(e, e.kex_eph, m.arg.q_s)
           a == [e EXCEPT !.kex_eph = 0]
           f == finish_kex(a, h)
<1>1. on_ecdh_reply(e, m) \in {Fail(e, "KEX_ECDH_REPLY before INIT"), Fail(e, "host key signature"),
                               send_newkeys(f)}
  BY DEF on_ecdh_reply
<1>2. DOMAIN a = Fields /\ \A x \in FlowFields : a[x] = e[x]
  BY DEF Piped, Fields, FlowFields
<1> HIDE DEF a, h
<1>3. Flows(e, a) /\ Piped(a)
  BY <1>2, FlowsKept DEF Flows
<1>4. Flows(a, f) /\ Piped(f)
  BY <1>3, FlowsFinish DEF Flows
<1> HIDE DEF f
<1>5. Flows(e, f)
  BY <1>3, <1>4, FlowsOn
<1>6. Flows(e, send_newkeys(f))
  BY <1>4, <1>5, FlowsSendNewkeys, FlowsOn
<1>7. Flows(e, Fail(e, "KEX_ECDH_REPLY before INIT")) /\ Flows(e, Fail(e, "host key signature"))
  BY FlowsFail
<1> QED
  BY <1>1, <1>6, <1>7

\* A message of the key exchange, or one that is ignored, that e has a branch for.
Foreseen(e, m) ==
    \/ m.id \in {"IGNORE", "DISCONNECT", "KEXINIT", "NEWKEYS"}
    \/ m.id = "ECDH_INIT" /\ e.role = "server"
    \/ m.id = "ECDH_REPLY" /\ e.role = "client"

LEMMA FlowsHandle ==
    ASSUME NEW e, Piped(e), NEW m, Foreseen(e, m)
    PROVE  Flows(e, handle_packet(e, m))
<1> DEFINE d == [e EXCEPT !.peer_disconnected = TRUE]
           r == handle_packet(e, m)
<1>1. Flows(e, d)
  <2>1. DOMAIN d = Fields /\ \A x \in FlowFields : d[x] = e[x]
    BY DEF Piped, Fields, FlowFields
  <2> HIDE DEF d
  <2> QED
    BY <2>1, FlowsKept
<1>2. Flows(e, Fail(e, "unexpected message during strict KEX")) /\ Flows(e, e)
  BY FlowsFail, FlowsItself
<1>3. /\ Flows(e, on_ecdh_init(e, m)) /\ Flows(e, on_ecdh_reply(e, m)) /\ Flows(e, on_newkeys(e))
      /\ Flows(e, on_peer_kexinit(e, m))
  BY FlowsOnInit, FlowsOnReply, FlowsOnNewkeys, FlowsOnKexinit
<1>4. r \in {Fail(e, "unexpected message during strict KEX"), e, d, on_ecdh_init(e, m),
             on_ecdh_reply(e, m), on_newkeys(e), on_peer_kexinit(e, m)}
  <2> HIDE DEF d
  <2> QED
    BY DEF handle_packet, d, Foreseen
<1> HIDE DEF r, d
<1>5. Flows(e, r)
  BY <1>1, <1>2, <1>3, <1>4
<1> QED
  BY <1>5 DEF r

LEMMA FlowsActivate ==
    ASSUME NEW e, Piped(e)
    PROVE  Flows(e, activate_compression(e))
<1> DEFINE r == activate_compression(e)
<1>1. DOMAIN r = Fields /\ \A x \in FlowFields : r[x] = e[x]
  BY DEF activate_compression, Piped, Fields, FlowFields
<1> HIDE DEF r
<1>2. Flows(e, r)
  BY <1>1, FlowsKept
<1> QED
  BY <1>2 DEF r

LEMMA FlowsDrive ==
    ASSUME NEW e, Piped(e), NEW f, e.phase = "NeedPeerVersion" \/ Foreseen(e, f.msg)
    PROVE  Flows(e, drive(e, f))
<1> DEFINE n       == NextSeq(e.rx_seq)
           p       == e.rx_packets_since_rekey + 1
           opened  == [e EXCEPT !.rx_seq = n, !.rx_packets_since_rekey = p]
           c       == IF opened.comp_in = NoContext THEN opened.comp_in ELSE opened.comp_in + 1
           plain   == [opened EXCEPT !.comp_in = c]
           handled == handle_packet(plain, f.msg)
           active  == IF /\ handled.role = "client" /\ ~handled.comp_active
                         /\ handled.comp_name = "zlib"
                         /\ f.msg.id = "USERAUTH_SUCCESS"
                      THEN activate_compression(handled) ELSE handled
           greeted == [e EXCEPT !.phase = "Handshake"]
           r       == drive(e, f)
<1>1. \/ r \in {greeted, Fail(e, "open"), Fail(opened, "epoch packet limit"), Fail(opened, "decompress")}
      \/ e.phase # "NeedPeerVersion" /\ r \in {active, initiate_rekey(active)}
  BY DEF drive
<1> HIDE DEF r
<1>2. DOMAIN opened = Fields /\ opened.role = e.role /\ \A x \in FlowFields : opened[x] = e[x]
  <2> HIDE DEF n, p
  <2> QED
    BY DEF Piped, Fields, FlowFields
<1>3. DOMAIN greeted = Fields /\ \A x \in FlowFields : greeted[x] = e[x]
  BY DEF Piped, Fields, FlowFields
<1> HIDE DEF opened, greeted
<1>4. Flows(e, opened) /\ Flows(e, greeted) /\ Piped(opened)
  BY <1>2, <1>3, FlowsKept DEF Flows
<1>5. DOMAIN plain = Fields /\ plain.role = e.role /\ \A x \in FlowFields : plain[x] = opened[x]
  <2> HIDE DEF c
  <2> QED
    BY <1>2 DEF Fields, FlowFields
<1> HIDE DEF plain
<1>6. Flows(opened, plain) /\ Piped(plain)
  BY <1>4, <1>5, FlowsKept DEF Flows
<1>7. Flows(e, plain)
  BY <1>4, <1>6, FlowsOn
<1>8. ASSUME Foreseen(e, f.msg) PROVE Flows(e, active) /\ Flows(e, initiate_rekey(active))
  <2>1. Foreseen(plain, f.msg)
    BY <1>5, <1>8 DEF Foreseen
  <2>2. Flows(plain, handled) /\ Piped(handled)
    BY <1>6, <2>1, FlowsHandle DEF Flows
  <2> HIDE DEF handled
  <2>3. Flows(e, handled)
    BY <1>7, <2>2, FlowsOn
  <2>4. Flows(handled, active) /\ Piped(active)
    BY <2>2, FlowsItself, FlowsActivate DEF Flows
  <2> HIDE DEF active
  <2>5. Flows(e, active)
    BY <2>3, <2>4, FlowsOn
  <2>6. Flows(active, initiate_rekey(active))
    BY <2>4, FlowsInitiate
  <2> QED
    BY <2>5, <2>6, FlowsOn
<1>9. Flows(e, Fail(e, "open")) /\ Flows(e, Fail(opened, "epoch packet limit"))
      /\ Flows(e, Fail(opened, "decompress"))
  BY <1>4, FlowsFail, FlowsOn
<1> HIDE DEF active
<1>10. Flows(e, r)
  BY <1>1, <1>4, <1>8, <1>9
<1> QED
  BY <1>10 DEF r

\* An endpoint without waiting packets, or one whose re-key has begun, loses
\* nothing by beginning one.
LEMMA InitiateLosesNothing ==
    ASSUME NEW e, Piped(e), Drained(e), NEW n \in 0..Len(e.tx)
    PROVE  Ahead(initiate_rekey(e), n) = Ahead(e, n)
<1> DEFINE x == initiate_rekey(e)
<1>1. Flows(e, x)
  BY FlowsInitiate
<1>2. CASE e.rekeying
  <2>1. x = e
    BY <1>2 DEF initiate_rekey
  <2> QED
    BY <2>1
<1>3. CASE ~e.rekeying
  <2> HIDE DEF x
  <2>1. e.closing = x.closing \/ Len(e.tx_app_queue) = 0
    BY <1>1, <1>3 DEF Flows, Piped, Drained
  <2>2. Ahead(x, n) = Ahead(e, n)
    BY <1>1, <2>1 DEF Flows, Undisturbed
  <2> QED
    BY <2>2 DEF x
<1> QED
  BY <1>2, <1>3

\* The message m of the layer above is accepted.
Sends(e, x, m) ==
    /\ Piped(x) /\ Drained(x) /\ x.events = e.events /\ Len(e.tx) <= Len(x.tx)
    /\ (e.closing => x.closing)
    /\ \A n \in 0..Len(e.tx) :
          Ahead(x, n) = IF e.closing THEN Ahead(e, n) ELSE WithPacket(Ahead(e, n), m)

LEMMA SendsQueued ==
    ASSUME NEW e, Piped(e), e.rekeying, NEW m, NEW x, DOMAIN x = Fields, x.tx = e.tx,
           x.tx_app_queue = Append(e.tx_app_queue, m), x.closing = e.closing, x.events = e.events,
           x.rekeying = e.rekeying
    PROVE  Sends(e, x, m)
<1>1. IsSeq(e.tx_app_queue) /\ IsSeq(e.tx) /\ Len(e.tx) \in Nat /\ e.closing \in BOOLEAN
  BY DEF Piped, IsSeq
<1>2. IsSeq(x.tx_app_queue)
  BY <1>1, AppendFacts
<1>3. Piped(x) /\ Drained(x)
  BY <1>1, <1>2 DEF Piped, Drained
<1>4. ASSUME NEW n \in 0..Len(e.tx)
      PROVE  Ahead(x, n) = IF e.closing THEN Ahead(e, n) ELSE WithPacket(Ahead(e, n), m)
  <2> DEFINE q == e.tx_app_queue
             a == Append(q, m)
             u == Unread(e.tx, n)
  <2>1. CASE e.closing
    <3>1. Queued(x.tx_app_queue, x.closing) = Queued(q, e.closing)
      BY <2>1 DEF Queued
    <3>2. Ahead(x, n) = Ahead(e, n)
      BY <3>1 DEF Ahead, Flight
    <3> QED
      BY <2>1, <3>2
  <2>2. CASE ~e.closing
    <3>1. Flight(e.tx, a, e.closing, n) = WithPacket(Flight(e.tx, q, e.closing, n), m)
      BY <1>1, <2>2, FlightDefers
    <3>2. Ahead(x, n) = Flight(e.tx, a, e.closing, n) /\ Ahead(e, n) = Flight(e.tx, q, e.closing, n)
      <4> HIDE DEF a
      <4> QED
        BY DEF Ahead, a
    <3> QED
      BY <2>2, <3>1, <3>2
  <2> QED
    BY <2>1, <2>2
<1> QED
  BY <1>1, <1>3, <1>4 DEF Sends

LEMMA SendsWritten ==
    ASSUME NEW e, Piped(e), Drained(e), ~e.rekeying, NEW m
    PROVE  Sends(e, write_packet(e, m), m)
<1> DEFINE w == write_packet(e, m)
<1>1. IsSeq(e.tx_app_queue) /\ IsSeq(e.tx) /\ Len(e.tx) \in Nat /\ e.closing \in BOOLEAN
  BY DEF Piped, IsSeq
<1>2. CASE e.closing
  <2>1. w = e
    BY <1>2 DEF write_packet, Muted
  <2>2. Sends(e, e, m)
    BY <1>1, <1>2 DEF Sends
  <2> QED
    BY <2>1, <2>2
<1>3. CASE ~e.closing
  <2>1. Writes(e, m, w)
    BY <1>3, WriteWrites
  <2> HIDE DEF w
  <2>2. PICK f : f.msg = m /\ w.tx = Append(e.tx, f)
    BY <2>1 DEF Writes
  <2>3. Len(e.tx_app_queue) = 0 /\ w.tx_app_queue = e.tx_app_queue /\ w.closing \in BOOLEAN
    BY <1>3, <2>1 DEF Drained, Writes
  <2>4. IsSeq(w.tx) /\ Len(w.tx) = Len(e.tx) + 1
    BY <1>1, <2>2, AppendFacts
  <2>5. Piped(w) /\ Drained(w)
    BY <1>1, <2>1, <2>3, <2>4 DEF Piped, Drained, Writes
  <2>6. ASSUME NEW n \in 0..Len(e.tx) PROVE Ahead(w, n) = WithPacket(Ahead(e, n), m)
    <3> DEFINE q == e.tx_app_queue
               c == w.closing
               d == e.closing
    <3>1. Ahead(w, n) = Flight(Append(e.tx, f), q, c, n) /\ Ahead(e, n) = Flight(e.tx, q, d, n)
      BY <2>2, <2>3 DEF Ahead
    <3>2. IsSeq(q) /\ Len(q) = 0
      BY <1>1, <2>3
    <3> HIDE DEF q, c, d
    <3>3. Flight(Append(e.tx, f), q, c, n) = WithPacket(Flight(e.tx, q, d, n), f.msg)
      BY <1>1, <3>2, FlightWrites
    <3> QED
      BY <2>2, <3>1, <3>3
  <2>7. Sends(e, w, m)
    BY <1>1, <1>3, <2>1, <2>4, <2>5, <2>6 DEF Sends, Writes
  <2> QED
    BY <2>7 DEF w
<1> QED
  BY <1>1, <1>2, <1>3

\* No packet comes on its way and none is lost from e to x.
KeepsAll(e, x) ==
    /\ Piped(x) /\ Drained(x) /\ x.events = e.events /\ Len(e.tx) <= Len(x.tx)
    /\ (e.closing => x.closing)
    /\ \A n \in 0..Len(e.tx) : Ahead(x, n) = Ahead(e, n)

LEMMA SendsThen ==
    ASSUME NEW e, Piped(e), NEW w, NEW m, Sends(e, w, m), NEW x, KeepsAll(w, x)
    PROVE  Sends(e, x, m)
<1>1. Len(e.tx) \in Nat /\ Len(w.tx) \in Nat /\ Len(x.tx) \in Nat /\ Len(e.tx) <= Len(w.tx)
  BY DEF Piped, IsSeq, Sends, KeepsAll
<1>2. ASSUME NEW n \in 0..Len(e.tx)
      PROVE  Ahead(x, n) = IF e.closing THEN Ahead(e, n) ELSE WithPacket(Ahead(e, n), m)
  <2>1. n \in 0..Len(w.tx)
    BY <1>1
  <2>2. Ahead(x, n) = Ahead(w, n)
    BY <2>1 DEF KeepsAll
  <2> QED
    BY <2>2 DEF Sends
<1>3. /\ Piped(x) /\ Drained(x) /\ x.events = e.events /\ Len(e.tx) <= Len(x.tx)
      /\ (e.closing => x.closing)
  BY <1>1 DEF Sends, KeepsAll
<1> QED
  BY <1>2, <1>3 DEF Sends

LEMMA KeepsAllNone ==
    ASSUME NEW e, Piped(e), Drained(e), NEW x, DOMAIN x = Fields, \A y \in FlowFields : x[y] = e[y]
    PROVE  KeepsAll(e, x)
<1>1. /\ x.tx = e.tx /\ x.tx_app_queue = e.tx_app_queue /\ x.closing = e.closing
      /\ x.events = e.events /\ x.rekeying = e.rekeying /\ Len(e.tx) \in Nat
  BY DEF FlowFields, Piped, IsSeq
<1> QED
  BY <1>1 DEF KeepsAll, Piped, Drained, Ahead

LEMMA KeepsAllInitiate ==
    ASSUME NEW e, Piped(e), Drained(e)
    PROVE  KeepsAll(e, initiate_rekey(e))
<1> DEFINE x == initiate_rekey(e)
<1>1. Flows(e, x) /\ \A n \in 0..Len(e.tx) : Ahead(x, n) = Ahead(e, n)
  BY FlowsInitiate, InitiateLosesNothing
<1> HIDE DEF x
<1>2. KeepsAll(e, x)
  BY <1>1 DEF KeepsAll, Flows
<1> QED
  BY <1>2 DEF x

LEMMA KeepsAllOn ==
    ASSUME NEW e, Piped(e), NEW w, KeepsAll(e, w), NEW x, KeepsAll(w, x)
    PROVE  KeepsAll(e, x)
<1>1. Len(e.tx) \in Nat /\ Len(w.tx) \in Nat /\ Len(x.tx) \in Nat /\ Len(e.tx) <= Len(w.tx)
  BY DEF Piped, IsSeq, KeepsAll
<1>2. ASSUME NEW n \in 0..Len(e.tx) PROVE Ahead(x, n) = Ahead(e, n)
  <2>1. n \in 0..Len(w.tx)
    BY <1>1
  <2> QED
    BY <2>1 DEF KeepsAll
<1> QED
  BY <1>1, <1>2 DEF KeepsAll

LEMMA SendsPacket ==
    ASSUME NEW e, Piped(e), Drained(e), NEW m
    PROVE  Sends(e, send_packet(e, m), m)
<1> DEFINE w == write_packet(e, m)
           b == w.bytes_since_rekey + PayloadLen
           s == [w EXCEPT !.bytes_since_rekey = b]
           q == Append(e.tx_app_queue, m)
           d == [e EXCEPT !.tx_app_queue = q]
           r == send_packet(e, m)
<1>1. (e.rekeying /\ r = d) \/ (~e.rekeying /\ r \in {s, initiate_rekey(s)})
  BY DEF send_packet, Deferring
<1> HIDE DEF r
<1>2. CASE e.rekeying /\ r = d
  <2> HIDE DEF q
  <2>1. /\ DOMAIN d = Fields /\ d.tx = e.tx /\ d.tx_app_queue = q /\ d.closing = e.closing
        /\ d.events = e.events /\ d.rekeying = e.rekeying
    BY DEF Piped, Fields
  <2> HIDE DEF d
  <2>2. d.tx_app_queue = Append(e.tx_app_queue, m)
    BY <2>1 DEF q
  <2>3. Sends(e, d, m)
    BY <1>2, <2>1, <2>2, SendsQueued
  <2> QED
    BY <1>2, <2>3 DEF r
<1>3. CASE ~e.rekeying /\ r \in {s, initiate_rekey(s)}
  <2>1. Sends(e, w, m)
    BY <1>3, SendsWritten
  <2> HIDE DEF w, b
  <2>2. Piped(w) /\ Drained(w)
    BY <2>1 DEF Sends
  <2>3. DOMAIN s = Fields /\ \A x \in FlowFields : s[x] = w[x]
    BY <2>2 DEF Piped, Fields, FlowFields
  <2> HIDE DEF s
  <2>4. KeepsAll(w, s)
    BY <2>2, <2>3, KeepsAllNone
  <2>5. Piped(s) /\ Drained(s)
    BY <2>4 DEF KeepsAll
  <2>6. KeepsAll(w, initiate_rekey(s))
    BY <2>2, <2>4, <2>5, KeepsAllInitiate, KeepsAllOn
  <2>7. Sends(e, s, m) /\ Sends(e, initiate_rekey(s), m)
    BY <2>1, <2>4, <2>6, SendsThen
  <2> QED
    BY <1>3, <2>7 DEF r
<1> QED
  BY <1>1, <1>2, <1>3

\* The packet with the number a is given to the layer above.
Gives(e, x, a) ==
    /\ Piped(x) /\ Drained(x) /\ x.events = Append(e.events, a) /\ Len(e.tx) <= Len(x.tx)
    /\ (e.closing => x.closing)
    /\ \A n \in 0..Len(e.tx) : Ahead(x, n) = Ahead(e, n)

LEMMA FailErr ==
    ASSUME NEW e, DOMAIN e = Fields, NEW why
    PROVE  Fail(e, why).err = why
BY DEF Fail, Fields

LEMMA GivesHandled ==
    ASSUME NEW e, Piped(e), Drained(e), NEW m, m.id \in AppIds
    PROVE  \/ handle_packet(e, m).err # "none" /\ DOMAIN handle_packet(e, m) = Fields
           \/ Gives(e, handle_packet(e, m), m.arg)
<1> DEFINE a == Append(e.events, m.arg)
           v == [e EXCEPT !.consecutive_peer_rekeys = 0, !.events = a]
           g == Fail(e, "unexpected message during handshake")
           r == handle_packet(e, m)
<1>1. r = g \/ r = v
  <2>1. Deliver(e, m) = v
    BY DEF Deliver
  <2> HIDE DEF v
  <2> QED
    BY <2>1 DEF handle_packet, AppIds
<1>2. g.err # "none" /\ DOMAIN g = Fields
  <2>1. g.err = "unexpected message during handshake"
    BY FailErr DEF Piped
  <2> QED
    BY <2>1 DEF Fail, Piped
<1> HIDE DEF g, a
<1>3. /\ DOMAIN v = Fields /\ v.tx = e.tx /\ v.tx_app_queue = e.tx_app_queue /\ v.closing = e.closing
      /\ v.rekeying = e.rekeying /\ v.events = a
  BY DEF Piped, Fields
<1> HIDE DEF v, r
<1>4. Piped(v) /\ Drained(v) /\ Len(e.tx) \in Nat
  BY <1>3 DEF Piped, Drained, IsSeq
<1>5. \A n \in 0..Len(e.tx) : Ahead(v, n) = Ahead(e, n)
  BY <1>3 DEF Ahead
<1>6. v.events = Append(e.events, m.arg)
  BY <1>3 DEF a
<1>7. Gives(e, v, m.arg)
  BY <1>3, <1>4, <1>5, <1>6 DEF Gives
<1>8. (r.err # "none" /\ DOMAIN r = Fields) \/ Gives(e, r, m.arg)
  BY <1>1, <1>2, <1>7
<1> QED
  BY <1>8 DEF r

LEMMA GivesThen ==
    ASSUME NEW e, Piped(e), NEW w, NEW a, Gives(e, w, a), NEW x, KeepsAll(w, x)
    PROVE  Gives(e, x, a)
<1>1. Len(e.tx) \in Nat /\ Len(w.tx) \in Nat /\ Len(x.tx) \in Nat /\ Len(e.tx) <= Len(w.tx)
  BY DEF Piped, IsSeq, Gives, KeepsAll
<1>2. ASSUME NEW n \in 0..Len(e.tx) PROVE Ahead(x, n) = Ahead(e, n)
  <2>1. n \in 0..Len(w.tx)
    BY <1>1
  <2> QED
    BY <2>1 DEF Gives, KeepsAll
<1>3. /\ Piped(x) /\ Drained(x) /\ x.events = Append(e.events, a) /\ Len(e.tx) <= Len(x.tx)
      /\ (e.closing => x.closing)
  <2> DEFINE v == Append(e.events, a)
  <2>1. w.events = v
    BY DEF Gives
  <2> HIDE DEF v
  <2>2. x.events = v
    BY <2>1 DEF KeepsAll
  <2>3. /\ Piped(x) /\ Drained(x) /\ Len(e.tx) <= Len(x.tx) /\ (e.closing => x.closing)
    BY <1>1 DEF Gives, KeepsAll
  <2> QED
    BY <2>2, <2>3 DEF v
<1> QED
  BY <1>2, <1>3 DEF Gives

LEMMA GivesAfter ==
    ASSUME NEW e, Piped(e), NEW w, NEW a, KeepsAll(e, w), NEW x, Gives(w, x, a)
    PROVE  Gives(e, x, a)
<1>1. Len(e.tx) \in Nat /\ Len(w.tx) \in Nat /\ Len(x.tx) \in Nat /\ Len(e.tx) <= Len(w.tx)
  BY DEF Piped, IsSeq, Gives, KeepsAll
<1>2. ASSUME NEW n \in 0..Len(e.tx) PROVE Ahead(x, n) = Ahead(e, n)
  <2>1. n \in 0..Len(w.tx)
    BY <1>1
  <2> QED
    BY <2>1 DEF Gives, KeepsAll
<1>3. w.events = e.events
  BY DEF KeepsAll
<1>4. x.events = Append(e.events, a)
  BY <1>3 DEF Gives
<1>5. Piped(x) /\ Drained(x) /\ Len(e.tx) <= Len(x.tx) /\ (e.closing => x.closing)
  BY <1>1 DEF Gives, KeepsAll
<1> QED
  BY <1>2, <1>4, <1>5 DEF Gives

LEMMA GivesDriven ==
    ASSUME NEW e, Piped(e), Drained(e), NEW f, f.msg.id \in AppIds, e.phase # "NeedPeerVersion",
           drive(e, f).err = "none"
    PROVE  Gives(e, drive(e, f), f.msg.arg)
<1> DEFINE n       == NextSeq(e.rx_seq)
           p       == e.rx_packets_since_rekey + 1
           opened  == [e EXCEPT !.rx_seq = n, !.rx_packets_since_rekey = p]
           c       == IF opened.comp_in = NoContext THEN opened.comp_in ELSE opened.comp_in + 1
           plain   == [opened EXCEPT !.comp_in = c]
           handled == handle_packet(plain, f.msg)
           active  == IF /\ handled.role = "client" /\ ~handled.comp_active
                         /\ handled.comp_name = "zlib"
                         /\ f.msg.id = "USERAUTH_SUCCESS"
                      THEN activate_compression(handled) ELSE handled
           r       == drive(e, f)
<1>1. \/ r \in {Fail(e, "open"), Fail(opened, "epoch packet limit"), Fail(opened, "decompress"), active}
      \/ handled.err = "none" /\ r = initiate_rekey(active)
  BY DEF drive
<1>2. r.err = "none"
  OBVIOUS
<1> HIDE DEF r
<1>3. DOMAIN opened = Fields /\ \A x \in FlowFields : opened[x] = e[x]
  <2> HIDE DEF n, p
  <2> QED
    BY DEF Piped, Fields, FlowFields
<1> HIDE DEF opened
<1>4. KeepsAll(e, opened) /\ Piped(opened) /\ Drained(opened)
  BY <1>3, KeepsAllNone DEF KeepsAll
<1>5. DOMAIN plain = Fields /\ \A x \in FlowFields : plain[x] = opened[x]
  <2> HIDE DEF c
  <2> QED
    BY <1>3 DEF Fields, FlowFields
<1> HIDE DEF plain
<1>6. KeepsAll(opened, plain) /\ Piped(plain) /\ Drained(plain)
  BY <1>4, <1>5, KeepsAllNone DEF KeepsAll
<1>7. r # Fail(e, "open") /\ r # Fail(opened, "epoch packet limit") /\ r # Fail(opened, "decompress")
  <2>1. /\ Fail(e, "open").err # "none" /\ Fail(opened, "epoch packet limit").err # "none"
        /\ Fail(opened, "decompress").err # "none"
    <3>1. DOMAIN e = Fields /\ DOMAIN opened = Fields
      BY <1>3 DEF Piped
    <3>2. /\ Fail(e, "open").err = "open" /\ Fail(opened, "epoch packet limit").err = "epoch packet limit"
          /\ Fail(opened, "decompress").err = "decompress"
      BY <3>1, FailErr, Zenon
    <3> QED
      BY <3>2
  <2> QED
    BY <1>2, <2>1
<1>8. (handled.err # "none" /\ DOMAIN handled = Fields) \/ Gives(plain, handled, f.msg.arg)
  BY <1>6, GivesHandled
<1> HIDE DEF handled
<1>9. DOMAIN handled = Fields
  BY <1>8 DEF Gives, Piped
<1>10. DOMAIN active = Fields /\ active.err = handled.err /\ \A x \in FlowFields : active[x] = handled[x]
  <2> DEFINE s == activate_compression(handled)
  <2>1. DOMAIN s = Fields /\ s.err = handled.err /\ \A x \in FlowFields : s[x] = handled[x]
    BY <1>9 DEF activate_compression, Fields, FlowFields
  <2> HIDE DEF s
  <2>2. active = s \/ active = handled
    BY DEF s
  <2> HIDE DEF active
  <2> QED
    BY <1>9, <2>1, <2>2
<1> HIDE DEF active
<1>11. Gives(plain, handled, f.msg.arg)
  BY <1>1, <1>2, <1>7, <1>8, <1>10
<1>12. Gives(e, handled, f.msg.arg)
  BY <1>4, <1>6, <1>11, GivesAfter
<1>13. KeepsAll(handled, active) /\ Piped(active) /\ Drained(active)
  <2>1. Piped(handled) /\ Drained(handled)
    BY <1>11 DEF Gives
  <2> QED
    BY <1>10, <2>1, KeepsAllNone DEF KeepsAll
<1>14. Gives(e, active, f.msg.arg)
  BY <1>12, <1>13, GivesThen
<1>15. Gives(e, initiate_rekey(active), f.msg.arg)
  BY <1>13, <1>14, KeepsAllInitiate, GivesThen
<1>16. Gives(e, r, f.msg.arg)
  BY <1>1, <1>7, <1>14, <1>15
<1> QED
  BY <1>16 DEF r
================================================================================
