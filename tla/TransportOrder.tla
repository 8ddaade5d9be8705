----------------------------- MODULE TransportOrder -----------------------------
(***************************************************************************)
(* Theorems about the two transports together. Where an endpoint stands in *)
(* the key exchange is a function of the two outputs: of the key-exchange  *)
(* messages it has written and of those it has taken from its peer's. Both *)
(* outputs are ordered the same way, so each frame an endpoint takes is    *)
(* the one its place calls for, sealed under the key, at the number and in *)
(* the compression it opens with. The last section uses this to show that  *)
(* the transports implement the pipes of AppPipe.                          *)
(***************************************************************************)
EXTENDS TransportProofs

--------------------------------------------------------------------------------
(* The order of the key-exchange messages *)

KexIds   == {"KEXINIT", "ECDH_INIT", "ECDH_REPLY", "NEWKEYS"}
IsKex(f) == f.msg.id \in KexIds

\* The key-exchange messages among the first n frames of an output.
Steps(tx, n) == Cardinality({i \in 1..n : IsKex(tx[i])})
Sent(tx)     == Steps(tx, Len(tx))

\* Three of them make a round.
Round(n) == n \div 3
Part(n)  == n % 3

LEMMA RoundFacts ==
    ASSUME NEW n \in Nat
    PROVE  /\ Round(n) \in Nat /\ Part(n) \in 0..2 /\ n = 3 * Round(n) + Part(n)
           /\ Part(n) \in {0, 1} => Part(n + 1) = Part(n) + 1 /\ Round(n + 1) = Round(n)
           /\ Part(n) = 2 => Part(n + 1) = 0 /\ Round(n + 1) = Round(n) + 1
<1>1. Round(n) \in Nat /\ Part(n) \in 0..2 /\ n = 3 * Round(n) + Part(n)
  BY DEF Round, Part
<1>2. Round(n + 1) \in Nat /\ Part(n + 1) \in 0..2 /\ n + 1 = 3 * Round(n + 1) + Part(n + 1)
  BY DEF Round, Part
<1> QED
  BY <1>1, <1>2

LEMMA StepsType ==
    ASSUME NEW tx, NEW n \in Nat
    PROVE  Steps(tx, n) \in Nat /\ IsFiniteSet({i \in 1..n : IsKex(tx[i])})
<1> DEFINE X == {i \in 1..n : IsKex(tx[i])}
<1>1. IsFiniteSet(1..n)
  BY FS_Interval
<1>2. X \in SUBSET (1..n)
  OBVIOUS
<1> HIDE DEF X
<1>3. IsFiniteSet(X) /\ Cardinality(X) \in Nat
  BY <1>1, <1>2, FS_Subset, FS_CardinalityType
<1> QED
  BY <1>3 DEF X, Steps

LEMMA StepsZero ==
    ASSUME NEW tx
    PROVE  Steps(tx, 0) = 0
<1>1. {i \in 1..0 : IsKex(tx[i])} = {}
  OBVIOUS
<1> QED
  BY <1>1, FS_EmptySet DEF Steps

LEMMA StepsNext ==
    ASSUME NEW tx, NEW n \in Nat
    PROVE  Steps(tx, n + 1) = IF IsKex(tx[n + 1]) THEN Steps(tx, n) + 1 ELSE Steps(tx, n)
<1> DEFINE X == {i \in 1..n : IsKex(tx[i])}
           Y == {i \in 1..(n + 1) : IsKex(tx[i])}
<1>1. IsFiniteSet(X)
  BY StepsType
<1>2. n + 1 \notin X
  OBVIOUS
<1>3. IsKex(tx[n + 1]) => Y = X \cup {n + 1}
  <2> SUFFICES ASSUME IsKex(tx[n + 1]) PROVE Y = X \cup {n + 1}
    OBVIOUS
  <2>1. \A i \in 1..(n + 1) : i \in 1..n \/ i = n + 1
    OBVIOUS
  <2>2. \A i \in 1..n : i \in 1..(n + 1)
    OBVIOUS
  <2>3. n + 1 \in 1..(n + 1)
    OBVIOUS
  <2> QED
    BY <2>1, <2>2, <2>3
<1>4. ~IsKex(tx[n + 1]) => Y = X
  <2>1. \A i \in 1..(n + 1) : i \in 1..n \/ i = n + 1
    OBVIOUS
  <2>2. \A i \in 1..n : i \in 1..(n + 1)
    OBVIOUS
  <2> QED
    BY <2>1, <2>2
<1>5. Cardinality(X \cup {n + 1}) = Cardinality(X) + 1
  <2> HIDE DEF X
  <2> QED
    BY <1>1, <1>2, FS_AddElement
<1>6. Steps(tx, n) = Cardinality(X) /\ Steps(tx, n + 1) = Cardinality(Y)
  BY DEF Steps
<1> HIDE DEF X, Y
<1> QED
  BY <1>3, <1>4, <1>5, <1>6

\* Steps looks at the first frames only.
LEMMA StepsPrefix ==
    ASSUME NEW tx, NEW ty, NEW n \in Nat, \A i \in 1..n : ty[i] = tx[i]
    PROVE  Steps(ty, n) = Steps(tx, n)
<1>1. {i \in 1..n : IsKex(ty[i])} = {i \in 1..n : IsKex(tx[i])}
  OBVIOUS
<1> QED
  BY <1>1 DEF Steps

LEMMA StepsMonotone ==
    ASSUME NEW tx, NEW n \in Nat, NEW p \in Nat, p <= n
    PROVE  Steps(tx, p) <= Steps(tx, n)
<1> DEFINE X == {i \in 1..p : IsKex(tx[i])}
           Y == {i \in 1..n : IsKex(tx[i])}
<1>1. IsFiniteSet(Y)
  BY StepsType
<1>2. X \in SUBSET Y
  OBVIOUS
<1> HIDE DEF X, Y
<1>3. Cardinality(X) <= Cardinality(Y)
  BY <1>1, <1>2, FS_Subset
<1> QED
  BY <1>3 DEF X, Y, Steps

--------------------------------------------------------------------------------
(* What an endpoint writes, and in which order *)

\* The message of a round that comes after p of them.
Kind(role, p) ==
    IF p = 0 THEN "KEXINIT"
    ELSE IF p = 2 THEN "NEWKEYS"
    ELSE IF role = "client" THEN "ECDH_INIT" ELSE "ECDH_REPLY"

CipherLists == {CIPHERS, Reverse(CIPHERS)}
CompLists   == {COMPRESSIONS, Reverse(COMPRESSIONS)}

\* A KEXINIT of this code.
Offer(role, a) ==
    /\ a.cookie \in Nat \ {0}
    /\ \E x \in CipherLists, z \in CompLists : a = ours_with(role, a.cookie, x, z)

\* What may come after n key-exchange messages.
Follows(role, n, m) ==
    \/ m.id = Kind(role, Part(n)) /\ (m.id = "KEXINIT" => Offer(role, m.arg))
    \/ m.id = "DISCONNECT"
    \/ m.id \in Deferred /\ n >= 3

Ordered(tx, role) ==
    /\ Len(tx) >= 1 /\ tx[1].msg.id = "VERSION"
    /\ \A i \in 2..Len(tx) : Follows(role, Steps(tx, i - 1), tx[i].msg)

LEMMA OfferFacts ==
    ASSUME NEW role, NEW c \in Nat \ {0}, NEW x \in CipherLists, NEW z \in CompLists
    PROVE  Offer(role, ours_with(role, c, x, z))
<1> DEFINE a == ours_with(role, c, x, z)
<1>1. a.cookie = c
  BY DEF ours_with
<1>2. a = ours_with(role, a.cookie, x, z)
  BY <1>1
<1> HIDE DEF a
<1>3. Offer(role, a)
  BY <1>1, <1>2 DEF Offer
<1> QED
  BY <1>3 DEF a

\* Another frame.
LEMMA AppendSteps ==
    ASSUME NEW tx, IsSeq(tx), NEW f
    PROVE  LET ty == Append(tx, f)
           IN  /\ \A i \in 0..Len(tx) : Steps(ty, i) = Steps(tx, i)
               /\ Sent(ty) = IF IsKex(f) THEN Sent(tx) + 1 ELSE Sent(tx)
               /\ Sent(tx) \in Nat /\ Sent(ty) \in Nat
<1> DEFINE ty == Append(tx, f)
<1>1. /\ IsSeq(ty) /\ Len(ty) = Len(tx) + 1 /\ ty[Len(tx) + 1] = f
      /\ \A i \in 1..Len(tx) : ty[i] = tx[i]
  BY AppendFacts
<1>2. Len(tx) \in Nat
  BY DEF IsSeq
<1> HIDE DEF ty
<1>3. ASSUME NEW i \in 0..Len(tx) PROVE Steps(ty, i) = Steps(tx, i)
  <2>1. i \in Nat /\ \A j \in 1..i : ty[j] = tx[j]
    BY <1>1, <1>2
  <2> QED
    BY <2>1, StepsPrefix
<1>4. Steps(ty, Len(tx) + 1) = IF IsKex(f) THEN Steps(ty, Len(tx)) + 1 ELSE Steps(ty, Len(tx))
  BY <1>1, <1>2, StepsNext
<1>5. Steps(ty, Len(tx)) = Steps(tx, Len(tx))
  BY <1>2, <1>3
<1>6. Sent(tx) \in Nat
  BY <1>2, StepsType DEF Sent
<1>7. Sent(ty) = IF IsKex(f) THEN Sent(tx) + 1 ELSE Sent(tx)
  BY <1>1, <1>4, <1>5 DEF Sent
<1> QED
  BY <1>3, <1>6, <1>7 DEF ty

LEMMA AppendOrdered ==
    ASSUME NEW tx, IsSeq(tx), NEW role, Ordered(tx, role), NEW f, Follows(role, Sent(tx), f.msg)
    PROVE  Ordered(Append(tx, f), role)
<1> DEFINE ty == Append(tx, f)
<1>1. /\ IsSeq(ty) /\ Len(ty) = Len(tx) + 1 /\ ty[Len(tx) + 1] = f
      /\ \A i \in 1..Len(tx) : ty[i] = tx[i]
  BY AppendFacts
<1>2. Len(tx) \in Nat /\ Len(tx) >= 1
  BY DEF IsSeq, Ordered
<1>3. \A i \in 0..Len(tx) : Steps(ty, i) = Steps(tx, i)
  BY AppendSteps
<1> HIDE DEF ty
<1>4. ASSUME NEW i \in 2..Len(ty) PROVE Follows(role, Steps(ty, i - 1), ty[i].msg)
  <2>1. CASE i = Len(tx) + 1
    <3>1. i - 1 = Len(tx) /\ Len(tx) \in 0..Len(tx)
      BY <1>2, <2>1
    <3>2. Steps(ty, i - 1) = Sent(tx) /\ ty[i] = f
      BY <1>1, <1>3, <2>1, <3>1 DEF Sent
    <3> QED
      BY <3>2
  <2>2. CASE i \in 2..Len(tx)
    <3>1. i - 1 \in 0..Len(tx) /\ i \in 1..Len(tx)
      BY <1>2, <2>2
    <3>2. Steps(ty, i - 1) = Steps(tx, i - 1) /\ ty[i] = tx[i]
      BY <1>1, <1>3, <3>1
    <3> QED
      BY <2>2, <3>2 DEF Ordered
  <2> QED
    BY <1>1, <1>2, <2>1, <2>2
<1>5. Len(ty) >= 1 /\ ty[1] = tx[1]
  BY <1>1, <1>2
<1> QED
  BY <1>4, <1>5 DEF Ordered, ty

\* A frame that follows is no key-exchange message unless it is the expected one.
LEMMA KindFacts ==
    ASSUME NEW role \in Roles, NEW p \in 0..2
    PROVE  /\ Kind(role, p) \in KexIds /\ Kind(role, p) \notin Deferred
           /\ Kind(role, p) # "DISCONNECT" /\ Kind(role, p) # "VERSION"
           /\ Kind(role, p) = "KEXINIT" <=> p = 0
           /\ Kind(role, p) = "NEWKEYS" <=> p = 2
           /\ "DISCONNECT" \notin KexIds /\ KexIds \cap Deferred = {}
           /\ "DISCONNECT" \notin Deferred
BY DEF Kind, KexIds, Deferred, AppIds, Roles

--------------------------------------------------------------------------------
(* Numbers, key-exchange values and keys, as functions of the outputs *)

\* The sequence number of the frame after f.
After(f) ==
    IF f.msg.id = "VERSION" \/ (f.msg.id = "NEWKEYS" /\ StrictMarker)
    THEN 0 ELSE NextSeq(f.seq)

Chained(tx) == \A i \in 1..(Len(tx) - 1) : tx[i + 1].seq = After(tx[i])

\* What the i-th key-exchange message of an output carries.
Arg(tx, i) ==
    LET p == CHOOSE p \in 1..Len(tx) : IsKex(tx[p]) /\ Steps(tx, p) = i
    IN  tx[p].msg.arg

\* Round j of the outputs c of the client and s of the server: the algorithms,
\* the exchange hash and the key a direction uses after j rounds.
Neg(c, s, j) == negotiate(Arg(c, 3 * j + 1), Arg(s, 3 * j + 1))
Hash(s, j)   == Arg(s, 3 * j + 2).signed
Key(dir, c, s, j) ==
    IF j = 0 THEN NoKey ELSE <<dir, Hash(s, j - 1), Hash(s, 0), Neg(c, s, j - 1).cipher>>

\* The values that key is derived from have been written.
Known(c, s, j) == j = 0 \/ (3 * j - 1 <= Sent(s) /\ 3 * j - 2 <= Sent(c))

Out(role) == IF role = "client" THEN "c2s" ELSE "s2c"
Inn(role) == IF role = "client" THEN "s2c" ELSE "c2s"

Sealed(tx, role, c, s) ==
    \A i \in 2..Len(tx) : tx[i].key = Key(Out(role), c, s, Round(Steps(tx, i - 1)))

\* Frame i comes x frames after the last one before it that began an epoch.
Stretch(tx, i, x) ==
    /\ x \in 1..(i - 1) /\ (x = i - 1 \/ tx[i - x].msg.id = "NEWKEYS")
    /\ \A j \in (i - x + 1)..(i - 1) : tx[j].msg.id # "NEWKEYS"

Spaced(tx) == \A i \in 2..Len(tx) : \A x \in Nat : Stretch(tx, i, x) => x < EpochHardPackets

LEMMA StepsOnto ==
    ASSUME NEW tx, NEW n \in Nat, NEW i \in 1..Steps(tx, n)
    PROVE  \E p \in 1..n : IsKex(tx[p]) /\ Steps(tx, p) = i
<1> DEFINE P(b) == \A a \in 1..Steps(tx, b) : \E p \in 1..b : IsKex(tx[p]) /\ Steps(tx, p) = a
           S == {b \in Nat : P(b)}
<1>1. P(0)
  BY StepsZero
<1>2. ASSUME NEW b \in Nat, P(b) PROVE P(b + 1)
  <2> SUFFICES ASSUME NEW a \in 1..Steps(tx, b + 1)
               PROVE  \E p \in 1..(b + 1) : IsKex(tx[p]) /\ Steps(tx, p) = a
    OBVIOUS
  <2>1. Steps(tx, b + 1) = IF IsKex(tx[b + 1]) THEN Steps(tx, b) + 1 ELSE Steps(tx, b)
    BY StepsNext
  <2>2. Steps(tx, b) \in Nat
    BY StepsType
  <2>3. CASE a \in 1..Steps(tx, b)
    <3>1. PICK p \in 1..b : IsKex(tx[p]) /\ Steps(tx, p) = a
      BY <1>2, <2>3
    <3>2. p \in 1..(b + 1)
      OBVIOUS
    <3> QED
      BY <3>1, <3>2
  <2>4. CASE a \notin 1..Steps(tx, b)
    <3>1. IsKex(tx[b + 1]) /\ Steps(tx, b + 1) = a
      BY <2>1, <2>2, <2>4
    <3>2. b + 1 \in 1..(b + 1)
      OBVIOUS
    <3> QED
      BY <3>1, <3>2
  <2> QED
    BY <2>3, <2>4
<1>3. Nat \subseteq S
  <2>1. 0 \in S /\ \A b \in Nat : b \in S => b + 1 \in S
    <3> HIDE DEF P
    <3> QED
      BY <1>1, <1>2
  <2> HIDE DEF S
  <2> QED
    BY <2>1, Induction
<1>4. P(n)
  <2> HIDE DEF P
  <2> QED
    BY <1>3
<1> QED
  BY <1>4

LEMMA ArgAt ==
    ASSUME NEW tx, IsSeq(tx), NEW p \in 1..Len(tx), IsKex(tx[p])
    PROVE  Arg(tx, Steps(tx, p)) = tx[p].msg.arg
<1> DEFINE P(q) == IsKex(tx[q]) /\ Steps(tx, q) = Steps(tx, p)
<1>1. Len(tx) \in Nat
  BY DEF IsSeq
<1>2. ASSUME NEW a \in 1..Len(tx), NEW b \in 1..Len(tx), a < b, IsKex(tx[b])
      PROVE  Steps(tx, a) < Steps(tx, b)
  <2>1. b - 1 \in Nat /\ a \in Nat /\ a <= b - 1 /\ (b - 1) + 1 = b
    BY <1>1, <1>2
  <2>2. Steps(tx, b) = Steps(tx, b - 1) + 1
    BY <1>2, <2>1, StepsNext
  <2>3. Steps(tx, a) <= Steps(tx, b - 1)
    BY <2>1, StepsMonotone
  <2>4. Steps(tx, a) \in Nat /\ Steps(tx, b - 1) \in Nat
    BY <2>1, StepsType
  <2> QED
    BY <2>2, <2>3, <2>4
<1>3. ASSUME NEW q \in 1..Len(tx), P(q) PROVE q = p
  <2>1. q < p \/ p < q \/ q = p
    BY <1>1
  <2>0. p \in Nat
    BY <1>1
  <2>2. Steps(tx, p) \in Nat
    BY <2>0, StepsType
  <2>3. ~(q < p)
    BY <1>2, <1>3, <2>2
  <2>4. ~(p < q)
    BY <1>2, <1>3, <2>2
  <2> QED
    BY <2>1, <2>3, <2>4
<1>4. P(p)
  OBVIOUS
<1>5. (CHOOSE q \in 1..Len(tx) : P(q)) = p
  <2> HIDE DEF P
  <2> QED
    BY <1>3, <1>4
<1> QED
  BY <1>5 DEF Arg

LEMMA ArgGrows ==
    ASSUME NEW tx, NEW ty, IsSeq(tx), IsSeq(ty), Grows(tx, ty), NEW i \in 1..Sent(tx)
    PROVE  Arg(ty, i) = Arg(tx, i)
<1>1. Len(tx) \in Nat /\ Len(ty) \in Nat /\ Len(tx) <= Len(ty) /\ \A q \in 1..Len(tx) : ty[q] = tx[q]
  BY DEF IsSeq, Grows
<1>2. Sent(tx) \in Nat
  BY <1>1, StepsType DEF Sent
<1>3. ASSUME NEW q \in 0..Len(tx) PROVE Steps(ty, q) = Steps(tx, q)
  <2>1. q \in Nat /\ \A j \in 1..q : ty[j] = tx[j]
    BY <1>1
  <2> QED
    BY <2>1, StepsPrefix
<1> DEFINE P(q) == q \in 1..Len(tx) /\ IsKex(tx[q]) /\ Steps(tx, q) = i
           Q(q) == q \in 1..Len(ty) /\ IsKex(ty[q]) /\ Steps(ty, q) = i
<1>4. ASSUME NEW q, Q(q) PROVE P(q)
  <2>1. CASE q \in 1..Len(tx)
    BY <1>1, <1>3, <1>4, <2>1
  <2>2. CASE q \notin 1..Len(tx)
    <3>1. q - 1 \in Nat /\ Len(tx) <= q - 1 /\ (q - 1) + 1 = q
      BY <1>1, <1>4, <2>2
    <3>2. Steps(ty, q) = Steps(ty, q - 1) + 1
      BY <1>4, <3>1, StepsNext
    <3>3. Steps(ty, Len(tx)) <= Steps(ty, q - 1)
      BY <1>1, <3>1, StepsMonotone
    <3>4. Steps(ty, Len(tx)) = Sent(tx)
      BY <1>1, <1>3 DEF Sent
    <3>5. Steps(ty, q - 1) \in Nat
      BY <3>1, StepsType
    <3> QED
      BY <1>2, <1>4, <3>2, <3>3, <3>4, <3>5
  <2> QED
    BY <2>1, <2>2
<1>5. ASSUME NEW q, P(q) PROVE Q(q)
  BY <1>1, <1>3, <1>5
<1>6. \A q : P(q) <=> Q(q)
  BY <1>4, <1>5
<1> DEFINE p == CHOOSE q \in 1..Len(tx) : IsKex(tx[q]) /\ Steps(tx, q) = i
           r == CHOOSE q \in 1..Len(ty) : IsKex(ty[q]) /\ Steps(ty, q) = i
<1>7. p = r
  BY <1>6, Zenon
<1>8. Arg(tx, i) = tx[p].msg.arg /\ Arg(ty, i) = ty[r].msg.arg
  BY DEF Arg
<1>9. \E q \in 1..Len(tx) : IsKex(tx[q]) /\ Steps(tx, q) = i
  BY <1>1, StepsOnto DEF Sent
<1>10. p \in 1..Len(tx)
  BY <1>9, Zenon
<1>11. tx[p] = ty[p]
  BY <1>1, <1>10
<1> QED
  BY <1>7, <1>8, <1>11

\* A key that is known stays the same as the outputs grow.
LEMMA KeyGrows ==
    ASSUME NEW c, NEW s, NEW d, NEW t, IsSeq(c), IsSeq(s), IsSeq(d), IsSeq(t),
           Grows(c, d), Grows(s, t), NEW j \in Nat, Known(c, s, j), NEW dir
    PROVE  Key(dir, d, t, j) = Key(dir, c, s, j)
<1>1. CASE j = 0
  BY <1>1 DEF Key
<1>2. CASE j # 0
  <2>0. Sent(c) \in Nat /\ Sent(s) \in Nat
    BY StepsType DEF Sent, IsSeq
  <2> DEFINE a == 3 * (j - 1) + 1
             b == 3 * (j - 1) + 2
  <2>1. a \in 1..Sent(c) /\ a \in 1..Sent(s) /\ b \in 1..Sent(s) /\ 2 \in 1..Sent(s)
    BY <1>2, <2>0 DEF Known
  <2> HIDE DEF a, b
  <2>2. Arg(d, a) = Arg(c, a) /\ Arg(t, a) = Arg(s, a) /\ Arg(t, b) = Arg(s, b) /\ Arg(t, 2) = Arg(s, 2)
    BY <2>1, ArgGrows
  <2>3. Hash(t, j - 1) = Hash(s, j - 1) /\ Neg(d, t, j - 1) = Neg(c, s, j - 1)
    BY <2>2 DEF Hash, Neg, a, b
  <2>4. Hash(t, 0) = Hash(s, 0)
    <3>1. 3 * 0 + 2 = 2
      OBVIOUS
    <3> QED
      BY <2>2, <3>1 DEF Hash
  <2> QED
    BY <1>2, <2>3, <2>4 DEF Key
<1> QED
  BY <1>1, <1>2

LEMMA SentGrows ==
    ASSUME NEW c, NEW d, IsSeq(c), IsSeq(d), Grows(c, d)
    PROVE  /\ Sent(c) \in Nat /\ Sent(d) \in Nat /\ Sent(c) <= Sent(d)
           /\ \A n \in 0..Len(c) : Steps(d, n) = Steps(c, n)
<1>1. Len(c) \in Nat /\ Len(d) \in Nat /\ Len(c) <= Len(d) /\ \A q \in 1..Len(c) : d[q] = c[q]
  BY DEF IsSeq, Grows
<1>2. ASSUME NEW n \in 0..Len(c) PROVE Steps(d, n) = Steps(c, n)
  <2>1. n \in Nat /\ \A q \in 1..n : d[q] = c[q]
    BY <1>1
  <2> QED
    BY <2>1, StepsPrefix
<1>3. Steps(d, Len(c)) = Steps(c, Len(c)) /\ Steps(d, Len(c)) <= Steps(d, Len(d))
  BY <1>1, <1>2, StepsMonotone
<1>4. Steps(c, Len(c)) \in Nat /\ Steps(d, Len(d)) \in Nat
  BY <1>1, StepsType
<1> QED
  BY <1>2, <1>3, <1>4 DEF Sent

LEMMA KnownGrows ==
    ASSUME NEW c, NEW s, NEW d, NEW t, IsSeq(c), IsSeq(s), IsSeq(d), IsSeq(t),
           Grows(c, d), Grows(s, t), NEW j \in Nat, Known(c, s, j), NEW i \in 0..j
    PROVE  Known(d, t, i) /\ Known(c, s, i)
<1>1. Sent(c) \in Nat /\ Sent(d) \in Nat /\ Sent(c) <= Sent(d)
  BY SentGrows
<1>2. Sent(s) \in Nat /\ Sent(t) \in Nat /\ Sent(s) <= Sent(t)
  BY SentGrows
<1> QED
  BY <1>1, <1>2 DEF Known

LEMMA RoundMonotone ==
    ASSUME NEW a \in Nat, NEW b \in Nat, a <= b
    PROVE  Round(a) \in 0..Round(b)
<1>1. Round(a) \in Nat /\ Part(a) \in 0..2 /\ a = 3 * Round(a) + Part(a)
  BY RoundFacts
<1>2. Round(b) \in Nat /\ Part(b) \in 0..2 /\ b = 3 * Round(b) + Part(b)
  BY RoundFacts
<1> QED
  BY <1>1, <1>2

\* Frames stay sealed with the key of their round.
LEMMA SealedGrows ==
    ASSUME NEW c, NEW s, NEW d, NEW t, IsSeq(c), IsSeq(s), IsSeq(d), IsSeq(t),
           Grows(c, d), Grows(s, t), NEW tx, IsSeq(tx), NEW role, Sealed(tx, role, c, s),
           Known(c, s, Round(Sent(tx)))
    PROVE  Sealed(tx, role, d, t)
<1>1. Len(tx) \in Nat
  BY DEF IsSeq
<1>2. SUFFICES ASSUME NEW i \in 2..Len(tx)
               PROVE  tx[i].key = Key(Out(role), d, t, Round(Steps(tx, i - 1)))
  BY DEF Sealed
<1>3. i - 1 \in Nat /\ i - 1 <= Len(tx)
  BY <1>1
<1>4. Steps(tx, i - 1) \in Nat /\ Sent(tx) \in Nat /\ Steps(tx, i - 1) <= Sent(tx)
  BY <1>1, <1>3, StepsType, StepsMonotone DEF Sent
<1> DEFINE j == Round(Steps(tx, i - 1))
           b == Round(Sent(tx))
<1>5. j \in 0..b /\ b \in Nat /\ j \in Nat
  BY <1>4, RoundMonotone, RoundFacts
<1>6. tx[i].key = Key(Out(role), c, s, j)
  BY DEF Sealed
<1> HIDE DEF j, b
<1>7. Known(c, s, b)
  BY DEF b
<1>8. Known(c, s, j)
  BY <1>5, <1>7, KnownGrows
<1>9. Key(Out(role), d, t, j) = Key(Out(role), c, s, j)
  BY <1>5, <1>8, KeyGrows
<1> QED
  BY <1>6, <1>9 DEF j

\* One more frame: its number, its key and its distance.
LEMMA AppendChained ==
    ASSUME NEW tx, IsSeq(tx), Len(tx) >= 1, Chained(tx), NEW f, f.seq = After(tx[Len(tx)])
    PROVE  Chained(Append(tx, f))
<1> DEFINE ty == Append(tx, f)
<1>1. /\ IsSeq(ty) /\ Len(ty) = Len(tx) + 1 /\ ty[Len(tx) + 1] = f
      /\ \A i \in 1..Len(tx) : ty[i] = tx[i]
  BY AppendFacts
<1>2. Len(tx) \in Nat
  BY DEF IsSeq
<1> HIDE DEF ty
<1>3. ASSUME NEW i \in 1..(Len(ty) - 1) PROVE ty[i + 1].seq = After(ty[i])
  <2>1. CASE i = Len(tx)
    BY <1>1, <1>2, <2>1
  <2>2. CASE i \in 1..(Len(tx) - 1)
    <3>1. i \in 1..Len(tx) /\ i + 1 \in 1..Len(tx)
      BY <1>2, <2>2
    <3> QED
      BY <1>1, <2>2, <3>1 DEF Chained
  <2> QED
    BY <1>1, <1>2, <2>1, <2>2
<1> QED
  BY <1>3 DEF Chained, ty

LEMMA AppendSealed ==
    ASSUME NEW tx, IsSeq(tx), NEW role, NEW c, NEW s, Sealed(tx, role, c, s),
           NEW f, f.key = Key(Out(role), c, s, Round(Sent(tx)))
    PROVE  Sealed(Append(tx, f), role, c, s)
<1> DEFINE ty == Append(tx, f)
<1>1. /\ IsSeq(ty) /\ Len(ty) = Len(tx) + 1 /\ ty[Len(tx) + 1] = f
      /\ \A i \in 1..Len(tx) : ty[i] = tx[i]
  BY AppendFacts
<1>2. Len(tx) \in Nat
  BY DEF IsSeq
<1>3. \A i \in 0..Len(tx) : Steps(ty, i) = Steps(tx, i)
  BY AppendSteps
<1> HIDE DEF ty
<1>4. ASSUME NEW i \in 2..Len(ty)
      PROVE  ty[i].key = Key(Out(role), c, s, Round(Steps(ty, i - 1)))
  <2>1. CASE i = Len(tx) + 1
    <3>1. i - 1 = Len(tx) /\ Len(tx) \in 0..Len(tx)
      BY <1>2, <2>1
    <3>2. Steps(ty, i - 1) = Sent(tx) /\ ty[i] = f
      BY <1>1, <1>3, <2>1, <3>1 DEF Sent
    <3> QED
      BY <3>2
  <2>2. CASE i \in 2..Len(tx)
    <3>1. i - 1 \in 0..Len(tx) /\ i \in 1..Len(tx)
      BY <1>2, <2>2
    <3>2. Steps(ty, i - 1) = Steps(tx, i - 1) /\ ty[i] = tx[i]
      BY <1>1, <1>3, <3>1
    <3> QED
      BY <2>2, <3>2 DEF Sealed
  <2> QED
    BY <1>1, <1>2, <2>1, <2>2
<1> QED
  BY <1>4 DEF Sealed, ty

LEMMA LastArg ==
    ASSUME NEW tx, IsSeq(tx), Len(tx) >= 1, IsKex(tx[Len(tx)])
    PROVE  Arg(tx, Sent(tx)) = tx[Len(tx)].msg.arg
<1>1. Len(tx) \in 1..Len(tx)
  BY DEF IsSeq
<1> QED
  BY <1>1, ArgAt DEF Sent

\* What the server signs in round j, and that it has signed it, of values the
\* client has written.
Transcript(c, s, j) ==
    <<Arg(c, 3 * j + 1).cookie, Arg(s, 3 * j + 1).cookie,
      Arg(c, 3 * j + 2), Arg(s, 3 * j + 2).q_s, Neg(c, s, j).kex>>

Attested(c, s) ==
    \A j \in Nat : 3 * j + 2 <= Sent(s) => 3 * j + 2 <= Sent(c) /\ Hash(s, j) = Transcript(c, s, j)

\* m is a reply that signs the exchange it ends.
Attests(c, s, m) ==
    LET n == Sent(s)
    IN  /\ n + 1 <= Sent(c)
        /\ m.arg.signed = <<Arg(c, n).cookie, Arg(s, n).cookie, Arg(c, n + 1), m.arg.q_s,
                            negotiate(Arg(c, n), Arg(s, n)).kex>>

LEMMA AttestedGrows ==
    ASSUME NEW c, NEW s, NEW d, NEW t, IsSeq(c), IsSeq(s), IsSeq(d), IsSeq(t),
           Grows(c, d), Grows(s, t), NEW j \in Nat, 3 * j + 2 <= Sent(s), Attested(c, s)
    PROVE  3 * j + 2 <= Sent(d) /\ Hash(t, j) = Transcript(d, t, j)
<1> DEFINE a == 3 * j + 1
           b == 3 * j + 2
<1>0. Sent(c) \in Nat /\ Sent(s) \in Nat /\ Sent(d) \in Nat
  BY StepsType DEF Sent, IsSeq
<1>1. b <= Sent(c) /\ Hash(s, j) = Transcript(c, s, j)
  BY DEF Attested
<1>2. a \in 1..Sent(c) /\ a \in 1..Sent(s) /\ b \in 1..Sent(c) /\ b \in 1..Sent(s)
  BY <1>0, <1>1
<1>3. Sent(c) <= Sent(d)
  <2>1. Len(c) \in Nat /\ Len(d) \in Nat /\ Len(c) <= Len(d) /\ \A i \in 1..Len(c) : d[i] = c[i]
    BY DEF IsSeq, Grows
  <2>2. Steps(d, Len(c)) = Steps(c, Len(c))
    BY <2>1, StepsPrefix
  <2>3. Steps(d, Len(c)) <= Steps(d, Len(d))
    BY <2>1, StepsMonotone
  <2> QED
    BY <2>2, <2>3 DEF Sent
<1> HIDE DEF a, b
<1>4. Arg(d, a) = Arg(c, a) /\ Arg(t, a) = Arg(s, a) /\ Arg(d, b) = Arg(c, b) /\ Arg(t, b) = Arg(s, b)
  BY <1>2, ArgGrows
<1>5. Hash(t, j) = Hash(s, j) /\ Transcript(d, t, j) = Transcript(c, s, j)
  BY <1>4 DEF Hash, Transcript, Neg, a, b
<1>6. b <= Sent(d)
  BY <1>0, <1>2, <1>3
<1> QED
  BY <1>1, <1>5, <1>6 DEF b

LEMMA AppendAttested ==
    ASSUME NEW c, NEW s, IsSeq(c), IsSeq(s), Attested(c, s), NEW f,
           IsKex(f) /\ Part(Sent(s)) = 1 => Attests(c, s, f.msg)
    PROVE  Attested(c, Append(s, f))
<1> DEFINE t == Append(s, f)
           n == Sent(s)
<1>0. /\ IsSeq(t) /\ Len(t) = Len(s) + 1 /\ t[Len(s) + 1] = f
      /\ \A i \in 1..Len(s) : t[i] = s[i]
  BY AppendFacts
<1>2. /\ n \in Nat /\ Sent(t) \in Nat /\ Sent(t) = IF IsKex(f) THEN n + 1 ELSE n
  BY AppendSteps
<1>3. Grows(c, c)
  BY DEF Grows, IsSeq
<1> HIDE DEF t, n
<1>1. IsSeq(t) /\ Grows(s, t) /\ Len(t) \in Nat /\ Len(t) = Len(s) + 1 /\ t[Len(t)] = f /\ Len(t) >= 1
  BY <1>0 DEF Grows, IsSeq
<1>4. ASSUME NEW j \in Nat, 3 * j + 2 <= Sent(t)
      PROVE  3 * j + 2 <= Sent(c) /\ Hash(t, j) = Transcript(c, t, j)
  <2>1. CASE 3 * j + 2 <= n
    BY <1>1, <1>3, <2>1, AttestedGrows DEF n
  <2>2. CASE ~(3 * j + 2 <= n)
    <3>1. IsKex(f) /\ n = 3 * j + 1 /\ Sent(t) = n + 1
      BY <1>2, <1>4, <2>2
    <3>2. Part(n) = 1
      BY <3>1 DEF Part
    <3>3. Attests(c, s, f.msg)
      BY <3>1, <3>2 DEF n
    <3>4. Arg(t, n + 1) = f.msg.arg
      BY <1>1, <3>1, LastArg
    <3>5. Arg(t, n) = Arg(s, n)
      <4>1. n \in 1..Sent(s)
        BY <1>2, <3>1 DEF n
      <4> QED
        BY <1>1, <4>1, ArgGrows
    <3>6. n + 1 = 3 * j + 2
      BY <3>1
    <3>7. /\ n + 1 <= Sent(c)
          /\ f.msg.arg.signed = <<Arg(c, n).cookie, Arg(s, n).cookie, Arg(c, n + 1), f.msg.arg.q_s,
                                  negotiate(Arg(c, n), Arg(s, n)).kex>>
      BY <3>3 DEF Attests, n
    <3>8. Hash(t, j) = f.msg.arg.signed
      BY <3>4, <3>6 DEF Hash
    <3>9. Transcript(c, t, j) = <<Arg(c, n).cookie, Arg(s, n).cookie, Arg(c, n + 1), f.msg.arg.q_s,
                                  negotiate(Arg(c, n), Arg(s, n)).kex>>
      BY <3>1, <3>4, <3>5, <3>6 DEF Transcript, Neg
    <3> QED
      BY <3>6, <3>7, <3>8, <3>9
  <2> QED
    BY <2>1, <2>2
<1> QED
  BY <1>4 DEF Attested, t

\* Stretch looks at earlier frames only.
LEMMA StretchPrefix ==
    ASSUME NEW tx, NEW ty, NEW i \in Nat, \A q \in 1..(i - 1) : ty[q] = tx[q], NEW x \in Nat
    PROVE  Stretch(ty, i, x) <=> Stretch(tx, i, x)
<1>1. CASE x \in 1..(i - 1)
  <2>1. x # i - 1 => i - x \in 1..(i - 1)
    BY <1>1
  <2>2. \A q \in (i - x + 1)..(i - 1) : q \in 1..(i - 1)
    BY <1>1
  <2> QED
    BY <2>1, <2>2 DEF Stretch
<1>2. CASE x \notin 1..(i - 1)
  BY <1>2 DEF Stretch
<1> QED
  BY <1>1, <1>2

\* A step further.
LEMMA StretchNext ==
    ASSUME NEW tx, NEW i \in Nat, i >= 2, NEW x \in Nat
    PROVE  /\ Stretch(tx, i + 1, x) =>
                \/ x = 1
                \/ x >= 2 /\ Stretch(tx, i, x - 1) /\ tx[i].msg.id # "NEWKEYS"
           /\ Stretch(tx, i, x) /\ tx[i].msg.id # "NEWKEYS" => Stretch(tx, i + 1, x + 1)
           /\ tx[i].msg.id = "NEWKEYS" => Stretch(tx, i + 1, 1)
<1>1. ASSUME Stretch(tx, i + 1, x), x # 1
      PROVE  x >= 2 /\ Stretch(tx, i, x - 1) /\ tx[i].msg.id # "NEWKEYS"
  <2>1. x \in 1..i /\ (x = i \/ tx[i + 1 - x].msg.id = "NEWKEYS")
        /\ \A j \in (i + 1 - x + 1)..i : tx[j].msg.id # "NEWKEYS"
    BY <1>1 DEF Stretch
  <2>2. x >= 2 /\ x - 1 \in 1..(i - 1) /\ i \in (i + 1 - x + 1)..i
    BY <1>1, <2>1
  <2>3. i - (x - 1) = i + 1 - x /\ i - (x - 1) + 1 = i + 1 - x + 1
    BY <2>1
  <2>4. x - 1 = i - 1 \/ tx[i - (x - 1)].msg.id = "NEWKEYS"
    BY <2>1, <2>3
  <2>5. \A j \in (i - (x - 1) + 1)..(i - 1) : tx[j].msg.id # "NEWKEYS"
    BY <2>1, <2>3
  <2> QED
    BY <2>1, <2>2, <2>4, <2>5 DEF Stretch
<1>2. ASSUME Stretch(tx, i, x), tx[i].msg.id # "NEWKEYS" PROVE Stretch(tx, i + 1, x + 1)
  <2>1. x \in 1..(i - 1) /\ (x = i - 1 \/ tx[i - x].msg.id = "NEWKEYS")
        /\ \A j \in (i - x + 1)..(i - 1) : tx[j].msg.id # "NEWKEYS"
    BY <1>2 DEF Stretch
  <2>2. x + 1 \in 1..(i + 1 - 1) /\ (i + 1) - (x + 1) = i - x
    BY <2>1
  <2>3. \A j \in (i - x + 1)..(i + 1 - 1) : j \in (i - x + 1)..(i - 1) \/ j = i
    BY <2>1
  <2>4. x + 1 = i + 1 - 1 \/ tx[(i + 1) - (x + 1)].msg.id = "NEWKEYS"
    BY <2>1, <2>2
  <2>5. \A j \in ((i + 1) - (x + 1) + 1)..(i + 1 - 1) : tx[j].msg.id # "NEWKEYS"
    BY <1>2, <2>1, <2>2, <2>3
  <2> QED
    BY <2>2, <2>4, <2>5 DEF Stretch
<1>3. tx[i].msg.id = "NEWKEYS" => Stretch(tx, i + 1, 1)
  <2>1. (i + 1) - 1 = i /\ 1 \in 1..i /\ \A j \in (i + 1)..i : FALSE
    OBVIOUS
  <2> QED
    BY <2>1 DEF Stretch
<1> QED
  BY <1>1, <1>2, <1>3

LEMMA AppendSpaced ==
    ASSUME NEW tx, IsSeq(tx), Spaced(tx), NEW f, NEW b \in Nat, b < EpochHardPackets,
           \A x \in Nat : Stretch(tx, Len(tx) + 1, x) => x <= b
    PROVE  Spaced(Append(tx, f))
<1> DEFINE ty == Append(tx, f)
<1>1. /\ IsSeq(ty) /\ Len(ty) = Len(tx) + 1 /\ \A i \in 1..Len(tx) : ty[i] = tx[i]
  BY AppendFacts
<1>2. Len(tx) \in Nat /\ EpochHardPackets \in Nat
  BY TransportAssumption DEF IsSeq
<1> HIDE DEF ty
<1>3. ASSUME NEW i \in 2..Len(ty), NEW x \in Nat, Stretch(ty, i, x) PROVE x < EpochHardPackets
  <2>1. i \in Nat /\ \A q \in 1..(i - 1) : ty[q] = tx[q]
    BY <1>1, <1>2
  <2>2. Stretch(tx, i, x)
    BY <1>3, <2>1, StretchPrefix
  <2>3. CASE i = Len(tx) + 1
    BY <1>2, <2>2, <2>3
  <2>4. CASE i \in 2..Len(tx)
    BY <2>2, <2>4 DEF Spaced
  <2> QED
    BY <1>1, <1>2, <2>3, <2>4
<1> QED
  BY <1>3 DEF Spaced, ty

LEMMA AppendStretch ==
    ASSUME NEW tx, IsSeq(tx), Len(tx) >= 1, NEW f, NEW b \in Nat,
           \A x \in Nat : Stretch(tx, Len(tx) + 1, x) => x <= b
    PROVE  \A x \in Nat : Stretch(Append(tx, f), Len(tx) + 2, x) => x <= b + 1
<1> DEFINE ty == Append(tx, f)
           k == Len(tx) + 1
<1>1. /\ IsSeq(ty) /\ Len(ty) = k /\ \A i \in 1..Len(tx) : ty[i] = tx[i]
  BY AppendFacts
<1>2. Len(tx) \in Nat /\ k \in Nat /\ k >= 2 /\ Len(tx) + 2 = k + 1 /\ k - 1 = Len(tx)
  BY DEF IsSeq
<1> HIDE DEF ty
<1>3. ASSUME NEW x \in Nat, Stretch(ty, k + 1, x) PROVE x <= b + 1
  <2>1. x = 1 \/ (x >= 2 /\ Stretch(ty, k, x - 1))
    BY <1>2, <1>3, StretchNext
  <2>2. CASE x = 1
    BY <2>2
  <2>3. CASE x >= 2 /\ Stretch(ty, k, x - 1)
    <3>1. x - 1 \in Nat
      BY <2>3
    <3>2. Stretch(tx, k, x - 1)
      BY <1>1, <1>2, <2>3, <3>1, StretchPrefix
    <3>3. x - 1 <= b
      BY <3>1, <3>2
    <3> QED
      BY <3>1, <3>3
  <2> QED
    BY <2>1, <2>2, <2>3
<1> QED
  BY <1>2, <1>3 DEF ty

--------------------------------------------------------------------------------
(* An endpoint that writes, opposite the output P of its peer *)

ClientTx(e, P) == IF e.role = "client" THEN e.tx ELSE P
ServerTx(e, P) == IF e.role = "client" THEN P ELSE e.tx

KeyOf(e, P, dir, j) == Key(dir, ClientTx(e, P), ServerTx(e, P), j)
KnownTo(e, P, j)    == Known(ClientTx(e, P), ServerTx(e, P), j)

Exhausted(e) == e.tx_packets_since_rekey >= EpochHardPackets

\* Everything written is in order, numbered, and sealed with the key of its
\* round; no epoch is too long unless the endpoint has closed over it.
LogOK(e, P) ==
    /\ Ordered(e.tx, e.role) /\ Chained(e.tx)
    /\ Sealed(e.tx, e.role, ClientTx(e, P), ServerTx(e, P))
    /\ Spaced(e.tx) \/ Exhausted(e)
    /\ KnownTo(e, P, Round(Sent(e.tx)))
    /\ e.role = "server" => Attested(P, e.tx)
    /\ e.offered_ciphers \in CipherLists /\ e.offered_compression \in CompLists

\* The next frame will be numbered and sealed as its place asks.
Ready(e, P) ==
    /\ e.tx_seq = After(e.tx[Len(e.tx)])
    /\ e.cipher_out = KeyOf(e, P, Out(e.role), Round(Sent(e.tx)))
    /\ \A x \in Nat : Stretch(e.tx, Len(e.tx) + 1, x) => x <= e.tx_packets_since_rekey + 1

\* The outputs of both grow when e becomes w and its peer's output P becomes Q.
Further(e, P, w, Q) ==
    /\ IsSeq(ClientTx(e, P)) /\ IsSeq(ServerTx(e, P))
    /\ IsSeq(ClientTx(w, Q)) /\ IsSeq(ServerTx(w, Q))
    /\ Grows(ClientTx(e, P), ClientTx(w, Q)) /\ Grows(ServerTx(e, P), ServerTx(w, Q))
    /\ \A j \in Nat : KnownTo(e, P, j) =>
         KnownTo(w, Q, j) /\ \A dir : KeyOf(w, Q, dir, j) = KeyOf(e, P, dir, j)

LEMMA OutputsGrow ==
    ASSUME NEW e, NEW w, NEW P, NEW Q, w.role = e.role, IsSeq(e.tx), IsSeq(w.tx), IsSeq(P), IsSeq(Q),
           Grows(e.tx, w.tx), Grows(P, Q)
    PROVE  Further(e, P, w, Q)
<1> DEFINE c == ClientTx(e, P)
           s == ServerTx(e, P)
           d == ClientTx(w, Q)
           t == ServerTx(w, Q)
<1>1. IsSeq(c) /\ IsSeq(s) /\ IsSeq(d) /\ IsSeq(t) /\ Grows(c, d) /\ Grows(s, t)
  BY DEF ClientTx, ServerTx
<1> HIDE DEF c, s, d, t
<1>2. ASSUME NEW j \in Nat, Known(c, s, j)
      PROVE  Known(d, t, j) /\ \A dir : Key(dir, d, t, j) = Key(dir, c, s, j)
  <2>1. j \in 0..j
    OBVIOUS
  <2> QED
    BY <1>1, <1>2, <2>1, KnownGrows, KeyGrows
<1> QED
  BY <1>1, <1>2 DEF c, s, d, t, KnownTo, KeyOf, Further

LEMMA WriteLog ==
    ASSUME NEW e, Shape(e), ~e.closing, NEW P, IsSeq(P), LogOK(e, P), Ready(e, P),
           NEW m, Follows(e.role, Sent(e.tx), m), m.id = "NEWKEYS" => Sent(e.tx) <= Sent(P),
           m.id = "ECDH_REPLY" => Attests(P, e.tx, m)
    PROVE  LET w == write_packet(e, m)
           IN  /\ LogOK(w, P) /\ IsSeq(w.tx) /\ Len(w.tx) = Len(e.tx) + 1
               /\ w.tx[Len(w.tx)].msg = m
               /\ Sent(e.tx) \in Nat
               /\ Sent(w.tx) = IF m.id \in KexIds THEN Sent(e.tx) + 1 ELSE Sent(e.tx)
               /\ w.tx_seq = NextSeq(w.tx[Len(w.tx)].seq)
               /\ \A x \in Nat : Stretch(w.tx, Len(w.tx) + 1, x) => x <= w.tx_packets_since_rekey + 1
               /\ m.id # "NEWKEYS" => Ready(w, P)
<1> DEFINE w == write_packet(e, m)
           f == [key |-> e.cipher_out, seq |-> e.tx_seq, comp |-> e.comp_out, msg |-> m]
           n == Sent(e.tx)
           t == e.tx_packets_since_rekey
           k == Len(e.tx)
<1>1. /\ w.tx = Append(e.tx, f) /\ w.tx_packets_since_rekey = t + 1 /\ w.tx_seq = NextSeq(e.tx_seq)
      /\ \A x \in Fields \ Written : w[x] = e[x]
  BY WriteFacts
<1>2. f.key = e.cipher_out /\ f.seq = e.tx_seq /\ f.msg = m /\ (IsKex(f) <=> m.id \in KexIds)
  BY DEF IsKex
<1> HIDE DEF w, f
<1>3. /\ w.role = e.role /\ w.cipher_out = e.cipher_out /\ w.offered_ciphers = e.offered_ciphers
      /\ w.offered_compression = e.offered_compression
  BY <1>1 DEF Fields, Written
<1>4. IsSeq(e.tx) /\ k \in Nat /\ k >= 1 /\ e.role \in Roles /\ t \in Nat /\ EpochHardPackets \in Nat
  BY TransportAssumption DEF Shape, IsSeq, LogOK, Ordered
<1>5. /\ IsSeq(w.tx) /\ Len(w.tx) = k + 1 /\ w.tx[k + 1] = f
      /\ \A i \in 1..k : w.tx[i] = e.tx[i]
  <2>1. w.tx = Append(e.tx, f) /\ IsSeq(e.tx)
    BY <1>1, <1>4
  <2> HIDE DEF f, w
  <2> QED
    BY <2>1, AppendFacts
<1>6. Grows(e.tx, w.tx) /\ Grows(P, P)
  <2>1. Grows(P, P)
    BY DEF Grows, IsSeq
  <2>2. Len(e.tx) \in Nat /\ Len(w.tx) = Len(e.tx) + 1 /\ \A i \in 1..Len(e.tx) : w.tx[i] = e.tx[i]
    BY <1>4, <1>5
  <2>3. Grows(e.tx, w.tx)
    BY <2>2 DEF Grows
  <2> QED
    BY <2>1, <2>3
<1>7. /\ n \in Nat /\ Sent(w.tx) \in Nat
      /\ Sent(w.tx) = IF m.id \in KexIds THEN n + 1 ELSE n
  BY <1>1, <1>2, <1>4, AppendSteps
<1>8. /\ Part(n) \in 0..2 /\ n = 3 * Round(n) + Part(n) /\ Round(n) \in Nat
      /\ Part(n) \in {0, 1} => Round(n + 1) = Round(n)
      /\ Part(n) = 2 => Round(n + 1) = Round(n) + 1
  BY <1>7, RoundFacts
<1>9. /\ m.id \in KexIds => m.id = Kind(e.role, Part(n)) /\ (m.id = "NEWKEYS" <=> Part(n) = 2)
      /\ m.id # "VERSION" /\ "NEWKEYS" \in KexIds
  <2> DEFINE g == Kind(e.role, Part(n))
  <2>1. /\ g \in KexIds /\ g \notin Deferred /\ g # "DISCONNECT" /\ g # "VERSION"
        /\ (g = "NEWKEYS" <=> Part(n) = 2) /\ "DISCONNECT" \notin KexIds
        /\ KexIds \cap Deferred = {}
    BY <1>4, <1>8, KindFacts
  <2>2. m.id = g \/ m.id = "DISCONNECT" \/ m.id \in Deferred
    BY DEF Follows
  <2>3. "VERSION" \notin Deferred /\ "NEWKEYS" \in KexIds
    BY DEF Deferred, AppIds, KexIds
  <2> HIDE DEF g
  <2>4. m.id \in KexIds => m.id = g
    BY <2>1, <2>2
  <2>5. m.id # "VERSION"
    BY <2>1, <2>2, <2>3
  <2> QED
    BY <2>1, <2>3, <2>4, <2>5 DEF g
<1>10. /\ IsSeq(ClientTx(e, P)) /\ IsSeq(ServerTx(e, P))
       /\ IsSeq(ClientTx(w, P)) /\ IsSeq(ServerTx(w, P))
       /\ Grows(ClientTx(e, P), ClientTx(w, P)) /\ Grows(ServerTx(e, P), ServerTx(w, P))
       /\ \A j \in Nat : KnownTo(e, P, j) =>
             KnownTo(w, P, j) /\ \A dir : KeyOf(w, P, dir, j) = KeyOf(e, P, dir, j)
  <2>1. Further(e, P, w, P)
    BY <1>3, <1>4, <1>5, <1>6, OutputsGrow
  <2> QED
    BY <2>1 DEF Further
<1>11. Ordered(w.tx, w.role)
  BY <1>1, <1>2, <1>3, <1>4, AppendOrdered DEF LogOK
<1>12. Chained(w.tx)
  BY <1>1, <1>2, <1>4, AppendChained DEF LogOK, Ready
<1>13. e.cipher_out = KeyOf(w, P, Out(w.role), Round(n)) /\ KnownTo(w, P, Round(n))
  BY <1>3, <1>8, <1>10 DEF LogOK, Ready
<1>14. Sealed(w.tx, w.role, ClientTx(w, P), ServerTx(w, P))
  <2>1. Sealed(e.tx, e.role, ClientTx(w, P), ServerTx(w, P))
    BY <1>4, <1>10, SealedGrows DEF LogOK, KnownTo
  <2> QED
    BY <1>1, <1>2, <1>3, <1>4, <1>13, <2>1, AppendSealed DEF KeyOf
<1>15. Spaced(w.tx) \/ Exhausted(w)
  <2>1. CASE t + 1 >= EpochHardPackets
    BY <1>1, <2>1 DEF Exhausted
  <2>2. CASE ~(t + 1 >= EpochHardPackets)
    <3>1. Spaced(e.tx)
      BY <1>4, <2>2 DEF LogOK, Exhausted
    <3>2. t + 1 \in Nat /\ t + 1 < EpochHardPackets
      BY <1>4, <2>2
    <3>3. \A x \in Nat : Stretch(e.tx, k + 1, x) => x <= t + 1
      BY DEF Ready
    <3> QED
      BY <1>1, <1>4, <3>1, <3>2, <3>3, AppendSpaced
  <2> QED
    BY <2>1, <2>2
<1>16. KnownTo(w, P, Round(Sent(w.tx)))
  <2>1. CASE m.id = "NEWKEYS"
    <3>1. Sent(w.tx) = n + 1 /\ Round(Sent(w.tx)) = Round(n) + 1 /\ n = 3 * Round(n) + 2 /\ n <= Sent(P)
      BY <1>7, <1>8, <1>9, <2>1
    <3>2. Sent(P) \in Nat
      BY StepsType DEF Sent, IsSeq
    <3>3. 3 * (Round(n) + 1) - 1 = n /\ 3 * (Round(n) + 1) - 2 = n - 1
      BY <1>8, <3>1
    <3> DEFINE j == Round(n) + 1
               a == Sent(w.tx)
    <3>4. j \in Nat /\ n <= a /\ n - 1 <= a /\ n - 1 <= Sent(P)
      BY <1>7, <1>8, <3>1, <3>2
    <3>5. Sent(ClientTx(w, P)) \in {a, Sent(P)} /\ Sent(ServerTx(w, P)) \in {a, Sent(P)}
      BY DEF ClientTx, ServerTx
    <3>6. 3 * j - 1 = n /\ 3 * j - 2 = n - 1
      BY <3>3
    <3>7. Known(ClientTx(w, P), ServerTx(w, P), j)
      <4> HIDE DEF j, a
      <4> QED
        BY <3>1, <3>4, <3>5, <3>6 DEF Known
    <3> QED
      BY <3>1, <3>7 DEF KnownTo
  <2>2. CASE m.id # "NEWKEYS"
    <3>1. Round(Sent(w.tx)) = Round(n)
      BY <1>7, <1>8, <1>9, <2>2
    <3> QED
      BY <1>13, <3>1
  <2> QED
    BY <2>1, <2>2
<1>22. ASSUME w.role = "server" PROVE Attested(P, w.tx)
  <2>1. Attested(P, e.tx) /\ e.role = "server"
    BY <1>3, <1>22 DEF LogOK
  <2>2. IsKex(f) /\ Part(n) = 1 => Attests(P, e.tx, f.msg)
    <3>1. m.id \in KexIds /\ Part(n) = 1 => m.id = "ECDH_REPLY"
      BY <1>9, <2>1 DEF Kind
    <3> QED
      BY <1>2, <3>1
  <2> QED
    BY <1>1, <1>4, <2>1, <2>2, AppendAttested
<1>17. LogOK(w, P)
  BY <1>3, <1>11, <1>12, <1>14, <1>15, <1>16, <1>22 DEF LogOK
<1>18. w.tx[Len(w.tx)] = f
  BY <1>5
<1>19. w.tx_seq = NextSeq(w.tx[Len(w.tx)].seq)
  BY <1>1, <1>2, <1>18
<1>20. \A x \in Nat : Stretch(w.tx, Len(w.tx) + 1, x) => x <= w.tx_packets_since_rekey + 1
  <2>1. \A x \in Nat : Stretch(e.tx, k + 1, x) => x <= t + 1
    BY DEF Ready
  <2>2. t + 1 \in Nat /\ Len(w.tx) + 1 = k + 2
    BY <1>4, <1>5
  <2> DEFINE b == t + 1
  <2> HIDE DEF b
  <2>4. b \in Nat /\ \A x \in Nat : Stretch(e.tx, k + 1, x) => x <= b
    BY <2>1, <2>2 DEF b
  <2>5. \A x \in Nat : Stretch(Append(e.tx, f), k + 2, x) => x <= b + 1
    BY <1>4, <2>4, AppendStretch
  <2>3. \A x \in Nat : Stretch(w.tx, k + 2, x) => x <= (t + 1) + 1
    BY <1>1, <2>5 DEF b
  <2> QED
    BY <1>1, <2>2, <2>3
<1>21. ASSUME m.id # "NEWKEYS" PROVE Ready(w, P)
  <2>1. Round(Sent(w.tx)) = Round(n)
    BY <1>7, <1>8, <1>9, <1>21
  <2>2. w.tx_seq = After(w.tx[Len(w.tx)])
    BY <1>2, <1>9, <1>18, <1>19, <1>21 DEF After
  <2> QED
    BY <1>3, <1>13, <1>20, <2>1, <2>2 DEF Ready
<1> QED
  BY <1>2, <1>5, <1>7, <1>17, <1>18, <1>19, <1>20, <1>21 DEF w

LEMMA LogGrows ==
    ASSUME NEW e, NEW P, NEW Q, IsSeq(e.tx), IsSeq(P), IsSeq(Q), Grows(P, Q), LogOK(e, P)
    PROVE  LogOK(e, Q) /\ (Ready(e, P) => Ready(e, Q))
<1>1. Grows(e.tx, e.tx)
  BY DEF Grows, IsSeq
<1>2. Further(e, P, e, Q)
  BY <1>1, OutputsGrow
<1>3. Round(Sent(e.tx)) \in Nat
  BY StepsType, RoundFacts DEF Sent, IsSeq
<1>4. KnownTo(e, Q, Round(Sent(e.tx)))
      /\ \A dir : KeyOf(e, Q, dir, Round(Sent(e.tx))) = KeyOf(e, P, dir, Round(Sent(e.tx)))
  BY <1>2, <1>3 DEF Further, LogOK
<1>5. Sealed(e.tx, e.role, ClientTx(e, Q), ServerTx(e, Q))
  BY <1>2, SealedGrows DEF Further, LogOK, KnownTo
<1>6. Attested(P, e.tx) => Attested(Q, e.tx)
  <2> SUFFICES ASSUME Attested(P, e.tx), NEW j \in Nat, 3 * j + 2 <= Sent(e.tx)
               PROVE  3 * j + 2 <= Sent(Q) /\ Hash(e.tx, j) = Transcript(Q, e.tx, j)
    BY DEF Attested
  <2> QED
    BY <1>1, AttestedGrows
<1> QED
  BY <1>4, <1>5, <1>6 DEF LogOK, Ready

\* What LogOK and Ready depend on.
LEMMA LogSame ==
    ASSUME NEW e, NEW r, NEW P, r.tx = e.tx, r.role = e.role,
           r.tx_packets_since_rekey = e.tx_packets_since_rekey,
           r.offered_ciphers = e.offered_ciphers, r.offered_compression = e.offered_compression
    PROVE  /\ LogOK(e, P) => LogOK(r, P)
           /\ r.tx_seq = e.tx_seq /\ r.cipher_out = e.cipher_out /\ Ready(e, P) => Ready(r, P)
           /\ \A dir, j : KeyOf(r, P, dir, j) = KeyOf(e, P, dir, j)
           /\ \A j : KnownTo(r, P, j) <=> KnownTo(e, P, j)
BY DEF LogOK, Ready, KeyOf, KnownTo, ClientTx, ServerTx, Exhausted

Writer(e, P) == LogOK(e, P) /\ (e.closing \/ Ready(e, P))

\* Closed only by the limit of the epoch.
Capped(e) == e.closing => Exhausted(e)

\* w has written x key-exchange messages more than e, or closed before.
Adds(e, w, x) ==
    /\ Sent(e.tx) \in Nat /\ Sent(w.tx) \in Sent(e.tx)..(Sent(e.tx) + x)
    /\ ~w.closing => ~e.closing /\ Sent(w.tx) = Sent(e.tx) + x
    /\ e.closing => w.tx = e.tx
    /\ IsSeq(w.tx) /\ Grows(e.tx, w.tx) /\ (Capped(e) => Capped(w))

LEMMA AddsTransitive ==
    ASSUME NEW a, NEW b, NEW c, Shape(a), Shape(b), Shape(c), NEW x \in Nat, NEW y \in Nat,
           Adds(a, b, x), Adds(b, c, y)
    PROVE  Adds(a, c, x + y)
<1>1. Len(a.tx) \in Nat /\ Len(b.tx) \in Nat /\ Len(c.tx) \in Nat
  BY GrowsReflexive
<1>2. Grows(a.tx, c.tx)
  BY <1>1, GrowsTransitive DEF Adds
<1> QED
  BY <1>2 DEF Adds

LEMMA AddsNothing ==
    ASSUME NEW e, NEW r, Shape(e), r.tx = e.tx, r.closing = e.closing,
           r.tx_packets_since_rekey = e.tx_packets_since_rekey
    PROVE  Adds(e, r, 0)
<1>1. Sent(e.tx) \in Nat
  BY StepsType DEF Sent, Shape, IsSeq
<1>2. IsSeq(r.tx) /\ Grows(e.tx, r.tx)
  BY GrowsReflexive DEF Shape
<1> QED
  BY <1>1, <1>2 DEF Adds, Capped, Exhausted

LEMMA WriteChanged ==
    ASSUME NEW e, Shape(e), NEW m
    PROVE  Changed(e, write_packet(e, m), Written)
<1>1. CASE e.closing
  BY <1>1 DEF write_packet, Muted, Changed, Shape
<1>2. CASE ~e.closing
  BY <1>2, WriteFacts DEF Changed
<1> QED
  BY <1>1, <1>2

LEMMA WriteWriter ==
    ASSUME NEW e, Shape(e), NEW P, IsSeq(P), Writer(e, P), NEW m, m.id # "NEWKEYS",
           m.id = "ECDH_REPLY" /\ ~e.closing => Attests(P, e.tx, m),
           ~e.closing => Follows(e.role, Sent(e.tx), m)
    PROVE  LET w == write_packet(e, m)
           IN  /\ Writer(w, P) /\ Adds(e, w, IF m.id \in KexIds THEN 1 ELSE 0)
               /\ ~w.closing => Len(w.tx) >= 1 /\ w.tx[Len(w.tx)].msg = m
<1> DEFINE w == write_packet(e, m)
           x == IF m.id \in KexIds THEN 1 ELSE 0
<1>0. x \in {0, 1}
  OBVIOUS
<1>1. CASE e.closing
  <2>1. w = e
    BY <1>1 DEF write_packet, Muted
  <2>2. Sent(e.tx) \in Nat /\ Grows(e.tx, e.tx)
    BY StepsType, GrowsReflexive DEF Sent, Shape, IsSeq
  <2>3. IsSeq(e.tx)
    BY DEF Shape
  <2> QED
    BY <1>0, <1>1, <2>1, <2>2, <2>3 DEF Adds
<1>2. CASE ~e.closing
  <2>1. LogOK(e, P) /\ Ready(e, P) /\ Follows(e.role, Sent(e.tx), m)
    BY <1>2 DEF Writer
  <2>2. /\ LogOK(w, P) /\ Ready(w, P) /\ w.tx[Len(w.tx)].msg = m /\ Len(w.tx) = Len(e.tx) + 1
        /\ IsSeq(w.tx)
        /\ Sent(e.tx) \in Nat /\ Sent(w.tx) = IF m.id \in KexIds THEN Sent(e.tx) + 1 ELSE Sent(e.tx)
    BY <1>2, <2>1, WriteLog
  <2>3. Grows(e.tx, w.tx)
    BY WriteGrows
  <2>4. Capped(w)
    <3>1. /\ w.tx_packets_since_rekey = e.tx_packets_since_rekey + 1
          /\ w.closing <=> e.tx_packets_since_rekey + 1 >= EpochHardPackets
      BY <1>2, WriteFacts
    <3> QED
      BY <3>1 DEF Capped, Exhausted
  <2>5. Len(e.tx) \in Nat
    BY DEF Shape, IsSeq
  <2> HIDE DEF w
  <2>6. Sent(w.tx) = Sent(e.tx) + x
    BY <2>2
  <2>7. Adds(e, w, x)
    <3> HIDE DEF x
    <3> QED
      BY <1>0, <1>2, <2>2, <2>3, <2>4, <2>6 DEF Adds
  <2> QED
    BY <2>2, <2>5, <2>7 DEF Writer, w
<1> QED
  BY <1>1, <1>2

LEMMA DisconnectLog ==
    ASSUME NEW e, Shape(e), NEW P, IsSeq(P), Writer(e, P)
    PROVE  LET r == disconnect(e)
           IN  /\ LogOK(r, P) /\ r.closing /\ Grows(e.tx, r.tx) /\ Sent(r.tx) = Sent(e.tx)
               /\ Changed(e, r, Written)
<1> DEFINE m == Msg("DISCONNECT", 0)
           w == write_packet(e, m)
           r == [w EXCEPT !.closing = TRUE]
<1>1. CASE e.closing
  BY <1>1, GrowsReflexive DEF disconnect, Writer, Changed, Shape
<1>2. CASE ~e.closing
  <2>1. m.id = "DISCONNECT"
    BY DEF Msg
  <2>2. disconnect(e) = r
    BY <1>2 DEF disconnect
  <2> HIDE DEF m
  <2>3. m.id # "NEWKEYS" /\ m.id # "ECDH_REPLY" /\ m.id \notin KexIds /\ Follows(e.role, Sent(e.tx), m)
    BY <2>1 DEF KexIds, Follows
  <2>4. Writer(w, P) /\ Adds(e, w, 0) /\ Changed(e, w, Written)
    BY <2>3, WriteWriter, WriteChanged
  <2>5. Sent(w.tx) = Sent(e.tx) /\ Grows(e.tx, w.tx)
    BY <2>4 DEF Adds
  <2> HIDE DEF w
  <2>6. DOMAIN r = Fields /\ r.closing = TRUE /\ \A x \in Fields \ {"closing"} : r[x] = w[x]
    BY <2>4 DEF Changed, Fields
  <2> HIDE DEF r
  <2>7. /\ r.tx = w.tx /\ r.role = w.role /\ r.tx_packets_since_rekey = w.tx_packets_since_rekey
        /\ r.offered_ciphers = w.offered_ciphers /\ r.offered_compression = w.offered_compression
    BY <2>6 DEF Fields
  <2>8. LogOK(r, P)
    BY <2>4, <2>7, LogSame DEF Writer
  <2>9. Changed(e, r, Written)
    BY <2>4, <2>6 DEF Changed, Written
  <2> QED
    BY <2>2, <2>5, <2>6, <2>7, <2>8, <2>9
<1> QED
  BY <1>1, <1>2

--------------------------------------------------------------------------------
(* Beginning a round *)

\* A new random value.
LEMMA DrawShape ==
    ASSUME NEW e, NEW r, Shape(e), Changed(e, r, {"rng"}), r.rng = e.rng + 1
    PROVE  Shape(r)
<1>1. /\ r.tx = e.tx /\ r.role = e.role
      /\ r.kex_eph = e.kex_eph /\ r.sent_newkeys = e.sent_newkeys /\ r.tx_seq = e.tx_seq
      /\ r.tx_packets_since_rekey = e.tx_packets_since_rekey /\ r.closing = e.closing
      /\ r.phase = e.phase /\ r.rekeying = e.rekeying
      /\ r.kexinit_sent = e.kexinit_sent /\ r.tx_app_queue = e.tx_app_queue
      /\ r.offered_compression = e.offered_compression /\ DOMAIN r = Fields
      /\ r.rx_seq = e.rx_seq /\ r.comp_in = e.comp_in /\ r.comp_out = e.comp_out
      /\ r.comp_name = e.comp_name /\ r.negotiated = e.negotiated /\ r.pending = e.pending
  BY DEF Changed, Fields
<1>2. e.rng \in Nat /\ e.kex_eph \in 0..e.rng
  BY DEF Shape
<1>3. r.rng \in Nat /\ r.kex_eph \in 0..r.rng
  BY <1>1, <1>2
<1> QED
  BY <1>1, <1>3 DEF Shape

Ours(e) == ours_with(e.role, e.local_kexinit, e.offered_ciphers, e.offered_compression)

LEMMA SendKexinitLog ==
    ASSUME NEW e, Shape(e), NEW P, IsSeq(P), Writer(e, P), ~e.closing => Part(Sent(e.tx)) = 0
    PROVE  LET r == send_kexinit(e)
           IN  /\ Writer(r, P) /\ Adds(e, r, 1)
               /\ Changed(e, r, Written \cup {"rng", "local_kexinit", "kexinit_sent"})
               /\ r.kexinit_sent
               /\ ~r.closing => Ours(r) = Arg(r.tx, Sent(r.tx))
<1> DEFINE ki == ours_with(e.role, e.rng + 1, e.offered_ciphers, e.offered_compression)
           m == Msg("KEXINIT", ki)
           a == [e EXCEPT !.rng = ki.cookie]
           w == write_packet(a, m)
           r == [w EXCEPT !.local_kexinit = ki.cookie, !.kexinit_sent = TRUE]
<1>0. e.rng \in Nat /\ e.rng + 1 \in Nat \ {0} /\ DOMAIN e = Fields
  BY DEF Shape
<1>1. ki.cookie = e.rng + 1
  BY DEF ours_with
<1>2. Offer(e.role, ki)
  BY <1>0, OfferFacts DEF Writer, LogOK
<1>3. ki = ours_with(e.role, ki.cookie, e.offered_ciphers, e.offered_compression)
  BY <1>1
<1> HIDE DEF ki
<1>4. m.id = "KEXINIT" /\ m.arg = ki
  BY DEF Msg
<1>5. Changed(e, a, {"rng"}) /\ a.rng = e.rng + 1
  BY <1>0, <1>1 DEF Changed, Fields
<1>6. send_kexinit(e) = r
  BY DEF send_kexinit, ki
<1> HIDE DEF a, m
<1>7. Shape(a)
  BY <1>5, DrawShape
<1>8. /\ a.tx = e.tx /\ a.role = e.role /\ a.tx_packets_since_rekey = e.tx_packets_since_rekey
      /\ a.offered_ciphers = e.offered_ciphers /\ a.offered_compression = e.offered_compression
      /\ a.tx_seq = e.tx_seq /\ a.cipher_out = e.cipher_out /\ a.closing = e.closing
  BY <1>5 DEF Changed, Fields
<1>9. Writer(a, P)
  BY <1>8, LogSame DEF Writer
<1>10. Adds(e, a, 0)
  BY <1>8, AddsNothing
<1>11. m.id # "NEWKEYS" /\ m.id # "ECDH_REPLY" /\ m.id \in KexIds /\ (~a.closing => Follows(a.role, Sent(a.tx), m))
  BY <1>2, <1>4, <1>8 DEF KexIds, Follows, Kind
<1>12. Writer(w, P) /\ Adds(a, w, 1) /\ (~w.closing => Len(w.tx) >= 1 /\ w.tx[Len(w.tx)].msg = m)
  BY <1>7, <1>9, <1>11, WriteWriter
<1>13. Changed(a, w, Written) /\ Shape(w)
  <2>1. MessageOK(m)
    <3>1. ki.comp = e.offered_compression
      BY DEF ki, ours_with
    <3> QED
      BY <1>4, <3>1 DEF MessageOK, Shape
  <2> QED
    BY <1>7, <2>1, WriteChanged, WriteShape
<1> HIDE DEF w
<1>14. /\ DOMAIN r = Fields /\ r.kexinit_sent = TRUE /\ r.local_kexinit = ki.cookie
       /\ \A x \in Fields \ {"local_kexinit", "kexinit_sent"} : r[x] = w[x]
  BY <1>13 DEF Shape, Fields
<1> HIDE DEF r
<1>15. /\ r.tx = w.tx /\ r.role = w.role /\ r.tx_packets_since_rekey = w.tx_packets_since_rekey
       /\ r.offered_ciphers = w.offered_ciphers /\ r.offered_compression = w.offered_compression
       /\ r.tx_seq = w.tx_seq /\ r.cipher_out = w.cipher_out /\ r.closing = w.closing
  BY <1>14 DEF Fields
<1>16. Writer(r, P)
  BY <1>12, <1>15, LogSame DEF Writer
<1>17. Adds(e, w, 1)
  <2>1. Adds(e, w, 0 + 1)
    BY <1>7, <1>10, <1>12, <1>13, AddsTransitive
  <2> QED
    BY <2>1
<1>18. Adds(e, r, 1)
  BY <1>15, <1>17 DEF Adds, Capped, Exhausted
<1>19. Changed(e, r, Written \cup {"rng", "local_kexinit", "kexinit_sent"})
  <2>1. \A x \in Fields \ (Written \cup {"rng", "local_kexinit", "kexinit_sent"}) :
            r[x] = w[x] /\ w[x] = a[x] /\ a[x] = e[x]
    BY <1>5, <1>13, <1>14 DEF Changed
  <2> QED
    BY <1>14, <2>1 DEF Changed
<1>20. ASSUME ~r.closing PROVE Ours(r) = Arg(r.tx, Sent(r.tx))
  <2>1. w.tx[Len(w.tx)].msg = m /\ Len(w.tx) >= 1 /\ IsSeq(w.tx)
    BY <1>12, <1>13, <1>15, <1>20 DEF Shape
  <2>2. Arg(w.tx, Sent(w.tx)) = ki
    BY <1>4, <1>11, <2>1, LastArg DEF IsKex
  <2>3. r.role = e.role /\ r.offered_ciphers = e.offered_ciphers
        /\ r.offered_compression = e.offered_compression
    BY <1>19 DEF Changed, Fields, Written
  <2>4. Ours(r) = ki
    BY <1>3, <1>14, <2>3 DEF Ours
  <2> QED
    BY <1>15, <2>2, <2>4
<1> QED
  BY <1>6, <1>14, <1>16, <1>18, <1>19, <1>20

\* The fields that begin_rekey_round may change.
Begun == Written \cup {"rng", "local_kexinit", "kexinit_sent", "rekeying", "sent_newkeys",
                       "recv_newkeys", "negotiated", "peer_kexinit", "kex_eph"}

LEMMA BeginRoundLog ==
    ASSUME NEW e, Shape(e), NEW P, IsSeq(P), Writer(e, P), ~e.closing => Part(Sent(e.tx)) = 0
    PROVE  LET r == begin_rekey_round(e)
           IN  /\ Writer(r, P) /\ Adds(e, r, 1) /\ Changed(e, r, Begun)
               /\ r.kexinit_sent /\ r.rekeying /\ ~r.sent_newkeys /\ ~r.recv_newkeys
               /\ ~r.closing => Ours(r) = Arg(r.tx, Sent(r.tx))
<1> DEFINE a == [e EXCEPT !.rekeying = TRUE,
                          !.sent_newkeys = FALSE, !.recv_newkeys = FALSE,
                          !.negotiated = NotNegotiated,
                          !.peer_kexinit = 0, !.kex_eph = 0]
<1>1. /\ DOMAIN a = Fields /\ a.rekeying = TRUE /\ a.sent_newkeys = FALSE
      /\ a.negotiated = NotNegotiated /\ a.kex_eph = 0 /\ a.recv_newkeys = FALSE
      /\ \A x \in Fields \ {"rekeying", "sent_newkeys", "recv_newkeys", "negotiated",
                            "peer_kexinit", "kex_eph"} : a[x] = e[x]
  BY DEF Shape, Fields
<1> HIDE DEF a
<1>2. /\ a.tx = e.tx /\ a.role = e.role /\ a.cipher_out = e.cipher_out /\ a.rng = e.rng
      /\ a.tx_seq = e.tx_seq
      /\ a.tx_packets_since_rekey = e.tx_packets_since_rekey /\ a.closing = e.closing
      /\ a.phase = e.phase
      /\ a.kexinit_sent = e.kexinit_sent /\ a.tx_app_queue = e.tx_app_queue
      /\ a.offered_compression = e.offered_compression /\ a.offered_ciphers = e.offered_ciphers
      /\ a.rx_seq = e.rx_seq /\ a.comp_in = e.comp_in /\ a.comp_out = e.comp_out
      /\ a.comp_name = e.comp_name /\ a.pending = e.pending
  BY <1>1 DEF Fields
<1>3. Shape(a)
  <2>1. a.negotiated.comp \in CompNames
    <3>1. NotNegotiated.comp = "none"
      BY Zenon DEF NotNegotiated
    <3> QED
      BY <1>1, <3>1 DEF CompNames
  <2>2. a.rng \in Nat /\ a.kex_eph \in 0..a.rng
    <3>1. e.rng \in Nat
      BY DEF Shape
    <3> QED
      BY <1>1, <1>2, <3>1
  <2> QED
    BY <1>1, <1>2, <2>1, <2>2 DEF Shape
<1>4. Writer(a, P) /\ (~a.closing => Part(Sent(a.tx)) = 0)
  BY <1>2, LogSame DEF Writer
<1> DEFINE r == send_kexinit(a)
<1>5. /\ Writer(r, P) /\ Adds(a, r, 1)
      /\ Changed(a, r, Written \cup {"rng", "local_kexinit", "kexinit_sent"})
      /\ r.kexinit_sent /\ (~r.closing => Ours(r) = Arg(r.tx, Sent(r.tx)))
  BY <1>3, <1>4, SendKexinitLog
<1>6. begin_rekey_round(e) = r
  BY DEF begin_rekey_round, a
<1> HIDE DEF r
<1>7. Changed(e, r, Begun)
  <2>1. DOMAIN r = Fields
    BY <1>5 DEF Changed
  <2>2. \A x \in Fields \ Begun : r[x] = a[x]
    BY <1>5 DEF Changed, Begun
  <2>3. \A x \in Fields \ Begun : a[x] = e[x]
    BY <1>1 DEF Begun
  <2> QED
    BY <2>1, <2>2, <2>3 DEF Changed
<1>8. r.rekeying = a.rekeying /\ r.sent_newkeys = a.sent_newkeys /\ r.recv_newkeys = a.recv_newkeys
  BY <1>5 DEF Changed, Fields, Written
<1>9. Adds(e, r, 1)
  BY <1>2, <1>5 DEF Adds, Capped, Exhausted
<1> QED
  BY <1>1, <1>5, <1>6, <1>7, <1>8, <1>9

--------------------------------------------------------------------------------
(* Where an endpoint stands that has read k frames of its peer's output P *)

\* It has written n key-exchange messages and read m.
Turn(role, n, m) ==
    \/ n = m /\ Part(m) = 0 /\ m >= 3
    \/ n = m + 1 /\ (Part(m) = 0 \/ Part(m) = 2)
    \/ role = "client" /\ n = m + 1 /\ Part(m) = 1
    \/ role = "server" /\ n = m /\ Part(m) = 1

Flags(e, n, m, k) ==
    /\ ~e.recv_newkeys
    /\ e.kexinit_sent <=> ~(n = m /\ Part(m) = 0)
    /\ e.phase = "NeedPeerVersion" <=> k = 0
    /\ e.phase = "Established" <=> m >= 3
    /\ e.rekeying <=> e.kexinit_sent /\ m >= 3
    /\ e.sent_newkeys <=> Part(m) = 2
    /\ e.pending.some <=> Part(m) = 2
    /\ e.strict_kex <=> StrictMarker /\ m >= 1
    /\ e.initial_kex_done <=> m >= 3

Values(e, P, m) ==
    LET j == Round(m)
        c == ClientTx(e, P)
        s == ServerTx(e, P)
    IN  /\ e.kexinit_sent => Ours(e) = Arg(e.tx, 3 * j + 1)
        /\ Part(m) # 0 => /\ e.peer_kexinit = Arg(P, 3 * j + 1).cookie /\ e.peer_kexinit # 0
                          /\ e.negotiated = Neg(c, s, j)
        /\ e.role = "client" /\ Part(m) = 1 => e.kex_eph = Arg(e.tx, 3 * j + 2) /\ e.kex_eph # 0
        /\ m < 2 => e.session_id = <<>>
        /\ m >= 2 => e.session_id = Hash(s, 0) /\ e.session_id # <<>>
        /\ Part(m) = 2 => e.pending.inn = KeyOf(e, P, Inn(e.role), j + 1)
        /\ e.cipher_in = KeyOf(e, P, Inn(e.role), j)

Reads(e, P, k) ==
    /\ e.rx_packets_since_rekey \in Nat
    /\ k = 0 => e.rx_seq = 0 /\ e.rx_packets_since_rekey = 0
    /\ k >= 1 => e.rx_seq = After(P[k]) /\ Stretch(P, k + 1, e.rx_packets_since_rekey + 1)

Local(e, P, k) ==
    LET n == Sent(e.tx)
        m == Steps(P, k)
    IN  /\ Turn(e.role, n, m) /\ Flags(e, n, m, k) /\ Values(e, P, m) /\ Reads(e, P, k)
        /\ Part(m) = 2 => e.tx[Len(e.tx)].msg.id = "NEWKEYS"

Stopped(e) == e.closing \/ e.err # "none"

Stands(e, P, k) ==
    /\ LogOK(e, P) /\ Sent(e.tx) <= Steps(P, k) + 1
    /\ Stopped(e) \/ (Ready(e, P) /\ Local(e, P, k))

\* The fields Values depends on, besides the output.
Kept(e, w) ==
    /\ w.role = e.role /\ w.kexinit_sent = e.kexinit_sent /\ w.local_kexinit = e.local_kexinit
    /\ w.offered_ciphers = e.offered_ciphers /\ w.offered_compression = e.offered_compression
    /\ w.peer_kexinit = e.peer_kexinit /\ w.negotiated = e.negotiated /\ w.kex_eph = e.kex_eph
    /\ w.session_id = e.session_id /\ w.pending = e.pending /\ w.cipher_in = e.cipher_in

\* What is known to an endpoint that has read m messages, as the outputs grow.
Lasting(e, P, w, Q, m) ==
    LET j == Round(m)
    IN  /\ KnownTo(e, P, j) /\ KeyOf(w, Q, Inn(e.role), j) = KeyOf(e, P, Inn(e.role), j)
        /\ Part(m) = 2 => /\ KnownTo(e, P, j + 1)
                          /\ KeyOf(w, Q, Inn(e.role), j + 1) = KeyOf(e, P, Inn(e.role), j + 1)
        /\ Part(m) # 0 => Neg(ClientTx(w, Q), ServerTx(w, Q), j)
                            = Neg(ClientTx(e, P), ServerTx(e, P), j)
        /\ Part(m) # 0 => Arg(Q, 3 * j + 1) = Arg(P, 3 * j + 1)
        /\ m >= 2 => Hash(ServerTx(w, Q), 0) = Hash(ServerTx(e, P), 0)

LEMMA KnownRead ==
    ASSUME NEW e, NEW P, NEW w, NEW Q, IsSeq(e.tx), IsSeq(w.tx), IsSeq(P), IsSeq(Q), w.role = e.role,
           Grows(e.tx, w.tx), Grows(P, Q), NEW m \in Nat, m <= Sent(P), m <= Sent(e.tx)
    PROVE  Lasting(e, P, w, Q, m)
<1> DEFINE j == Round(m)
           c == ClientTx(e, P)
           s == ServerTx(e, P)
           d == ClientTx(w, Q)
           t == ServerTx(w, Q)
<1>1. j \in Nat /\ Part(m) \in 0..2 /\ m = 3 * j + Part(m)
  BY RoundFacts
<1>2. Further(e, P, w, Q)
  BY OutputsGrow
<1>3. IsSeq(c) /\ IsSeq(s) /\ IsSeq(d) /\ IsSeq(t) /\ Grows(c, d) /\ Grows(s, t)
  BY <1>2 DEF Further
<1>4. Sent(c) \in Nat /\ Sent(s) \in Nat /\ m <= Sent(c) /\ m <= Sent(s) /\ Sent(P) \in Nat
  <2>1. Sent(P) \in Nat /\ Sent(e.tx) \in Nat
    BY StepsType DEF Sent, IsSeq
  <2> QED
    BY <2>1 DEF ClientTx, ServerTx
<1> HIDE DEF j, c, s, d, t
<1>5. Known(c, s, j) /\ (Part(m) = 2 => Known(c, s, j + 1))
  BY <1>1, <1>4 DEF Known
<1>6. KnownTo(e, P, j) /\ (Part(m) = 2 => KnownTo(e, P, j + 1))
  BY <1>5 DEF KnownTo, c, s
<1>7. /\ KeyOf(w, Q, Inn(e.role), j) = KeyOf(e, P, Inn(e.role), j)
      /\ Part(m) = 2 => KeyOf(w, Q, Inn(e.role), j + 1) = KeyOf(e, P, Inn(e.role), j + 1)
  <2>1. j + 1 \in Nat
    BY <1>1
  <2> QED
    BY <1>1, <1>2, <1>6, <2>1 DEF Further
<1>8. ASSUME Part(m) # 0 PROVE Neg(d, t, j) = Neg(c, s, j) /\ Arg(Q, 3 * j + 1) = Arg(P, 3 * j + 1)
  <2> DEFINE a == 3 * j + 1
  <2>1. a \in 1..Sent(c) /\ a \in 1..Sent(s) /\ a \in 1..Sent(P)
    BY <1>1, <1>4, <1>8
  <2> HIDE DEF a
  <2>2. Arg(d, a) = Arg(c, a) /\ Arg(t, a) = Arg(s, a) /\ Arg(Q, a) = Arg(P, a)
    BY <1>3, <2>1, ArgGrows
  <2> QED
    BY <2>2 DEF Neg, a
<1>9. ASSUME m >= 2 PROVE Hash(t, 0) = Hash(s, 0)
  <2>1. 2 \in 1..Sent(s) /\ 3 * 0 + 2 = 2
    BY <1>4, <1>9
  <2>2. Arg(t, 2) = Arg(s, 2)
    BY <1>3, <2>1, ArgGrows
  <2> QED
    BY <2>1, <2>2 DEF Hash
<1> QED
  BY <1>6, <1>7, <1>8, <1>9 DEF j, c, s, d, t, Lasting

LEMMA ValuesGrow ==
    ASSUME NEW e, NEW P, NEW w, NEW Q, IsSeq(e.tx), IsSeq(w.tx), IsSeq(P), IsSeq(Q), Kept(e, w),
           Grows(e.tx, w.tx), Grows(P, Q), NEW m \in Nat, m <= Sent(P),
           Turn(e.role, Sent(e.tx), m), e.kexinit_sent => ~(Sent(e.tx) = m /\ Part(m) = 0),
           Values(e, P, m)
    PROVE  Values(w, Q, m)
<1> DEFINE j == Round(m)
           n == Sent(e.tx)
<1>1. j \in Nat /\ Part(m) \in 0..2 /\ m = 3 * j + Part(m)
  BY RoundFacts
<1>2. n \in Nat /\ m <= n
  <2>1. n \in Nat
    BY StepsType DEF Sent, IsSeq
  <2> QED
    BY <2>1 DEF Turn
<1>3. w.role = e.role
  BY DEF Kept
<1>4. /\ KeyOf(w, Q, Inn(e.role), j) = KeyOf(e, P, Inn(e.role), j)
      /\ Part(m) = 2 => KeyOf(w, Q, Inn(e.role), j + 1) = KeyOf(e, P, Inn(e.role), j + 1)
      /\ Part(m) # 0 => Neg(ClientTx(w, Q), ServerTx(w, Q), j)
                          = Neg(ClientTx(e, P), ServerTx(e, P), j)
      /\ Part(m) # 0 => Arg(Q, 3 * j + 1) = Arg(P, 3 * j + 1)
      /\ m >= 2 => Hash(ServerTx(w, Q), 0) = Hash(ServerTx(e, P), 0)
  <2>1. Lasting(e, P, w, Q, m)
    BY <1>2, <1>3, KnownRead
  <2> QED
    BY <2>1 DEF Lasting
<1>5. ASSUME e.kexinit_sent PROVE Arg(w.tx, 3 * j + 1) = Arg(e.tx, 3 * j + 1)
  <2> DEFINE a == 3 * j + 1
  <2>1. a \in 1..n
    BY <1>1, <1>2, <1>5 DEF Turn
  <2> HIDE DEF a, j
  <2>2. Arg(w.tx, a) = Arg(e.tx, a)
    BY <2>1, ArgGrows
  <2> QED
    BY <2>2 DEF a
<1>6. ASSUME e.role = "client", Part(m) = 1 PROVE Arg(w.tx, 3 * j + 2) = Arg(e.tx, 3 * j + 2)
  <2> DEFINE a == 3 * j + 2
  <2>1. a \in 1..n
    BY <1>1, <1>2, <1>6 DEF Turn
  <2> HIDE DEF a, j
  <2>2. Arg(w.tx, a) = Arg(e.tx, a)
    BY <2>1, ArgGrows
  <2> QED
    BY <2>2 DEF a
<1>7. Ours(w) = Ours(e)
  BY DEF Kept, Ours
<1> HIDE DEF j, n
<1> QED
  BY <1>3, <1>4, <1>5, <1>6, <1>7 DEF Values, Kept, j

\* The fields an endpoint's place does not depend on.
Loose == {"rng", "tx", "tx_seq", "cipher_out", "comp_out", "comp_in", "comp_name", "comp_active",
          "tx_app_queue", "bytes_since_rekey", "tx_packets_since_rekey",
          "consecutive_peer_rekeys", "events", "peer_disconnected", "closing", "err"}

LEMMA ReadsGrow ==
    ASSUME NEW e, NEW w, NEW P, NEW Q, IsSeq(P), IsSeq(Q), Grows(P, Q), NEW k \in 0..Len(P),
           w.rx_seq = e.rx_seq, w.rx_packets_since_rekey = e.rx_packets_since_rekey, Reads(e, P, k)
    PROVE  Reads(w, Q, k)
<1>1. Len(P) \in Nat /\ k \in Nat
  BY DEF IsSeq
<1>2. CASE k = 0
  BY <1>2 DEF Reads
<1>3. CASE k >= 1
  <2> DEFINE x == e.rx_packets_since_rekey + 1
             i == k + 1
  <2>1. Q[k] = P[k] /\ i \in Nat /\ \A q \in 1..(i - 1) : Q[q] = P[q]
    BY <1>1, <1>3 DEF Grows
  <2>2. x \in Nat /\ Stretch(P, i, x) /\ e.rx_seq = After(P[k]) /\ e.rx_packets_since_rekey \in Nat
    BY <1>3 DEF Reads
  <2> HIDE DEF x, i
  <2>3. Stretch(Q, i, x)
    BY <2>1, <2>2, StretchPrefix
  <2> QED
    BY <1>3, <2>1, <2>2, <2>3 DEF Reads, x, i
<1> QED
  BY <1>1, <1>2, <1>3

LEMMA LocalKept ==
    ASSUME NEW e, NEW w, NEW P, NEW Q, IsSeq(e.tx), IsSeq(w.tx), IsSeq(P), IsSeq(Q),
           Changed(e, w, Loose), Grows(e.tx, w.tx), Grows(P, Q), NEW k \in 0..Len(P),
           Sent(w.tx) = Sent(e.tx), Part(Steps(P, k)) = 2 => w.tx = e.tx, Local(e, P, k)
    PROVE  Local(w, Q, k)
<1> DEFINE m == Steps(P, k)
           n == Sent(e.tx)
<1>1. /\ w.role = e.role /\ w.kexinit_sent = e.kexinit_sent /\ w.local_kexinit = e.local_kexinit
      /\ w.offered_ciphers = e.offered_ciphers /\ w.offered_compression = e.offered_compression
      /\ w.peer_kexinit = e.peer_kexinit /\ w.negotiated = e.negotiated /\ w.kex_eph = e.kex_eph
      /\ w.session_id = e.session_id /\ w.pending = e.pending /\ w.cipher_in = e.cipher_in
      /\ w.recv_newkeys = e.recv_newkeys /\ w.phase = e.phase /\ w.rekeying = e.rekeying
      /\ w.sent_newkeys = e.sent_newkeys /\ w.strict_kex = e.strict_kex
      /\ w.initial_kex_done = e.initial_kex_done
      /\ w.rx_seq = e.rx_seq /\ w.rx_packets_since_rekey = e.rx_packets_since_rekey
  BY DEF Changed, Fields, Loose
<1>2. Kept(e, w)
  BY <1>1 DEF Kept
<1>3. Len(P) \in Nat /\ k \in Nat /\ k <= Len(P)
  BY DEF IsSeq
<1>4. m \in Nat /\ m <= Sent(P) /\ Steps(Q, k) = m
  <2>1. m \in Nat
    BY <1>3, StepsType
  <2>2. m <= Sent(P)
    BY <1>3, StepsMonotone DEF Sent
  <2>3. Steps(Q, k) = m
    BY SentGrows
  <2> QED
    BY <2>1, <2>2, <2>3
<1>5. Turn(e.role, n, m) /\ Flags(e, n, m, k) /\ Values(e, P, m) /\ Reads(e, P, k)
      /\ (Part(m) = 2 => e.tx[Len(e.tx)].msg.id = "NEWKEYS")
  BY DEF Local
<1> HIDE DEF m, n
<1>6. Reads(w, Q, k)
  BY <1>1, <1>5, ReadsGrow
<1>7. Values(w, Q, m)
  <2>1. e.kexinit_sent => ~(n = m /\ Part(m) = 0)
    BY <1>5 DEF Flags
  <2> QED
    BY <1>2, <1>4, <1>5, <2>1, ValuesGrow DEF n
<1>8. Flags(w, n, m, k)
  BY <1>1, <1>5 DEF Flags
<1>9. Turn(w.role, n, m)
  BY <1>1, <1>5
<1>10. Part(m) = 2 => w.tx[Len(w.tx)].msg.id = "NEWKEYS"
  BY <1>5 DEF m
<1> QED
  BY <1>4, <1>6, <1>7, <1>8, <1>9, <1>10 DEF Local, n

\* The peer writes.
LEMMA OwnGrows ==
    ASSUME NEW e, Shape(e), NEW P, NEW Q, IsSeq(P), IsSeq(Q), Grows(P, Q), NEW k \in 0..Len(P),
           Stands(e, P, k)
    PROVE  Stands(e, Q, k)
<1>1. IsSeq(e.tx) /\ Grows(e.tx, e.tx) /\ Changed(e, e, Loose)
  BY GrowsReflexive DEF Shape, Changed
<1>2. LogOK(e, Q) /\ (Ready(e, P) => Ready(e, Q))
  BY <1>1, LogGrows DEF Stands
<1>3. Steps(Q, k) = Steps(P, k)
  BY SentGrows
<1>4. Local(e, P, k) => Local(e, Q, k)
  BY <1>1, LocalKept
<1> QED
  BY <1>2, <1>3, <1>4 DEF Stands

\* The endpoint writes what belongs to no key exchange, or nothing.
LEMMA PadOwn ==
    ASSUME NEW e, NEW w, Shape(e), Shape(w), NEW P, IsSeq(P), NEW k \in 0..Len(P),
           Stands(e, P, k), ~Stopped(e), Changed(e, w, Loose), Writer(w, P), Adds(e, w, 0),
           Part(Steps(P, k)) = 2 => w.tx = e.tx
    PROVE  Stands(w, P, k)
<1>0. Grows(P, P)
  BY DEF IsSeq, Grows
<1>1. IsSeq(e.tx) /\ IsSeq(w.tx) /\ Grows(P, P) /\ Grows(e.tx, w.tx)
  BY <1>0 DEF Shape, Adds
<1>2. Sent(w.tx) = Sent(e.tx) /\ Sent(e.tx) \in Nat
  BY DEF Adds
<1>3. Local(w, P, k)
  BY <1>1, <1>2, LocalKept DEF Stands
<1> QED
  BY <1>2, <1>3 DEF Stands, Writer, Stopped

\* A stopped endpoint only has to have written in order.
LEMMA StopOwn ==
    ASSUME NEW w, NEW P, NEW k, LogOK(w, P), Sent(w.tx) <= Steps(P, k) + 1, Stopped(w)
    PROVE  Stands(w, P, k)
BY DEF Stands

\* Established and in no exchange.
LEMMA IdlePlace ==
    ASSUME NEW e, NEW P, NEW k, IsSeq(P), k \in 0..Len(P), Stands(e, P, k), ~Stopped(e),
           e.phase = "Established", ~e.kexinit_sent \/ ~e.rekeying
    PROVE  LET m == Steps(P, k)
           IN  /\ m \in Nat /\ m >= 3 /\ Sent(e.tx) = m /\ Part(m) = 0 /\ m = 3 * Round(m)
               /\ Round(m) \in Nat /\ m <= Sent(P)
               /\ ~e.kexinit_sent /\ ~e.rekeying
<1> DEFINE m == Steps(P, k)
<1>1. Turn(e.role, Sent(e.tx), m) /\ Flags(e, Sent(e.tx), m, k)
  BY DEF Stands, Local
<1>2. m \in Nat /\ m <= Sent(P)
  <2>1. k \in Nat /\ Len(P) \in Nat /\ k <= Len(P)
    BY DEF IsSeq
  <2> QED
    BY <2>1, StepsType, StepsMonotone DEF Sent
<1>3. Round(m) \in Nat /\ m = 3 * Round(m) + Part(m)
  BY <1>2, RoundFacts
<1> HIDE DEF m
<1>4. m >= 3 /\ ~e.kexinit_sent /\ ~e.rekeying /\ Sent(e.tx) = m /\ Part(m) = 0
  BY <1>1 DEF Flags
<1> QED
  BY <1>2, <1>3, <1>4 DEF m

\* The place after m messages of the peer, once its identification is read.
At(e, P, m) ==
    LET n == Sent(e.tx)
    IN  /\ Turn(e.role, n, m) /\ Flags(e, n, m, 1) /\ Values(e, P, m)
        /\ Part(m) = 2 => e.tx[Len(e.tx)].msg.id = "NEWKEYS"

LEMMA PlaceAt ==
    ASSUME NEW e, NEW P, NEW k \in Nat, k >= 1
    PROVE  Local(e, P, k) <=> At(e, P, Steps(P, k)) /\ Reads(e, P, k)
<1>1. k # 0 /\ 1 # 0
  OBVIOUS
<1>2. \A n, m : Flags(e, n, m, k) <=> Flags(e, n, m, 1)
  BY <1>1 DEF Flags
<1> QED
  BY <1>2 DEF Local, At

LEMMA BeginAt ==
    ASSUME NEW e, Shape(e), NEW P, IsSeq(P), NEW m \in Nat, m <= Sent(P), m >= 3, Part(m) = 0,
           Sent(e.tx) = m, LogOK(e, P), Ready(e, P), At(e, P, m), ~e.closing
    PROVE  LET r == begin_rekey_round(e)
           IN  /\ Writer(r, P) /\ Adds(e, r, 1) /\ Changed(e, r, Begun)
               /\ Sent(r.tx) <= m + 1 /\ (~r.closing => Sent(r.tx) = m + 1 /\ At(r, P, m))
<1> DEFINE r == begin_rekey_round(e)
           j == Round(m)
<1>1. /\ Writer(r, P) /\ Adds(e, r, 1) /\ Changed(e, r, Begun)
      /\ r.kexinit_sent /\ r.rekeying /\ ~r.sent_newkeys /\ ~r.recv_newkeys
      /\ ~r.closing => Ours(r) = Arg(r.tx, Sent(r.tx))
  BY BeginRoundLog DEF Writer
<1> HIDE DEF r
<1>2. Sent(r.tx) <= m + 1 /\ (~r.closing => Sent(r.tx) = m + 1)
  BY <1>1 DEF Adds
<1>3. ASSUME ~r.closing PROVE At(r, P, m)
  <2>1. /\ r.role = e.role /\ r.phase = e.phase /\ r.pending = e.pending
        /\ r.strict_kex = e.strict_kex /\ r.initial_kex_done = e.initial_kex_done
        /\ r.session_id = e.session_id /\ r.cipher_in = e.cipher_in
    BY <1>1 DEF Changed, Fields, Begun, Written
  <2>2. Turn(r.role, m + 1, m)
    BY DEF Turn
  <2>3. Flags(e, m, m, 1) /\ Values(e, P, m)
    BY DEF At
  <2>4. Flags(r, m + 1, m, 1)
    <3>1. m + 1 # m /\ m >= 3
      OBVIOUS
    <3> QED
      BY <1>1, <2>1, <2>3, <3>1 DEF Flags
  <2>5. j \in Nat /\ m = 3 * j
    BY RoundFacts
  <2>6. Values(r, P, m)
    <3>0. IsSeq(e.tx) /\ Grows(e.tx, r.tx) /\ IsSeq(r.tx)
      BY <1>1 DEF Shape, Adds
    <3>1. IsSeq(e.tx) /\ Grows(e.tx, r.tx) /\ IsSeq(r.tx) /\ Grows(P, P)
      BY <3>0 DEF Grows, IsSeq
    <3>2. m <= Sent(P) /\ m <= Sent(e.tx) /\ m >= 2 /\ ~(m < 2)
      OBVIOUS
    <3>3. Lasting(e, P, r, P, m)
      BY <2>1, <3>1, <3>2, KnownRead
    <3>4. /\ KeyOf(r, P, Inn(e.role), j) = KeyOf(e, P, Inn(e.role), j)
          /\ Hash(ServerTx(r, P), 0) = Hash(ServerTx(e, P), 0)
      BY <3>2, <3>3 DEF Lasting
    <3>5. Ours(r) = Arg(r.tx, 3 * j + 1)
      BY <1>1, <1>2, <1>3, <2>5
    <3>6. /\ e.session_id = Hash(ServerTx(e, P), 0) /\ e.session_id # <<>>
          /\ e.cipher_in = KeyOf(e, P, Inn(e.role), j)
      BY <2>3, <3>2 DEF Values
    <3> HIDE DEF j
    <3> QED
      BY <2>1, <3>2, <3>4, <3>5, <3>6 DEF Values, j
  <2> QED
    BY <1>2, <1>3, <2>2, <2>4, <2>6 DEF At
<1> QED
  BY <1>1, <1>2, <1>3 DEF r

LEMMA BeginOwn ==
    ASSUME NEW e, Shape(e), NEW P, IsSeq(P), NEW k \in 0..Len(P), Stands(e, P, k), e.err = "none",
           e.closing \/ (e.phase = "Established" /\ (~e.kexinit_sent \/ ~e.rekeying))
    PROVE  LET r == begin_rekey_round(e)
           IN  Stands(r, P, k) /\ Adds(e, r, 1) /\ Changed(e, r, Begun)
<1> DEFINE r == begin_rekey_round(e)
           m == Steps(P, k)
<1>1. CASE e.closing
  <2>1. Writer(e, P)
    BY <1>1 DEF Stands, Writer
  <2>2. Writer(r, P) /\ Adds(e, r, 1) /\ Changed(e, r, Begun)
    BY <1>1, <2>1, BeginRoundLog
  <2> HIDE DEF r
  <2>3. r.closing /\ r.tx = e.tx
    BY <1>1, <2>2 DEF Adds
  <2>4. Stands(r, P, k)
    BY <2>2, <2>3 DEF Stands, Stopped, Writer
  <2> QED
    BY <2>2, <2>4 DEF r
<1>2. CASE ~e.closing
  <2>1. m \in Nat /\ m >= 3 /\ Sent(e.tx) = m /\ Part(m) = 0 /\ m <= Sent(P)
    BY <1>2, IdlePlace DEF Stopped
  <2>2. LogOK(e, P) /\ Ready(e, P) /\ Local(e, P, k)
    BY <1>2 DEF Stands, Stopped
  <2>3. k \in Nat /\ k >= 1
    <3>1. k \in Nat
      BY DEF IsSeq
    <3>2. Flags(e, m, m, k)
      BY <2>1, <2>2 DEF Local
    <3>3. k # 0
      BY <2>1, <3>2 DEF Flags
    <3> QED
      BY <3>1, <3>3
  <2>4. At(e, P, m) /\ Reads(e, P, k)
    BY <2>2, <2>3, PlaceAt
  <2> HIDE DEF m
  <2>5. /\ Writer(r, P) /\ Adds(e, r, 1) /\ Changed(e, r, Begun)
        /\ Sent(r.tx) <= m + 1 /\ (~r.closing => Sent(r.tx) = m + 1 /\ At(r, P, m))
    BY <1>2, <2>1, <2>2, <2>4, BeginAt
  <2> HIDE DEF r
  <2>6. Reads(r, P, k)
    <3>1. r.rx_seq = e.rx_seq /\ r.rx_packets_since_rekey = e.rx_packets_since_rekey
      BY <2>5 DEF Changed, Fields, Begun, Written
    <3>2. Grows(P, P)
      BY DEF Grows, IsSeq
    <3> QED
      BY <2>4, <3>1, <3>2, ReadsGrow
  <2>7. ~r.closing => Local(r, P, k)
    BY <2>3, <2>5, <2>6, PlaceAt DEF m
  <2>8. Stands(r, P, k)
    BY <2>5, <2>7 DEF Stands, Stopped, Writer, m
  <2> QED
    BY <2>5, <2>8 DEF r
<1> QED
  BY <1>1, <1>2

\* What every operation leaves alone or adds to.
Carries(e, r) ==
    /\ IsSeq(r.tx) /\ Grows(e.tx, r.tx) /\ (Capped(e) => Capped(r)) /\ (e.closing => r.closing)
    /\ r.err = e.err /\ r.consecutive_peer_rekeys = e.consecutive_peer_rekeys

LEMMA CarriesTransitive ==
    ASSUME NEW a, NEW b, NEW c, IsSeq(a.tx), Carries(a, b), Carries(b, c)
    PROVE  Carries(a, c)
<1>1. Len(a.tx) \in Nat /\ Len(b.tx) \in Nat /\ Len(c.tx) \in Nat
  BY DEF Carries, IsSeq
<1>2. Grows(a.tx, c.tx)
  BY <1>1, GrowsTransitive DEF Carries
<1> QED
  BY <1>2 DEF Carries

LEMMA CarriesItself ==
    ASSUME NEW e, Shape(e)
    PROVE  Carries(e, e)
BY GrowsReflexive DEF Carries, Shape

LEMMA InitiateOwn ==
    ASSUME NEW e, Shape(e), NEW P, IsSeq(P), NEW k \in 0..Len(P), Stands(e, P, k), e.err = "none"
    PROVE  LET r == initiate_rekey(e)
           IN  Stands(r, P, k) /\ Carries(e, r)
<1>1. CASE e.phase = "Established" /\ ~e.rekeying
  <2> DEFINE r == begin_rekey_round(e)
  <2>1. initiate_rekey(e) = r
    BY <1>1 DEF initiate_rekey
  <2>2. Stands(r, P, k) /\ Adds(e, r, 1) /\ Changed(e, r, Begun)
    BY <1>1, BeginOwn
  <2> HIDE DEF r
  <2>3. r.err = e.err /\ r.consecutive_peer_rekeys = e.consecutive_peer_rekeys
    BY <2>2 DEF Changed, Fields, Begun, Written
  <2> QED
    BY <2>1, <2>2, <2>3 DEF Carries, Adds
<1>2. CASE ~(e.phase = "Established" /\ ~e.rekeying)
  BY <1>2, CarriesItself DEF initiate_rekey
<1> QED
  BY <1>1, <1>2

LEMMA SendPacketOwn ==
    ASSUME NEW e, Shape(e), e.phase = "Established", e.err = "none", NEW m, m.id \in Deferred,
           NEW P, IsSeq(P), NEW k \in 0..Len(P), Stands(e, P, k)
    PROVE  LET r == send_packet(e, m)
           IN  Stands(r, P, k) /\ Carries(e, r)
<1> DEFINE w == write_packet(e, m)
           b == w.bytes_since_rekey + PayloadLen
           s == [w EXCEPT !.bytes_since_rekey = b]
           q == Append(e.tx_app_queue, m)
           d == [e EXCEPT !.tx_app_queue = q]
<1>0. DOMAIN e = Fields
  BY DEF Shape
<1>1. CASE e.rekeying
  <2>1. send_packet(e, m) = d
    BY <1>1 DEF send_packet, Deferring
  <2>2. IsSeq(q) /\ \A i \in 1..Len(q) : q[i].id \in Deferred
    <3>1. /\ IsSeq(e.tx_app_queue) /\ Len(e.tx_app_queue) \in Nat
          /\ \A i \in 1..Len(e.tx_app_queue) : e.tx_app_queue[i].id \in Deferred
      BY DEF Shape, IsSeq
    <3>2. /\ IsSeq(q) /\ Len(q) = Len(e.tx_app_queue) + 1 /\ q[Len(e.tx_app_queue) + 1] = m
          /\ \A i \in 1..Len(e.tx_app_queue) : q[i] = e.tx_app_queue[i]
      BY <3>1, AppendFacts
    <3> HIDE DEF q
    <3>3. \A i \in 1..Len(q) : i \in 1..Len(e.tx_app_queue) \/ i = Len(e.tx_app_queue) + 1
      BY <3>1, <3>2
    <3> QED
      BY <3>1, <3>2, <3>3
  <2> HIDE DEF q
  <2>3. DOMAIN d = Fields /\ d.tx_app_queue = q /\ \A x \in Fields \ {"tx_app_queue"} : d[x] = e[x]
    BY <1>0 DEF Fields
  <2> HIDE DEF d
  <2>4. /\ d.role = e.role /\ d.phase = e.phase /\ d.tx_seq = e.tx_seq /\ d.rx_seq = e.rx_seq
        /\ d.comp_out = e.comp_out /\ d.comp_in = e.comp_in /\ d.comp_name = e.comp_name
        /\ d.negotiated = e.negotiated /\ d.offered_compression = e.offered_compression
        /\ d.rekeying = e.rekeying /\ d.kexinit_sent = e.kexinit_sent /\ d.closing = e.closing
        /\ d.sent_newkeys = e.sent_newkeys /\ d.pending = e.pending /\ d.rng = e.rng
        /\ d.kex_eph = e.kex_eph /\ d.tx_packets_since_rekey = e.tx_packets_since_rekey
        /\ d.tx = e.tx /\ d.err = e.err /\ d.consecutive_peer_rekeys = e.consecutive_peer_rekeys
        /\ d.offered_ciphers = e.offered_ciphers /\ d.cipher_out = e.cipher_out
    BY <2>3 DEF Fields
  <2>5. Shape(d)
    BY <2>2, <2>3, <2>4 DEF Shape
  <2>6. Writer(d, P)
    BY <2>4, LogSame DEF Stands, Writer, Stopped
  <2>7. Adds(e, d, 0)
    BY <2>4, AddsNothing
  <2>8. Changed(e, d, Loose)
    BY <2>3 DEF Changed, Loose
  <2>9. Stands(d, P, k)
    <3>1. CASE e.closing
      BY <2>4, <2>6, <3>1 DEF Stands, Stopped, Writer
    <3>2. CASE ~e.closing
      BY <2>4, <2>5, <2>6, <2>7, <2>8, <3>2, PadOwn DEF Stopped
    <3> QED
      BY <3>1, <3>2
  <2>10. Carries(e, d)
    BY <2>4, <2>7 DEF Carries, Adds
  <2> QED
    BY <2>1, <2>9, <2>10
<1>2. CASE ~e.rekeying
  <2>1. send_packet(e, m) = s \/ send_packet(e, m) = initiate_rekey(s)
    BY <1>2 DEF send_packet, Deferring
  <2>2. m.id # "NEWKEYS" /\ m.id # "ECDH_REPLY" /\ m.id \notin KexIds /\ MessageOK(m)
    BY DEF Deferred, AppIds, KexIds, MessageOK
  <2>3. Writer(e, P)
    BY DEF Stands, Writer, Stopped
  <2>4. ASSUME ~e.closing PROVE Follows(e.role, Sent(e.tx), m) /\ Part(Steps(P, k)) = 0
    <3>1. Sent(e.tx) >= 3 /\ Part(Steps(P, k)) = 0
      BY <1>2, <2>4, IdlePlace DEF Stopped
    <3> QED
      BY <3>1 DEF Follows
  <2>5. Writer(w, P) /\ Adds(e, w, 0)
    BY <2>2, <2>3, <2>4, WriteWriter
  <2>6. Changed(e, w, Written) /\ Shape(w)
    BY <2>2, WriteChanged, WriteShape
  <2> HIDE DEF w, b
  <2>7. DOMAIN s = Fields /\ \A x \in Fields \ {"bytes_since_rekey"} : s[x] = w[x]
    BY <2>6 DEF Changed, Fields
  <2> HIDE DEF s
  <2>8. /\ s.tx = w.tx /\ s.role = w.role /\ s.closing = w.closing
        /\ s.tx_packets_since_rekey = w.tx_packets_since_rekey
        /\ s.offered_ciphers = w.offered_ciphers /\ s.offered_compression = w.offered_compression
        /\ s.tx_seq = w.tx_seq /\ s.cipher_out = w.cipher_out
    BY <2>7 DEF Fields
  <2>9. Writer(s, P) /\ Adds(e, s, 0)
    BY <2>5, <2>8, LogSame DEF Writer, Adds, Capped, Exhausted
  <2>10. Shape(s)
    <3>1. Changed(w, s, Settings) /\ Typed(s)
      <4>1. Changed(w, s, Settings)
        BY <2>7 DEF Changed, Settings
      <4>2. /\ s.rx_seq = w.rx_seq /\ s.comp_in = w.comp_in /\ s.comp_out = w.comp_out
            /\ s.comp_name = w.comp_name /\ s.negotiated = w.negotiated /\ s.pending = w.pending
        BY <2>7 DEF Fields
      <4> QED
        BY <2>6, <4>1, <4>2 DEF Typed, Shape
    <3> QED
      BY <2>6, <3>1, SettingKeeps
  <2>11. Changed(e, s, Loose)
    BY <2>6, <2>7 DEF Changed, Written, Loose
  <2>12. s.err = e.err /\ s.consecutive_peer_rekeys = e.consecutive_peer_rekeys
    BY <2>6, <2>7 DEF Changed, Written, Fields
  <2>13. Stands(s, P, k)
    <3>1. CASE e.closing
      <4>1. s.closing /\ s.tx = e.tx
        BY <2>9, <3>1 DEF Adds
      <4> QED
        BY <2>9, <4>1 DEF Stands, Stopped, Writer
    <3>2. CASE ~e.closing
      <4>1. Part(Steps(P, k)) # 2
        BY <2>4, <3>2
      <4> QED
        BY <2>9, <2>10, <2>11, <3>2, <4>1, PadOwn DEF Stopped
    <3> QED
      BY <3>1, <3>2
  <2>14. Carries(e, s)
    BY <2>9, <2>12 DEF Carries, Adds
  <2>15. Stands(initiate_rekey(s), P, k) /\ Carries(s, initiate_rekey(s))
    BY <2>10, <2>12, <2>13, InitiateOwn
  <2>16. IsSeq(e.tx)
    BY DEF Shape
  <2>17. Carries(e, initiate_rekey(s))
    BY <2>14, <2>15, <2>16, CarriesTransitive
  <2> QED
    BY <2>1, <2>13, <2>14, <2>15, <2>17
<1> QED
  BY <1>1, <1>2

--------------------------------------------------------------------------------
(* Reading *)

LEMMA FlushLog ==
    ASSUME NEW e, Shape(e), NEW P, IsSeq(P), Writer(e, P), Sent(e.tx) >= 3
    PROVE  LET r == FlushQueue(e)
           IN  /\ Shape(r) /\ Writer(r, P) /\ Adds(e, r, 0)
               /\ Changed(e, r, Written \cup {"tx_app_queue"})
<1> DEFINE q == e.tx_app_queue
           b == [e EXCEPT !.tx_app_queue = <<>>]
<1>0. IsSeq(q) /\ Len(q) \in Nat /\ \A i \in 1..Len(q) : q[i].id \in Deferred
  BY DEF Shape, IsSeq
<1>1. PICK w : /\ w = [i \in 0..Len(q) |-> IF i = 0 THEN b ELSE write_packet(w[i - 1], q[i])]
               /\ FlushQueue(e) = w[Len(q)]
  <2>1. \E w : w = [i \in 0..Len(q) |-> IF i = 0 THEN b ELSE write_packet(w[i - 1], q[i])]
    <3>1. \E w : Flushed(w, b, q)
      BY <1>0, FlushDefined
    <3> QED
      BY <3>1, Zenon DEF Flushed
  <2> DEFINE v == CHOOSE w : w = [i \in 0..Len(q) |-> IF i = 0 THEN b
                                                    ELSE write_packet(w[i - 1], q[i])]
  <2>2. v = [i \in 0..Len(q) |-> IF i = 0 THEN b ELSE write_packet(v[i - 1], q[i])]
    BY <2>1, Zenon
  <2>3. FlushQueue(e) = v[Len(q)]
    BY Zenon DEF FlushQueue
  <2> HIDE DEF v
  <2> QED
    BY <2>2, <2>3
<1> DEFINE Good(x) == /\ Shape(x) /\ Writer(x, P) /\ Adds(e, x, 0)
                      /\ Changed(e, x, Written \cup {"tx_app_queue"})
<1>2. Good(b)
  <2>1. DOMAIN b = Fields /\ b.tx_app_queue = <<>>
        /\ \A x \in Fields \ {"tx_app_queue"} : b[x] = e[x]
    BY DEF Shape, Fields
  <2> HIDE DEF b
  <2>0. IsSeq(b.tx_app_queue) /\ \A i \in 1..Len(b.tx_app_queue) : b.tx_app_queue[i].id \in Deferred
    <3>1. <<>> \in Seq({}) /\ Len(<<>>) = 0 /\ DOMAIN <<>> = 1..Len(<<>>)
      OBVIOUS
    <3> QED
      BY <2>1, <3>1 DEF IsSeq
  <2>2. /\ b.role = e.role /\ b.phase = e.phase /\ b.tx_seq = e.tx_seq /\ b.rx_seq = e.rx_seq
        /\ b.comp_out = e.comp_out /\ b.comp_in = e.comp_in /\ b.comp_name = e.comp_name
        /\ b.negotiated = e.negotiated /\ b.offered_compression = e.offered_compression
        /\ b.rekeying = e.rekeying /\ b.kexinit_sent = e.kexinit_sent /\ b.closing = e.closing
        /\ b.sent_newkeys = e.sent_newkeys /\ b.pending = e.pending /\ b.rng = e.rng
        /\ b.kex_eph = e.kex_eph /\ b.tx_packets_since_rekey = e.tx_packets_since_rekey
        /\ b.tx = e.tx /\ b.offered_ciphers = e.offered_ciphers /\ b.cipher_out = e.cipher_out
    BY <2>1 DEF Fields
  <2>3. Shape(b)
    BY <2>0, <2>1, <2>2 DEF Shape
  <2>4. Writer(b, P)
    BY <2>2, LogSame DEF Writer
  <2>5. Adds(e, b, 0)
    BY <2>2, AddsNothing
  <2>6. Changed(e, b, Written \cup {"tx_app_queue"})
    BY <2>1 DEF Changed
  <2> QED
    BY <2>3, <2>4, <2>5, <2>6
<1> HIDE DEF b
<1>3. ASSUME NEW x, Good(x), NEW m, m.id \in Deferred PROVE Good(write_packet(x, m))
  <2> DEFINE y == write_packet(x, m)
  <2>1. m.id # "NEWKEYS" /\ m.id # "ECDH_REPLY" /\ m.id \notin KexIds /\ MessageOK(m)
    BY <1>3 DEF Deferred, AppIds, KexIds, MessageOK
  <2>2. Follows(x.role, Sent(x.tx), m)
    <3>1. Sent(x.tx) = Sent(e.tx)
      BY <1>3 DEF Adds
    <3> QED
      BY <1>3, <3>1 DEF Follows
  <2>3. Writer(y, P) /\ Adds(x, y, 0)
    BY <1>3, <2>1, <2>2, WriteWriter
  <2>4. Shape(y) /\ Changed(x, y, Written)
    BY <1>3, <2>1, WriteShape, WriteChanged
  <2> HIDE DEF y
  <2>5. Adds(e, y, 0)
    <3>1. Adds(e, y, 0 + 0)
      BY <1>3, <2>3, <2>4, AddsTransitive
    <3> QED
      BY <3>1
  <2>6. Changed(e, y, Written \cup {"tx_app_queue"})
    BY <1>3, <2>4 DEF Changed
  <2>7. Good(y)
    BY <2>3, <2>4, <2>5, <2>6
  <2> QED
    BY <2>7 DEF y
<1> HIDE DEF Good
<1> DEFINE S == {n \in Nat : n <= Len(q) => Good(w[n])}
<1>4. 0 \in S
  <2>1. w[0] = b
    BY <1>0, <1>1
  <2> QED
    BY <1>2, <2>1
<1>5. ASSUME NEW n \in Nat, n \in S PROVE n + 1 \in S
  <2> SUFFICES ASSUME n + 1 <= Len(q)
               PROVE  Good(w[n + 1])
    OBVIOUS
  <2>1. Good(w[n])
    BY <1>0, <1>5
  <2>2. n + 1 \in 1..Len(q) /\ n + 1 \in 0..Len(q)
    BY <1>0
  <2>3. w[n + 1] = write_packet(w[n], q[n + 1])
    BY <1>0, <1>1, <2>2, SMTT(30)
  <2> QED
    BY <1>0, <1>3, <2>1, <2>2, <2>3
<1>6. Nat \subseteq S
  <2> HIDE DEF S
  <2> QED
    BY <1>4, <1>5, Induction
<1>7. Good(w[Len(q)])
  BY <1>0, <1>6
<1> QED
  BY <1>1, <1>7 DEF Good

\* What reading frame k + 1 does to the place.
LEMMA ReadStep ==
    ASSUME NEW P, IsSeq(P), NEW k \in Nat, k < Len(P)
    PROVE  LET m == Steps(P, k)
               f == P[k + 1]
           IN  /\ m \in Nat /\ m <= Sent(P) /\ Len(P) \in Nat
               /\ Steps(P, k + 1) = IF IsKex(f) THEN m + 1 ELSE m
               /\ Steps(P, k + 1) \in Nat /\ Steps(P, k + 1) <= Sent(P)
               /\ IsKex(f) => Arg(P, m + 1) = f.msg.arg
<1>1. Len(P) \in Nat /\ k + 1 \in 1..Len(P) /\ k + 1 \in Nat /\ k <= Len(P) /\ k + 1 <= Len(P)
  BY DEF IsSeq
<1>2. Steps(P, k) \in Nat /\ Steps(P, k + 1) \in Nat
  BY <1>1, StepsType
<1>3. Steps(P, k + 1) = IF IsKex(P[k + 1]) THEN Steps(P, k) + 1 ELSE Steps(P, k)
  BY StepsNext
<1>4. Steps(P, k) <= Sent(P)
  BY <1>1, StepsMonotone DEF Sent
<1>5. Steps(P, k + 1) <= Sent(P)
  BY <1>1, StepsMonotone DEF Sent
<1>6. IsKex(P[k + 1]) => Arg(P, Steps(P, k + 1)) = P[k + 1].msg.arg
  BY <1>1, ArgAt
<1> QED
  BY <1>1, <1>2, <1>3, <1>4, <1>5, <1>6

\* d is the peer of e.
Faces(d, e) == d.role \in Roles /\ e.role \in Roles /\ d.role # e.role

LEMMA FacesFacts ==
    ASSUME NEW d, NEW e, Faces(d, e)
    PROVE  /\ ClientTx(d, e.tx) = ClientTx(e, d.tx) /\ ServerTx(d, e.tx) = ServerTx(e, d.tx)
           /\ Out(d.role) = Inn(e.role)
BY DEF Faces, Roles, ClientTx, ServerTx, Out, Inn

\* The next frame of the peer is the expected one, opens, and is counted within
\* its epoch.
LEMMA FrameExpected ==
    ASSUME NEW e, NEW d, Faces(d, e), IsSeq(d.tx), LogOK(d, e.tx), NEW k \in Nat, k >= 1,
           k < Len(d.tx), ~Stopped(e), Stands(e, d.tx, k)
    PROVE  LET f == d.tx[k + 1]
           IN  /\ Opens(e, f) /\ e.rx_seq = f.seq
               /\ Follows(d.role, Steps(d.tx, k), f.msg)
               /\ e.rx_packets_since_rekey \in Nat
               /\ Spaced(d.tx) => ~EpochExhausted(e.rx_packets_since_rekey + 1)
<1> DEFINE P == d.tx
           f == P[k + 1]
           m == Steps(P, k)
           p == e.rx_packets_since_rekey
<1>1. At(e, P, m) /\ Reads(e, P, k)
  BY PlaceAt DEF Stands
<1>2. Len(P) \in Nat /\ k + 1 \in 2..Len(P) /\ (k + 1) - 1 = k /\ k \in 1..(Len(P) - 1)
  BY DEF IsSeq
<1>3. Ordered(P, d.role) /\ Chained(P) /\ Sealed(P, d.role, ClientTx(d, e.tx), ServerTx(d, e.tx))
  BY DEF LogOK
<1>4. Follows(d.role, m, f.msg)
  BY <1>2, <1>3 DEF Ordered
<1>5. f.seq = After(P[k])
  BY <1>2, <1>3 DEF Chained
<1>6. f.key = Key(Out(d.role), ClientTx(d, e.tx), ServerTx(d, e.tx), Round(m))
  BY <1>2, <1>3 DEF Sealed
<1>7. e.cipher_in = f.key
  <2>1. e.cipher_in = KeyOf(e, P, Inn(e.role), Round(m))
    BY <1>1 DEF At, Values
  <2> QED
    BY <1>6, <2>1, FacesFacts DEF KeyOf
<1>8. e.rx_seq = After(P[k]) /\ p \in Nat /\ Stretch(P, k + 1, p + 1)
  BY <1>1 DEF Reads
<1>9. Spaced(P) => ~EpochExhausted(p + 1)
  <2>1. p + 1 \in Nat /\ EpochHardPackets \in Nat
    BY <1>8, TransportAssumption
  <2> QED
    BY <1>2, <1>8, <2>1 DEF Spaced, EpochExhausted
<1> QED
  BY <1>4, <1>5, <1>7, <1>8, <1>9 DEF Opens

\* The fields a place is about.
SameFlags(e, w) ==
    /\ w.recv_newkeys = e.recv_newkeys /\ w.kexinit_sent = e.kexinit_sent /\ w.phase = e.phase
    /\ w.rekeying = e.rekeying /\ w.sent_newkeys = e.sent_newkeys /\ w.pending = e.pending
    /\ w.strict_kex = e.strict_kex /\ w.initial_kex_done = e.initial_kex_done

LEMMA AtSame ==
    ASSUME NEW e, NEW w, w.tx = e.tx, Kept(e, w), SameFlags(e, w), NEW P, NEW m, At(e, P, m)
    PROVE  At(w, P, m)
<1>1. w.role = e.role /\ w.kexinit_sent = e.kexinit_sent
  BY DEF Kept
<1>2. Turn(e.role, Sent(e.tx), m) /\ Flags(e, Sent(e.tx), m, 1) /\ Values(e, P, m)
      /\ (Part(m) = 2 => e.tx[Len(e.tx)].msg.id = "NEWKEYS")
  BY DEF At
<1>3. Flags(w, Sent(w.tx), m, 1)
  BY <1>2 DEF Flags, SameFlags
<1>4. /\ ClientTx(w, P) = ClientTx(e, P) /\ ServerTx(w, P) = ServerTx(e, P) /\ Ours(w) = Ours(e)
      /\ \A dir, j : KeyOf(w, P, dir, j) = KeyOf(e, P, dir, j)
  BY <1>1 DEF ClientTx, ServerTx, Ours, KeyOf, Kept
<1>5. Values(w, P, m)
  BY <1>2, <1>4 DEF Values, Kept
<1> QED
  BY <1>1, <1>2, <1>3, <1>5 DEF At

\* Frame k + 1 has been opened and is about to be handled.
Arrived(w, P, k) ==
    /\ LogOK(w, P) /\ Ready(w, P) /\ At(w, P, Steps(P, k)) /\ ~Stopped(w)
    /\ Sent(w.tx) <= Steps(P, k) + 1
    /\ w.rx_packets_since_rekey \in Nat /\ w.rx_seq = NextSeq(P[k + 1].seq)
    /\ P[k + 1].msg.id # "NEWKEYS" => Reads(w, P, k + 1)

Opening == {"rx_seq", "rx_packets_since_rekey", "comp_in"}

LEMMA Arrives ==
    ASSUME NEW e, NEW d, Shape(e), Faces(d, e), IsSeq(d.tx), LogOK(d, e.tx), NEW k \in Nat, k >= 1,
           k < Len(d.tx), ~Stopped(e), Stands(e, d.tx, k), NEW w, Changed(e, w, Opening),
           w.rx_seq = NextSeq(e.rx_seq), w.rx_packets_since_rekey = e.rx_packets_since_rekey + 1
    PROVE  Arrived(w, d.tx, k)
<1> DEFINE P == d.tx
           f == P[k + 1]
           m == Steps(P, k)
           p == e.rx_packets_since_rekey
<1>1. /\ w.tx = e.tx /\ w.role = e.role /\ w.kexinit_sent = e.kexinit_sent
      /\ w.local_kexinit = e.local_kexinit
      /\ w.offered_ciphers = e.offered_ciphers /\ w.offered_compression = e.offered_compression
      /\ w.peer_kexinit = e.peer_kexinit /\ w.negotiated = e.negotiated /\ w.kex_eph = e.kex_eph
      /\ w.session_id = e.session_id /\ w.pending = e.pending /\ w.cipher_in = e.cipher_in
      /\ w.recv_newkeys = e.recv_newkeys /\ w.phase = e.phase /\ w.rekeying = e.rekeying
      /\ w.sent_newkeys = e.sent_newkeys /\ w.strict_kex = e.strict_kex
      /\ w.initial_kex_done = e.initial_kex_done /\ w.closing = e.closing /\ w.err = e.err
      /\ w.tx_seq = e.tx_seq /\ w.cipher_out = e.cipher_out
      /\ w.tx_packets_since_rekey = e.tx_packets_since_rekey
  BY DEF Changed, Fields, Opening
<1>2. Kept(e, w) /\ SameFlags(e, w)
  BY <1>1 DEF Kept, SameFlags
<1>3. At(e, P, m) /\ Reads(e, P, k) /\ LogOK(e, P) /\ Ready(e, P) /\ Sent(e.tx) <= m + 1
  BY PlaceAt DEF Stands
<1>4. LogOK(w, P) /\ Ready(w, P)
  BY <1>1, <1>3, LogSame
<1>5. At(w, P, m)
  BY <1>1, <1>2, <1>3, AtSame
<1>6. e.rx_seq = f.seq /\ p \in Nat /\ Follows(d.role, m, f.msg)
  BY FrameExpected
<1>7. w.rx_packets_since_rekey \in Nat /\ w.rx_seq = NextSeq(f.seq)
  BY <1>6
<1>8. ASSUME f.msg.id # "NEWKEYS" PROVE Reads(w, P, k + 1)
  <2>1. f.msg.id # "VERSION"
    <3>1. m \in Nat
      BY StepsType
    <3>2. Part(m) \in 0..2 /\ d.role \in Roles
      BY <3>1, RoundFacts DEF Faces
    <3>3. Kind(d.role, Part(m)) # "VERSION"
      BY <3>2, KindFacts
    <3> QED
      BY <1>6, <3>3 DEF Follows, Deferred, AppIds
  <2>2. w.rx_seq = After(P[k + 1])
    BY <1>7, <1>8, <2>1 DEF After
  <2>3. Stretch(P, k + 1, p + 1)
    BY <1>3 DEF Reads
  <2>4. k + 1 \in Nat /\ k + 1 >= 2 /\ p + 1 \in Nat /\ (k + 1) + 1 = k + 2 /\ k + 1 # 0 /\ k + 1 >= 1
    BY <1>6
  <2>5. Stretch(P, (k + 1) + 1, (p + 1) + 1)
    BY <1>8, <2>3, <2>4, StretchNext
  <2>6. w.rx_packets_since_rekey = p + 1
    OBVIOUS
  <2> QED
    BY <1>7, <2>2, <2>4, <2>5, <2>6 DEF Reads
<1> QED
  BY <1>1, <1>3, <1>4, <1>5, <1>7, <1>8 DEF Arrived, Stopped

\* What handling a message leads to.
Moved(r, P, m) ==
    /\ LogOK(r, P) /\ Sent(r.tx) <= m + 1 /\ r.err = "none"
    /\ r.closing \/ (Ready(r, P) /\ At(r, P, m))

LEMMA MovedStands ==
    ASSUME NEW r, NEW P, NEW k \in Nat, k >= 1, Moved(r, P, Steps(P, k)),
           r.closing \/ Reads(r, P, k)
    PROVE  Stands(r, P, k)
BY PlaceAt DEF Moved, Stands, Stopped

--------------------------------------------------------------------------------
(* Negotiation between two endpoints of this code *)

\* A list of names, among them n.
Listed(x, S, n) == x \in Seq(S) /\ "" \notin S /\ \E i \in 1..Len(x) : x[i] = n

LEMMA PickListed ==
    ASSUME NEW S, NEW n, NEW x, NEW y, Listed(x, S, n), Listed(y, S, n)
    PROVE  pick(x, y) # ""
<1> DEFINE I == {i \in 1..Len(x) : Contains(y, x[i])}
           b == IF I # {} THEN Min(I) ELSE 0
<1>1. pick(x, y) = IF b = 0 THEN "" ELSE x[b]
  BY DEF pick, SelectInSeq
<1>2. PICK i \in 1..Len(x) : x[i] = n
  BY DEF Listed
<1>3. Contains(y, n)
  BY DEF Listed, Contains
<1>4. i \in I
  BY <1>2, <1>3
<1>5. I \subseteq Nat /\ I # {}
  BY <1>4
<1>6. \E v \in I : \A w \in I : ~(w < v)
  BY <1>5, LeastNumber
<1>7. \E v \in I : \A w \in I : v =< w
  BY <1>5, <1>6
<1>8. Min(I) \in I
  BY <1>7 DEF Min
<1>9. b \in 1..Len(x)
  BY <1>5, <1>8
<1>0. x \in Seq(S) /\ "" \notin S
  BY DEF Listed
<1> HIDE DEF b, I
<1>10. x[b] \in S
  BY <1>0, <1>9, ElementOfSeq, Zenon
<1>11. b # 0
  BY <1>9
<1> QED
  BY <1>0, <1>1, <1>10, <1>11

KexNames == {"mlkem768x25519", "curve25519", "curve25519@libssh", "kex-strict-c", "kex-strict-s"}

LEMMA ListedFacts ==
    /\ \A x \in CipherLists : Listed(x, {"chacha20-poly1305", "aes256-gcm"}, "aes256-gcm")
    /\ \A z \in CompLists : Listed(z, CompNames, "none")
    /\ Listed(KEX_ALGORITHMS, KexNames, "curve25519")
    /\ \A role : Listed(Append(KEX_ALGORITHMS, StrictName(role)), KexNames, "curve25519")
<1>1. ASSUME NEW S, NEW a \in S, NEW b \in S, "" \notin S
      PROVE  LET x == <<a, b>>
             IN  /\ Listed(x, S, a) /\ Listed(x, S, b)
                 /\ Listed(Reverse(x), S, a) /\ Listed(Reverse(x), S, b)
  <2> DEFINE x == <<a, b>>
             y == [i \in 1..2 |-> x[2 - i + 1]]
  <2>1. x \in Seq(S) /\ Len(x) = 2 /\ x[1] = a /\ x[2] = b
    OBVIOUS
  <2> HIDE DEF x
  <2>2. Reverse(x) = y
    BY <2>1 DEF Reverse
  <2>3. y[1] = b /\ y[2] = a /\ y \in [1..2 -> S]
    <3>1. 2 - 1 + 1 = 2 /\ 2 - 2 + 1 = 1 /\ 1 \in 1..2 /\ 2 \in 1..2 /\ \A i \in 1..2 : i = 1 \/ i = 2
      OBVIOUS
    <3>2. y[1] = b /\ y[2] = a
      BY <2>1, <3>1
    <3>3. \A i \in 1..2 : y[i] \in S
      BY <1>1, <3>1, <3>2
    <3> QED
      BY <3>2, <3>3
  <2> HIDE DEF y
  <2>4. y \in Seq(S) /\ Len(y) = 2
    <3>1. \A f \in [1..2 -> S] : f \in Seq(S)
      BY SeqDef
    <3>2. y \in Seq(S) /\ DOMAIN y = 1..2
      BY <2>3, <3>1
    <3>3. Len(y) \in Nat /\ DOMAIN y = 1..Len(y)
      BY <3>2, LenProperties
    <3>4. Len(y) = 2
      BY <3>2, <3>3
    <3> QED
      BY <3>2, <3>4
  <2>7. 1 \in 1..2 /\ 2 \in 1..2
    OBVIOUS
  <2>5. Listed(x, S, a) /\ Listed(x, S, b)
    BY <1>1, <2>1, <2>7, Zenon DEF Listed
  <2>6. Listed(y, S, a) /\ Listed(y, S, b)
    BY <1>1, <2>3, <2>4, <2>7, Zenon DEF Listed
  <2> QED
    BY <2>2, <2>5, <2>6 DEF x
<1>2. \A x \in CipherLists : Listed(x, {"chacha20-poly1305", "aes256-gcm"}, "aes256-gcm")
  BY <1>1 DEF CipherLists, CIPHERS
<1>3. \A z \in CompLists : Listed(z, CompNames, "none")
  BY <1>1 DEF CompLists, COMPRESSIONS, CompNames
<1>4. /\ KEX_ALGORITHMS \in Seq(KexNames) /\ Len(KEX_ALGORITHMS) = 3
      /\ KEX_ALGORITHMS[2] = "curve25519"
  BY DEF KEX_ALGORITHMS, KexNames
<1>5. Listed(KEX_ALGORITHMS, KexNames, "curve25519")
  BY <1>4 DEF Listed, KexNames
<1>6. ASSUME NEW role PROVE Listed(Append(KEX_ALGORITHMS, StrictName(role)), KexNames, "curve25519")
  <2> DEFINE x == Append(KEX_ALGORITHMS, StrictName(role))
  <2>1. StrictName(role) \in KexNames
    BY DEF StrictName, KexNames
  <2> DEFINE n == StrictName(role)
             K == KEX_ALGORITHMS
  <2>0. x = Append(K, n) /\ n \in KexNames /\ K \in Seq(KexNames) /\ Len(K) = 3
        /\ K[2] = "curve25519"
    BY <1>4, <2>1
  <2> HIDE DEF x, n, K
  <2>2. x \in Seq(KexNames) /\ Len(x) = 4 /\ x[2] = "curve25519"
    <3>1. x \in Seq(KexNames) /\ Len(x) = 4 /\ \A i \in 1..3 : x[i] = K[i]
      <4>0. ASSUME NEW S, NEW s \in Seq(S), NEW e \in S
            PROVE  /\ Append(s, e) \in Seq(S) /\ Len(Append(s, e)) = Len(s) + 1
                   /\ \A i \in 1..Len(s) : Append(s, e)[i] = s[i]
        BY <4>0, AppendProperties
      <4>3. K \in Seq(KexNames) /\ n \in KexNames
        BY <2>0
      <4>1. /\ Append(K, n) \in Seq(KexNames) /\ Len(Append(K, n)) = Len(K) + 1
            /\ \A i \in 1..Len(K) : Append(K, n)[i] = K[i]
        BY <4>0, <4>3, Zenon
      <4>2. /\ x \in Seq(KexNames) /\ Len(x) = 3 + 1 /\ \A i \in 1..3 : x[i] = K[i]
        BY <2>0, <4>1, Zenon
      <4> QED
        BY <4>2
    <3>2. 2 \in 1..3
      OBVIOUS
    <3> QED
      BY <2>0, <3>1, <3>2
  <2>3. Listed(x, KexNames, "curve25519")
    BY <2>2 DEF Listed, KexNames
  <2> QED
    BY <2>3 DEF x
<1> QED
  BY <1>2, <1>3, <1>5, <1>6

\* Two offers of this code have a name of every kind in common.
LEMMA OffersAgree ==
    ASSUME NEW p, NEW n, NEW x \in CipherLists, NEW z \in CompLists, NEW q, NEW b, Offer(q, b)
    PROVE  /\ ~NoCommon(negotiate(ours_with(p, n, x, z), b))
           /\ ~NoCommon(negotiate(b, ours_with(p, n, x, z)))
           /\ b.comp \in Seq(CompNames)
<1> DEFINE Lists(o) == /\ Listed(o.cipher, {"chacha20-poly1305", "aes256-gcm"}, "aes256-gcm")
                       /\ Listed(o.comp, CompNames, "none")
                       /\ Listed(o.kex, KexNames, "curve25519")
<1>1. ASSUME NEW r, NEW i, NEW u \in CipherLists, NEW v \in CompLists
      PROVE  Lists(ours_with(r, i, u, v))
  <2> DEFINE o == ours_with(r, i, u, v)
  <2>1. /\ o.cipher = u /\ o.comp = v
        /\ o.kex = KEX_ALGORITHMS \/ o.kex = Append(KEX_ALGORITHMS, StrictName(r))
    BY DEF ours_with
  <2> HIDE DEF o
  <2>2. Lists(o)
    BY <2>1, ListedFacts
  <2> QED
    BY <2>2 DEF o
<1>2. Lists(b)
  <2>1. PICK u \in CipherLists, v \in CompLists : b = ours_with(q, b.cookie, u, v)
    BY DEF Offer
  <2>2. Lists(ours_with(q, b.cookie, u, v))
    BY <1>1
  <2> HIDE DEF Lists
  <2> QED
    BY <2>1, <2>2
<1>3. ASSUME NEW c, NEW s, Lists(c), Lists(s) PROVE ~NoCommon(negotiate(c, s))
  <2> DEFINE o == negotiate(c, s)
  <2>1. /\ o.kex = pick(c.kex, s.kex) /\ o.cipher = pick(c.cipher, s.cipher)
        /\ o.comp = pick(c.comp, s.comp)
    BY DEF negotiate
  <2> HIDE DEF o
  <2>2. pick(c.kex, s.kex) # ""
    BY <1>3, PickListed
  <2>3. pick(c.cipher, s.cipher) # ""
    BY <1>3, PickListed
  <2>4. pick(c.comp, s.comp) # ""
    BY <1>3, PickListed
  <2> QED
    BY <2>1, <2>2, <2>3, <2>4 DEF NoCommon, o
<1>4. b.comp \in Seq(CompNames)
  BY <1>2 DEF Listed
<1>5. Lists(ours_with(p, n, x, z))
  BY <1>1
<1> HIDE DEF Lists
<1> QED
  BY <1>2, <1>3, <1>4, <1>5

\* The peer's KEXINIT carries the strict-KEX marker exactly if this code sends it.
LEMMA MarkerSeen ==
    ASSUME NEW mine \in Roles, NEW p \in Roles, p # mine, NEW a, Offer(p, a)
    PROVE  (\E role \in Roles \ {mine} : Contains(a.kex, StrictName(role))) <=> StrictMarker
<1>1. a.kex = IF StrictMarker THEN Append(KEX_ALGORITHMS, StrictName(p)) ELSE KEX_ALGORITHMS
  BY DEF Offer, ours_with
<1>2. Roles \ {mine} = {p}
  BY DEF Roles
<1>3. ~Contains(KEX_ALGORITHMS, StrictName(p))
  <2>1. \A i \in 1..3 : i = 1 \/ i = 2 \/ i = 3
    OBVIOUS
  <2>2. Len(KEX_ALGORITHMS) = 3 /\ KEX_ALGORITHMS[1] = "mlkem768x25519"
        /\ KEX_ALGORITHMS[2] = "curve25519" /\ KEX_ALGORITHMS[3] = "curve25519@libssh"
    BY DEF KEX_ALGORITHMS
  <2>3. StrictName(p) = "kex-strict-c" \/ StrictName(p) = "kex-strict-s"
    BY DEF StrictName
  <2> QED
    BY <2>1, <2>2, <2>3 DEF Contains
<1>4. Contains(Append(KEX_ALGORITHMS, StrictName(p)), StrictName(p))
  <2> DEFINE n == StrictName(p)
             x == Append(KEX_ALGORITHMS, n)
  <2> HIDE DEF n
  <2>1. Len(x) = 4 /\ x[4] = n
    BY DEF KEX_ALGORITHMS
  <2> HIDE DEF x
  <2>2. 4 \in 1..Len(x)
    BY <2>1
  <2>3. Contains(x, n)
    BY <2>1, <2>2 DEF Contains
  <2> QED
    BY <2>3 DEF x, n
<1> QED
  BY <1>1, <1>2, <1>3, <1>4

--------------------------------------------------------------------------------
(* A KEXINIT *)

\* The fields the answer to a KEXINIT may change, once the round has begun.
Answered == Written \cup {"peer_kexinit", "negotiated", "strict_kex", "rng", "kex_eph"}

LEMMA ExchangeAt ==
    ASSUME NEW b, NEW r, NEW P, IsSeq(P), IsSeq(b.tx), IsSeq(r.tx), Grows(b.tx, r.tx),
           b.role \in Roles, Changed(b, r, Answered),
           NEW m \in Nat, m + 1 <= Sent(P), Part(m) = 0, At(b, P, m), Sent(b.tx) = m + 1,
           NEW a, a = Arg(P, m + 1), NEW p \in Roles, p # b.role, Offer(p, a),
           r.peer_kexinit = a.cookie, r.negotiated = Agreed(b.role, Ours(b), a),
           r.strict_kex <=> IF b.initial_kex_done THEN b.strict_kex ELSE StrictMarker,
           b.role = "server" => Sent(r.tx) = m + 1,
           b.role = "client" => /\ Sent(r.tx) = m + 2
                                /\ r.kex_eph = Arg(r.tx, m + 2) /\ r.kex_eph # 0
    PROVE  At(r, P, m + 1)
<1> DEFINE j == Round(m)
           n == Sent(r.tx)
<1>1. j \in Nat /\ m = 3 * j /\ Part(m + 1) = 1 /\ Round(m + 1) = j /\ m + 1 \in Nat
      /\ m # 2 /\ m # 1
  <2>1. j \in Nat /\ m = 3 * j + Part(m)
    BY RoundFacts
  <2>2. Part(m + 1) = Part(m) + 1 /\ Round(m + 1) = j
    BY RoundFacts
  <2>3. m = 3 * j /\ m + 1 \in Nat /\ Part(m + 1) = 1
    BY <2>1, <2>2
  <2>4. m # 2 /\ m # 1
    BY <2>1, <2>3
  <2> QED
    BY <2>1, <2>2, <2>3, <2>4
<1>2. /\ r.role = b.role /\ r.kexinit_sent = b.kexinit_sent /\ r.local_kexinit = b.local_kexinit
      /\ r.offered_ciphers = b.offered_ciphers /\ r.offered_compression = b.offered_compression
      /\ r.session_id = b.session_id /\ r.pending = b.pending /\ r.cipher_in = b.cipher_in
      /\ r.recv_newkeys = b.recv_newkeys /\ r.phase = b.phase /\ r.rekeying = b.rekeying
      /\ r.sent_newkeys = b.sent_newkeys /\ r.initial_kex_done = b.initial_kex_done
  BY DEF Changed, Fields, Answered, Written
<1>3. b.role = "client" \/ b.role = "server"
  BY DEF Roles
<1>4. Flags(b, m + 1, m, 1) /\ Values(b, P, m)
  BY DEF At
<1>5. Turn(r.role, n, m + 1)
  BY <1>1, <1>2, <1>3 DEF Turn
<1>6. b.kexinit_sent /\ (m + 1 >= 3 <=> m >= 3) /\ m + 1 >= 1
  <2>1. m + 1 # m
    OBVIOUS
  <2> QED
    BY <1>1, <1>4, <2>1 DEF Flags
<1>7. Flags(r, n, m + 1, 1)
  <2>1. Part(m + 1) # 0 /\ Part(m + 1) # 2 /\ Part(m) # 2
    BY <1>1
  <2>2. m >= 3 => m >= 1
    OBVIOUS
  <2> QED
    BY <1>2, <1>4, <1>6, <2>1, <2>2 DEF Flags
<1>8. Ours(b) = Arg(b.tx, m + 1) /\ Ours(r) = Ours(b)
  <2>1. Ours(b) = Arg(b.tx, m + 1)
    BY <1>1, <1>4, <1>6 DEF Values
  <2> QED
    BY <1>2, <2>1 DEF Ours
<1>9. Arg(r.tx, m + 1) = Arg(b.tx, m + 1)
  <2>1. m + 1 \in 1..Sent(b.tx)
    BY <1>1
  <2> QED
    BY <2>1, ArgGrows
<1>10. r.negotiated = Neg(ClientTx(r, P), ServerTx(r, P), j)
  <2>1. r.negotiated = IF b.role = "client" THEN negotiate(Arg(r.tx, m + 1), Arg(P, m + 1))
                       ELSE negotiate(Arg(P, m + 1), Arg(r.tx, m + 1))
    BY <1>8, <1>9 DEF Agreed
  <2> QED
    BY <1>1, <1>2, <2>1 DEF Neg, ClientTx, ServerTx
<1>11. r.peer_kexinit = Arg(P, 3 * j + 1).cookie /\ r.peer_kexinit # 0
  <2>1. a.cookie # 0
    BY DEF Offer
  <2> QED
    BY <1>1, <2>1
<1>12. /\ KeyOf(r, P, Inn(b.role), j) = KeyOf(b, P, Inn(b.role), j)
       /\ m >= 2 => Hash(ServerTx(r, P), 0) = Hash(ServerTx(b, P), 0)
  <2>1. Grows(P, P)
    BY DEF Grows, IsSeq
  <2>2. m <= Sent(P) /\ m <= Sent(b.tx)
    <3>1. Sent(P) \in Nat
      BY StepsType DEF Sent, IsSeq
    <3> QED
      BY <3>1
  <2>3. Lasting(b, P, r, P, m)
    BY <1>2, <2>1, <2>2, KnownRead
  <2> QED
    BY <2>3 DEF Lasting
<1>13. /\ r.session_id = b.session_id /\ r.cipher_in = KeyOf(r, P, Inn(r.role), j)
       /\ m + 1 < 2 => r.session_id = <<>>
       /\ m + 1 >= 2 => r.session_id = Hash(ServerTx(r, P), 0) /\ r.session_id # <<>>
  <2>1. /\ m + 1 < 2 => m < 2
        /\ m + 1 >= 2 => m >= 2
    BY <1>1
  <2> QED
    BY <1>2, <1>4, <1>12, <2>1 DEF Values
<1>14. r.role = "client" => r.kex_eph = Arg(r.tx, 3 * j + 2) /\ r.kex_eph # 0
  BY <1>1, <1>2
<1>15. Ours(r) = Arg(r.tx, 3 * j + 1)
  BY <1>1, <1>8, <1>9
<1>16. Part(m + 1) = 1 /\ Round(m + 1) = j /\ Part(m + 1) # 2
  BY <1>1
<1> HIDE DEF j
<1>17. Values(r, P, m + 1)
  BY <1>10, <1>11, <1>13, <1>14, <1>15, <1>16 DEF Values
<1> QED
  BY <1>5, <1>7, <1>16, <1>17 DEF At

\* The client draws its ephemeral value and sends it.
SendInit(e) ==
    LET q == e.rng + 1
    IN  [write_packet([e EXCEPT !.rng = q], Msg("ECDH_INIT", q)) EXCEPT !.kex_eph = q]

LEMMA SendInitLog ==
    ASSUME NEW e, Shape(e), NEW P, IsSeq(P), Writer(e, P), e.role = "client",
           ~e.closing => Part(Sent(e.tx)) = 1
    PROVE  LET r == SendInit(e)
           IN  /\ Writer(r, P) /\ Adds(e, r, 1) /\ Changed(e, r, Written \cup {"rng", "kex_eph"})
               /\ ~r.closing => r.kex_eph = Arg(r.tx, Sent(r.tx)) /\ r.kex_eph # 0
<1> DEFINE q == e.rng + 1
           m == Msg("ECDH_INIT", q)
           a == [e EXCEPT !.rng = q]
           w == write_packet(a, m)
           r == [w EXCEPT !.kex_eph = q]
<1>0. q # 0 /\ DOMAIN e = Fields
  BY DEF Shape
<1>1. m.id = "ECDH_INIT" /\ m.arg = q
  BY DEF Msg
<1>2. Changed(e, a, {"rng"}) /\ a.rng = e.rng + 1
  BY <1>0 DEF Changed, Fields
<1> HIDE DEF a, m, q
<1>3. Shape(a)
  BY <1>2, DrawShape
<1>4. /\ a.tx = e.tx /\ a.role = e.role /\ a.tx_packets_since_rekey = e.tx_packets_since_rekey
      /\ a.offered_ciphers = e.offered_ciphers /\ a.offered_compression = e.offered_compression
      /\ a.tx_seq = e.tx_seq /\ a.cipher_out = e.cipher_out /\ a.closing = e.closing
  BY <1>2 DEF Changed, Fields
<1>5. Writer(a, P)
  BY <1>4, LogSame DEF Writer
<1>6. Adds(e, a, 0)
  BY <1>4, AddsNothing
<1>7. /\ m.id # "NEWKEYS" /\ m.id # "ECDH_REPLY" /\ m.id \in KexIds /\ MessageOK(m)
      /\ ~a.closing => Follows(a.role, Sent(a.tx), m)
  BY <1>1, <1>4 DEF KexIds, Follows, Kind, MessageOK
<1>8. Writer(w, P) /\ Adds(a, w, 1) /\ (~w.closing => Len(w.tx) >= 1 /\ w.tx[Len(w.tx)].msg = m)
  BY <1>3, <1>5, <1>7, WriteWriter
<1>9. Changed(a, w, Written) /\ Shape(w)
  BY <1>3, <1>7, WriteChanged, WriteShape
<1> HIDE DEF w
<1>10. DOMAIN r = Fields /\ r.kex_eph = q /\ \A x \in Fields \ {"kex_eph"} : r[x] = w[x]
  BY <1>9 DEF Shape, Fields
<1> HIDE DEF r
<1>11. /\ r.tx = w.tx /\ r.role = w.role /\ r.tx_packets_since_rekey = w.tx_packets_since_rekey
       /\ r.offered_ciphers = w.offered_ciphers /\ r.offered_compression = w.offered_compression
       /\ r.tx_seq = w.tx_seq /\ r.cipher_out = w.cipher_out /\ r.closing = w.closing
  BY <1>10 DEF Fields
<1>12. Writer(r, P)
  BY <1>8, <1>11, LogSame DEF Writer
<1>13. Adds(e, w, 1)
  <2>1. Adds(e, w, 0 + 1)
    BY <1>3, <1>6, <1>8, <1>9, AddsTransitive
  <2> QED
    BY <2>1
<1>14. Adds(e, r, 1)
  BY <1>11, <1>13 DEF Adds, Capped, Exhausted
<1>15. Changed(e, r, Written \cup {"rng", "kex_eph"})
  <2>1. \A x \in Fields \ (Written \cup {"rng", "kex_eph"}) :
            r[x] = w[x] /\ w[x] = a[x] /\ a[x] = e[x]
    BY <1>2, <1>9, <1>10 DEF Changed
  <2> QED
    BY <1>10, <2>1 DEF Changed
<1>16. ASSUME ~r.closing PROVE r.kex_eph = Arg(r.tx, Sent(r.tx)) /\ r.kex_eph # 0
  <2>1. w.tx[Len(w.tx)].msg = m /\ Len(w.tx) >= 1 /\ IsSeq(w.tx)
    BY <1>8, <1>9, <1>11, <1>16 DEF Shape
  <2>2. Arg(w.tx, Sent(w.tx)) = q
    BY <1>1, <1>7, <2>1, LastArg DEF IsKex
  <2> QED
    BY <1>0, <1>10, <1>11, <2>2
<1> QED
  BY <1>12, <1>14, <1>15, <1>16 DEF SendInit, r, w, a, m, q

\* Closed by the limit of the epoch or by the re-key flood guard.
Guarded(r) ==
    r.closing => Exhausted(r) \/ r.consecutive_peer_rekeys > MaxConsecutivePeerRekeys

Steady(e, r) ==
    r.rx_seq = e.rx_seq /\ r.rx_packets_since_rekey = e.rx_packets_since_rekey

\* The round of a KEXINIT has begun, by this endpoint or by its answer.
Begins(e, b, P, m) ==
    /\ Shape(b) /\ Writer(b, P) /\ b.err = "none" /\ Capped(b) /\ Steady(e, b)
    /\ Sent(b.tx) \in Nat /\ Sent(b.tx) <= m + 1
    /\ ~b.closing => At(b, P, m) /\ Sent(b.tx) = m + 1
    /\ b.role = e.role /\ b.offered_ciphers = e.offered_ciphers
    /\ b.offered_compression = e.offered_compression
    /\ b.consecutive_peer_rekeys \in {e.consecutive_peer_rekeys, e.consecutive_peer_rekeys + 1}
    /\ ~PeerBegins(e) => b.consecutive_peer_rekeys = e.consecutive_peer_rekeys

LEMMA RoundBegins ==
    ASSUME NEW e, EndInv(e), NEW P, IsSeq(P), NEW m \in Nat, m <= Sent(P), Part(m) = 0,
           LogOK(e, P), Ready(e, P), At(e, P, m), ~Stopped(e),
           NEW counted, Changed(e, counted, {"consecutive_peer_rekeys"}), EndInv(counted),
           counted.consecutive_peer_rekeys = e.consecutive_peer_rekeys + 1
    PROVE  /\ LogOK(counted, P) /\ Ready(counted, P) /\ counted.tx = e.tx /\ ~counted.closing
           /\ Steady(e, counted) /\ counted.err = "none" /\ Sent(e.tx) \in Nat
           /\ Sent(e.tx) <= m + 1
           /\ Begins(e, IF PeerBegins(e) THEN begin_rekey_round(counted) ELSE e, P, m)
<1>1. /\ counted.tx = e.tx /\ counted.role = e.role /\ counted.err = e.err
      /\ counted.kexinit_sent = e.kexinit_sent /\ counted.local_kexinit = e.local_kexinit
      /\ counted.offered_ciphers = e.offered_ciphers
      /\ counted.offered_compression = e.offered_compression
      /\ counted.peer_kexinit = e.peer_kexinit /\ counted.negotiated = e.negotiated
      /\ counted.kex_eph = e.kex_eph /\ counted.session_id = e.session_id
      /\ counted.pending = e.pending /\ counted.cipher_in = e.cipher_in
      /\ counted.recv_newkeys = e.recv_newkeys /\ counted.phase = e.phase
      /\ counted.rekeying = e.rekeying /\ counted.sent_newkeys = e.sent_newkeys
      /\ counted.strict_kex = e.strict_kex /\ counted.initial_kex_done = e.initial_kex_done
      /\ counted.closing = e.closing
      /\ counted.tx_seq = e.tx_seq /\ counted.cipher_out = e.cipher_out
      /\ counted.tx_packets_since_rekey = e.tx_packets_since_rekey
      /\ counted.rx_seq = e.rx_seq /\ counted.rx_packets_since_rekey = e.rx_packets_since_rekey
  BY DEF Changed, Fields
<1>2. ~e.closing /\ e.err = "none" /\ ~counted.closing /\ counted.err = "none"
  BY <1>1 DEF Stopped
<1>3. LogOK(counted, P) /\ Ready(counted, P)
  BY <1>1, LogSame
<1>4. At(counted, P, m)
  BY <1>1, AtSame DEF Kept, SameFlags
<1>5. Sent(e.tx) \in Nat
  BY StepsType DEF Sent, EndInv, Shape, IsSeq
<1>6. Turn(e.role, Sent(e.tx), m) /\ Flags(e, Sent(e.tx), m, 1)
  BY DEF At
<1>7. Sent(e.tx) <= m + 1
  BY <1>5, <1>6 DEF Turn
<1>8. CASE PeerBegins(e)
  <2> DEFINE b == begin_rekey_round(counted)
  <2>1. m >= 3 /\ Sent(counted.tx) = m
    BY <1>1, <1>6, <1>8 DEF PeerBegins, Flags
  <2>2. /\ Writer(b, P) /\ Adds(counted, b, 1) /\ Changed(counted, b, Begun)
        /\ Sent(b.tx) <= m + 1 /\ (~b.closing => Sent(b.tx) = m + 1 /\ At(b, P, m))
    BY <1>2, <1>3, <1>4, <2>1, BeginAt DEF EndInv
  <2>3. Shape(b)
    BY BeginRoundKeeps DEF EndInv
  <2> HIDE DEF b
  <2>4. /\ b.role = counted.role /\ b.offered_ciphers = counted.offered_ciphers
        /\ b.offered_compression = counted.offered_compression /\ b.err = counted.err
        /\ b.rx_seq = counted.rx_seq
        /\ b.rx_packets_since_rekey = counted.rx_packets_since_rekey
        /\ b.consecutive_peer_rekeys = counted.consecutive_peer_rekeys
    BY <2>2 DEF Changed, Fields, Begun, Written
  <2>5. Capped(b) /\ Sent(b.tx) \in Nat
    BY <1>2, <2>2 DEF Adds, Capped
  <2>6. Begins(e, b, P, m)
    BY <1>1, <1>2, <1>8, <2>2, <2>3, <2>4, <2>5 DEF Begins, Steady
  <2> QED
    BY <1>1, <1>2, <1>3, <1>5, <1>7, <1>8, <2>6 DEF b, Steady
<1>9. CASE ~PeerBegins(e)
  <2>1. Sent(e.tx) = m + 1
    BY <1>5, <1>6, <1>9 DEF Turn, Flags, PeerBegins
  <2>2. Begins(e, e, P, m)
    BY <1>2, <1>5, <2>1 DEF Begins, Steady, Writer, Capped, EndInv
  <2> QED
    BY <1>1, <1>2, <1>3, <1>5, <1>7, <1>9, <2>2 DEF Steady
<1> QED
  BY <1>8, <1>9

\* The answer, from the begun round b.
LEMMA AnswerMoves ==
    ASSUME NEW e, NEW b, NEW P, IsSeq(P), NEW m \in Nat, m + 1 <= Sent(P), Part(m) = 0,
           Begins(e, b, P, m), NEW a, a = Arg(P, m + 1), NEW p \in Roles, p # e.role, Offer(p, a),
           NEW known, Changed(b, known, {"peer_kexinit", "negotiated", "strict_kex"}),
           known.peer_kexinit = a.cookie, known.negotiated = Agreed(b.role, Ours(b), a),
           known.strict_kex <=> IF b.initial_kex_done THEN b.strict_kex ELSE StrictMarker,
           Shape(known), NEW r,
           e.role = "server" => r = known,
           e.role = "client" => r = SendInit(known)
    PROVE  Moved(r, P, m + 1) /\ Steady(e, r) /\ Capped(r)
           /\ r.consecutive_peer_rekeys = b.consecutive_peer_rekeys
<1>1. /\ known.tx = b.tx /\ known.role = b.role /\ known.closing = b.closing
      /\ known.tx_packets_since_rekey = b.tx_packets_since_rekey
      /\ known.offered_ciphers = b.offered_ciphers
      /\ known.offered_compression = b.offered_compression
      /\ known.tx_seq = b.tx_seq /\ known.cipher_out = b.cipher_out
  BY DEF Changed, Fields
<1>2. /\ Shape(b) /\ Writer(b, P) /\ b.err = "none" /\ Capped(b) /\ Steady(e, b)
      /\ Sent(b.tx) \in Nat /\ Sent(b.tx) <= m + 1
      /\ ~b.closing => At(b, P, m) /\ Sent(b.tx) = m + 1
      /\ b.role = e.role
  BY DEF Begins
<1>3. Writer(known, P) /\ Capped(known)
  BY <1>1, <1>2, LogSame DEF Writer, Capped, Exhausted
<1>4. m \in Nat /\ Part(m + 1) = 1
  <2>1. Part(m + 1) = Part(m) + 1
    BY RoundFacts
  <2> QED
    BY <2>1
<1>5. IsSeq(b.tx) /\ b.role \in Roles
  BY <1>2 DEF Shape
<1>6. CASE b.role = "server"
  <2>1. r = known
    BY <1>2, <1>6
  <2>2. Changed(b, r, Answered)
    BY <2>1 DEF Changed, Answered
  <2>3. Grows(b.tx, r.tx) /\ IsSeq(r.tx) /\ Sent(r.tx) = Sent(b.tx)
    BY <1>1, <1>5, <2>1 DEF Grows, IsSeq
  <2>4. ~b.closing => At(r, P, m + 1)
    <3> SUFFICES ASSUME ~b.closing PROVE At(r, P, m + 1)
      OBVIOUS
    <3>1. Sent(r.tx) = m + 1 /\ At(b, P, m) /\ Sent(b.tx) = m + 1 /\ b.role # "client" /\ p # b.role
      BY <1>2, <1>6, <2>3
    <3> QED
      BY <1>5, <2>1, <2>2, <2>3, <3>1, ExchangeAt
  <2>5. r.err = b.err /\ r.rx_seq = b.rx_seq /\ r.rx_packets_since_rekey = b.rx_packets_since_rekey
        /\ r.consecutive_peer_rekeys = b.consecutive_peer_rekeys /\ r.closing = b.closing
    BY <2>1 DEF Changed, Fields
  <2>6. Sent(r.tx) <= (m + 1) + 1
    BY <1>2, <2>3
  <2>7. Moved(r, P, m + 1)
    BY <1>2, <1>3, <2>1, <2>4, <2>5, <2>6 DEF Moved, Writer
  <2> QED
    BY <1>2, <1>3, <2>1, <2>5, <2>7 DEF Steady
<1>7. CASE b.role = "client"
  <2>1. ~known.closing => Part(Sent(known.tx)) = 1
    BY <1>1, <1>2, <1>4
  <2>2. /\ Writer(r, P) /\ Adds(known, r, 1) /\ Changed(known, r, Written \cup {"rng", "kex_eph"})
        /\ ~r.closing => r.kex_eph = Arg(r.tx, Sent(r.tx)) /\ r.kex_eph # 0
    <3>1. known.role = "client" /\ e.role = "client"
      BY <1>1, <1>2, <1>7
    <3> QED
      BY <1>3, <2>1, <3>1, SendInitLog
  <2>3. Changed(b, r, Answered)
    BY <2>2 DEF Changed, Answered
  <2>4. /\ r.err = b.err /\ r.rx_seq = b.rx_seq
        /\ r.rx_packets_since_rekey = b.rx_packets_since_rekey
        /\ r.consecutive_peer_rekeys = b.consecutive_peer_rekeys
    BY <2>3 DEF Changed, Fields, Answered, Written
  <2>5. r.peer_kexinit = known.peer_kexinit /\ r.negotiated = known.negotiated
        /\ r.strict_kex = known.strict_kex
    BY <2>2 DEF Changed, Fields, Written
  <2>6. /\ Grows(b.tx, r.tx) /\ IsSeq(r.tx) /\ Sent(r.tx) \in Sent(b.tx)..(Sent(b.tx) + 1)
        /\ ~r.closing => ~b.closing /\ Sent(r.tx) = Sent(b.tx) + 1
        /\ Capped(r)
    BY <1>1, <1>3, <2>2 DEF Adds
  <2>7. ~r.closing => At(r, P, m + 1)
    <3> SUFFICES ASSUME ~r.closing PROVE At(r, P, m + 1)
      OBVIOUS
    <3>1. /\ Sent(r.tx) = m + 2 /\ At(b, P, m) /\ Sent(b.tx) = m + 1 /\ b.role # "server"
          /\ p # b.role /\ r.kex_eph = Arg(r.tx, m + 2) /\ r.kex_eph # 0
      BY <1>2, <1>7, <2>2, <2>6
    <3> QED
      BY <1>5, <2>3, <2>5, <2>6, <3>1, ExchangeAt
  <2>8. Sent(r.tx) <= (m + 1) + 1
    BY <1>2, <2>6
  <2>9. Moved(r, P, m + 1)
    BY <1>2, <2>2, <2>4, <2>7, <2>8 DEF Moved, Writer
  <2> QED
    BY <1>2, <2>4, <2>6, <2>9 DEF Steady
<1> QED
  BY <1>5, <1>6, <1>7 DEF Roles

LEMMA OnKexinitMoves ==
    ASSUME NEW e, EndInv(e), NEW P, IsSeq(P), NEW m \in Nat, m + 1 <= Sent(P), Part(m) = 0,
           LogOK(e, P), Ready(e, P), At(e, P, m), ~Stopped(e), NEW msg, NEW p \in Roles,
           p # e.role, Offer(p, msg.arg), msg.arg = Arg(P, m + 1)
    PROVE  LET r == on_peer_kexinit(e, msg)
           IN  /\ Moved(r, P, m + 1) /\ Steady(e, r) /\ Guarded(r)
               /\ r.consecutive_peer_rekeys
                     \in {e.consecutive_peer_rekeys, e.consecutive_peer_rekeys + 1}
               /\ ~PeerBegins(e) => r.consecutive_peer_rekeys = e.consecutive_peer_rekeys
<1> DEFINE n       == e.consecutive_peer_rekeys + 1
           counted == [e EXCEPT !.consecutive_peer_rekeys = n]
           round   == IF PeerBegins(e) THEN begin_rekey_round(counted) ELSE e
           local   == ours_with(e.role, round.local_kexinit, e.offered_ciphers, e.offered_compression)
           agreed  == Agreed(e.role, local, msg.arg)
           strict  == IF round.initial_kex_done THEN round.strict_kex
                      ELSE \E role \in Roles \ {e.role} : Contains(msg.arg.kex, StrictName(role))
           known   == [round EXCEPT !.peer_kexinit = msg.arg.cookie, !.negotiated = agreed,
                                    !.strict_kex = strict]
           sent    == SendInit(known)
           r       == on_peer_kexinit(e, msg)
<1>1. /\ DOMAIN counted = Fields /\ counted.consecutive_peer_rekeys = n
      /\ \A x \in Fields \ {"consecutive_peer_rekeys"} : counted[x] = e[x]
  <2> HIDE DEF n
  <2> QED
    BY DEF EndInv, Shape, Fields
<1>2. \/ /\ n > MaxConsecutivePeerRekeys /\ PeerBegins(e)
         /\ r = disconnect(counted)
      \/ NoCommon(agreed) /\ r = Fail(round, "no common algorithm")
      \/ ~NoCommon(agreed) /\ r = IF e.role = "client" THEN sent ELSE known
  <2>1. r = IF PeerBegins(e) /\ counted.consecutive_peer_rekeys > MaxConsecutivePeerRekeys
            THEN disconnect(counted)
            ELSE IF NoCommon(agreed) THEN Fail(round, "no common algorithm")
            ELSE IF e.role = "client" THEN sent ELSE known
    BY DEF on_peer_kexinit, SendInit
  <2> HIDE DEF r, counted, round, agreed, sent, known
  <2> QED
    BY <1>1, <2>1
<1> HIDE DEF counted
<1>3. EndInv(counted) /\ Changed(e, counted, {"consecutive_peer_rekeys"})
  <2>1. Changed(e, counted, Settings) /\ Typed(counted)
    BY <1>1 DEF Changed, Settings, Fields, Typed, EndInv, Shape
  <2>2. EndInv(counted)
    BY <2>1, SettingInv
  <2> QED
    BY <1>1, <2>2 DEF Changed
<1>4. m <= Sent(P) /\ Sent(P) \in Nat
  <2>1. Sent(P) \in Nat
    BY StepsType DEF Sent, IsSeq
  <2> QED
    BY <2>1
<1>5. /\ LogOK(counted, P) /\ Ready(counted, P) /\ counted.tx = e.tx /\ ~counted.closing
      /\ Steady(e, counted) /\ counted.err = "none" /\ Sent(e.tx) \in Nat
      /\ Sent(e.tx) <= m + 1 /\ Begins(e, round, P, m)
  BY <1>1, <1>3, <1>4, RoundBegins
<1>6. ~NoCommon(agreed) /\ msg.arg.comp \in Seq(CompNames)
  <2>1. e.offered_ciphers \in CipherLists /\ e.offered_compression \in CompLists
    BY DEF LogOK
  <2>2. /\ ~NoCommon(negotiate(local, msg.arg)) /\ ~NoCommon(negotiate(msg.arg, local))
        /\ msg.arg.comp \in Seq(CompNames)
    <3> HIDE DEF round
    <3> QED
      BY <2>1, OffersAgree
  <2> HIDE DEF local
  <2> QED
    BY <2>2 DEF Agreed
<1>7. local = Ours(round) /\ round.role = e.role
  <2> HIDE DEF round
  <2> QED
    BY <1>5 DEF Ours, Begins
<1>8. strict <=> IF round.initial_kex_done THEN round.strict_kex ELSE StrictMarker
  <2>1. e.role \in Roles
    BY DEF EndInv, Shape
  <2>2. (\E role \in Roles \ {e.role} : Contains(msg.arg.kex, StrictName(role))) <=> StrictMarker
    BY <2>1, MarkerSeen
  <2> HIDE DEF round
  <2> QED
    BY <2>2
<1>9. local.comp \in Seq(CompNames)
  <2>1. local.comp = e.offered_compression
    <3> HIDE DEF round
    <3> QED
      BY DEF ours_with
  <2> QED
    BY <2>1 DEF EndInv, Shape
<1> HIDE DEF round, r
<1>10. agreed.comp \in CompNames
  BY <1>6, <1>9, AgreedFacts
<1>11. agreed = Agreed(round.role, Ours(round), msg.arg)
  BY <1>7
<1> HIDE DEF local, agreed, strict
<1>12. /\ DOMAIN known = Fields /\ known.negotiated = agreed /\ known.peer_kexinit = msg.arg.cookie
       /\ known.strict_kex = strict
       /\ \A x \in Fields \ {"peer_kexinit", "negotiated", "strict_kex"} : known[x] = round[x]
  BY <1>5 DEF Begins, Shape, Fields
<1> HIDE DEF known
<1>13. Changed(round, known, {"peer_kexinit", "negotiated", "strict_kex"}) /\ Shape(known)
  <2>1. Changed(round, known, Settings) /\ Typed(known) /\ Shape(round)
    BY <1>5, <1>10, <1>12 DEF Changed, Settings, Fields, Typed, Begins, Shape
  <2> QED
    BY <1>12, <2>1, SettingKeeps DEF Changed
<1>14. CASE /\ n > MaxConsecutivePeerRekeys /\ PeerBegins(e) /\ r = disconnect(counted)
  <2>1. LogOK(r, P) /\ r.closing /\ Sent(r.tx) = Sent(counted.tx) /\ Changed(counted, r, Written)
    BY <1>3, <1>5, <1>14, DisconnectLog DEF EndInv, Writer
  <2>2. /\ r.err = counted.err /\ r.rx_seq = counted.rx_seq
        /\ r.rx_packets_since_rekey = counted.rx_packets_since_rekey
        /\ r.consecutive_peer_rekeys = counted.consecutive_peer_rekeys
    BY <2>1 DEF Changed, Fields, Written
  <2>3. Sent(r.tx) <= (m + 1) + 1
    BY <1>5, <2>1
  <2>4. Moved(r, P, m + 1)
    BY <1>5, <2>1, <2>2, <2>3 DEF Moved
  <2>5. r.consecutive_peer_rekeys = n
    BY <1>1, <2>2
  <2>6. Guarded(r)
    BY <1>14, <2>5 DEF Guarded
  <2> QED
    BY <1>5, <1>14, <2>2, <2>4, <2>5, <2>6 DEF Steady, r
<1>15. CASE r = IF e.role = "client" THEN sent ELSE known
  <2>1. (e.role = "server" => r = known) /\ (e.role = "client" => r = sent)
    BY <1>15
  <2>2. /\ Moved(r, P, m + 1) /\ Steady(e, r) /\ Capped(r)
        /\ r.consecutive_peer_rekeys = round.consecutive_peer_rekeys
    BY <1>5, <1>8, <1>11, <1>12, <1>13, <2>1, AnswerMoves
  <2>3. Guarded(r)
    BY <2>2 DEF Guarded, Capped
  <2> QED
    BY <1>5, <2>2, <2>3 DEF Begins, r
<1> QED
  BY <1>2, <1>6, <1>14, <1>15

--------------------------------------------------------------------------------
(* The end of an exchange: ECDH values and NEWKEYS *)

\* The fields send_newkeys may change while the peer's NEWKEYS is awaited.
Rekeyed == Written \cup {"cipher_out", "pending", "sent_newkeys"}

\* The key of the next round, for an endpoint about to send NEWKEYS.
NextKey(e, P) ==
    LET n == Sent(e.tx)
    IN  /\ Part(n) = 2 /\ n <= Sent(P) /\ (e.strict_kex <=> StrictMarker)
        /\ e.pending.out = KeyOf(e, P, Out(e.role), Round(n) + 1)

LEMMA KnownNext ==
    ASSUME NEW e, NEW w, NEW P, e.role \in Roles, w.role = e.role, IsSeq(e.tx), IsSeq(w.tx), IsSeq(P),
           Grows(e.tx, w.tx), Part(Sent(e.tx)) = 2, Sent(e.tx) <= Sent(P)
    PROVE  \A dir : KeyOf(w, P, dir, Round(Sent(e.tx)) + 1) = KeyOf(e, P, dir, Round(Sent(e.tx)) + 1)
<1> DEFINE n == Sent(e.tx)
           j == Round(n)
<1>1. n \in Nat /\ Sent(P) \in Nat
  BY StepsType DEF Sent, IsSeq
<1>2. j \in Nat /\ n = 3 * j + 2
  BY <1>1, RoundFacts
<1>3. Grows(P, P)
  BY DEF Grows, IsSeq
<1>4. Further(e, P, w, P)
  BY <1>3, OutputsGrow
<1>5. /\ Sent(ClientTx(e, P)) = n \/ Sent(ClientTx(e, P)) = Sent(P)
      /\ Sent(ServerTx(e, P)) = n \/ Sent(ServerTx(e, P)) = Sent(P)
  BY DEF ClientTx, ServerTx
<1> HIDE DEF n, j
<1>6. 3 * (j + 1) - 1 = n /\ 3 * (j + 1) - 2 <= n /\ j + 1 \in Nat /\ n <= Sent(P)
      /\ 3 * (j + 1) - 2 <= Sent(P)
  BY <1>1, <1>2 DEF n
<1>7. KnownTo(e, P, j + 1)
  BY <1>5, <1>6 DEF KnownTo, Known
<1> QED
  BY <1>4, <1>6, <1>7 DEF Further, n, j

LEMMA SendNewkeysLog ==
    ASSUME NEW e, Shape(e), NEW P, IsSeq(P), Writer(e, P), ~e.recv_newkeys,
           ~e.closing => NextKey(e, P)
    PROVE  LET r == send_newkeys(e)
           IN  /\ Writer(r, P) /\ Adds(e, r, 1) /\ Changed(e, r, Rekeyed)
               /\ r.sent_newkeys /\ r.pending.some = e.pending.some
               /\ r.pending.inn = e.pending.inn
               /\ ~r.closing => Len(r.tx) >= 1 /\ r.tx[Len(r.tx)].msg.id = "NEWKEYS"
<1> DEFINE m == Msg("NEWKEYS", 0)
           w == write_packet(e, m)
           key == NewOutKey(w)
           p == [w.pending EXCEPT !.out = NoKey]
           c == NewOutContext(w)
           q == SeqAfterNewkeys(w)
           r == [w EXCEPT !.cipher_out = key, !.pending.out = NoKey, !.comp_out = c,
                          !.tx_seq = q, !.sent_newkeys = TRUE]
<1>1. m.id = "NEWKEYS" /\ MessageOK(m) /\ m.id \in KexIds /\ m.id # "ECDH_REPLY"
  BY DEF Msg, MessageOK, KexIds
<1>2. send_newkeys(e) = maybe_complete_kex(r)
  BY DEF send_newkeys
<1> HIDE DEF m
<1>3. Shape(w) /\ Changed(e, w, Written) /\ Alike(e, w)
  BY <1>1, WriteShape, WriteChanged, WriteAlike
<1>4. key = e.pending.out /\ w.strict_kex = e.strict_kex /\ w.pending = e.pending
      /\ w.recv_newkeys = e.recv_newkeys /\ w.role = e.role
  BY <1>3 DEF NewOutKey, Alike, Changed, Fields, Written
<1>5. q = IF e.strict_kex THEN 0 ELSE w.tx_seq
  BY <1>4 DEF SeqAfterNewkeys
<1>6. p.some = e.pending.some /\ p.inn = e.pending.inn
  BY <1>3, <1>4 DEF Shape
<1> HIDE DEF w, key, c, q
<1>7. /\ DOMAIN r = Fields /\ r.cipher_out = key /\ r.tx_seq = q /\ r.sent_newkeys = TRUE
      /\ r.pending = p
      /\ \A x \in Fields \ {"cipher_out", "pending", "comp_out", "tx_seq", "sent_newkeys"} :
             r[x] = w[x]
  BY <1>3 DEF Shape, Fields
<1> HIDE DEF r, p
<1>8. /\ r.tx = w.tx /\ r.role = w.role /\ r.closing = w.closing
      /\ r.tx_packets_since_rekey = w.tx_packets_since_rekey /\ r.recv_newkeys = w.recv_newkeys
      /\ r.offered_ciphers = w.offered_ciphers /\ r.offered_compression = w.offered_compression
  BY <1>7 DEF Fields
<1>9. send_newkeys(e) = r
  BY <1>2, <1>4, <1>8 DEF maybe_complete_kex
<1>10. Changed(e, r, Rekeyed)
  BY <1>3, <1>7 DEF Changed, Rekeyed, Written
<1>11. CASE e.closing
  <2>1. w = e
    BY <1>11 DEF write_packet, Muted, w
  <2>2. Writer(r, P)
    BY <1>8, <1>11, <2>1, LogSame DEF Writer
  <2>3. Sent(e.tx) \in Nat
    BY StepsType DEF Sent, Shape, IsSeq
  <2>4. Grows(e.tx, e.tx) /\ IsSeq(e.tx)
    BY GrowsReflexive DEF Shape
  <2>5. Adds(e, r, 1)
    BY <1>8, <1>11, <2>1, <2>3, <2>4 DEF Adds, Capped, Exhausted
  <2> QED
    BY <1>6, <1>7, <1>8, <1>9, <1>10, <1>11, <2>1, <2>2, <2>5
<1>12. CASE ~e.closing
  <2> DEFINE n == Sent(e.tx)
  <2>1. LogOK(e, P) /\ Ready(e, P) /\ NextKey(e, P)
    BY <1>12 DEF Writer
  <2>2. /\ Part(n) = 2 /\ n <= Sent(P) /\ (e.strict_kex <=> StrictMarker)
        /\ e.pending.out = KeyOf(e, P, Out(e.role), Round(n) + 1)
    BY <2>1 DEF NextKey
  <2>3. Follows(e.role, n, m)
    BY <1>1, <2>2 DEF Follows, Kind
  <2>4. /\ LogOK(w, P) /\ IsSeq(w.tx) /\ Len(w.tx) = Len(e.tx) + 1
        /\ w.tx[Len(w.tx)].msg = m /\ Sent(e.tx) \in Nat
        /\ Sent(w.tx) = IF m.id \in KexIds THEN Sent(e.tx) + 1 ELSE Sent(e.tx)
        /\ w.tx_seq = NextSeq(w.tx[Len(w.tx)].seq)
        /\ \A x \in Nat : Stretch(w.tx, Len(w.tx) + 1, x) => x <= w.tx_packets_since_rekey + 1
    BY <1>1, <1>12, <2>1, <2>2, <2>3, WriteLog DEF w
  <2>5. Grows(e.tx, w.tx)
    BY WriteGrows DEF w
  <2>6. n \in Nat /\ Sent(w.tx) = n + 1 /\ Round(n + 1) = Round(n) + 1
    <3>1. n \in Nat /\ Sent(w.tx) = n + 1
      BY <1>1, <2>4
    <3>2. Round(n + 1) = Round(n) + 1
      BY <2>2, <3>1, RoundFacts
    <3> QED
      BY <3>1, <3>2
  <2>7. Capped(w)
    <3>1. /\ w.tx_packets_since_rekey = e.tx_packets_since_rekey + 1
          /\ w.closing <=> e.tx_packets_since_rekey + 1 >= EpochHardPackets
      BY <1>12, WriteFacts DEF w
    <3> QED
      BY <3>1 DEF Capped, Exhausted
  <2>8. LogOK(r, P) /\ \A dir, j : KeyOf(r, P, dir, j) = KeyOf(w, P, dir, j)
    BY <1>8, <2>4, LogSame
  <2>9. r.cipher_out = KeyOf(r, P, Out(r.role), Round(Sent(r.tx)))
    <3>1. IsSeq(e.tx) /\ e.role \in Roles
      BY DEF Shape
    <3>2. KeyOf(w, P, Out(e.role), Round(n) + 1) = KeyOf(e, P, Out(e.role), Round(n) + 1)
      BY <1>4, <2>2, <2>4, <2>5, <3>1, KnownNext
    <3> QED
      BY <1>4, <1>7, <1>8, <2>2, <2>6, <2>8, <3>2
  <2>10. r.tx_seq = After(r.tx[Len(r.tx)])
    BY <1>1, <1>5, <1>7, <1>8, <2>2, <2>4 DEF After
  <2>11. \A x \in Nat : Stretch(r.tx, Len(r.tx) + 1, x) => x <= r.tx_packets_since_rekey + 1
    BY <1>8, <2>4
  <2>12. Writer(r, P)
    BY <2>8, <2>9, <2>10, <2>11 DEF Writer, Ready
  <2>13. Adds(e, r, 1)
    <3>1. Sent(r.tx) = n + 1 /\ IsSeq(r.tx) /\ Grows(e.tx, r.tx) /\ Capped(r)
      BY <1>8, <2>4, <2>5, <2>6, <2>7 DEF Capped, Exhausted
    <3> QED
      BY <1>12, <2>6, <3>1 DEF Adds
  <2>14. Len(r.tx) >= 1 /\ r.tx[Len(r.tx)].msg.id = "NEWKEYS"
    <3>1. Len(e.tx) \in Nat
      BY DEF Shape, IsSeq
    <3> QED
      BY <1>1, <1>8, <2>4, <3>1
  <2> QED
    BY <1>6, <1>7, <1>9, <1>10, <2>12, <2>13, <2>14
<1> QED
  BY <1>11, <1>12

\* finish_kex, with the keys it derives.
Derives(e, h, r) ==
    LET sid == SessionId(e, h)
    IN  /\ Shape(r) /\ Changed(e, r, {"session_id", "pending", "comp_name"})
        /\ r.session_id = sid /\ r.pending.some
        /\ r.pending.out = <<Out(e.role), h, sid, e.negotiated.cipher>>
        /\ r.pending.inn = <<Inn(e.role), h, sid, e.negotiated.cipher>>

LEMMA FinishKeys ==
    ASSUME NEW e, Shape(e), NEW h
    PROVE  Derives(e, h, finish_kex(e, h))
<1> DEFINE sid == SessionId(e, h)
           c2s == <<"c2s", h, sid, e.negotiated.cipher>>
           s2c == <<"s2c", h, sid, e.negotiated.cipher>>
           p == IF e.role = "client" THEN [some |-> TRUE, out |-> c2s, inn |-> s2c]
                                     ELSE [some |-> TRUE, out |-> s2c, inn |-> c2s]
           n == e.negotiated.comp
           r == [e EXCEPT !.session_id = sid, !.pending = p, !.comp_name = n]
           out == <<Out(e.role), h, sid, e.negotiated.cipher>>
           inn == <<Inn(e.role), h, sid, e.negotiated.cipher>>
<1>1. finish_kex(e, h) = r
  BY DEF finish_kex
<1>2. /\ e.role = "client" => out = c2s /\ inn = s2c
      /\ e.role # "client" => out = s2c /\ inn = c2s
  BY DEF Out, Inn
<1> HIDE DEF c2s, s2c, out, inn
<1>3. DOMAIN p = {"some", "out", "inn"} /\ p.some = TRUE /\ p.out = out /\ p.inn = inn
  <2>1. CASE e.role = "client"
    BY <1>2, <2>1
  <2>2. CASE e.role # "client"
    BY <1>2, <2>2
  <2> QED
    BY <2>1, <2>2
<1> HIDE DEF p, sid, n
<1>4. DOMAIN r = Fields /\ r.session_id = sid /\ r.pending = p /\ r.comp_name = n
      /\ \A x \in Fields \ {"session_id", "pending", "comp_name"} : r[x] = e[x]
  BY DEF Shape, Fields
<1> HIDE DEF r
<1>5. n \in CompNames
  BY DEF Shape, n
<1>6. /\ r.tx = e.tx /\ r.role = e.role /\ r.phase = e.phase /\ r.rng = e.rng
      /\ r.tx_seq = e.tx_seq /\ r.rx_seq = e.rx_seq /\ r.comp_out = e.comp_out
      /\ r.comp_in = e.comp_in /\ r.negotiated = e.negotiated
      /\ r.offered_compression = e.offered_compression /\ r.rekeying = e.rekeying
      /\ r.kexinit_sent = e.kexinit_sent /\ r.closing = e.closing
      /\ r.sent_newkeys = e.sent_newkeys /\ r.kex_eph = e.kex_eph
      /\ r.tx_packets_since_rekey = e.tx_packets_since_rekey /\ r.tx_app_queue = e.tx_app_queue
  BY <1>4 DEF Fields
<1>7. Shape(r)
  BY <1>3, <1>4, <1>5, <1>6 DEF Shape
<1>8. Changed(e, r, {"session_id", "pending", "comp_name"})
  BY <1>4 DEF Changed
<1> QED
  BY <1>1, <1>3, <1>4, <1>7, <1>8 DEF Derives, sid, out, inn

\* What an endpoint knows once it has finished the exchange of the round of m.
Finishes(f, P, m) ==
    LET j == Round(m)
        c == ClientTx(f, P)
        s == ServerTx(f, P)
    IN  /\ Ours(f) = Arg(f.tx, 3 * j + 1)
        /\ f.peer_kexinit = Arg(P, 3 * j + 1).cookie /\ f.peer_kexinit # 0
        /\ f.negotiated = Neg(c, s, j)
        /\ f.session_id = Hash(s, 0) /\ f.session_id # <<>>
        /\ f.pending.out = KeyOf(f, P, Out(f.role), j + 1)
        /\ f.pending.inn = KeyOf(f, P, Inn(f.role), j + 1)
        /\ f.cipher_in = KeyOf(f, P, Inn(f.role), j)

LEMMA KeyNext ==
    ASSUME NEW e, NEW P, NEW dir, NEW j \in Nat
    PROVE  KeyOf(e, P, dir, j + 1) = <<dir, Hash(ServerTx(e, P), j), Hash(ServerTx(e, P), 0),
                                       Neg(ClientTx(e, P), ServerTx(e, P), j).cipher>>
<1>1. j + 1 # 0 /\ (j + 1) - 1 = j
  OBVIOUS
<1> QED
  BY <1>1 DEF KeyOf, Key

LEMMA FinishPlace ==
    ASSUME NEW e, NEW b, NEW f, NEW h, NEW P, IsSeq(P), IsSeq(e.tx), IsSeq(b.tx),
           Grows(e.tx, b.tx), Changed(e, b, Written \cup {"rng", "kex_eph"}),
           NEW m \in Nat, Part(m) = 1, m <= Sent(P), m <= Sent(e.tx), At(e, P, m),
           Derives(b, h, f), h = Hash(ServerTx(b, P), Round(m)), h # <<>>
    PROVE  Finishes(f, P, m)
<1> DEFINE j == Round(m)
<1>1. j \in Nat /\ m = 3 * j + 1
  BY RoundFacts
<1>2. /\ b.role = e.role /\ b.local_kexinit = e.local_kexinit
      /\ b.offered_ciphers = e.offered_ciphers /\ b.offered_compression = e.offered_compression
      /\ b.peer_kexinit = e.peer_kexinit /\ b.negotiated = e.negotiated
      /\ b.session_id = e.session_id /\ b.cipher_in = e.cipher_in
  BY DEF Changed, Fields, Written
<1>3. /\ f.tx = b.tx /\ f.role = b.role /\ f.local_kexinit = b.local_kexinit
      /\ f.offered_ciphers = b.offered_ciphers /\ f.offered_compression = b.offered_compression
      /\ f.peer_kexinit = b.peer_kexinit /\ f.negotiated = b.negotiated
      /\ f.cipher_in = b.cipher_in
  BY DEF Derives, Changed, Fields
<1>4. Flags(e, Sent(e.tx), m, 1) /\ Values(e, P, m)
  BY DEF At
<1>5. e.kexinit_sent
  <2>1. Part(m) # 0
    OBVIOUS
  <2> QED
    BY <1>4, <2>1 DEF Flags
<1>6. /\ Ours(e) = Arg(e.tx, 3 * j + 1)
      /\ e.peer_kexinit = Arg(P, 3 * j + 1).cookie /\ e.peer_kexinit # 0
      /\ e.negotiated = Neg(ClientTx(e, P), ServerTx(e, P), j)
      /\ m < 2 => e.session_id = <<>>
      /\ m >= 2 => e.session_id = Hash(ServerTx(e, P), 0) /\ e.session_id # <<>>
      /\ e.cipher_in = KeyOf(e, P, Inn(e.role), j)
  <2>1. Part(m) # 0
    OBVIOUS
  <2> QED
    BY <1>4, <1>5, <2>1 DEF Values
<1>7. /\ KeyOf(f, P, Inn(e.role), j) = KeyOf(e, P, Inn(e.role), j)
      /\ Neg(ClientTx(f, P), ServerTx(f, P), j) = Neg(ClientTx(e, P), ServerTx(e, P), j)
      /\ m >= 2 => Hash(ServerTx(f, P), 0) = Hash(ServerTx(e, P), 0)
  <2>1. Grows(P, P)
    BY DEF Grows, IsSeq
  <2>2. IsSeq(f.tx) /\ Grows(e.tx, f.tx) /\ f.role = e.role
    BY <1>2, <1>3
  <2>3. Lasting(e, P, f, P, m)
    BY <2>1, <2>2, KnownRead
  <2>4. Part(m) # 0
    OBVIOUS
  <2> QED
    BY <2>3, <2>4 DEF Lasting
<1>8. Ours(f) = Arg(f.tx, 3 * j + 1)
  <2>1. 3 * j + 1 \in 1..Sent(e.tx)
    <3>1. Sent(e.tx) \in Nat
      BY StepsType DEF Sent, IsSeq
    <3> QED
      BY <1>1, <3>1
  <2>2. Arg(b.tx, 3 * j + 1) = Arg(e.tx, 3 * j + 1)
    BY <2>1, ArgGrows
  <2>3. Ours(f) = Ours(e)
    BY <1>2, <1>3 DEF Ours
  <2> QED
    BY <1>3, <1>6, <2>2, <2>3
<1>9. ServerTx(f, P) = ServerTx(b, P) /\ h = Hash(ServerTx(f, P), j)
  BY <1>3 DEF ServerTx
<1>10. SessionId(b, h) = Hash(ServerTx(f, P), 0) /\ SessionId(b, h) # <<>>
  <2>1. CASE m < 2
    <3>1. j = 0 /\ b.session_id = <<>>
      BY <1>1, <1>2, <1>6, <2>1
    <3> QED
      BY <1>9, <3>1 DEF SessionId
  <2>2. CASE ~(m < 2)
    <3>1. m >= 2
      BY <2>2
    <3>2. b.session_id = Hash(ServerTx(e, P), 0) /\ b.session_id # <<>>
      BY <1>2, <1>6, <3>1
    <3> QED
      BY <1>7, <3>1, <3>2 DEF SessionId
  <2> QED
    BY <2>1, <2>2
<1>11. f.negotiated = Neg(ClientTx(f, P), ServerTx(f, P), j)
  BY <1>2, <1>3, <1>6, <1>7
<1>12. ASSUME NEW dir
       PROVE  <<dir, h, SessionId(b, h), b.negotiated.cipher>> = KeyOf(f, P, dir, j + 1)
  <2>1. b.negotiated = Neg(ClientTx(f, P), ServerTx(f, P), j)
    BY <1>3, <1>11
  <2>2. KeyOf(f, P, dir, j + 1) = <<dir, Hash(ServerTx(f, P), j), Hash(ServerTx(f, P), 0),
                                   Neg(ClientTx(f, P), ServerTx(f, P), j).cipher>>
    BY <1>1, KeyNext
  <2> QED
    BY <1>9, <1>10, <2>1, <2>2
<1>13. /\ f.pending.out = KeyOf(f, P, Out(f.role), j + 1)
       /\ f.pending.inn = KeyOf(f, P, Inn(f.role), j + 1)
       /\ f.session_id = SessionId(b, h)
  <2>1. /\ f.pending.out = <<Out(b.role), h, SessionId(b, h), b.negotiated.cipher>>
        /\ f.pending.inn = <<Inn(b.role), h, SessionId(b, h), b.negotiated.cipher>>
        /\ f.session_id = SessionId(b, h)
    BY DEF Derives
  <2>2. f.pending.out = KeyOf(f, P, Out(b.role), j + 1)
    BY <1>12, <2>1
  <2>3. f.pending.inn = KeyOf(f, P, Inn(b.role), j + 1)
    BY <1>12, <2>1
  <2> QED
    BY <1>3, <2>1, <2>2, <2>3
<1>14. f.peer_kexinit = Arg(P, 3 * j + 1).cookie /\ f.peer_kexinit # 0
       /\ f.cipher_in = KeyOf(f, P, Inn(f.role), j)
  BY <1>2, <1>3, <1>6, <1>7
<1>15. f.session_id = Hash(ServerTx(f, P), 0) /\ f.session_id # <<>>
  BY <1>10, <1>13
<1> HIDE DEF j
<1> QED
  BY <1>8, <1>11, <1>13, <1>14, <1>15 DEF Finishes, j

LEMMA FinishMoves ==
    ASSUME NEW e, NEW b, NEW h, NEW P, IsSeq(P), IsSeq(e.tx), Shape(b), Writer(b, P), Capped(b),
           e.err = "none", Grows(e.tx, b.tx), Changed(e, b, Written \cup {"rng", "kex_eph"}),
           NEW m \in Nat, Part(m) = 1, m + 1 <= Sent(P), m <= Sent(e.tx), At(e, P, m),
           Sent(b.tx) \in Nat, Sent(b.tx) <= m + 1, h # <<>>,
           ~b.closing => Sent(b.tx) = m + 1 /\ h = Hash(ServerTx(b, P), Round(m))
    PROVE  LET r == send_newkeys(finish_kex(b, h))
           IN  /\ Moved(r, P, m + 1) /\ Steady(e, r) /\ Capped(r)
               /\ r.consecutive_peer_rekeys = e.consecutive_peer_rekeys
<1> DEFINE f == finish_kex(b, h)
           r == send_newkeys(f)
           j == Round(m)
<1>1. Derives(b, h, f)
  BY FinishKeys
<1> HIDE DEF f
<1>2. Shape(f) /\ f.pending.some /\ Changed(b, f, {"session_id", "pending", "comp_name"})
  BY <1>1 DEF Derives
<1>3. /\ f.tx = b.tx /\ f.role = b.role /\ f.closing = b.closing
      /\ f.tx_packets_since_rekey = b.tx_packets_since_rekey
      /\ f.offered_ciphers = b.offered_ciphers /\ f.offered_compression = b.offered_compression
      /\ f.tx_seq = b.tx_seq /\ f.cipher_out = b.cipher_out
  BY <1>2 DEF Changed, Fields
<1>4. Writer(f, P) /\ Capped(f)
  BY <1>3, LogSame DEF Writer, Capped, Exhausted
<1>5. \A x \in Fields \ (Written \cup {"rng", "kex_eph", "session_id", "pending", "comp_name"}) :
          f[x] = e[x]
  BY <1>2 DEF Changed
<1>6. /\ f.err = e.err /\ f.rx_seq = e.rx_seq
      /\ f.rx_packets_since_rekey = e.rx_packets_since_rekey
      /\ f.consecutive_peer_rekeys = e.consecutive_peer_rekeys
      /\ f.recv_newkeys = e.recv_newkeys /\ f.strict_kex = e.strict_kex
      /\ f.kexinit_sent = e.kexinit_sent /\ f.phase = e.phase /\ f.rekeying = e.rekeying
      /\ f.initial_kex_done = e.initial_kex_done /\ f.role = e.role
  BY <1>5 DEF Fields, Written
<1>7. /\ j \in Nat /\ m = 3 * j + 1 /\ Part(m + 1) = 2 /\ Round(m + 1) = j /\ m + 1 \in Nat
      /\ m >= 1 /\ m # 2
  <2>1. j \in Nat /\ m = 3 * j + 1
    BY RoundFacts
  <2>2. Part(m + 1) = Part(m) + 1 /\ Round(m + 1) = j
    BY RoundFacts
  <2>3. Part(m + 1) = 2 /\ m >= 1 /\ m # 2 /\ m + 1 \in Nat
    BY <2>1, <2>2
  <2> QED
    BY <2>1, <2>2, <2>3
<1>8. Flags(e, Sent(e.tx), m, 1)
  BY DEF At
<1>9. ~e.recv_newkeys /\ (e.strict_kex <=> StrictMarker)
  BY <1>7, <1>8 DEF Flags
<1>10. Sent(P) \in Nat /\ Sent(e.tx) \in Nat
  BY StepsType DEF Sent, IsSeq
<1>11. ~b.closing => Finishes(f, P, m)
  <2>1. m <= Sent(P) /\ IsSeq(b.tx)
    BY <1>10 DEF Shape
  <2> QED
    BY <1>1, <2>1, FinishPlace
<1>12. ~f.closing => NextKey(f, P)
  <2> SUFFICES ASSUME ~f.closing PROVE NextKey(f, P)
    OBVIOUS
  <2>1. Sent(f.tx) = m + 1 /\ Finishes(f, P, m)
    BY <1>3, <1>11
  <2>2. f.pending.out = KeyOf(f, P, Out(f.role), j + 1)
    BY <2>1 DEF Finishes
  <2> HIDE DEF j
  <2> QED
    BY <1>6, <1>7, <1>9, <2>1, <2>2 DEF NextKey
<1>13. /\ Writer(r, P) /\ Adds(f, r, 1) /\ Changed(f, r, Rekeyed)
       /\ r.sent_newkeys /\ r.pending.some = f.pending.some /\ r.pending.inn = f.pending.inn
       /\ ~r.closing => Len(r.tx) >= 1 /\ r.tx[Len(r.tx)].msg.id = "NEWKEYS"
  <2>1. ~f.recv_newkeys
    BY <1>6, <1>9
  <2> QED
    BY <1>2, <1>4, <1>12, <2>1, SendNewkeysLog
<1> HIDE DEF r
<1>14. /\ r.err = f.err /\ r.rx_seq = f.rx_seq
       /\ r.rx_packets_since_rekey = f.rx_packets_since_rekey
       /\ r.consecutive_peer_rekeys = f.consecutive_peer_rekeys
       /\ r.recv_newkeys = f.recv_newkeys /\ r.strict_kex = f.strict_kex
       /\ r.kexinit_sent = f.kexinit_sent /\ r.phase = f.phase /\ r.rekeying = f.rekeying
       /\ r.initial_kex_done = f.initial_kex_done /\ r.role = f.role
       /\ r.local_kexinit = f.local_kexinit /\ r.session_id = f.session_id
       /\ r.offered_ciphers = f.offered_ciphers /\ r.offered_compression = f.offered_compression
       /\ r.peer_kexinit = f.peer_kexinit /\ r.negotiated = f.negotiated
       /\ r.cipher_in = f.cipher_in
  BY <1>13 DEF Changed, Fields, Rekeyed, Written
<1>15. /\ Capped(r) /\ Sent(r.tx) <= (m + 1) + 1 /\ IsSeq(r.tx) /\ Grows(f.tx, r.tx)
       /\ ~r.closing => ~b.closing /\ Sent(r.tx) = m + 2
  <2>1. /\ Sent(f.tx) \in Nat /\ Sent(r.tx) \in Sent(f.tx)..(Sent(f.tx) + 1)
        /\ ~r.closing => ~f.closing /\ Sent(r.tx) = Sent(f.tx) + 1
        /\ IsSeq(r.tx) /\ Grows(f.tx, r.tx) /\ Capped(r)
    BY <1>4, <1>13 DEF Adds
  <2>2. Sent(f.tx) <= m + 1 /\ (~f.closing => Sent(f.tx) = m + 1 /\ ~b.closing)
    BY <1>3
  <2> QED
    BY <2>1, <2>2
<1>16. ASSUME ~r.closing PROVE At(r, P, m + 1)
  <2>1. Sent(r.tx) = m + 2 /\ Finishes(f, P, m) /\ Sent(f.tx) = m + 1
    BY <1>3, <1>11, <1>15, <1>16
  <2>2. Turn(r.role, m + 2, m + 1)
    BY <1>7 DEF Turn
  <2>3. Flags(r, m + 2, m + 1, 1)
    <3>1. m + 2 # m + 1 /\ (m + 1 >= 3 <=> m >= 3) /\ m + 1 >= 1 /\ Part(m) # 0
      BY <1>7
    <3> QED
      BY <1>2, <1>6, <1>7, <1>8, <1>9, <1>13, <1>14, <3>1 DEF Flags
  <2>4. /\ Ours(f) = Arg(f.tx, 3 * j + 1)
        /\ f.peer_kexinit = Arg(P, 3 * j + 1).cookie /\ f.peer_kexinit # 0
        /\ f.negotiated = Neg(ClientTx(f, P), ServerTx(f, P), j)
        /\ f.session_id = Hash(ServerTx(f, P), 0) /\ f.session_id # <<>>
        /\ f.pending.inn = KeyOf(f, P, Inn(f.role), j + 1)
        /\ f.cipher_in = KeyOf(f, P, Inn(f.role), j)
    BY <2>1 DEF Finishes
  <2>5. /\ KeyOf(r, P, Inn(f.role), j) = KeyOf(f, P, Inn(f.role), j)
        /\ KeyOf(r, P, Inn(f.role), j + 1) = KeyOf(f, P, Inn(f.role), j + 1)
        /\ Neg(ClientTx(r, P), ServerTx(r, P), j) = Neg(ClientTx(f, P), ServerTx(f, P), j)
        /\ Hash(ServerTx(r, P), 0) = Hash(ServerTx(f, P), 0)
    <3>1. Grows(P, P)
      BY DEF Grows, IsSeq
    <3>2. IsSeq(f.tx) /\ m + 1 <= Sent(f.tx)
      BY <1>2, <1>7, <2>1 DEF Shape
    <3>3. Lasting(f, P, r, P, m + 1)
      BY <1>7, <1>14, <1>15, <3>1, <3>2, KnownRead
    <3>4. m + 1 >= 2 /\ Part(m + 1) # 0
      BY <1>7
    <3> QED
      BY <1>7, <3>3, <3>4 DEF Lasting
  <2>6. Ours(r) = Arg(r.tx, 3 * j + 1)
    <3>1. 3 * j + 1 \in 1..Sent(f.tx)
      BY <1>7, <2>1
    <3>2. Arg(r.tx, 3 * j + 1) = Arg(f.tx, 3 * j + 1)
      BY <1>2, <1>15, <3>1, ArgGrows DEF Shape
    <3>3. Ours(r) = Ours(f)
      BY <1>14 DEF Ours
    <3> QED
      BY <2>4, <3>2, <3>3
  <2>7. ~(m + 1 < 2) /\ Part(m + 1) # 1 /\ Round(m + 1) = j
    BY <1>7
  <2> HIDE DEF j
  <2>8. Values(r, P, m + 1)
    BY <1>13, <1>14, <2>4, <2>5, <2>6, <2>7 DEF Values
  <2> QED
    BY <1>13, <1>16, <2>1, <2>2, <2>3, <2>8 DEF At
<1>17. Moved(r, P, m + 1)
  BY <1>6, <1>13, <1>14, <1>15, <1>16 DEF Moved, Writer
<1> QED
  BY <1>6, <1>14, <1>15, <1>17 DEF Steady, r, f

\* The values an exchange is computed from, at either end.
LEMMA ExchangeValues ==
    ASSUME NEW e, NEW P, NEW m \in Nat, Part(m) = 1, At(e, P, m), e.role \in Roles
    PROVE  /\ Round(m) \in Nat /\ m = 3 * Round(m) + 1 /\ m >= 1
           /\ e.peer_kexinit = Arg(P, m).cookie /\ e.peer_kexinit # 0
           /\ e.local_kexinit = Arg(e.tx, m).cookie
           /\ e.negotiated = Neg(ClientTx(e, P), ServerTx(e, P), Round(m))
           /\ e.role = "client" => e.kex_eph = Arg(e.tx, m + 1) /\ e.kex_eph # 0
                                   /\ Sent(e.tx) = m + 1
           /\ e.role = "server" => Sent(e.tx) = m
<1> DEFINE j == Round(m)
<1>1. j \in Nat /\ m = 3 * j + 1 /\ 3 * j + 2 = m + 1 /\ m >= 1 /\ Part(m) # 0 /\ Part(m) # 2
  <2>1. j \in Nat /\ m = 3 * j + 1
    BY RoundFacts
  <2> QED
    BY <2>1
<1>2. Turn(e.role, Sent(e.tx), m) /\ Flags(e, Sent(e.tx), m, 1) /\ Values(e, P, m)
  BY DEF At
<1>3. e.kexinit_sent
  BY <1>1, <1>2 DEF Flags
<1>4. /\ Ours(e) = Arg(e.tx, 3 * j + 1)
      /\ e.peer_kexinit = Arg(P, 3 * j + 1).cookie /\ e.peer_kexinit # 0
      /\ e.negotiated = Neg(ClientTx(e, P), ServerTx(e, P), j)
      /\ e.role = "client" => e.kex_eph = Arg(e.tx, 3 * j + 2) /\ e.kex_eph # 0
  BY <1>1, <1>2, <1>3 DEF Values
<1>5. Ours(e).cookie = e.local_kexinit
  BY DEF Ours, ours_with
<1>6. /\ e.role = "client" => Sent(e.tx) = m + 1
      /\ e.role = "server" => Sent(e.tx) = m
  BY <1>1, <1>2 DEF Turn
<1> HIDE DEF j
<1>7. 3 * j + 1 = m /\ 3 * j + 2 = m + 1
  BY <1>1
<1> QED
  BY <1>1, <1>4, <1>5, <1>6, <1>7 DEF j

LEMMA OnInitMoves ==
    ASSUME NEW e, Shape(e), NEW P, IsSeq(P), NEW m \in Nat, m + 1 <= Sent(P), Part(m) = 1,
           LogOK(e, P), Ready(e, P), At(e, P, m), ~Stopped(e), e.role = "server",
           NEW msg, msg.arg = Arg(P, m + 1)
    PROVE  LET r == on_ecdh_init(e, msg)
           IN  /\ Moved(r, P, m + 1) /\ Steady(e, r) /\ Capped(r)
               /\ r.consecutive_peer_rekeys = e.consecutive_peer_rekeys
<1> DEFINE q == e.rng + 1
           h == compute_exchange_hash(e, msg.arg, q)
           v == [q_s |-> q, signed |-> h]
           y == Msg("ECDH_REPLY", v)
           a == [e EXCEPT !.rng = q]
           w == write_packet(a, y)
           j == Round(m)
<1>1. /\ j \in Nat /\ m = 3 * j + 1 /\ m >= 1
      /\ e.peer_kexinit = Arg(P, m).cookie /\ e.peer_kexinit # 0
      /\ e.local_kexinit = Arg(e.tx, m).cookie
      /\ e.negotiated = Neg(ClientTx(e, P), ServerTx(e, P), j) /\ Sent(e.tx) = m
  BY ExchangeValues DEF Shape
<1>2. on_ecdh_init(e, msg) = send_newkeys(finish_kex(w, h))
  BY <1>1 DEF on_ecdh_init
<1>3. h # <<>>
  BY HashFacts
<1>4. h = <<Arg(P, m).cookie, Arg(e.tx, m).cookie, Arg(P, m + 1), q,
            negotiate(Arg(P, m), Arg(e.tx, m)).kex>>
  <2>1. e.role # "client" /\ 3 * j + 1 = m
    BY <1>1
  <2>2. e.negotiated = negotiate(Arg(P, m), Arg(e.tx, m))
    BY <1>1, <2>1 DEF Neg, ClientTx, ServerTx
  <2>3. h = <<e.peer_kexinit, e.local_kexinit, msg.arg, q, e.negotiated.kex>>
    BY <2>1 DEF compute_exchange_hash
  <2> HIDE DEF h, q, j
  <2> QED
    BY <1>1, <2>2, <2>3
<1> HIDE DEF h, j
<1>5. v.q_s = q /\ v.signed = h
  OBVIOUS
<1>6. y.id = "ECDH_REPLY" /\ y.arg = v
  BY DEF Msg
<1>7. DOMAIN e = Fields
  BY DEF Shape
<1>8. Changed(e, a, {"rng"}) /\ a.rng = e.rng + 1
  BY <1>7 DEF Changed, Fields
<1> HIDE DEF v, y, a
<1>9. Shape(a)
  BY <1>8, DrawShape
<1>10. /\ a.tx = e.tx /\ a.role = e.role /\ a.tx_packets_since_rekey = e.tx_packets_since_rekey
       /\ a.offered_ciphers = e.offered_ciphers /\ a.offered_compression = e.offered_compression
       /\ a.tx_seq = e.tx_seq /\ a.cipher_out = e.cipher_out /\ a.closing = e.closing
  BY <1>8 DEF Changed, Fields
<1>11. Writer(a, P) /\ Capped(a) /\ ~a.closing /\ e.err = "none"
  BY <1>10, LogSame DEF Writer, Capped, Stopped
<1>12. /\ y.id # "NEWKEYS" /\ y.id \in KexIds /\ MessageOK(y)
       /\ Follows(a.role, Sent(a.tx), y)
  <2>1. Part(Sent(a.tx)) = 1 /\ a.role = "server"
    BY <1>1, <1>10
  <2> QED
    BY <1>6, <2>1 DEF KexIds, Follows, Kind, MessageOK
<1>13. Attests(P, a.tx, y)
  <2>1. Sent(a.tx) = m /\ a.tx = e.tx /\ y.arg.signed = h /\ y.arg.q_s = q
    BY <1>1, <1>5, <1>6, <1>10
  <2> HIDE DEF q
  <2> QED
    BY <1>4, <2>1 DEF Attests
<1>14. Writer(w, P) /\ Adds(a, w, 1) /\ (~w.closing => Len(w.tx) >= 1 /\ w.tx[Len(w.tx)].msg = y)
  BY <1>9, <1>11, <1>12, <1>13, WriteWriter
<1>15. Shape(w) /\ Changed(a, w, Written)
  BY <1>9, <1>12, WriteShape, WriteChanged
<1> HIDE DEF w, q
<1>16. Changed(e, w, Written \cup {"rng", "kex_eph"}) /\ w.role = e.role
  <2>1. \A x \in Fields \ (Written \cup {"rng", "kex_eph"}) : w[x] = a[x] /\ a[x] = e[x]
    BY <1>8, <1>15 DEF Changed
  <2> QED
    BY <1>15, <2>1 DEF Changed, Fields, Written
<1>17. /\ Sent(w.tx) \in Nat /\ Sent(w.tx) <= m + 1 /\ (~w.closing => Sent(w.tx) = m + 1)
       /\ Grows(e.tx, w.tx) /\ Capped(w) /\ IsSeq(w.tx)
  BY <1>1, <1>10, <1>11, <1>14 DEF Adds
<1>18. ~w.closing => h = Hash(ServerTx(w, P), j)
  <2> SUFFICES ASSUME ~w.closing PROVE h = Hash(ServerTx(w, P), j)
    OBVIOUS
  <2>1. Len(w.tx) >= 1 /\ w.tx[Len(w.tx)].msg = y
    BY <1>14
  <2>2. IsKex(w.tx[Len(w.tx)])
    BY <1>12, <2>1 DEF IsKex
  <2>3. Arg(w.tx, m + 1) = v
    BY <1>6, <1>17, <2>1, <2>2, LastArg
  <2>4. m + 1 = 3 * j + 2
    BY <1>1
  <2>5. ServerTx(w, P) = w.tx
    BY <1>16 DEF ServerTx
  <2> QED
    BY <1>5, <2>3, <2>4, <2>5 DEF Hash
<1>19. IsSeq(e.tx) /\ m <= Sent(e.tx)
  BY <1>1 DEF Shape
<1>20. LET r == send_newkeys(finish_kex(w, h))
       IN  /\ Moved(r, P, m + 1) /\ Steady(e, r) /\ Capped(r)
           /\ r.consecutive_peer_rekeys = e.consecutive_peer_rekeys
  BY <1>3, <1>11, <1>14, <1>15, <1>16, <1>17, <1>18, <1>19, FinishMoves DEF j
<1> QED
  BY <1>2, <1>20

LEMMA OnReplyMoves ==
    ASSUME NEW e, Shape(e), NEW P, IsSeq(P), NEW m \in Nat, m + 1 <= Sent(P), Part(m) = 1,
           LogOK(e, P), Ready(e, P), At(e, P, m), ~Stopped(e), e.role = "client",
           Attested(e.tx, P), NEW msg, msg.arg = Arg(P, m + 1)
    PROVE  LET r == on_ecdh_reply(e, msg)
           IN  /\ Moved(r, P, m + 1) /\ Steady(e, r) /\ Capped(r)
               /\ r.consecutive_peer_rekeys = e.consecutive_peer_rekeys
<1> DEFINE h == compute_exchange_hash(e, e.kex_eph, msg.arg.q_s)
           b == [e EXCEPT !.kex_eph = 0]
           j == Round(m)
<1>1. /\ j \in Nat /\ m = 3 * j + 1 /\ m >= 1
      /\ e.peer_kexinit = Arg(P, m).cookie /\ e.peer_kexinit # 0
      /\ e.local_kexinit = Arg(e.tx, m).cookie
      /\ e.negotiated = Neg(ClientTx(e, P), ServerTx(e, P), j)
      /\ e.kex_eph = Arg(e.tx, m + 1) /\ e.kex_eph # 0 /\ Sent(e.tx) = m + 1
  BY ExchangeValues DEF Shape
<1>2. h # <<>>
  BY HashFacts
<1>3. h = Hash(P, j)
  <2>1. 3 * j + 1 = m /\ 3 * j + 2 = m + 1
    BY <1>1
  <2>2. Hash(P, j) = Transcript(e.tx, P, j)
    BY <1>1, <2>1 DEF Attested
  <2>3. h = <<e.local_kexinit, e.peer_kexinit, e.kex_eph, msg.arg.q_s, e.negotiated.kex>>
    BY DEF compute_exchange_hash
  <2>4. e.negotiated = Neg(e.tx, P, j)
    BY <1>1 DEF ClientTx, ServerTx
  <2>5. Transcript(e.tx, P, j) = <<Arg(e.tx, m).cookie, Arg(P, m).cookie, Arg(e.tx, m + 1),
                                   Arg(P, m + 1).q_s, Neg(e.tx, P, j).kex>>
    BY <2>1 DEF Transcript
  <2> HIDE DEF h, j
  <2> QED
    BY <1>1, <2>2, <2>3, <2>4, <2>5
<1>4. msg.arg.signed = h
  <2>1. 3 * j + 2 = m + 1
    BY <1>1
  <2> QED
    BY <1>3, <2>1 DEF Hash
<1>5. on_ecdh_reply(e, msg) = send_newkeys(finish_kex(b, h))
  <2> HIDE DEF b
  <2> QED
    BY <1>1, <1>4 DEF on_ecdh_reply, b
<1> HIDE DEF h, j
<1>6. DOMAIN e = Fields
  BY DEF Shape
<1>7. DOMAIN b = Fields /\ b.kex_eph = 0 /\ \A x \in Fields \ {"kex_eph"} : b[x] = e[x]
  BY <1>6 DEF Fields
<1> HIDE DEF b
<1>8. /\ b.tx = e.tx /\ b.role = e.role /\ b.phase = e.phase /\ b.rng = e.rng
      /\ b.tx_seq = e.tx_seq /\ b.rx_seq = e.rx_seq /\ b.comp_out = e.comp_out
      /\ b.comp_in = e.comp_in /\ b.comp_name = e.comp_name /\ b.negotiated = e.negotiated
      /\ b.offered_compression = e.offered_compression /\ b.offered_ciphers = e.offered_ciphers
      /\ b.rekeying = e.rekeying /\ b.cipher_out = e.cipher_out
      /\ b.kexinit_sent = e.kexinit_sent /\ b.closing = e.closing /\ b.pending = e.pending
      /\ b.sent_newkeys = e.sent_newkeys
      /\ b.tx_packets_since_rekey = e.tx_packets_since_rekey /\ b.tx_app_queue = e.tx_app_queue
  BY <1>7 DEF Fields
<1>9. Shape(b)
  BY <1>7, <1>8 DEF Shape
<1>10. Writer(b, P) /\ Capped(b) /\ ~b.closing /\ e.err = "none"
  BY <1>8, LogSame DEF Writer, Capped, Stopped
<1>11. Changed(e, b, Written \cup {"rng", "kex_eph"})
  BY <1>7 DEF Changed
<1>12. /\ Sent(b.tx) \in Nat /\ Sent(b.tx) <= m + 1 /\ Sent(b.tx) = m + 1
       /\ m <= Sent(e.tx) /\ IsSeq(e.tx) /\ Grows(e.tx, b.tx)
  <2>1. IsSeq(e.tx) /\ Grows(e.tx, e.tx)
    BY GrowsReflexive DEF Shape
  <2>2. Sent(e.tx) \in Nat
    BY <1>1
  <2> QED
    BY <1>1, <1>8, <2>1, <2>2
<1>13. h = Hash(ServerTx(b, P), j)
  BY <1>3, <1>8 DEF ServerTx
<1>14. LET r == send_newkeys(finish_kex(b, h))
       IN  /\ Moved(r, P, m + 1) /\ Steady(e, r) /\ Capped(r)
           /\ r.consecutive_peer_rekeys = e.consecutive_peer_rekeys
  BY <1>2, <1>9, <1>10, <1>11, <1>12, <1>13, FinishMoves DEF j
<1> QED
  BY <1>5, <1>14

\* The fields on_newkeys sets before it flushes the queue.
Switched == {"cipher_in", "pending", "comp_in", "rx_seq", "recv_newkeys", "initial_kex_done",
             "phase", "rekeying", "kexinit_sent", "sent_newkeys", "bytes_since_rekey",
             "tx_packets_since_rekey", "rx_packets_since_rekey"}

\* e after both NEWKEYS, its queue not yet flushed.
Switches(e, b) ==
    /\ Shape(b) /\ Changed(e, b, Switched)
    /\ b.cipher_in = e.pending.inn /\ b.rx_seq = (IF e.strict_kex THEN 0 ELSE e.rx_seq)
    /\ b.phase = "Established" /\ b.initial_kex_done /\ ~b.pending.some
    /\ ~b.rekeying /\ ~b.kexinit_sent /\ ~b.sent_newkeys /\ ~b.recv_newkeys
    /\ b.tx_packets_since_rekey = 0 /\ b.rx_packets_since_rekey = 0

LEMMA OnNewkeysSwitches ==
    ASSUME NEW e, Shape(e), e.pending.some, e.sent_newkeys
    PROVE  \E b : Switches(e, b) /\ on_newkeys(e) = FlushQueue(b)
<1> DEFINE c == IF e.comp_active THEN NewContext(e) ELSE e.comp_in
           n == IF e.strict_kex THEN 0 ELSE e.rx_seq
           i == e.pending.inn
           a == [e EXCEPT !.cipher_in = i, !.pending.inn = NoKey,
                          !.comp_in = c, !.rx_seq = n, !.recv_newkeys = TRUE]
           d == [a EXCEPT !.pending = NoPending, !.initial_kex_done = TRUE,
                          !.phase = "Established"]
           b == EndRound(d)
<1>1. c \in Nat /\ n \in 0..SeqSpace-1
  <2>1. e.comp_in \in Nat /\ e.rx_seq \in 0..SeqSpace-1
    BY DEF Shape
  <2>2. NewContext(e) \in Nat
    BY DEF NewContext, Fresh, NoContext
  <2>3. 0 \in 0..SeqSpace-1
    BY TransportAssumption
  <2> QED
    BY <2>1, <2>2, <2>3
<1>2. on_newkeys(e) = maybe_complete_kex(a)
  BY DEF on_newkeys
<1>3. /\ DOMAIN a = Fields /\ a.comp_in = c /\ a.rx_seq = n /\ a.cipher_in = i
      /\ a.recv_newkeys = TRUE
      /\ \A x \in Fields \ {"cipher_in", "pending", "comp_in", "rx_seq", "recv_newkeys"} :
             a[x] = e[x]
  <2> HIDE DEF c, n, i
  <2> QED
    BY DEF Shape, Fields
<1> HIDE DEF a, i
<1>4. a.sent_newkeys = e.sent_newkeys
  BY <1>3 DEF Fields
<1>5. maybe_complete_kex(a) = FlushQueue(b)
  BY <1>3, <1>4 DEF maybe_complete_kex
<1>6. /\ DOMAIN d = Fields /\ d.pending = NoPending /\ d.phase = "Established"
      /\ d.initial_kex_done = TRUE
      /\ \A x \in Fields \ {"pending", "initial_kex_done", "phase"} : d[x] = a[x]
  BY <1>3 DEF Fields
<1> HIDE DEF d
<1>7. /\ DOMAIN b = Fields /\ b.rekeying = FALSE /\ b.kexinit_sent = FALSE
      /\ b.sent_newkeys = FALSE /\ b.recv_newkeys = FALSE /\ b.tx_packets_since_rekey = 0
      /\ b.rx_packets_since_rekey = 0
      /\ \A x \in Fields \ {"rekeying", "kexinit_sent", "sent_newkeys", "recv_newkeys",
                            "bytes_since_rekey", "tx_packets_since_rekey",
                            "rx_packets_since_rekey"} : b[x] = d[x]
  BY <1>6 DEF EndRound, Fields
<1> HIDE DEF b
<1>8. /\ b.phase = "Established" /\ b.initial_kex_done = TRUE /\ b.pending = NoPending
      /\ b.cipher_in = i /\ b.rx_seq = n /\ b.comp_in = c
  BY <1>3, <1>6, <1>7 DEF Fields
<1>9. Changed(e, b, Switched)
  <2>1. \A x \in Fields \ Switched : b[x] = d[x] /\ d[x] = a[x] /\ a[x] = e[x]
    BY <1>3, <1>6, <1>7 DEF Switched
  <2> QED
    BY <1>7, <2>1 DEF Changed
<1>10. /\ b.tx = e.tx /\ b.role = e.role /\ b.rng = e.rng /\ b.tx_seq = e.tx_seq
       /\ b.comp_out = e.comp_out /\ b.comp_name = e.comp_name /\ b.negotiated = e.negotiated
       /\ b.offered_compression = e.offered_compression /\ b.closing = e.closing
       /\ b.kex_eph = e.kex_eph /\ b.tx_app_queue = e.tx_app_queue
  BY <1>9 DEF Changed, Switched, Fields
<1>11. DOMAIN NoPending = {"some", "out", "inn"} /\ NoPending.some = FALSE
  BY DEF NoPending
<1>12. Shape(b)
  <2>1. DOMAIN b.pending = {"some", "out", "inn"} /\ b.phase \in Phases
    BY <1>8, <1>11 DEF Phases
  <2>2. /\ b.tx_packets_since_rekey \in 0..EpochHardPackets
        /\ b.tx_packets_since_rekey # EpochHardPackets
    BY <1>7, TransportAssumption
  <2>3. b.comp_in \in Nat /\ b.rx_seq \in 0..SeqSpace-1
    BY <1>1, <1>8
  <2>4. b.rekeying \in BOOLEAN /\ b.kexinit_sent \in BOOLEAN /\ b.sent_newkeys \in BOOLEAN
    BY <1>7
  <2> HIDE DEF c, n
  <2> QED
    BY <1>7, <1>10, <2>1, <2>2, <2>3, <2>4 DEF Shape
<1>13. Switches(e, b)
  BY <1>7, <1>8, <1>9, <1>11, <1>12 DEF Switches, i
<1> QED
  BY <1>2, <1>5, <1>13

\* Both NEWKEYS are exchanged: the place begins a round's number anew.
LEMMA SwitchedPlace ==
    ASSUME NEW e, Shape(e), NEW P, IsSeq(P), NEW k \in Nat, k >= 1, k < Len(P),
           NEW m \in Nat, m = Steps(P, k), Part(m) = 2, P[k + 1].msg.id = "NEWKEYS",
           LogOK(e, P), Ready(e, P), At(e, P, m), ~Stopped(e),
           e.rx_seq = NextSeq(P[k + 1].seq), NEW b, Switches(e, b)
    PROVE  Stands(b, P, k + 1) /\ ~Stopped(b) /\ Part(Steps(P, k + 1)) = 0 /\ Sent(b.tx) >= 3
<1> DEFINE j == Round(m)
<1>1. /\ Shape(b) /\ Changed(e, b, Switched)
      /\ b.cipher_in = e.pending.inn /\ b.rx_seq = (IF e.strict_kex THEN 0 ELSE e.rx_seq)
      /\ b.phase = "Established" /\ b.initial_kex_done /\ ~b.pending.some
      /\ ~b.rekeying /\ ~b.kexinit_sent /\ ~b.sent_newkeys /\ ~b.recv_newkeys
      /\ b.tx_packets_since_rekey = 0 /\ b.rx_packets_since_rekey = 0
  BY DEF Switches
<1>2. /\ b.tx = e.tx /\ b.role = e.role /\ b.tx_seq = e.tx_seq /\ b.cipher_out = e.cipher_out
      /\ b.offered_ciphers = e.offered_ciphers /\ b.offered_compression = e.offered_compression
      /\ b.closing = e.closing /\ b.err = e.err /\ b.session_id = e.session_id
      /\ b.strict_kex = e.strict_kex
  BY <1>1 DEF Changed, Switched, Fields
<1>3. ~e.closing /\ e.err = "none" /\ ~Stopped(b)
  BY <1>2 DEF Stopped
<1>4. j \in Nat /\ m = 3 * j + 2 /\ Round(m + 1) = j + 1 /\ Part(m + 1) = 0 /\ m >= 2
      /\ m + 1 \in Nat /\ m + 1 >= 3
  <2>1. j \in Nat /\ m = 3 * j + 2 /\ Round(m + 1) = j + 1 /\ Part(m + 1) = 0
    BY RoundFacts
  <2> QED
    BY <2>1
<1>5. Steps(P, k + 1) = m + 1
  BY StepsNext DEF IsKex, KexIds
<1>6. /\ Turn(e.role, Sent(e.tx), m) /\ Flags(e, Sent(e.tx), m, 1) /\ Values(e, P, m)
      /\ e.tx[Len(e.tx)].msg.id = "NEWKEYS"
  BY DEF At
<1>7. Sent(e.tx) = m + 1 /\ (e.strict_kex <=> StrictMarker)
  BY <1>4, <1>6 DEF Turn, Flags
<1>8. LogOK(b, P)
  <2>1. Spaced(e.tx)
    <3>1. e.tx_packets_since_rekey \in 0..EpochHardPackets /\ EpochHardPackets \in Nat
          /\ e.tx_packets_since_rekey # EpochHardPackets
      BY <1>3, TransportAssumption DEF Shape
    <3>2. ~Exhausted(e)
      BY <3>1 DEF Exhausted
    <3> QED
      BY <3>2 DEF LogOK
  <2> QED
    BY <1>2, <2>1 DEF LogOK, KnownTo, ClientTx, ServerTx
<1>9. IsSeq(e.tx) /\ Len(e.tx) \in Nat /\ Len(e.tx) >= 2
  <2>1. Len(e.tx) \in Nat /\ IsSeq(e.tx) /\ Len(e.tx) >= 1 /\ e.tx[1].msg.id = "VERSION"
    BY DEF Shape, IsSeq, LogOK, Ordered
  <2>2. Len(e.tx) # 1
    BY <1>6, <2>1
  <2>3. \A x \in Nat : x >= 1 /\ x # 1 => x >= 2
    OBVIOUS
  <2>4. Len(e.tx) >= 2
    BY <2>1, <2>2, <2>3, Zenon
  <2> QED
    BY <2>1, <2>4, Zenon
<1>10. ClientTx(b, P) = ClientTx(e, P) /\ ServerTx(b, P) = ServerTx(e, P)
       /\ \A dir, x : KeyOf(b, P, dir, x) = KeyOf(e, P, dir, x)
  BY <1>2 DEF ClientTx, ServerTx, KeyOf
<1>11. Ready(b, P)
  <2>1. \A x \in Nat : Stretch(b.tx, Len(b.tx) + 1, x) => x <= b.tx_packets_since_rekey + 1
    <3> SUFFICES ASSUME NEW x \in Nat, Stretch(e.tx, Len(e.tx) + 1, x) PROVE x <= 0 + 1
      BY <1>1, <1>2
    <3>1. x = 1
      BY <1>6, <1>9, StretchNext
    <3> QED
      BY <3>1
  <2> QED
    BY <1>2, <1>10, <2>1 DEF Ready
<1>12. Turn(b.role, m + 1, m + 1)
  BY <1>4 DEF Turn
<1>13. Flags(b, m + 1, m + 1, 1)
  <2>1. m + 1 >= 1 /\ Part(m + 1) # 2
    BY <1>4
  <2> QED
    BY <1>1, <1>2, <1>4, <1>7, <2>1 DEF Flags
<1>14. Values(b, P, m + 1)
  <2>1. /\ e.pending.inn = KeyOf(e, P, Inn(e.role), j + 1)
        /\ e.session_id = Hash(ServerTx(e, P), 0) /\ e.session_id # <<>>
    BY <1>4, <1>6 DEF Values
  <2>2. Part(m + 1) = 0 /\ Part(m + 1) # 1 /\ Part(m + 1) # 2 /\ ~(m + 1 < 2) /\ Round(m + 1) = j + 1
    BY <1>4
  <2> HIDE DEF j
  <2> QED
    BY <1>1, <1>2, <1>10, <2>1, <2>2 DEF Values
<1>15. At(b, P, m + 1)
  <2>1. Part(m + 1) # 2
    BY <1>4
  <2> QED
    BY <1>2, <1>7, <1>12, <1>13, <1>14, <2>1 DEF At
<1>16. Reads(b, P, k + 1)
  <2>1. b.rx_seq = After(P[k + 1])
    BY <1>1, <1>7 DEF After
  <2>2. k + 1 \in Nat /\ k + 1 >= 2 /\ 0 + 1 = 1 /\ k + 1 # 0
    OBVIOUS
  <2>3. Stretch(P, (k + 1) + 1, 1)
    BY <2>2, StretchNext
  <2> QED
    BY <1>1, <2>1, <2>2, <2>3 DEF Reads
<1>17. Moved(b, P, Steps(P, k + 1))
  BY <1>2, <1>3, <1>4, <1>5, <1>7, <1>8, <1>11, <1>15 DEF Moved
<1>18. k + 1 \in Nat /\ k + 1 >= 1
  OBVIOUS
<1>19. Stands(b, P, k + 1)
  BY <1>16, <1>17, <1>18, MovedStands
<1> QED
  BY <1>2, <1>3, <1>4, <1>5, <1>7, <1>19

LEMMA OnNewkeysStands ==
    ASSUME NEW e, Shape(e), NEW P, IsSeq(P), NEW k \in Nat, k >= 1, k < Len(P),
           NEW m \in Nat, m = Steps(P, k), Part(m) = 2, P[k + 1].msg.id = "NEWKEYS",
           LogOK(e, P), Ready(e, P), At(e, P, m), ~Stopped(e),
           e.rx_seq = NextSeq(P[k + 1].seq)
    PROVE  LET r == on_newkeys(e)
           IN  /\ Stands(r, P, k + 1) /\ r.err = "none" /\ Capped(r)
               /\ r.consecutive_peer_rekeys = e.consecutive_peer_rekeys
<1>1. e.pending.some /\ e.sent_newkeys
  BY DEF At, Flags
<1>2. PICK b : Switches(e, b) /\ on_newkeys(e) = FlushQueue(b)
  BY <1>1, OnNewkeysSwitches
<1> DEFINE r == FlushQueue(b)
<1>3. Stands(b, P, k + 1) /\ ~Stopped(b) /\ Part(Steps(P, k + 1)) = 0 /\ Sent(b.tx) >= 3
  BY <1>2, SwitchedPlace
<1>4. Shape(b) /\ Changed(e, b, Switched)
  BY <1>2 DEF Switches
<1>5. Writer(b, P) /\ Capped(b)
  BY <1>3 DEF Stands, Writer, Stopped, Capped
<1>6. /\ Shape(r) /\ Writer(r, P) /\ Adds(b, r, 0) /\ Changed(b, r, Written \cup {"tx_app_queue"})
  BY <1>3, <1>4, <1>5, FlushLog
<1> HIDE DEF r
<1>7. Changed(b, r, Loose)
  BY <1>6 DEF Changed, Loose, Written
<1>8. k + 1 \in 0..Len(P) /\ 0 # 2
  BY DEF IsSeq
<1>9. Stands(r, P, k + 1)
  BY <1>3, <1>4, <1>6, <1>7, <1>8, PadOwn
<1>10. Capped(r)
  BY <1>5, <1>6 DEF Adds
<1>11. r.err = e.err /\ r.consecutive_peer_rekeys = e.consecutive_peer_rekeys
  <2>1. r.err = b.err /\ r.consecutive_peer_rekeys = b.consecutive_peer_rekeys
    BY <1>6 DEF Changed, Fields, Written
  <2>2. b.err = e.err /\ b.consecutive_peer_rekeys = e.consecutive_peer_rekeys
    BY <1>4 DEF Changed, Fields, Switched
  <2> QED
    BY <2>1, <2>2
<1> QED
  BY <1>2, <1>9, <1>10, <1>11 DEF r, Stopped

--------------------------------------------------------------------------------
(* Every message, in the place where it comes *)

\* How a message counts towards the re-key flood guard: a KEXINIT does so only
\* when it begins a re-key.
Tally(begins, id, c, x) ==
    /\ id \in AppIds => x = 0
    /\ id = "KEXINIT" => x \in {c, c + 1} /\ (~begins => x = c)
    /\ id \notin AppIds \cup {"KEXINIT"} => x = c

LEMMA SteadyReads ==
    ASSUME NEW e, NEW r, NEW P, NEW k, Steady(e, r), Reads(e, P, k)
    PROVE  Reads(r, P, k)
BY DEF Steady, Reads

\* A message that is no part of a key exchange.
LEMMA OtherStands ==
    ASSUME NEW w, EndInv(w), NEW P, IsSeq(P), NEW k \in Nat, k >= 1, k < Len(P), Arrived(w, P, k),
           ~IsKex(P[k + 1]), P[k + 1].msg.id # "NEWKEYS",
           NEW r, Changed(w, r, {"peer_disconnected", "events", "consecutive_peer_rekeys"})
    PROVE  Stands(r, P, k + 1) /\ r.err = "none" /\ ~r.closing
<1> DEFINE m == Steps(P, k)
<1>1. /\ LogOK(w, P) /\ Ready(w, P) /\ At(w, P, m) /\ ~Stopped(w) /\ Sent(w.tx) <= m + 1
      /\ Reads(w, P, k + 1)
  BY DEF Arrived
<1>2. Steps(P, k + 1) = m /\ k + 1 \in Nat /\ k + 1 >= 1 /\ k + 1 \in 0..Len(P)
  <2>1. Steps(P, k + 1) = m
    BY StepsNext
  <2>2. k + 1 \in 0..Len(P)
    BY DEF IsSeq
  <2> QED
    BY <2>1, <2>2
<1>3. Moved(w, P, Steps(P, k + 1))
  BY <1>1, <1>2 DEF Moved, Stopped
<1>4. Stands(w, P, k + 1)
  BY <1>1, <1>2, <1>3, MovedStands
<1>5. /\ r.tx = w.tx /\ r.role = w.role /\ r.closing = w.closing /\ r.err = w.err
      /\ r.tx_packets_since_rekey = w.tx_packets_since_rekey
      /\ r.offered_ciphers = w.offered_ciphers /\ r.offered_compression = w.offered_compression
      /\ r.tx_seq = w.tx_seq /\ r.cipher_out = w.cipher_out
  BY DEF Changed, Fields
<1>6. Shape(r)
  <2>1. Changed(w, r, Settings)
    BY DEF Changed, Settings
  <2>2. Typed(r)
    BY DEF Changed, Fields, Typed, EndInv, Shape
  <2> QED
    BY <2>1, <2>2, SettingKeeps DEF EndInv
<1>7. Writer(r, P) /\ Adds(w, r, 0)
  BY <1>1, <1>5, LogSame, AddsNothing DEF Writer, EndInv
<1>8. Changed(w, r, Loose)
  BY DEF Changed, Loose
<1>9. Stands(r, P, k + 1)
  BY <1>1, <1>2, <1>4, <1>5, <1>6, <1>7, <1>8, PadOwn DEF EndInv
<1> QED
  BY <1>1, <1>5, <1>9 DEF Stopped

LEMMA ExpectedMessage ==
    ASSUME NEW d, NEW w, Faces(d, w), NEW n \in Nat, NEW msg, Follows(d.role, n, msg)
    PROVE  \/ msg.id = "KEXINIT" /\ Part(n) = 0 /\ Offer(d.role, msg.arg)
           \/ msg.id = "ECDH_INIT" /\ Part(n) = 1 /\ w.role = "server"
           \/ msg.id = "ECDH_REPLY" /\ Part(n) = 1 /\ w.role = "client" /\ d.role = "server"
           \/ msg.id = "NEWKEYS" /\ Part(n) = 2
           \/ msg.id = "DISCONNECT"
           \/ msg.id \in Deferred /\ n >= 3
<1>1. Part(n) \in 0..2
  BY RoundFacts
<1>2. (d.role = "client" /\ w.role = "server") \/ (d.role = "server" /\ w.role = "client")
  BY DEF Faces, Roles
<1>3. Part(n) = 0 \/ Part(n) = 1 \/ Part(n) = 2
  BY <1>1
<1>4. /\ Kind(d.role, 0) = "KEXINIT" /\ Kind(d.role, 2) = "NEWKEYS"
      /\ d.role = "client" => Kind(d.role, 1) = "ECDH_INIT"
      /\ d.role = "server" => Kind(d.role, 1) = "ECDH_REPLY"
  BY DEF Kind
<1>5. \/ msg.id = Kind(d.role, Part(n)) /\ (msg.id = "KEXINIT" => Offer(d.role, msg.arg))
      \/ msg.id = "DISCONNECT"
      \/ msg.id \in Deferred /\ n >= 3
  BY DEF Follows
<1> QED
  BY <1>2, <1>3, <1>4, <1>5, Zenon

LEMMA HandleStands ==
    ASSUME NEW d, NEW w, EndInv(w), Faces(d, w), IsSeq(d.tx), LogOK(d, w.tx),
           NEW k \in Nat, k >= 1, k < Len(d.tx), Arrived(w, d.tx, k),
           Follows(d.role, Steps(d.tx, k), d.tx[k + 1].msg)
    PROVE  LET msg == d.tx[k + 1].msg
               r   == handle_packet(w, msg)
           IN  /\ Stands(r, d.tx, k + 1) /\ r.err = "none" /\ Guarded(r)
               /\ Tally(PeerBegins(w), msg.id, w.consecutive_peer_rekeys, r.consecutive_peer_rekeys)
<1> DEFINE P   == d.tx
           f   == P[k + 1]
           msg == f.msg
           m   == Steps(P, k)
           c   == w.consecutive_peer_rekeys
           r   == handle_packet(w, msg)
<1>1. /\ LogOK(w, P) /\ Ready(w, P) /\ At(w, P, m) /\ ~Stopped(w) /\ Sent(w.tx) <= m + 1
      /\ w.rx_seq = NextSeq(f.seq) /\ (msg.id # "NEWKEYS" => Reads(w, P, k + 1))
  BY DEF Arrived
<1>2. /\ m \in Nat /\ m <= Sent(P) /\ Steps(P, k + 1) \in Nat /\ Steps(P, k + 1) <= Sent(P)
      /\ IsKex(f) => Steps(P, k + 1) = m + 1 /\ Arg(P, m + 1) = msg.arg
  BY ReadStep
<1>3. IsKex(f) <=> msg.id \in KexIds
  BY DEF IsKex
<1>4. k + 1 \in Nat /\ k + 1 >= 1
  OBVIOUS
<1>5. w.phase = "Established" <=> m >= 3
  BY <1>1 DEF At, Flags
<1>6. ASSUME msg.id \in {"KEXINIT", "ECDH_INIT", "ECDH_REPLY"}, NEW x, Moved(x, P, m + 1),
             Steady(w, x)
      PROVE  Stands(x, P, k + 1) /\ x.err = "none"
  <2>1. IsKex(f) /\ msg.id # "NEWKEYS"
    BY <1>3, <1>6 DEF KexIds
  <2>2. Moved(x, P, Steps(P, k + 1))
    BY <1>2, <1>6, <2>1
  <2>3. Reads(x, P, k + 1)
    BY <1>1, <1>6, <2>1, SteadyReads
  <2>4. x.err = "none"
    BY <1>6 DEF Moved
  <2> QED
    BY <1>4, <2>2, <2>3, <2>4, MovedStands
<1>7. CASE msg.id = "KEXINIT" /\ Part(m) = 0 /\ Offer(d.role, msg.arg)
  <2>1. IsKex(f)
    BY <1>3, <1>7 DEF KexIds
  <2>2. r = on_peer_kexinit(w, msg)
    BY <1>7 DEF handle_packet
  <2>3. m + 1 <= Sent(P) /\ msg.arg = Arg(P, m + 1) /\ d.role \in Roles /\ d.role # w.role
    BY <1>2, <2>1 DEF Faces
  <2>4. /\ Moved(r, P, m + 1) /\ Steady(w, r) /\ Guarded(r)
        /\ r.consecutive_peer_rekeys \in {c, c + 1}
        /\ ~PeerBegins(w) => r.consecutive_peer_rekeys = c
    BY <1>1, <1>2, <1>7, <2>2, <2>3, OnKexinitMoves
  <2> HIDE DEF r
  <2>5. Tally(PeerBegins(w), msg.id, c, r.consecutive_peer_rekeys)
    BY <1>7, <2>4 DEF Tally, AppIds
  <2> QED
    BY <1>6, <1>7, <2>4, <2>5 DEF r
<1>8. CASE msg.id = "ECDH_INIT" /\ Part(m) = 1 /\ w.role = "server"
  <2>1. IsKex(f)
    BY <1>3, <1>8 DEF KexIds
  <2>2. r = on_ecdh_init(w, msg)
    BY <1>8 DEF handle_packet
  <2>3. m + 1 <= Sent(P) /\ msg.arg = Arg(P, m + 1)
    BY <1>2, <2>1
  <2>4. Moved(r, P, m + 1) /\ Steady(w, r) /\ Capped(r) /\ r.consecutive_peer_rekeys = c
    BY <1>1, <1>2, <1>8, <2>2, <2>3, OnInitMoves DEF EndInv
  <2> HIDE DEF r
  <2>5. Tally(PeerBegins(w), msg.id, c, r.consecutive_peer_rekeys) /\ Guarded(r)
    BY <1>8, <2>4 DEF Tally, AppIds, Guarded, Capped
  <2> QED
    BY <1>6, <1>8, <2>4, <2>5 DEF r
<1>9. CASE msg.id = "ECDH_REPLY" /\ Part(m) = 1 /\ w.role = "client" /\ d.role = "server"
  <2>1. IsKex(f)
    BY <1>3, <1>9 DEF KexIds
  <2>2. r = on_ecdh_reply(w, msg)
    BY <1>9 DEF handle_packet
  <2>3. m + 1 <= Sent(P) /\ msg.arg = Arg(P, m + 1)
    BY <1>2, <2>1
  <2>4. Attested(w.tx, P)
    BY <1>9 DEF LogOK
  <2>5. Moved(r, P, m + 1) /\ Steady(w, r) /\ Capped(r) /\ r.consecutive_peer_rekeys = c
    BY <1>1, <1>2, <1>9, <2>2, <2>3, <2>4, OnReplyMoves DEF EndInv
  <2> HIDE DEF r
  <2>6. Tally(PeerBegins(w), msg.id, c, r.consecutive_peer_rekeys) /\ Guarded(r)
    BY <1>9, <2>5 DEF Tally, AppIds, Guarded, Capped
  <2> QED
    BY <1>6, <1>9, <2>5, <2>6 DEF r
<1>10. CASE msg.id = "NEWKEYS" /\ Part(m) = 2
  <2>1. r = on_newkeys(w)
    BY <1>10 DEF handle_packet
  <2>2. /\ Stands(r, P, k + 1) /\ r.err = "none" /\ Capped(r)
        /\ r.consecutive_peer_rekeys = c
    BY <1>1, <1>2, <1>10, <2>1, OnNewkeysStands DEF EndInv
  <2> HIDE DEF r
  <2>3. Tally(PeerBegins(w), msg.id, c, r.consecutive_peer_rekeys) /\ Guarded(r)
    BY <1>10, <2>2 DEF Tally, AppIds, Guarded, Capped
  <2> QED
    BY <2>2, <2>3 DEF r
<1>11. DOMAIN w = Fields
  BY DEF EndInv, Shape
<1>12. CASE msg.id = "DISCONNECT"
  <2> DEFINE x == [w EXCEPT !.peer_disconnected = TRUE]
  <2>1. r = x
    BY <1>12 DEF handle_packet
  <2>2. ~IsKex(f) /\ msg.id # "NEWKEYS"
    BY <1>3, <1>12 DEF KexIds
  <2>3. DOMAIN x = Fields /\ \A y \in Fields \ {"peer_disconnected"} : x[y] = w[y]
    BY <1>11 DEF Fields
  <2> HIDE DEF x, r
  <2>4. Changed(w, x, {"peer_disconnected", "events", "consecutive_peer_rekeys"})
        /\ x.consecutive_peer_rekeys = c
    BY <2>3 DEF Changed, Fields
  <2>5. Stands(x, P, k + 1) /\ x.err = "none" /\ ~x.closing
    BY <2>2, <2>4, OtherStands
  <2>6. Tally(PeerBegins(w), msg.id, c, x.consecutive_peer_rekeys) /\ Guarded(x)
    BY <1>12, <2>4, <2>5 DEF Tally, AppIds, Guarded
  <2> QED
    BY <2>1, <2>5, <2>6 DEF r
<1>13. CASE msg.id \in Deferred /\ m >= 3
  <2>1. ~IsKex(f) /\ msg.id # "NEWKEYS" /\ w.phase = "Established"
    BY <1>3, <1>5, <1>13 DEF KexIds, Deferred, AppIds
  <2>2. CASE msg.id = "IGNORE"
    <3>1. r = w
      BY <2>1, <2>2 DEF handle_packet
    <3> HIDE DEF r
    <3>2. Changed(w, w, {"peer_disconnected", "events", "consecutive_peer_rekeys"})
      BY <1>11 DEF Changed
    <3>3. Stands(w, P, k + 1) /\ w.err = "none" /\ ~w.closing
      BY <2>1, <3>2, OtherStands
    <3>4. Tally(PeerBegins(w), msg.id, c, w.consecutive_peer_rekeys) /\ Guarded(w)
      BY <2>2, <3>3 DEF Tally, AppIds, Guarded
    <3> QED
      BY <3>1, <3>3, <3>4 DEF r
  <2>3. CASE msg.id \in AppIds
    <3> DEFINE v == Append(w.events, msg.arg)
               x == [w EXCEPT !.consecutive_peer_rekeys = 0, !.events = v]
    <3>1. Deliver(w, msg) = x
      BY DEF Deliver
    <3>2. r = Deliver(w, msg)
      BY <2>1, <2>3 DEF handle_packet, AppIds
    <3> HIDE DEF v
    <3>3. DOMAIN x = Fields /\ x.consecutive_peer_rekeys = 0
          /\ \A y \in Fields \ {"events", "consecutive_peer_rekeys"} : x[y] = w[y]
      BY <1>11 DEF Fields
    <3> HIDE DEF x, r
    <3>4. Changed(w, x, {"peer_disconnected", "events", "consecutive_peer_rekeys"})
      BY <3>3 DEF Changed
    <3>5. Stands(x, P, k + 1) /\ x.err = "none" /\ ~x.closing
      BY <2>1, <3>4, OtherStands
    <3>6. Tally(PeerBegins(w), msg.id, c, x.consecutive_peer_rekeys) /\ Guarded(x)
      BY <2>3, <3>3, <3>5 DEF Tally, AppIds, Guarded
    <3> QED
      BY <3>1, <3>2, <3>5, <3>6 DEF r
  <2> QED
    BY <1>13, <2>2, <2>3 DEF Deferred
<1>14. \/ msg.id = "KEXINIT" /\ Part(m) = 0 /\ Offer(d.role, msg.arg)
       \/ msg.id = "ECDH_INIT" /\ Part(m) = 1 /\ w.role = "server"
       \/ msg.id = "ECDH_REPLY" /\ Part(m) = 1 /\ w.role = "client" /\ d.role = "server"
       \/ msg.id = "NEWKEYS" /\ Part(m) = 2
       \/ msg.id = "DISCONNECT"
       \/ msg.id \in Deferred /\ m >= 3
  BY <1>2, ExpectedMessage
<1> QED
  BY <1>7, <1>8, <1>9, <1>10, <1>12, <1>13, <1>14

--------------------------------------------------------------------------------
(* The drive loop *)

\* What reading frame k + 1 of P has made of e.
Drives(e, P, k, r) ==
    /\ Stands(r, P, k + 1) /\ Guarded(r) /\ (r.err # "none" => ~r.closing)
    /\ r.err \in {"none", "decompress", "epoch packet limit"}
    /\ r.err = "epoch packet limit" => ~Spaced(P)
    /\ r.err = "decompress" => e.comp_in # P[k + 1].comp
    /\ r.err = "none" =>
          Tally(PeerBegins(e), P[k + 1].msg.id, e.consecutive_peer_rekeys,
                r.consecutive_peer_rekeys)

\* The identification line.
LEMMA VersionStands ==
    ASSUME NEW e, Shape(e), NEW P, IsSeq(P), Len(P) >= 1, P[1].msg.id = "VERSION",
           ~Stopped(e), Stands(e, P, 0), NEW a, Changed(e, a, {"phase"}), a.phase = "Handshake"
    PROVE  Stands(a, P, 1) /\ ~Stopped(a)
<1> DEFINE n == Sent(e.tx)
<1>1. /\ a.tx = e.tx /\ a.role = e.role /\ a.tx_packets_since_rekey = e.tx_packets_since_rekey
      /\ a.offered_ciphers = e.offered_ciphers /\ a.offered_compression = e.offered_compression
      /\ a.tx_seq = e.tx_seq /\ a.cipher_out = e.cipher_out /\ a.closing = e.closing
      /\ a.err = e.err /\ a.kexinit_sent = e.kexinit_sent /\ a.local_kexinit = e.local_kexinit
      /\ a.peer_kexinit = e.peer_kexinit /\ a.negotiated = e.negotiated /\ a.kex_eph = e.kex_eph
      /\ a.session_id = e.session_id /\ a.pending = e.pending /\ a.cipher_in = e.cipher_in
      /\ a.recv_newkeys = e.recv_newkeys /\ a.rekeying = e.rekeying
      /\ a.sent_newkeys = e.sent_newkeys /\ a.strict_kex = e.strict_kex
      /\ a.initial_kex_done = e.initial_kex_done /\ a.rx_seq = e.rx_seq
      /\ a.rx_packets_since_rekey = e.rx_packets_since_rekey
  BY DEF Changed, Fields
<1>2. LogOK(e, P) /\ Ready(e, P) /\ Local(e, P, 0) /\ n <= Steps(P, 0) + 1 /\ Steps(P, 0) = 0
  BY StepsZero DEF Stands
<1>3. Steps(P, 1) = 0
  <2>1. ~IsKex(P[0 + 1]) /\ 0 + 1 = 1 /\ 0 \in Nat
    BY DEF IsKex, KexIds
  <2>2. Steps(P, 0 + 1) = IF IsKex(P[0 + 1]) THEN Steps(P, 0) + 1 ELSE Steps(P, 0)
    BY <2>1, StepsNext
  <2> QED
    BY <1>2, <2>1, <2>2
<1>4. LogOK(a, P) /\ Ready(a, P)
  BY <1>1, <1>2, LogSame
<1>5. Turn(e.role, n, 0) /\ Flags(e, n, 0, 0) /\ Values(e, P, 0) /\ Reads(e, P, 0)
      /\ (Part(0) = 2 => e.tx[Len(e.tx)].msg.id = "NEWKEYS")
  BY <1>2 DEF Local
<1>6. Flags(a, n, 0, 1)
  <2>1. ~(0 >= 3) /\ 1 # 0
    OBVIOUS
  <2>2. a.phase # "NeedPeerVersion" /\ a.phase # "Established"
    OBVIOUS
  <2> QED
    BY <1>1, <1>5, <2>1, <2>2 DEF Flags
<1>7. Values(a, P, 0)
  <2>1. ClientTx(a, P) = ClientTx(e, P) /\ ServerTx(a, P) = ServerTx(e, P) /\ Ours(a) = Ours(e)
        /\ \A dir, j : KeyOf(a, P, dir, j) = KeyOf(e, P, dir, j)
    BY <1>1 DEF ClientTx, ServerTx, Ours, KeyOf
  <2> QED
    BY <1>1, <1>5, <2>1 DEF Values
<1>8. Reads(a, P, 1)
  <2>1. a.rx_seq = 0 /\ a.rx_packets_since_rekey = 0
    BY <1>1, <1>5 DEF Reads
  <2>2. After(P[1]) = 0
    BY DEF After
  <2>3. Stretch(P, 1 + 1, 0 + 1)
    BY DEF Stretch
  <2> QED
    BY <2>1, <2>2, <2>3 DEF Reads
<1>9. Local(a, P, 1)
  BY <1>1, <1>3, <1>5, <1>6, <1>7, <1>8 DEF Local
<1> QED
  BY <1>1, <1>2, <1>3, <1>4, <1>9 DEF Stands, Stopped

\* Compression engages when the client has read USERAUTH_SUCCESS.
LEMMA ActivateStands ==
    ASSUME NEW e, EndInv(e), NEW P, IsSeq(P), NEW k \in 0..Len(P), Stands(e, P, k), e.err = "none",
           Guarded(e)
    PROVE  LET a == activate_compression(e)
           IN  /\ EndInv(a) /\ Stands(a, P, k) /\ a.err = "none" /\ Guarded(a)
               /\ a.consecutive_peer_rekeys = e.consecutive_peer_rekeys
<1> DEFINE x == NewContext(e)
           a == [e EXCEPT !.comp_active = TRUE, !.comp_out = x, !.comp_in = x]
<1>1. activate_compression(e) = a
  BY DEF activate_compression
<1>2. x \in Nat
  BY DEF NewContext, Fresh, NoContext
<1> HIDE DEF x
<1>3. /\ DOMAIN a = Fields /\ a.comp_in = x /\ a.comp_out = x
      /\ \A y \in Fields \ {"comp_active", "comp_out", "comp_in"} : a[y] = e[y]
  BY DEF EndInv, Shape, Fields
<1> HIDE DEF a
<1>4. Changed(e, a, Settings) /\ Typed(a)
  BY <1>2, <1>3 DEF Changed, Settings, Fields, Typed, EndInv, Shape
<1>5. EndInv(a)
  BY <1>4, SettingInv
<1>6. /\ a.tx = e.tx /\ a.role = e.role /\ a.closing = e.closing /\ a.err = e.err
      /\ a.tx_packets_since_rekey = e.tx_packets_since_rekey
      /\ a.offered_ciphers = e.offered_ciphers /\ a.offered_compression = e.offered_compression
      /\ a.tx_seq = e.tx_seq /\ a.cipher_out = e.cipher_out
      /\ a.consecutive_peer_rekeys = e.consecutive_peer_rekeys
  BY <1>3 DEF Fields
<1>7. Writer(e, P)
  BY DEF Stands, Writer, Stopped
<1>8. Writer(a, P) /\ Adds(e, a, 0)
  BY <1>6, <1>7, LogSame, AddsNothing DEF Writer, EndInv
<1>9. Changed(e, a, Loose)
  BY <1>3 DEF Changed, Loose
<1>10. Stands(a, P, k)
  <2>1. CASE e.closing
    BY <1>6, <1>8, <2>1 DEF Stands, Writer, Stopped
  <2>2. CASE ~e.closing
    BY <1>5, <1>6, <1>8, <1>9, <2>2, PadOwn DEF EndInv, Stopped
  <2> QED
    BY <2>1, <2>2
<1>11. Guarded(a)
  BY <1>6 DEF Guarded, Exhausted
<1> QED
  BY <1>1, <1>5, <1>6, <1>10, <1>11

LEMMA CarriesGuard ==
    ASSUME NEW e, NEW r, Carries(e, r), Guarded(e)
    PROVE  Guarded(r)
BY DEF Carries, Guarded, Capped

LEMMA DriveStands ==
    ASSUME NEW d, NEW e, EndInv(e), Faces(d, e), IsSeq(d.tx), LogOK(d, e.tx),
           NEW k \in Nat, k < Len(d.tx), FrameOK(d.tx[k + 1]), ~Stopped(e), Stands(e, d.tx, k)
    PROVE  Drives(e, d.tx, k, drive(e, d.tx[k + 1]))
<1> DEFINE P       == d.tx
           f       == P[k + 1]
           n       == NextSeq(e.rx_seq)
           p       == e.rx_packets_since_rekey + 1
           opened  == [e EXCEPT !.rx_seq = n, !.rx_packets_since_rekey = p]
           c       == IF opened.comp_in = NoContext THEN opened.comp_in ELSE opened.comp_in + 1
           plain   == [opened EXCEPT !.comp_in = c]
           handled == handle_packet(plain, f.msg)
           active  == IF /\ handled.role = "client" /\ ~handled.comp_active
                         /\ handled.comp_name = "zlib"
                         /\ f.msg.id = "USERAUTH_SUCCESS"
                      THEN activate_compression(handled) ELSE handled
           r == drive(e, f)
<1>0. /\ ~e.closing /\ e.err = "none" /\ LogOK(e, P) /\ Sent(e.tx) <= Steps(P, k) + 1
      /\ Local(e, P, k) /\ Ready(e, P) /\ DOMAIN e = Fields
  BY DEF Stands, Stopped, EndInv, Shape
<1>1. e.phase = "NeedPeerVersion" <=> k = 0
  BY <1>0 DEF Local, Flags
<1>2. Len(P) \in Nat /\ k + 1 \in 0..Len(P)
  BY DEF IsSeq
<1>3. CASE k = 0
  <2> DEFINE a == [e EXCEPT !.phase = "Handshake"]
  <2>1. DOMAIN a = Fields /\ a.phase = "Handshake" /\ \A x \in Fields \ {"phase"} : a[x] = e[x]
    BY <1>0 DEF Fields
  <2>2. r = a
    BY <1>1, <1>3 DEF drive
  <2> HIDE DEF a, r
  <2>3. Len(P) >= 1 /\ P[1].msg.id = "VERSION" /\ f = P[1] /\ k + 1 = 1
    BY <1>3 DEF LogOK, Ordered
  <2>4. Changed(e, a, {"phase"})
    BY <2>1 DEF Changed
  <2>5. Stands(a, P, 1) /\ ~Stopped(a)
    BY <1>3, <2>1, <2>3, <2>4, VersionStands DEF EndInv
  <2>6. a.consecutive_peer_rekeys = e.consecutive_peer_rekeys
    BY <2>1 DEF Fields
  <2>7. Tally(PeerBegins(e), f.msg.id, e.consecutive_peer_rekeys, a.consecutive_peer_rekeys)
    BY <2>3, <2>6 DEF Tally, AppIds
  <2>8. Drives(e, P, k, a)
    BY <2>3, <2>5, <2>7 DEF Drives, Stopped, Guarded
  <2> QED
    BY <2>2, <2>8 DEF r
<1>4. CASE k # 0
  <2>1. k >= 1
    BY <1>4
  <2>2. /\ Opens(e, f) /\ e.rx_seq = f.seq /\ Follows(d.role, Steps(P, k), f.msg)
        /\ e.rx_packets_since_rekey \in Nat
        /\ Spaced(P) => ~EpochExhausted(p)
    BY <2>1, FrameExpected
  <2>3. /\ DOMAIN opened = Fields /\ opened.rx_seq = n /\ opened.rx_packets_since_rekey = p
        /\ \A x \in Fields \ {"rx_seq", "rx_packets_since_rekey"} : opened[x] = e[x]
    <3> HIDE DEF n, p
    <3> QED
      BY <1>0 DEF Fields
  <2>4. \/ EpochExhausted(opened.rx_packets_since_rekey) /\ r = Fail(opened, "epoch packet limit")
        \/ e.comp_in # f.comp /\ r = Fail(opened, "decompress")
        \/ handled.err = "none" /\ r = initiate_rekey(active)
        \/ r = active
    BY <1>1, <1>4, <2>2 DEF drive
  <2> HIDE DEF opened, r
  <2>5. ASSUME NEW why, why \in {"decompress", "epoch packet limit"}, r = Fail(opened, why),
               why = "epoch packet limit" => EpochExhausted(p),
               why = "decompress" => e.comp_in # f.comp
        PROVE  Drives(e, P, k, r)
    <3>1. DOMAIN r = Fields /\ r.err = why /\ \A x \in Fields \ {"err"} : r[x] = opened[x]
      BY <2>3, <2>5 DEF Fail, Fields
    <3>2. /\ r.tx = e.tx /\ r.role = e.role /\ r.closing = e.closing
          /\ r.tx_packets_since_rekey = e.tx_packets_since_rekey
          /\ r.offered_ciphers = e.offered_ciphers
          /\ r.offered_compression = e.offered_compression
      BY <2>3, <3>1 DEF Fields
    <3>3. LogOK(r, P)
      BY <1>0, <3>2, LogSame
    <3>4. Sent(r.tx) <= Steps(P, k + 1) + 1
      <4>0. k \in Nat /\ k + 1 \in Nat
        OBVIOUS
      <4>1. Steps(P, k) \in Nat /\ Steps(P, k + 1) \in Nat
        BY <4>0, StepsType, Zenon
      <4>2. Steps(P, k + 1) = IF IsKex(P[k + 1]) THEN Steps(P, k) + 1 ELSE Steps(P, k)
        BY StepsNext
      <4>3. Sent(e.tx) \in Nat
        BY StepsType DEF Sent, EndInv, Shape, IsSeq
      <4> QED
        BY <1>0, <3>2, <4>1, <4>2, <4>3
    <3>5. r.err # "none" /\ ~r.closing
      BY <1>0, <2>5, <3>1, <3>2
    <3>6. Stands(r, P, k + 1)
      BY <3>3, <3>4, <3>5, StopOwn DEF Stopped
    <3>7. r.err \in {"none", "decompress", "epoch packet limit"}
      BY <2>5, <3>1
    <3>8. r.err = "epoch packet limit" => ~Spaced(P)
      BY <2>2, <2>5, <3>1
    <3>9. r.err = "decompress" => e.comp_in # P[k + 1].comp
      BY <2>5, <3>1
    <3> QED
      BY <3>5, <3>6, <3>7, <3>8, <3>9 DEF Drives, Guarded
  <2>6. c \in Nat
    <3>1. opened.comp_in = e.comp_in /\ e.comp_in \in Nat
      BY <2>3 DEF EndInv, Shape, Fields
    <3> QED
      BY <3>1
  <2> HIDE DEF c
  <2>7. /\ DOMAIN plain = Fields /\ plain.comp_in = c
        /\ \A x \in Fields \ {"comp_in"} : plain[x] = opened[x]
    BY <2>3 DEF Fields
  <2> HIDE DEF plain
  <2>8. Changed(e, plain, Opening) /\ plain.rx_seq = n /\ plain.rx_packets_since_rekey = p
    <3>1. \A x \in Fields \ Opening : plain[x] = opened[x] /\ opened[x] = e[x]
      BY <2>3, <2>7 DEF Opening
    <3>2. plain.rx_seq = n /\ plain.rx_packets_since_rekey = p
      <4> HIDE DEF n, p
      <4> QED
        BY <2>3, <2>7 DEF Fields
    <3> QED
      BY <2>7, <3>1, <3>2 DEF Changed
  <2>9. EndInv(plain)
    <3>1. n \in 0..SeqSpace-1
      BY NextSeqFacts DEF EndInv, Shape
    <3>2. Changed(e, plain, Settings)
      BY <2>8 DEF Changed, Opening, Settings
    <3>3. /\ plain.comp_out = e.comp_out /\ plain.comp_name = e.comp_name
          /\ plain.negotiated = e.negotiated /\ plain.pending = e.pending
      BY <2>8 DEF Changed, Opening, Fields
    <3>4. Typed(plain)
      <4> HIDE DEF n
      <4> QED
        BY <2>6, <2>7, <2>8, <3>1, <3>3 DEF Typed, EndInv, Shape
    <3> QED
      BY <3>2, <3>4, SettingInv
  <2>10. /\ plain.tx = e.tx /\ plain.role = e.role
         /\ plain.consecutive_peer_rekeys = e.consecutive_peer_rekeys
         /\ PeerBegins(plain) <=> PeerBegins(e)
    BY <2>8 DEF Changed, Opening, Fields, PeerBegins
  <2>11. Arrived(plain, P, k)
    <3>1. Shape(e)
      BY DEF EndInv
    <3> QED
      BY <2>1, <2>8, <3>1, Arrives
  <2>12. /\ Stands(handled, P, k + 1) /\ handled.err = "none" /\ Guarded(handled)
         /\ Tally(PeerBegins(e), f.msg.id, plain.consecutive_peer_rekeys,
                  handled.consecutive_peer_rekeys)
    <3>1. Faces(d, plain) /\ LogOK(d, plain.tx)
      BY <2>10 DEF Faces
    <3>2. /\ Stands(handled, P, k + 1) /\ handled.err = "none" /\ Guarded(handled)
          /\ Tally(PeerBegins(plain), f.msg.id, plain.consecutive_peer_rekeys,
                   handled.consecutive_peer_rekeys)
      BY <2>1, <2>2, <2>9, <2>11, <3>1, HandleStands
    <3> HIDE DEF handled
    <3> QED
      BY <2>10, <3>2 DEF Tally
  <2>13. EndInv(handled)
    <3>1. MessageOK(f.msg)
      BY DEF FrameOK, MessageOK
    <3>2. Received(plain, f.msg, handled)
      BY <2>9, <3>1, HandlePacketKeeps
    <3> QED
      BY <3>2 DEF Received
  <2> HIDE DEF handled
  <2>14. /\ EndInv(active) /\ Stands(active, P, k + 1) /\ active.err = "none" /\ Guarded(active)
         /\ active.consecutive_peer_rekeys = handled.consecutive_peer_rekeys
    <3>1. active = handled \/ active = activate_compression(handled)
      OBVIOUS
    <3> HIDE DEF active
    <3>2. CASE active = handled
      BY <2>12, <2>13, <3>2
    <3>3. CASE active = activate_compression(handled)
      BY <1>2, <2>12, <2>13, <3>3, ActivateStands
    <3> QED
      BY <3>1, <3>2, <3>3
  <2> HIDE DEF active
  <2> DEFINE i == initiate_rekey(active)
  <2>15. Stands(i, P, k + 1) /\ Carries(active, i)
    BY <1>2, <2>14, InitiateOwn DEF EndInv
  <2> HIDE DEF i
  <2>16. i.err = "none" /\ Guarded(i) /\ i.consecutive_peer_rekeys = active.consecutive_peer_rekeys
    BY <2>14, <2>15, CarriesGuard DEF Carries
  <2>17. Drives(e, P, k, active)
    BY <2>10, <2>12, <2>14 DEF Drives
  <2>18. Drives(e, P, k, i)
    BY <2>10, <2>12, <2>14, <2>15, <2>16 DEF Drives
  <2>19. CASE EpochExhausted(opened.rx_packets_since_rekey) /\ r = Fail(opened, "epoch packet limit")
    <3>1. EpochExhausted(p)
      BY <2>3, <2>19
    <3> QED
      BY <2>5, <2>19, <3>1 DEF r
  <2>20. CASE e.comp_in # f.comp /\ r = Fail(opened, "decompress")
    BY <2>5, <2>20 DEF r
  <2>21. CASE r = i
    BY <2>18, <2>21 DEF r
  <2>22. CASE r = active
    BY <2>17, <2>22 DEF r
  <2> QED
    BY <2>4, <2>19, <2>20, <2>21, <2>22 DEF i
<1> QED
  BY <1>3, <1>4

--------------------------------------------------------------------------------
(* A new endpoint *)

LEMMA BlankLog ==
    ASSUME NEW b, NEW role, NEW ciphers \in CipherLists, NEW compressions \in CompLists, NEW P, IsSeq(P),
           Blank(b, role, ciphers, compressions)
    PROVE  LogOK(b, P) /\ Ready(b, P) /\ Sent(b.tx) = 0
<1>1. VersionLine.msg.id = "VERSION" /\ VersionLine.seq = 0
  BY DEF VersionLine, Msg
<1>2. /\ IsSeq(b.tx) /\ Len(b.tx) = 1 /\ b.tx[1].msg.id = "VERSION" /\ b.tx_seq = 0
      /\ b.cipher_out = NoKey /\ b.tx_packets_since_rekey = 0
      /\ b.offered_ciphers \in CipherLists /\ b.offered_compression \in CompLists
  BY <1>1 DEF Blank
<1>3. Sent(b.tx) = 0
  <2>1. 0 \in Nat /\ 0 + 1 = 1 /\ ~IsKex(b.tx[1])
    BY <1>2 DEF IsKex, KexIds
  <2>2. Steps(b.tx, 0 + 1) = Steps(b.tx, 0)
    BY <2>1, StepsNext
  <2> QED
    BY <1>2, <2>1, <2>2, StepsZero DEF Sent
<1>4. Round(0) = 0 /\ Round(Sent(b.tx)) = 0
  BY <1>3 DEF Round
<1>5. Ordered(b.tx, b.role) /\ Chained(b.tx) /\ Spaced(b.tx)
      /\ Sealed(b.tx, b.role, ClientTx(b, P), ServerTx(b, P))
  <2>1. 1 >= 1 /\ 2..1 = {} /\ 1..(1 - 1) = {}
    OBVIOUS
  <2> QED
    BY <1>2, <2>1 DEF Ordered, Chained, Spaced, Sealed
<1>6. Attested(P, b.tx)
  <2>1. \A j \in Nat : ~(3 * j + 2 <= 0)
    OBVIOUS
  <2> QED
    BY <1>3, <2>1 DEF Attested
<1>7. KnownTo(b, P, 0) /\ KeyOf(b, P, Out(b.role), 0) = NoKey
  BY DEF KnownTo, Known, KeyOf, Key
<1>8. \A x \in Nat : Stretch(b.tx, Len(b.tx) + 1, x) => x <= b.tx_packets_since_rekey + 1
  BY <1>2 DEF Stretch
<1>9. b.tx_seq = After(b.tx[Len(b.tx)])
  BY <1>2 DEF After
<1> QED
  BY <1>2, <1>3, <1>4, <1>5, <1>6, <1>7, <1>8, <1>9 DEF LogOK, Ready

LEMMA StartStands ==
    ASSUME NEW role \in Roles, NEW ciphers \in CipherLists, NEW compressions \in CompLists,
           compressions \in Seq(CompNames), NEW P, IsSeq(P)
    PROVE  LET r == start(role, ciphers, compressions)
           IN  Stands(r, P, 0) /\ r.err = "none" /\ Guarded(r) /\ r.consecutive_peer_rekeys = 0
<1>1. PICK b : start(role, ciphers, compressions) = send_kexinit(b)
               /\ Blank(b, role, ciphers, compressions)
  BY StartFrom
<1>2. LogOK(b, P) /\ Ready(b, P) /\ Sent(b.tx) = 0 /\ Shape(b)
  BY <1>1, BlankLog DEF Blank, Calm
<1>3. Part(0) = 0 /\ Round(0) = 0 /\ Part(Sent(b.tx)) = 0
  BY <1>2 DEF Part, Round
<1> DEFINE r == send_kexinit(b)
<1>4. /\ Writer(r, P) /\ Adds(b, r, 1)
      /\ Changed(b, r, Written \cup {"rng", "local_kexinit", "kexinit_sent"})
      /\ r.kexinit_sent
      /\ ~r.closing => Ours(r) = Arg(r.tx, Sent(r.tx))
  BY <1>2, <1>3, SendKexinitLog DEF Writer
<1> HIDE DEF r
<1>5. /\ r.role = b.role /\ r.phase = b.phase /\ r.session_id = b.session_id /\ r.rx_seq = b.rx_seq
      /\ r.cipher_in = b.cipher_in /\ r.recv_newkeys = b.recv_newkeys /\ r.rekeying = b.rekeying
      /\ r.sent_newkeys = b.sent_newkeys /\ r.pending = b.pending /\ r.strict_kex = b.strict_kex
      /\ r.initial_kex_done = b.initial_kex_done /\ r.err = b.err
      /\ r.rx_packets_since_rekey = b.rx_packets_since_rekey
      /\ r.consecutive_peer_rekeys = b.consecutive_peer_rekeys
  BY <1>4 DEF Changed, Fields, Written
<1>6. /\ r.phase = "NeedPeerVersion" /\ r.session_id = <<>> /\ r.rx_seq = 0 /\ r.cipher_in = NoKey
      /\ ~r.recv_newkeys /\ ~r.rekeying /\ ~r.sent_newkeys /\ ~r.pending.some /\ ~r.strict_kex
      /\ ~r.initial_kex_done /\ r.rx_packets_since_rekey = 0 /\ ~b.closing
  BY <1>1, <1>5 DEF Blank
<1>7. r.err = "none" /\ r.consecutive_peer_rekeys = 0
  BY <1>1, <1>5 DEF Blank
<1>8. Guarded(r)
  BY <1>4, <1>6 DEF Adds, Capped, Guarded
<1>9. Steps(P, 0) = 0 /\ Sent(r.tx) \in Nat /\ Sent(r.tx) <= 1 /\ (~r.closing => Sent(r.tx) = 1)
  BY <1>2, <1>4, StepsZero DEF Adds
<1>10. CASE r.closing
  BY <1>1, <1>4, <1>7, <1>8, <1>9, <1>10 DEF Stands, Stopped, Writer, r
<1>11. CASE ~r.closing
  <2>1. Ready(r, P) /\ LogOK(r, P) /\ Sent(r.tx) = 1
    BY <1>4, <1>9, <1>11 DEF Writer
  <2>2. Turn(r.role, 1, 0)
    BY <1>3 DEF Turn
  <2>3. Flags(r, 1, 0, 0)
    BY <1>3, <1>4, <1>6 DEF Flags
  <2>4. Values(r, P, 0)
    <3>1. KeyOf(r, P, Inn(r.role), 0) = NoKey
      BY DEF KeyOf, Key
    <3>2. Ours(r) = Arg(r.tx, 3 * 0 + 1)
      BY <1>4, <1>11, <2>1
    <3> QED
      BY <1>3, <1>6, <3>1, <3>2 DEF Values
  <2>5. Reads(r, P, 0)
    BY <1>6 DEF Reads
  <2>6. Local(r, P, 0)
    BY <1>3, <1>9, <2>1, <2>2, <2>3, <2>4, <2>5 DEF Local
  <2> QED
    BY <1>1, <1>7, <1>8, <1>9, <2>1, <2>6 DEF Stands, r
<1> QED
  BY <1>10, <1>11

--------------------------------------------------------------------------------
(* The re-keys the peer began, read since the last application packet *)

\* B holds the positions in P of the KEXINITs that began a re-key.
Since(P, k, B)      == {i \in 1..k : i \in B /\ \A j \in i..k : P[j].msg.id \notin AppIds}
PeerRekeys(P, k, B) == Cardinality(Since(P, k, B))

LEMMA SinceType ==
    ASSUME NEW P, NEW k \in Nat, NEW B
    PROVE  IsFiniteSet(Since(P, k, B)) /\ PeerRekeys(P, k, B) \in Nat
<1>1. IsFiniteSet(1..k)
  BY FS_Interval
<1>2. Since(P, k, B) \in SUBSET (1..k)
  BY DEF Since
<1> QED
  BY <1>1, <1>2, FS_Subset, FS_CardinalityType DEF PeerRekeys

\* The flood guard's counter is never ahead of them.
LEMMA TallyCounts ==
    ASSUME NEW P, NEW B, NEW k \in Nat, NEW c \in Nat, c <= PeerRekeys(P, k, B), NEW x, NEW b,
           Tally(b, P[k + 1].msg.id, c, x), b /\ P[k + 1].msg.id = "KEXINIT" => k + 1 \in B
    PROVE  x <= PeerRekeys(P, k + 1, B)
<1> DEFINE id == P[k + 1].msg.id
           S == Since(P, k, B)
           T == Since(P, k + 1, B)
<1>1. IsFiniteSet(S) /\ PeerRekeys(P, k, B) \in Nat
  BY SinceType
<1>2. IsFiniteSet(T) /\ PeerRekeys(P, k + 1, B) \in Nat
  <2>1. k + 1 \in Nat
    OBVIOUS
  <2> QED
    BY <2>1, SinceType
<1>3. CASE id \in AppIds
  BY <1>2, <1>3 DEF Tally
<1>4. ASSUME id \notin AppIds PROVE S \in SUBSET T
  <2> SUFFICES ASSUME NEW i \in S PROVE i \in T
    OBVIOUS
  <2>1. i \in 1..k /\ i \in B /\ \A j \in i..k : P[j].msg.id \notin AppIds
    BY DEF Since
  <2>2. i \in 1..(k + 1) /\ \A j \in i..(k + 1) : j \in i..k \/ j = k + 1
    BY <2>1
  <2> QED
    BY <1>4, <2>1, <2>2 DEF Since
<1>5. CASE id \notin AppIds /\ x = c
  <2>1. PeerRekeys(P, k, B) <= PeerRekeys(P, k + 1, B)
    BY <1>2, <1>4, <1>5, FS_Subset DEF PeerRekeys
  <2> QED
    BY <1>1, <1>2, <1>5, <2>1
<1>6. CASE id = "KEXINIT" /\ x = c + 1 /\ b
  <2>1. id \notin AppIds /\ k + 1 \in B
    BY <1>6 DEF AppIds
  <2>2. k + 1 \in T /\ k + 1 \notin S
    <3>1. k + 1 \in 1..(k + 1) /\ k + 1 \notin 1..k /\ \A j \in (k + 1)..(k + 1) : j = k + 1
      OBVIOUS
    <3> QED
      BY <2>1, <3>1 DEF Since
  <2> DEFINE U == S \cup {k + 1}
  <2>3. U \in SUBSET T
    BY <1>4, <2>1, <2>2
  <2>4. Cardinality(U) = PeerRekeys(P, k, B) + 1
    BY <1>1, <2>2, FS_AddElement DEF PeerRekeys
  <2> HIDE DEF U
  <2>5. Cardinality(U) <= PeerRekeys(P, k + 1, B)
    BY <1>2, <2>3, FS_Subset DEF PeerRekeys
  <2> QED
    BY <1>1, <1>2, <1>6, <2>4, <2>5
<1>7. id \in AppIds \/ (id \notin AppIds /\ x = c) \/ (id = "KEXINIT" /\ x = c + 1 /\ b)
  BY DEF Tally
<1> QED
  BY <1>3, <1>5, <1>6, <1>7

LEMMA SinceGrows ==
    ASSUME NEW P, NEW Q, Len(P) \in Nat, Grows(P, Q), NEW k \in 0..Len(P), NEW B, NEW C, B \subseteq C
    PROVE  PeerRekeys(P, k, B) <= PeerRekeys(Q, k, C)
<1>1. \A i \in 1..k : \A j \in i..k : Q[j] = P[j]
  BY DEF Grows
<1>2. Since(P, k, B) \in SUBSET Since(Q, k, C)
  BY <1>1 DEF Since
<1>3. IsFiniteSet(Since(Q, k, C))
  BY SinceType
<1> QED
  BY <1>2, <1>3, FS_Subset DEF PeerRekeys

LEMMA GreatestNumber ==
    ASSUME NEW n \in Nat, NEW T, T \subseteq 1..n, T # {}
    PROVE  Max(T) \in T
<1> DEFINE U == {n - t : t \in T}
<1>1. U \subseteq Nat /\ U # {}
  <2>1. \A t \in T : n - t \in Nat
    OBVIOUS
  <2> QED
    BY <2>1
<1>2. PICK x \in U : \A y \in U : ~(y < x)
  <2> HIDE DEF U
  <2> QED
    BY <1>1, LeastNumber
<1>3. PICK t \in T : x = n - t
  OBVIOUS
<1>4. \A s \in T : t >= s
  <2> SUFFICES ASSUME NEW s \in T PROVE t >= s
    OBVIOUS
  <2>1. n - s \in U /\ s \in Nat /\ t \in Nat
    OBVIOUS
  <2>2. ~(n - s < n - t)
    BY <1>2, <1>3, <2>1
  <2> QED
    BY <2>1, <2>2
<1> QED
  BY <1>3, <1>4 DEF Max

\* What FloodGuardSound counts.
Counted(P, k, B) ==
    LET read == 1..k
        apps == {i \in read : P[i].msg.id \in AppIds}
        last == IF apps = {} THEN 0 ELSE Max(apps)
    IN  Cardinality({i \in B \cap read : i > last})

LEMMA SinceCounted ==
    ASSUME NEW P, NEW k \in Nat, NEW B
    PROVE  Counted(P, k, B) \in Nat /\ PeerRekeys(P, k, B) <= Counted(P, k, B)
<1> DEFINE apps == {i \in 1..k : P[i].msg.id \in AppIds}
           last == IF apps = {} THEN 0 ELSE Max(apps)
           X    == {i \in B \cap 1..k : i > last}
<1>1. apps = {} \/ Max(apps) \in apps
  <2>1. apps \subseteq 1..k
    OBVIOUS
  <2> HIDE DEF apps
  <2> QED
    BY <2>1, GreatestNumber
<1>2. last \in 0..k /\ (last # 0 => P[last].msg.id \in AppIds)
  <2>1. CASE apps = {}
    BY <2>1
  <2>2. CASE apps # {}
    <3>1. last \in apps /\ last \in 1..k
      BY <1>1, <2>2
    <3> HIDE DEF last
    <3> QED
      BY <3>1
  <2> QED
    BY <2>1, <2>2
<1> HIDE DEF last
<1>3. IsFiniteSet(X) /\ Cardinality(X) \in Nat
  <2>1. IsFiniteSet(1..k) /\ X \in SUBSET (1..k)
    BY FS_Interval
  <2> HIDE DEF X
  <2> QED
    BY <2>1, FS_Subset, FS_CardinalityType
<1>4. Since(P, k, B) \in SUBSET X
  <2> SUFFICES ASSUME NEW i \in Since(P, k, B) PROVE i \in X
    OBVIOUS
  <2>1. i \in 1..k /\ i \in B /\ \A j \in i..k : P[j].msg.id \notin AppIds
    BY DEF Since
  <2>2. ~(i <= last)
    <3> SUFFICES ASSUME i <= last PROVE FALSE
      OBVIOUS
    <3>1. last \in i..k /\ last # 0
      BY <1>2, <2>1
    <3> QED
      BY <1>2, <2>1, <3>1
  <2> QED
    BY <1>2, <2>1, <2>2
<1> HIDE DEF X
<1>5. PeerRekeys(P, k, B) <= Cardinality(X)
  BY <1>3, <1>4, FS_Subset DEF PeerRekeys
<1> QED
  BY <1>3, <1>5 DEF X, last, apps, Counted

--------------------------------------------------------------------------------
(* The pair *)

\* e has read k frames of d's output, and c tells whether the layer above has
\* disconnected e: where e stands, how it can have failed or closed, and what
\* its flood guard counts.
Seat(e, d, k, c) ==
    /\ Stands(e, d.tx, k)
    /\ e.err \in {"none", "decompress", "epoch packet limit"}
    /\ e.err = "epoch packet limit" => Exhausted(d)
    /\ e.err # "none" => ~e.closing
    /\ c = 0 => Guarded(e)
    /\ e.err = "none" => e.consecutive_peer_rekeys \in Nat

OrderInv == \A r \in Roles : Seat(ep[r], ep[Peer(r)], taken[Peer(r)], calls[r].disconnect)

LEMMA SeatOther ==
    ASSUME NEW e, Shape(e), NEW d, NEW x, IsSeq(d.tx), IsSeq(x.tx), Grows(d.tx, x.tx),
           Exhausted(d) => Exhausted(x), NEW k \in 0..Len(d.tx), NEW c, Seat(e, d, k, c)
    PROVE  Seat(e, x, k, c)
<1>1. Stands(e, x.tx, k)
  BY OwnGrows DEF Seat
<1> QED
  BY <1>1 DEF Seat

LEMMA SeatMoves ==
    ASSUME NEW e, NEW x, NEW d, NEW k, NEW c, Seat(e, d, k, c), e.err = "none",
           Stands(x, d.tx, k), Carries(e, x)
    PROVE  Seat(x, d, k, c)
<1>1. c = 0 => Guarded(x)
  BY CarriesGuard DEF Seat
<1>2. x.err = "none" /\ x.consecutive_peer_rekeys = e.consecutive_peer_rekeys
  BY DEF Carries
<1> QED
  BY <1>1, <1>2 DEF Seat

LEMMA SeatReceive ==
    ASSUME NEW d, NEW e, EndInv(d), EndInv(e), Faces(d, e), NEW k \in Nat, k < Len(d.tx), NEW j, NEW b,
           NEW c, ~e.closing, e.err = "none", Seat(e, d, k, c), Seat(d, e, j, b)
    PROVE  /\ Seat(drive(e, d.tx[k + 1]), d, k + 1, c)
           /\ Drives(e, d.tx, k, drive(e, d.tx[k + 1]))
<1> DEFINE x == drive(e, d.tx[k + 1])
           n == e.consecutive_peer_rekeys
<1>1. IsSeq(d.tx) /\ FrameOK(d.tx[k + 1])
  <2>1. IsSeq(d.tx) /\ \A i \in 1..Len(d.tx) : FrameOK(d.tx[i])
    BY DEF EndInv, Shape
  <2>2. k + 1 \in 1..Len(d.tx)
    BY <2>1 DEF IsSeq
  <2> QED
    BY <2>1, <2>2
<1>2. LogOK(d, e.tx) /\ Stands(e, d.tx, k) /\ ~Stopped(e)
  BY DEF Seat, Stands, Stopped
<1>3. Drives(e, d.tx, k, x)
  BY <1>1, <1>2, DriveStands
<1> HIDE DEF x
<1>4. n \in Nat
  BY DEF Seat
<1>5. CASE x.err = "none"
  <2>1. Tally(PeerBegins(e), d.tx[k + 1].msg.id, n, x.consecutive_peer_rekeys)
    BY <1>3, <1>5 DEF Drives
  <2>2. x.consecutive_peer_rekeys \in Nat
    BY <1>4, <2>1 DEF Tally
  <2> QED
    BY <1>3, <1>5, <2>2 DEF Drives, Seat, x
<1>6. CASE x.err # "none"
  <2>1. x.err = "epoch packet limit" => Exhausted(d)
    BY <1>2, <1>3 DEF Drives, LogOK
  <2> QED
    BY <1>3, <1>6, <2>1 DEF Drives, Seat, x
<1> QED
  BY <1>5, <1>6

LEMMA SeatDisconnect ==
    ASSUME NEW e, Shape(e), NEW d, IsSeq(d.tx), NEW k, NEW c, Seat(e, d, k, c), ~e.closing, e.err = "none"
    PROVE  LET x == disconnect(e)
           IN  Seat(x, d, k, 1) /\ Grows(e.tx, x.tx) /\ x.err = "none"
<1> DEFINE x == disconnect(e)
<1>1. Writer(e, d.tx) /\ Sent(e.tx) <= Steps(d.tx, k) + 1
  BY DEF Seat, Stands, Stopped, Writer
<1>2. LogOK(x, d.tx) /\ x.closing /\ Grows(e.tx, x.tx) /\ Sent(x.tx) = Sent(e.tx) /\ Changed(e, x, Written)
  BY <1>1, DisconnectLog
<1> HIDE DEF x
<1>3. x.err = e.err /\ x.consecutive_peer_rekeys = e.consecutive_peer_rekeys
  BY <1>2 DEF Changed, Fields, Written
<1>4. Stands(x, d.tx, k)
  BY <1>1, <1>2, StopOwn DEF Stopped
<1> QED
  BY <1>2, <1>3, <1>4 DEF Seat, x

\* An endpoint that has used up its epoch has closed.
LEMMA ExhaustedCloses ==
    ASSUME NEW e, Shape(e), Exhausted(e)
    PROVE  e.closing
<1>1. e.tx_packets_since_rekey \in 0..EpochHardPackets /\ EpochHardPackets \in Nat
  BY TransportAssumption DEF Shape
<1>2. e.tx_packets_since_rekey = EpochHardPackets
  BY <1>1 DEF Exhausted
<1> QED
  BY <1>2 DEF Shape

LEMMA CarriesExhausted ==
    ASSUME NEW e, Shape(e), NEW x, Carries(e, x), Exhausted(e)
    PROVE  Exhausted(x)
BY ExhaustedCloses DEF Carries, Capped

LEMMA Peers ==
    ASSUME NEW r \in Roles
    PROVE  Peer(r) \in Roles /\ Peer(r) # r /\ Peer(Peer(r)) = r /\ \A q \in Roles : q = r \/ q = Peer(r)
BY DEF Peer, Roles

\* One endpoint has moved on to x, and its peer sees its output grow.
LEMMA SeatsKept ==
    ASSUME PairInv, OrderInv, NEW r \in Roles, NEW x, ep' = [ep EXCEPT ![r] = x], IsSeq(x.tx),
           Grows(ep[r].tx, x.tx), Exhausted(ep[r]) => Exhausted(x),
           Seat(x, ep[Peer(r)], taken'[Peer(r)], calls'[r].disconnect),
           taken'[r] = taken[r], calls'[Peer(r)].disconnect = calls[Peer(r)].disconnect
    PROVE  OrderInv'
<1> DEFINE p == Peer(r)
<1>1. p \in Roles /\ p # r /\ Peer(p) = r /\ \A q \in Roles : q = r \/ q = p
  BY Peers
<1> HIDE DEF p
<1>2. /\ DOMAIN ep = Roles
      /\ \A q \in Roles : EndInv(ep[q]) /\ taken[q] \in 0..Len(ep[q].tx)
  BY DEF PairInv, EndsInv
<1>3. ep'[r] = x /\ ep'[p] = ep[p]
  BY <1>1, <1>2
<1>4. Seat(ep[p], ep[r], taken[r], calls[p].disconnect)
  BY <1>1 DEF OrderInv
<1>5. Shape(ep[p]) /\ IsSeq(ep[r].tx)
  BY <1>1, <1>2 DEF EndInv, Shape
<1>6. Seat(ep[p], x, taken[r], calls[p].disconnect)
  BY <1>2, <1>4, <1>5, SeatOther
<1>7. Seat(ep'[r], ep'[p], taken'[p], calls'[r].disconnect)
  BY <1>3 DEF p
<1>8. Seat(ep'[p], ep'[r], taken'[r], calls'[p].disconnect)
  BY <1>3, <1>6 DEF p
<1>9. \A q \in Roles : Seat(ep'[q], ep'[Peer(q)], taken'[Peer(q)], calls'[q].disconnect)
  BY <1>1, <1>7, <1>8 DEF p
<1> QED
  BY <1>9 DEF OrderInv

LEMMA OrderMoves ==
    ASSUME PairInv, OrderInv, NEW r \in Roles, NEW x, ep' = [ep EXCEPT ![r] = x],
           Running(r), Stands(x, ep[Peer(r)].tx, taken[Peer(r)]), Carries(ep[r], x),
           taken' = taken, \A q \in Roles : calls'[q].disconnect = calls[q].disconnect
    PROVE  OrderInv'
<1>1. Peer(r) \in Roles /\ Shape(ep[r])
  BY Peers DEF PairInv, EndsInv, EndInv
<1>2. Seat(ep[r], ep[Peer(r)], taken[Peer(r)], calls[r].disconnect) /\ ep[r].err = "none"
  BY DEF OrderInv, Running
<1>3. Seat(x, ep[Peer(r)], taken[Peer(r)], calls[r].disconnect)
  BY <1>2, SeatMoves
<1>4. IsSeq(x.tx) /\ Grows(ep[r].tx, x.tx) /\ (Exhausted(ep[r]) => Exhausted(x))
  BY <1>1, CarriesExhausted DEF Carries
<1> QED
  BY <1>1, <1>3, <1>4, SeatsKept

LEMMA CompListsOK == COMPRESSIONS \in Seq(CompNames) /\ Reverse(COMPRESSIONS) \in Seq(CompNames)
<1>1. COMPRESSIONS \in Seq(CompNames) /\ Len(COMPRESSIONS) = 2
  BY DEF COMPRESSIONS, CompNames
<1>2. \A i \in 1..2 : 2 - i + 1 \in 1..2
  OBVIOUS
<1>3. \A i \in 1..2 : COMPRESSIONS[2 - i + 1] \in CompNames
  BY <1>1, <1>2
<1>4. Reverse(COMPRESSIONS) = [i \in 1..2 |-> COMPRESSIONS[2 - i + 1]]
  BY <1>1 DEF Reverse
<1>5. [i \in 1..2 |-> COMPRESSIONS[2 - i + 1]] \in [1..2 -> CompNames]
  BY <1>3
<1>6. ASSUME NEW f \in [1..2 -> CompNames] PROVE f \in Seq(CompNames)
  BY SeqDef
<1> QED
  BY <1>1, <1>4, <1>5, <1>6

LEMMA InitSeat ==
    ASSUME Init, PairInv, NEW r \in Roles
    PROVE  /\ Seat(ep[r], ep[Peer(r)], taken[Peer(r)], calls[r].disconnect)
           /\ ep[r].consecutive_peer_rekeys = 0
<1> DEFINE p == Peer(r)
           P == ep[p].tx
           Starts(e) == Stands(e, P, 0) /\ e.err = "none" /\ Guarded(e) /\ e.consecutive_peer_rekeys = 0
<1>1. p \in Roles /\ IsSeq(P) /\ taken[p] = 0
  <2>1. p \in Roles
    BY Peers
  <2> QED
    BY <2>1 DEF PairInv, EndsInv, EndInv, Shape, Init
<1> HIDE DEF P
<1>2. /\ CIPHERS \in CipherLists /\ Reverse(CIPHERS) \in CipherLists
      /\ COMPRESSIONS \in CompLists /\ Reverse(COMPRESSIONS) \in CompLists
  BY DEF CipherLists, CompLists
<1>3. ASSUME NEW q \in Roles PROVE Starts(start(q, CIPHERS, COMPRESSIONS))
  BY <1>1, <1>2, CompListsOK, StartStands
<1>4. Starts(start("client", Reverse(CIPHERS), Reverse(COMPRESSIONS)))
  BY <1>1, <1>2, CompListsOK, StartStands DEF Roles
<1> HIDE DEF Starts
<1>5. ASSUME NEW name PROVE Starts(ClientStart(name))
  BY <1>3, <1>4 DEF ClientStart, Roles
<1>6. Starts(ep[r])
  BY <1>3, <1>5 DEF Init
<1> QED
  BY <1>1, <1>6 DEF Starts, Seat, P

LEMMA OrderInit == Init /\ PairInv => OrderInv
BY InitSeat DEF OrderInv

LEMMA OrderReceive ==
    ASSUME PairInv, OrderInv, NEW r \in Roles, Receive(r)
    PROVE  OrderInv'
<1> DEFINE p == Peer(r)
           k == taken[p]
           x == drive(ep[r], ep[p].tx[k + 1])
<1>1. p \in Roles /\ p # r /\ Peer(p) = r
  BY Peers
<1>2. /\ DOMAIN ep = Roles /\ DOMAIN taken = Roles
      /\ \A q \in Roles : EndInv(ep[q]) /\ ep[q].role = q /\ taken[q] \in 0..Len(ep[q].tx)
      /\ IsSeq(ep[p].tx)
  BY <1>1 DEF PairInv, EndsInv, EndInv, Shape
<1>3. /\ ep[r].err = "none" /\ ~ep[r].closing /\ k < Len(ep[p].tx)
      /\ taken' = [taken EXCEPT ![p] = k + 1] /\ ep' = [ep EXCEPT ![r] = x] /\ calls' = calls
  BY DEF Receive, ReadNext, Running
<1> HIDE DEF p
<1>4. k \in Nat /\ Len(ep[p].tx) \in Nat
  BY <1>1, <1>2 DEF IsSeq
<1>5. Faces(ep[p], ep[r])
  BY <1>1, <1>2 DEF Faces
<1>6. Seat(ep[r], ep[p], k, calls[r].disconnect) /\ Seat(ep[p], ep[r], taken[r], calls[p].disconnect)
  BY <1>1 DEF OrderInv, p
<1>7. Seat(x, ep[p], k + 1, calls[r].disconnect)
  BY <1>1, <1>2, <1>3, <1>4, <1>5, <1>6, SeatReceive
<1>8. IsSeq(x.tx) /\ Grows(ep[r].tx, x.tx)
  <2>1. FrameOK(ep[p].tx[k + 1])
    <3>1. k + 1 \in 1..Len(ep[p].tx)
      BY <1>3, <1>4
    <3> QED
      BY <1>1, <1>2, <3>1 DEF EndInv, Shape
  <2>2. Driven(ep[r], ep[p].tx[k + 1], x)
    BY <1>2, <1>3, <2>1, DriveKeeps
  <2> HIDE DEF x
  <2> QED
    BY <2>2 DEF Driven, EndInv, Shape
<1>9. ~Exhausted(ep[r])
  BY <1>2, <1>3, ExhaustedCloses DEF EndInv
<1> HIDE DEF x
<1>10. taken'[p] = k + 1 /\ taken'[r] = taken[r]
  BY <1>1, <1>2, <1>3
<1>11. calls'[p].disconnect = calls[p].disconnect /\ calls'[r].disconnect = calls[r].disconnect
  BY <1>3
<1> QED
  BY <1>3, <1>7, <1>8, <1>9, <1>10, <1>11, SeatsKept DEF p

LEMMA OrderNext == PairInv /\ OrderInv /\ [Next]_vars => OrderInv'
<1> SUFFICES ASSUME PairInv, OrderInv, [Next]_vars PROVE OrderInv'
  OBVIOUS
<1>0. /\ \A q \in Roles : Shape(ep[q]) /\ IsSeq(ep[q].tx) /\ taken[q] \in 0..Len(ep[q].tx)
      /\ calls \in [Roles -> CallSet]
  BY DEF PairInv, EndsInv, EndInv, Shape
<1>1. ASSUME NEW r \in Roles, Receive(r) PROVE OrderInv'
  BY <1>1, OrderReceive
<1>2. ASSUME NEW r \in Roles
      PROVE  /\ Peer(r) \in Roles /\ Stands(ep[r], ep[Peer(r)].tx, taken[Peer(r)])
             /\ IsSeq(ep[Peer(r)].tx) /\ taken[Peer(r)] \in 0..Len(ep[Peer(r)].tx)
  BY <1>0, Peers DEF OrderInv, Seat
<1>3. ASSUME NEW r \in Roles, SendApp(r) PROVE OrderInv'
  <2>1. PICK id \in Deferred :
           /\ Running(r) /\ ep[r].phase = "Established"
           /\ ep' = [ep EXCEPT ![r] = send_packet(@, Msg(id, accepted[r] + 1))]
           /\ taken' = taken /\ calls' = calls
    BY <1>3 DEF SendApp, Deferred, AppIds
  <2> DEFINE m == Msg(id, accepted[r] + 1)
             x == send_packet(ep[r], m)
  <2>2. m.id \in Deferred
    BY DEF Msg
  <2> HIDE DEF m
  <2>3. Stands(x, ep[Peer(r)].tx, taken[Peer(r)]) /\ Carries(ep[r], x)
    BY <1>0, <1>2, <1>3, <2>1, <2>2, SendPacketOwn DEF Running
  <2>4. ep' = [ep EXCEPT ![r] = x]
    BY <2>1 DEF m
  <2> HIDE DEF x
  <2>5. \A q \in Roles : calls'[q].disconnect = calls[q].disconnect
    BY <2>1
  <2> QED
    BY <1>3, <2>1, <2>3, <2>4, <2>5, OrderMoves
<1>4. ASSUME NEW r \in Roles, send_chaff(r) PROVE OrderInv'
  <2> DEFINE m == Msg("IGNORE", calls[r].chaff + 1)
             x == send_packet(ep[r], m)
  <2>1. /\ Running(r) /\ ep[r].phase = "Established"
        /\ calls' = [calls EXCEPT ![r].chaff = @ + 1]
        /\ ep' = [ep EXCEPT ![r] = x] /\ taken' = taken
    BY <1>4 DEF send_chaff
  <2>2. m.id \in Deferred
    BY DEF Msg, Deferred
  <2> HIDE DEF m
  <2>3. Stands(x, ep[Peer(r)].tx, taken[Peer(r)]) /\ Carries(ep[r], x)
    BY <1>0, <1>2, <1>4, <2>1, <2>2, SendPacketOwn DEF Running
  <2> HIDE DEF x
  <2>4. \A q \in Roles : calls'[q].disconnect = calls[q].disconnect
    BY <1>0, <2>1 DEF CallSet
  <2> QED
    BY <1>4, <2>1, <2>3, <2>4, OrderMoves
<1>5. ASSUME NEW r \in Roles, InitiateRekey(r) PROVE OrderInv'
  <2> DEFINE x == initiate_rekey(ep[r])
  <2>1. /\ Running(r) /\ calls' = [calls EXCEPT ![r].rekey = @ + 1]
        /\ ep' = [ep EXCEPT ![r] = x] /\ taken' = taken
    BY <1>5 DEF InitiateRekey
  <2>2. Stands(x, ep[Peer(r)].tx, taken[Peer(r)]) /\ Carries(ep[r], x)
    BY <1>0, <1>2, <1>5, <2>1, InitiateOwn DEF Running
  <2> HIDE DEF x
  <2>3. \A q \in Roles : calls'[q].disconnect = calls[q].disconnect
    BY <1>0, <2>1 DEF CallSet
  <2> QED
    BY <1>5, <2>1, <2>2, <2>3, OrderMoves
<1>6. ASSUME NEW r \in Roles, Disconnect(r) PROVE OrderInv'
  <2> DEFINE x == disconnect(ep[r])
             p == Peer(r)
  <2>1. /\ ep[r].err = "none" /\ ~ep[r].closing /\ calls' = [calls EXCEPT ![r].disconnect = 1]
        /\ ep' = [ep EXCEPT ![r] = x] /\ taken' = taken
    BY <1>6 DEF Disconnect, Running
  <2>2. p \in Roles /\ p # r /\ Seat(ep[r], ep[p], taken[p], calls[r].disconnect)
    BY <1>6, Peers DEF OrderInv
  <2> HIDE DEF p
  <2>3. Seat(x, ep[p], taken[p], 1) /\ Grows(ep[r].tx, x.tx)
    BY <1>0, <1>6, <2>1, <2>2, SeatDisconnect
  <2>4. EndInv(x)
    BY <1>6, DisconnectKeeps DEF PairInv, EndsInv
  <2> HIDE DEF x
  <2>5. IsSeq(x.tx)
    BY <2>4 DEF EndInv, Shape
  <2>6. calls'[r].disconnect = 1 /\ calls'[p].disconnect = calls[p].disconnect
    BY <1>0, <1>6, <2>1, <2>2 DEF CallSet
  <2>7. ~Exhausted(ep[r])
    BY <1>0, <1>6, <2>1, ExhaustedCloses
  <2>8. taken'[p] = taken[p] /\ taken'[r] = taken[r]
    BY <2>1
  <2> QED
    BY <1>6, <2>1, <2>3, <2>5, <2>6, <2>7, <2>8, SeatsKept DEF p
<1>7. CASE UNCHANGED vars
  BY <1>7 DEF vars, OrderInv
<1> QED
  BY <1>1, <1>3, <1>4, <1>5, <1>6, <1>7 DEF Next

\* In every reachable state each endpoint stands where both outputs say it
\* stands: what it has written is in the order of the protocol, numbered and
\* sealed as its place asks, and its flags, key-exchange values and keys are
\* the ones that its own and its peer's key-exchange messages determine.
THEOREM KeyExchangeOrder == Spec => []OrderInv
<1>1. Init => OrderInv
  BY InitInv, OrderInit
<1>2. PairInv /\ OrderInv /\ [Next]_vars => OrderInv'
  BY OrderNext
<1> QED
  BY <1>1, <1>2, TransportInvariant, PTL DEF Spec

\* The peer that wrote Q answers with every KEXINIT of P outside B but the first:
\* it wrote the KEXINIT of the same round itself.
Replies(P, B, Q) ==
    \A i \in 1..Len(P) : P[i].msg.id = "KEXINIT" /\ i \notin B =>
        Steps(P, i) <= 1 \/ Steps(P, i) <= Sent(Q)

\* The KEXINITs that began no re-key are the first ones and the answers, and no
\* flood guard is ahead of the re-keys that its peer began.
GuardInv ==
    /\ DOMAIN begun = Roles
    /\ \A r \in Roles : LET q == Peer(r) IN
          /\ Replies(ep[r].tx, begun[r], ep[q].tx)
          /\ ep[r].err = "none" =>
                ep[r].consecutive_peer_rekeys <= PeerRekeys(ep[q].tx, taken[q], begun[q])

\* An endpoint that finds its peer beginning a re-key is right.
LEMMA KexinitBegins ==
    ASSUME NEW e, IsSeq(e.tx), NEW P, IsSeq(P), NEW k \in Nat, k < Len(P), ~Stopped(e), Stands(e, P, k),
           PeerBegins(e), P[k + 1].msg.id = "KEXINIT", NEW B, Replies(P, B, e.tx)
    PROVE  k + 1 \in B
<1> DEFINE m == Steps(P, k)
<1>1. IsKex(P[k + 1])
  BY DEF IsKex, KexIds
<1>2. m \in Nat /\ Steps(P, k + 1) = m + 1 /\ Len(P) \in Nat
  BY <1>1, ReadStep
<1>3. Flags(e, Sent(e.tx), m, k)
  BY DEF Stands, Local
<1>4. m >= 3 /\ Sent(e.tx) = m
  BY <1>3 DEF PeerBegins, Flags
<1>5. k + 1 \in 1..Len(P)
  BY <1>2
<1> HIDE DEF m
<1>6. ~(m + 1 <= 1) /\ ~(m + 1 <= m)
  BY <1>2, <1>4
<1> QED
  BY <1>2, <1>4, <1>5, <1>6 DEF Replies, m

\* The place of a KEXINIT in the order of the protocol.
LEMMA KexinitPlace ==
    ASSUME NEW tx, IsSeq(tx), NEW role \in Roles, Ordered(tx, role), NEW i \in 1..Len(tx),
           tx[i].msg.id = "KEXINIT"
    PROVE  Steps(tx, i) \in Nat /\ Part(Steps(tx, i)) = 1 /\ Steps(tx, i) <= Sent(tx)
<1>1. Len(tx) \in Nat /\ i # 1
  BY DEF IsSeq, Ordered
<1>2. i - 1 \in Nat /\ i \in 2..Len(tx) /\ (i - 1) + 1 = i /\ i - 1 < Len(tx)
  BY <1>1
<1>3. Follows(role, Steps(tx, i - 1), tx[i].msg)
  BY <1>2 DEF Ordered
<1>4. IsKex(tx[i])
  BY DEF IsKex, KexIds
<1> DEFINE m == Steps(tx, i - 1)
<1>5. m \in Nat /\ Steps(tx, i) = m + 1 /\ Steps(tx, i) <= Sent(tx)
  BY <1>2, <1>4, ReadStep
<1>6. Part(m) = 0 \/ Part(m) = 1 \/ Part(m) = 2
  BY <1>5, RoundFacts
<1>7. Part(m) = 0
  <2>1. "KEXINIT" = Kind(role, Part(m))
    BY <1>3 DEF Follows, Deferred, AppIds
  <2> QED
    BY <1>6, <2>1 DEF Kind
<1> HIDE DEF m
<1>8. Part(m + 1) = 1
  BY <1>5, <1>7, RoundFacts
<1> QED
  BY <1>5, <1>8

\* What an endpoint writes when it has read a KEXINIT answers that one.
LEMMA AnswersReply ==
    ASSUME NEW e, NEW x, IsSeq(e.tx), IsSeq(x.tx), Grows(e.tx, x.tx), x.role \in Roles,
           NEW P, IsSeq(P), NEW k \in Nat, k < Len(P), P[k + 1].msg.id = "KEXINIT",
           NEW role \in Roles, Ordered(P, role), Stands(x, P, k + 1), NEW B, Replies(e.tx, B, P)
    PROVE  Replies(x.tx, B, P)
<1> SUFFICES ASSUME NEW i \in 1..Len(x.tx), x.tx[i].msg.id = "KEXINIT", i \notin B
             PROVE  Steps(x.tx, i) <= 1 \/ Steps(x.tx, i) <= Sent(P)
  BY DEF Replies
<1>1. /\ Len(e.tx) \in Nat /\ Len(x.tx) \in Nat /\ Len(P) \in Nat
      /\ \A n \in 0..Len(e.tx) : Steps(x.tx, n) = Steps(e.tx, n)
  BY SentGrows DEF IsSeq
<1>2. CASE i <= Len(e.tx)
  <2>1. i \in 1..Len(e.tx) /\ i \in 0..Len(e.tx)
    BY <1>1, <1>2
  <2>2. x.tx[i] = e.tx[i] /\ Steps(x.tx, i) = Steps(e.tx, i)
    BY <1>1, <2>1 DEF Grows
  <2> QED
    BY <2>1, <2>2 DEF Replies
<1>3. CASE ~(i <= Len(e.tx))
  <2> DEFINE s == Steps(x.tx, i)
             t == Steps(P, k + 1)
  <2>1. Ordered(x.tx, x.role) /\ Sent(x.tx) <= t + 1
    BY DEF Stands, LogOK
  <2>2. s \in Nat /\ Part(s) = 1 /\ s <= Sent(x.tx)
    BY <2>1, KexinitPlace
  <2>3. k + 1 \in 1..Len(P)
    BY <1>1
  <2>4. t \in Nat /\ Part(t) = 1 /\ t <= Sent(P)
    BY <2>3, KexinitPlace
  <2>5. Sent(x.tx) \in Nat /\ Sent(P) \in Nat
    BY <1>1, StepsType DEF Sent
  <2> HIDE DEF s, t
  <2>6. s <= t
    <3>1. s <= t + 1
      BY <2>1, <2>2, <2>4, <2>5
    <3>2. Part(t + 1) = 2
      BY <2>4, RoundFacts
    <3>3. s # t + 1
      BY <2>2, <3>2
    <3> QED
      BY <2>2, <2>4, <3>1, <3>3
  <2>7. s <= Sent(P)
    BY <2>2, <2>4, <2>5, <2>6
  <2> QED
    BY <2>7 DEF s
<1> QED
  BY <1>2, <1>3

\* What an endpoint writes of its own accord is in B.
LEMMA BegunReply ==
    ASSUME NEW tx, NEW ty, IsSeq(tx), IsSeq(ty), Grows(tx, ty), NEW P, NEW B, NEW C, B \subseteq C,
           Replies(tx, B, P), \A i \in 1..Len(ty) : i > Len(tx) /\ ty[i].msg.id = "KEXINIT" => i \in C
    PROVE  Replies(ty, C, P)
<1> SUFFICES ASSUME NEW i \in 1..Len(ty), ty[i].msg.id = "KEXINIT", i \notin C
             PROVE  Steps(ty, i) <= 1 \/ Steps(ty, i) <= Sent(P)
  BY DEF Replies
<1>1. Len(tx) \in Nat /\ Len(ty) \in Nat /\ \A n \in 0..Len(tx) : Steps(ty, n) = Steps(tx, n)
  BY SentGrows DEF IsSeq
<1>2. i \in 1..Len(tx) /\ i \in 0..Len(tx)
  BY <1>1
<1>3. ty[i] = tx[i] /\ Steps(ty, i) = Steps(tx, i) /\ i \notin B
  BY <1>1, <1>2 DEF Grows
<1> QED
  BY <1>2, <1>3 DEF Replies

LEMMA RepliesGrow ==
    ASSUME NEW P, IsSeq(P), NEW B, NEW tx, NEW ty, IsSeq(tx), IsSeq(ty), Grows(tx, ty), Replies(P, B, tx)
    PROVE  Replies(P, B, ty)
<1> SUFFICES ASSUME NEW i \in 1..Len(P), P[i].msg.id = "KEXINIT", i \notin B
             PROVE  Steps(P, i) <= 1 \/ Steps(P, i) <= Sent(ty)
  BY DEF Replies
<1>1. Sent(tx) \in Nat /\ Sent(ty) \in Nat /\ Sent(tx) <= Sent(ty)
  BY SentGrows
<1>2. i \in Nat /\ Steps(P, i) \in Nat
  <2>1. i \in Nat
    BY DEF IsSeq
  <2> QED
    BY <2>1, StepsType
<1>3. Steps(P, i) <= 1 \/ Steps(P, i) <= Sent(tx)
  BY DEF Replies
<1> QED
  BY <1>1, <1>2, <1>3

\* One endpoint has moved on to x; what it began is recorded.
LEMMA GuardsKept ==
    ASSUME PairInv, OrderInv, GuardInv, NEW r \in Roles, NEW x, ep' = [ep EXCEPT ![r] = x], IsSeq(x.tx),
           Grows(ep[r].tx, x.tx), taken'[r] = taken[r],
           OfItsOwnAccord(r) \/ (begun' = begun /\ Replies(x.tx, begun[r], ep[Peer(r)].tx)),
           x.err = "none" => x.consecutive_peer_rekeys
               <= PeerRekeys(ep[Peer(r)].tx, taken'[Peer(r)], begun[Peer(r)])
    PROVE  GuardInv'
<1> DEFINE p == Peer(r)
<1>1. p \in Roles /\ p # r /\ Peer(p) = r /\ \A q \in Roles : q = r \/ q = p
  BY Peers
<1> HIDE DEF p
<1>2. /\ DOMAIN ep = Roles
      /\ \A q \in Roles : IsSeq(ep[q].tx) /\ taken[q] \in 0..Len(ep[q].tx)
  BY DEF PairInv, EndsInv, EndInv, Shape
<1>3. ep'[r] = x /\ ep'[p] = ep[p]
  BY <1>1, <1>2
<1>4. DOMAIN begun = Roles /\ Replies(ep[r].tx, begun[r], ep[p].tx) /\ Replies(ep[p].tx, begun[p], ep[r].tx)
      /\ (ep[p].err = "none" => ep[p].consecutive_peer_rekeys <= PeerRekeys(ep[r].tx, taken[r], begun[r]))
  BY <1>1 DEF GuardInv, p
<1>5. DOMAIN begun' = Roles /\ begun'[p] = begun[p] /\ begun[r] \subseteq begun'[r]
  BY <1>1, <1>4 DEF OfItsOwnAccord
<1>6. Replies(x.tx, begun'[r], ep[p].tx)
  <2>1. CASE begun' = begun /\ Replies(x.tx, begun[r], ep[p].tx)
    BY <2>1
  <2>2. CASE OfItsOwnAccord(r)
    <3>1. begun'[r] = begun[r] \cup {i \in Len(ep[r].tx)+1..Len(x.tx) : x.tx[i].msg.id = "KEXINIT"}
      BY <1>3, <1>4, <2>2 DEF OfItsOwnAccord, NewKexinits
    <3>2. \A i \in 1..Len(x.tx) : i > Len(ep[r].tx) => i \in Len(ep[r].tx)+1..Len(x.tx)
      BY <1>2 DEF IsSeq
    <3> QED
      BY <1>2, <1>4, <1>5, <3>1, <3>2, BegunReply
  <2> QED
    BY <2>1, <2>2 DEF p
<1>7. Replies(ep[p].tx, begun[p], x.tx)
  BY <1>1, <1>2, <1>4, RepliesGrow
<1>8. ep[p].err = "none" => ep[p].consecutive_peer_rekeys <= PeerRekeys(x.tx, taken[r], begun'[r])
  <2> SUFFICES ASSUME ep[p].err = "none"
               PROVE  ep[p].consecutive_peer_rekeys <= PeerRekeys(x.tx, taken[r], begun'[r])
    OBVIOUS
  <2>1. Len(ep[r].tx) \in Nat /\ taken[r] \in Nat
    BY <1>2 DEF IsSeq
  <2>2. PeerRekeys(ep[r].tx, taken[r], begun[r]) <= PeerRekeys(x.tx, taken[r], begun'[r])
    BY <1>2, <1>5, <2>1, SinceGrows
  <2>3. /\ PeerRekeys(ep[r].tx, taken[r], begun[r]) \in Nat
        /\ PeerRekeys(x.tx, taken[r], begun'[r]) \in Nat
    BY <2>1, SinceType
  <2>4. ep[p].consecutive_peer_rekeys \in Nat
    BY <1>1 DEF OrderInv, Seat
  <2> QED
    BY <1>4, <2>2, <2>3, <2>4
<1>9. \A q \in Roles :
         /\ Replies(ep'[q].tx, begun'[q], ep'[Peer(q)].tx)
         /\ ep'[q].err = "none" => ep'[q].consecutive_peer_rekeys
               <= PeerRekeys(ep'[Peer(q)].tx, taken'[Peer(q)], begun'[Peer(q)])
  <2>1. /\ Replies(ep'[r].tx, begun'[r], ep'[p].tx)
        /\ ep'[r].err = "none" => ep'[r].consecutive_peer_rekeys
              <= PeerRekeys(ep'[p].tx, taken'[p], begun'[p])
    BY <1>3, <1>5, <1>6 DEF p
  <2>2. /\ Replies(ep'[p].tx, begun'[p], ep'[r].tx)
        /\ ep'[p].err = "none" => ep'[p].consecutive_peer_rekeys
              <= PeerRekeys(ep'[r].tx, taken'[r], begun'[r])
    BY <1>3, <1>5, <1>7, <1>8
  <2> QED
    BY <1>1, <2>1, <2>2 DEF p
<1> QED
  BY <1>5, <1>9 DEF GuardInv

LEMMA GuardInit == Init /\ PairInv /\ OrderInv => GuardInv
<1> SUFFICES ASSUME Init, PairInv, OrderInv PROVE GuardInv
  OBVIOUS
<1>1. DOMAIN begun = Roles
  BY DEF Init
<1>2. ASSUME NEW r \in Roles
      PROVE  /\ Replies(ep[r].tx, begun[r], ep[Peer(r)].tx)
             /\ ep[r].err = "none" => ep[r].consecutive_peer_rekeys
                   <= PeerRekeys(ep[Peer(r)].tx, taken[Peer(r)], begun[Peer(r)])
  <2> DEFINE tx == ep[r].tx
             P  == ep[Peer(r)].tx
  <2>1. Peer(r) \in Roles /\ IsSeq(tx) /\ taken[Peer(r)] = 0
    <3>1. Peer(r) \in Roles
      BY Peers
    <3> QED
      BY <3>1 DEF PairInv, EndsInv, EndInv, Shape, Init
  <2>2. Sent(tx) <= 1
    <3>1. Sent(tx) <= Steps(P, 0) + 1
      BY <2>1 DEF OrderInv, Seat, Stands
    <3> QED
      BY <3>1, StepsZero
  <2>3. ASSUME NEW i \in 1..Len(tx) PROVE Steps(tx, i) <= 1
    <3>1. i \in Nat /\ Len(tx) \in Nat /\ i <= Len(tx)
      BY <2>1 DEF IsSeq
    <3>2. Steps(tx, i) <= Sent(tx) /\ Steps(tx, i) \in Nat /\ Sent(tx) \in Nat
      BY <3>1, StepsMonotone, StepsType DEF Sent
    <3> QED
      BY <2>2, <3>2
  <2>4. Replies(tx, begun[r], P)
    BY <2>3 DEF Replies
  <2>5. ep[r].consecutive_peer_rekeys = 0
    BY InitSeat
  <2>6. PeerRekeys(P, 0, begun[Peer(r)]) \in Nat
    BY SinceType
  <2>7. ep[r].consecutive_peer_rekeys <= PeerRekeys(P, taken[Peer(r)], begun[Peer(r)])
    <3> HIDE DEF P
    <3> QED
      BY <2>1, <2>5, <2>6
  <2> QED
    BY <2>4, <2>7
<1> QED
  BY <1>1, <1>2 DEF GuardInv

LEMMA GuardReceive ==
    ASSUME PairInv, OrderInv, GuardInv, NEW r \in Roles, Receive(r)
    PROVE  GuardInv'
<1> DEFINE p == Peer(r)
           k == taken[p]
           x == drive(ep[r], ep[p].tx[k + 1])
           P == ep[p].tx
<1>1. p \in Roles /\ p # r /\ Peer(p) = r
  BY Peers
<1>2. /\ DOMAIN ep = Roles /\ DOMAIN taken = Roles
      /\ \A q \in Roles : EndInv(ep[q]) /\ ep[q].role = q /\ taken[q] \in 0..Len(ep[q].tx)
      /\ IsSeq(P) /\ IsSeq(ep[r].tx)
  BY <1>1 DEF PairInv, EndsInv, EndInv, Shape
<1>3. /\ ep[r].err = "none" /\ ~ep[r].closing /\ k < Len(P)
      /\ taken' = [taken EXCEPT ![p] = k + 1] /\ ep' = [ep EXCEPT ![r] = x]
      /\ IF P[k + 1].msg.id = "KEXINIT" THEN begun' = begun ELSE OfItsOwnAccord(r)
  BY DEF Receive, ReadNext, Running
<1>4. k \in Nat /\ Len(P) \in Nat
  BY <1>1, <1>2 DEF IsSeq
<1>5. Faces(ep[p], ep[r])
  BY <1>1, <1>2 DEF Faces
<1>6. Seat(ep[r], ep[p], k, calls[r].disconnect) /\ Seat(ep[p], ep[r], taken[r], calls[p].disconnect)
  BY <1>1 DEF OrderInv
<1>7. Drives(ep[r], P, k, x)
  <2> HIDE DEF p
  <2> QED
    BY <1>1, <1>2, <1>3, <1>4, <1>5, <1>6, SeatReceive
<1>8. IsSeq(x.tx) /\ Grows(ep[r].tx, x.tx) /\ x.role = r
  <2>1. FrameOK(P[k + 1])
    <3>1. k + 1 \in 1..Len(P)
      BY <1>3, <1>4
    <3> QED
      BY <1>1, <1>2, <3>1 DEF EndInv, Shape
  <2>2. Driven(ep[r], P[k + 1], x)
    BY <1>2, <1>3, <2>1, DriveKeeps
  <2> HIDE DEF x
  <2> QED
    BY <1>2, <2>2 DEF Driven, EndInv, Shape
<1>9. taken'[p] = k + 1 /\ taken'[r] = taken[r]
  BY <1>1, <1>2, <1>3
<1>10. /\ Replies(ep[r].tx, begun[r], P) /\ Replies(P, begun[p], ep[r].tx)
       /\ ep[r].consecutive_peer_rekeys <= PeerRekeys(P, k, begun[p])
  BY <1>1, <1>3 DEF GuardInv
<1> HIDE DEF p, P, k, x
<1>11. Stands(ep[r], P, k) /\ ~Stopped(ep[r]) /\ LogOK(ep[p], ep[r].tx)
       /\ ep[r].consecutive_peer_rekeys \in Nat
  BY <1>3, <1>6 DEF Seat, Stands, Stopped, P
<1>12. ASSUME x.err = "none" PROVE x.consecutive_peer_rekeys <= PeerRekeys(P, k + 1, begun[p])
  <2>1. Tally(PeerBegins(ep[r]), P[k + 1].msg.id, ep[r].consecutive_peer_rekeys,
              x.consecutive_peer_rekeys)
    BY <1>7, <1>12 DEF Drives
  <2>2. PeerBegins(ep[r]) /\ P[k + 1].msg.id = "KEXINIT" => k + 1 \in begun[p]
    BY <1>2, <1>3, <1>4, <1>10, <1>11, KexinitBegins
  <2> QED
    BY <1>4, <1>10, <1>11, <2>1, <2>2, TallyCounts
<1>13. CASE P[k + 1].msg.id = "KEXINIT"
  <2>1. Ordered(P, ep[p].role) /\ ep[p].role \in Roles /\ x.role \in Roles /\ Stands(x, P, k + 1)
    BY <1>1, <1>2, <1>7, <1>8, <1>11 DEF LogOK, P, Drives
  <2>2. begun' = begun /\ Replies(x.tx, begun[r], P)
    BY <1>2, <1>3, <1>4, <1>8, <1>10, <1>13, <2>1, AnswersReply
  <2> QED
    BY <1>3, <1>8, <1>9, <1>12, <2>2, GuardsKept DEF p, P
<1>14. CASE P[k + 1].msg.id # "KEXINIT"
  <2>1. OfItsOwnAccord(r)
    BY <1>3, <1>14
  <2> QED
    BY <1>3, <1>8, <1>9, <1>12, <2>1, GuardsKept DEF p, P
<1> QED
  BY <1>13, <1>14

\* Every other step writes of its own accord, and reads nothing.
LEMMA GuardMoves ==
    ASSUME PairInv, OrderInv, GuardInv, NEW r \in Roles, NEW x, ep' = [ep EXCEPT ![r] = x],
           ep[r].err = "none", IsSeq(x.tx), Grows(ep[r].tx, x.tx),
           x.consecutive_peer_rekeys = ep[r].consecutive_peer_rekeys,
           taken' = taken, OfItsOwnAccord(r)
    PROVE  GuardInv'
<1>1. x.consecutive_peer_rekeys
         <= PeerRekeys(ep[Peer(r)].tx, taken'[Peer(r)], begun[Peer(r)])
  BY DEF GuardInv
<1> QED
  BY <1>1, GuardsKept

LEMMA GuardNext == PairInv /\ OrderInv /\ GuardInv /\ [Next]_vars => GuardInv'
<1> SUFFICES ASSUME PairInv, OrderInv, GuardInv, [Next]_vars PROVE GuardInv'
  OBVIOUS
<1>0. \A q \in Roles : Shape(ep[q]) /\ IsSeq(ep[q].tx) /\ taken[q] \in 0..Len(ep[q].tx)
  BY DEF PairInv, EndsInv, EndInv, Shape
<1>1. ASSUME NEW r \in Roles, Receive(r) PROVE GuardInv'
  BY <1>1, GuardReceive
<1>2. ASSUME NEW r \in Roles
      PROVE  /\ Stands(ep[r], ep[Peer(r)].tx, taken[Peer(r)]) /\ Shape(ep[r])
             /\ IsSeq(ep[Peer(r)].tx) /\ taken[Peer(r)] \in 0..Len(ep[Peer(r)].tx)
  BY <1>0, Peers DEF OrderInv, Seat
<1>3. ASSUME NEW r \in Roles, NEW x, Carries(ep[r], x), ep' = [ep EXCEPT ![r] = x], Running(r),
             taken' = taken, OfItsOwnAccord(r)
      PROVE  GuardInv'
  BY <1>3, GuardMoves DEF Carries, Running
<1>4. ASSUME NEW r \in Roles, NEW m, m.id \in Deferred, ep' = [ep EXCEPT ![r] = send_packet(@, m)],
             Running(r), ep[r].phase = "Established", taken' = taken, OfItsOwnAccord(r)
      PROVE  GuardInv'
  <2> DEFINE x == send_packet(ep[r], m)
  <2>1. Carries(ep[r], x)
    BY <1>2, <1>4, SendPacketOwn DEF Running
  <2>2. ep' = [ep EXCEPT ![r] = x]
    BY <1>4
  <2> HIDE DEF x
  <2> QED
    BY <1>3, <1>4, <2>1, <2>2
<1>5. ASSUME NEW r \in Roles, SendApp(r) PROVE GuardInv'
  <2>1. PICK id \in Deferred :
           /\ Running(r) /\ ep[r].phase = "Established" /\ OfItsOwnAccord(r)
           /\ ep' = [ep EXCEPT ![r] = send_packet(@, Msg(id, accepted[r] + 1))]
           /\ taken' = taken
    BY <1>5 DEF SendApp, Deferred, AppIds
  <2> DEFINE m == Msg(id, accepted[r] + 1)
  <2>2. m.id \in Deferred
    BY DEF Msg
  <2> HIDE DEF m
  <2>3. ep' = [ep EXCEPT ![r] = send_packet(@, m)]
    BY <2>1 DEF m
  <2> QED
    BY <1>4, <1>5, <2>1, <2>2, <2>3
<1>6. ASSUME NEW r \in Roles, send_chaff(r) PROVE GuardInv'
  <2> DEFINE m == Msg("IGNORE", calls[r].chaff + 1)
  <2>1. /\ Running(r) /\ ep[r].phase = "Established" /\ OfItsOwnAccord(r)
        /\ ep' = [ep EXCEPT ![r] = send_packet(@, m)] /\ taken' = taken
    BY <1>6 DEF send_chaff
  <2>2. m.id \in Deferred
    BY DEF Msg, Deferred
  <2> HIDE DEF m
  <2> QED
    BY <1>4, <1>6, <2>1, <2>2
<1>7. ASSUME NEW r \in Roles, InitiateRekey(r) PROVE GuardInv'
  <2> DEFINE x == initiate_rekey(ep[r])
  <2>1. Running(r) /\ ep' = [ep EXCEPT ![r] = x] /\ taken' = taken /\ OfItsOwnAccord(r)
    BY <1>7 DEF InitiateRekey
  <2>2. Carries(ep[r], x)
    BY <1>2, <1>7, <2>1, InitiateOwn DEF Running
  <2> HIDE DEF x
  <2> QED
    BY <1>3, <1>7, <2>1, <2>2
<1>8. ASSUME NEW r \in Roles, Disconnect(r) PROVE GuardInv'
  <2> DEFINE x == disconnect(ep[r])
  <2>1. /\ ep[r].err = "none" /\ ~ep[r].closing /\ ep' = [ep EXCEPT ![r] = x] /\ taken' = taken
        /\ OfItsOwnAccord(r)
    BY <1>8 DEF Disconnect, Running
  <2>2. Writer(ep[r], ep[Peer(r)].tx)
    BY <1>2, <1>8, <2>1 DEF Stands, Stopped, Writer
  <2>3. Grows(ep[r].tx, x.tx) /\ Changed(ep[r], x, Written)
    BY <1>2, <1>8, <2>1, <2>2, DisconnectLog
  <2>4. EndInv(x)
    BY <1>8, DisconnectKeeps DEF PairInv, EndsInv
  <2> HIDE DEF x
  <2>5. IsSeq(x.tx) /\ x.consecutive_peer_rekeys = ep[r].consecutive_peer_rekeys
    BY <2>3, <2>4 DEF EndInv, Shape, Changed, Fields, Written
  <2> QED
    BY <1>8, <2>1, <2>3, <2>5, GuardMoves
<1>9. CASE UNCHANGED vars
  BY <1>9 DEF vars, GuardInv
<1> QED
  BY <1>1, <1>5, <1>6, <1>7, <1>8, <1>9 DEF Next

LEMMA GuardInvariant == Spec => []GuardInv
<1>1. Init => GuardInv
  BY InitInv, OrderInit, GuardInit
<1>2. PairInv /\ OrderInv /\ GuardInv /\ [Next]_vars => GuardInv'
  BY GuardNext
<1> QED
  BY <1>1, <1>2, TransportInvariant, KeyExchangeOrder, PTL DEF Spec

\* An endpoint closes of its own accord only when its peer began, of its own
\* accord, more re-keys than allowed since the last application packet, or when
\* the epoch is used up: the first exchange and the peer's answers to the
\* endpoint's own re-keys never count, also when both begin one at the same time
\* (on_peer_kexinit, write_packet).  For every limit and any number of rounds.
THEOREM FloodGuardJustified == Spec => []FloodGuardSound
<1>1. PairInv /\ OrderInv /\ GuardInv => FloodGuardSound
  <2> SUFFICES ASSUME PairInv, OrderInv, GuardInv, NEW r \in Roles, ep[r].closing,
                      calls[r].disconnect = 0
               PROVE  \/ ep[r].tx_packets_since_rekey >= EpochHardPackets
                      \/ Counted(ep[Peer(r)].tx, taken[Peer(r)], begun[Peer(r)])
                             > MaxConsecutivePeerRekeys
    BY DEF FloodGuardSound, Counted
  <2> DEFINE P == ep[Peer(r)].tx
             k == taken[Peer(r)]
             B == begun[Peer(r)]
             n == ep[r].consecutive_peer_rekeys
  <2>1. k \in Nat
    BY Peers DEF PairInv, EndsInv, EndInv, Shape, IsSeq
  <2>2. Seat(ep[r], ep[Peer(r)], k, 0)
    BY DEF OrderInv
  <2>3. ep[r].err = "none" /\ Guarded(ep[r]) /\ n \in Nat
    BY <2>2 DEF Seat
  <2>4. Exhausted(ep[r]) \/ n > MaxConsecutivePeerRekeys
    BY <2>3 DEF Guarded
  <2>5. n <= PeerRekeys(P, k, B)
    BY <2>3 DEF GuardInv
  <2> HIDE DEF n, P, k, B
  <2>6. /\ Counted(P, k, B) \in Nat /\ PeerRekeys(P, k, B) <= Counted(P, k, B)
        /\ PeerRekeys(P, k, B) \in Nat /\ MaxConsecutivePeerRekeys \in Nat
    BY <2>1, SinceCounted, SinceType, TransportAssumption
  <2>7. Exhausted(ep[r]) \/ Counted(P, k, B) > MaxConsecutivePeerRekeys
    BY <2>3, <2>4, <2>5, <2>6
  <2> QED
    BY <2>7 DEF P, k, B, Exhausted
<1> QED
  BY <1>1, TransportInvariant, KeyExchangeOrder, GuardInvariant, PTL

--------------------------------------------------------------------------------
(* A connection that negotiates no compression *)

PlainMsg(m)   == m.id = "KEXINIT" => m.arg.comp = COMPRESSIONS
PlainFrame(f) == f.comp = NoContext /\ PlainMsg(f.msg)

\* Neither context is ever made, and every KEXINIT prefers no compression.
Plain(e) ==
    /\ DOMAIN e = Fields /\ IsSeq(e.tx) /\ IsSeq(e.tx_app_queue)
    /\ \A i \in 1..Len(e.tx_app_queue) : e.tx_app_queue[i].id \in Deferred
    /\ e.comp_in = NoContext /\ e.comp_out = NoContext /\ e.comp_name = "none"
    /\ e.negotiated.comp = "none" /\ e.offered_compression = COMPRESSIONS
    /\ \A i \in 1..Len(e.tx) : PlainFrame(e.tx[i])

PlainFields == {"tx", "tx_app_queue", "comp_in", "comp_out", "comp_name", "negotiated",
                "offered_compression"}

LEMMA PlainSame ==
    ASSUME NEW e, Plain(e), NEW r, DOMAIN r = Fields, \A x \in PlainFields : r[x] = e[x]
    PROVE  Plain(r)
<1>1. /\ r.tx = e.tx /\ r.tx_app_queue = e.tx_app_queue /\ r.comp_in = e.comp_in
      /\ r.comp_out = e.comp_out /\ r.comp_name = e.comp_name /\ r.negotiated = e.negotiated
      /\ r.offered_compression = e.offered_compression
  BY DEF PlainFields
<1> QED
  BY <1>1 DEF Plain

LEMMA PlainWrite ==
    ASSUME NEW e, Plain(e), NEW m, PlainMsg(m)
    PROVE  Plain(write_packet(e, m))
<1> DEFINE f == [key |-> e.cipher_out, seq |-> e.tx_seq, comp |-> e.comp_out, msg |-> m]
           q == Append(e.tx, f)
           c == IF e.comp_out = NoContext THEN e.comp_out ELSE e.comp_out + 1
           p == e.tx_packets_since_rekey + 1
           n == NextSeq(e.tx_seq)
           b == EpochExhausted(p)
           s == [e EXCEPT !.tx = q, !.comp_out = c, !.tx_packets_since_rekey = p,
                          !.tx_seq = n, !.closing = b]
<1>1. write_packet(e, m) = e \/ write_packet(e, m) = s
  <2>1. e.comp_name # "zlib"
    BY DEF Plain
  <2> QED
    BY <2>1 DEF write_packet
<1>2. c = NoContext
  BY DEF Plain
<1>3. PlainFrame(f)
  BY DEF Plain, PlainFrame
<1>4. IsSeq(q) /\ \A i \in 1..Len(q) : PlainFrame(q[i])
  <2> HIDE DEF f
  <2>1. IsSeq(e.tx) /\ Len(e.tx) \in Nat /\ \A i \in 1..Len(e.tx) : PlainFrame(e.tx[i])
    BY DEF Plain, IsSeq
  <2>2. /\ IsSeq(q) /\ Len(q) = Len(e.tx) + 1 /\ q[Len(e.tx) + 1] = f
        /\ \A i \in 1..Len(e.tx) : q[i] = e.tx[i]
    BY <2>1, AppendFacts
  <2>3. \A i \in 1..Len(q) : i \in 1..Len(e.tx) \/ i = Len(e.tx) + 1
    BY <2>1, <2>2
  <2> QED
    BY <1>3, <2>1, <2>2, <2>3
<1> HIDE DEF q, c, p, n, b
<1>5. /\ DOMAIN s = Fields /\ s.tx = q /\ s.comp_out = c /\ s.tx_app_queue = e.tx_app_queue
      /\ s.comp_in = e.comp_in /\ s.comp_name = e.comp_name /\ s.negotiated = e.negotiated
      /\ s.offered_compression = e.offered_compression
  BY DEF Plain, Fields
<1> HIDE DEF s
<1>6. Plain(s)
  BY <1>2, <1>4, <1>5 DEF Plain
<1> QED
  BY <1>1, <1>6

LEMMA PlainFlush ==
    ASSUME NEW e, Plain(e)
    PROVE  Plain(FlushQueue(e))
<1> DEFINE q == e.tx_app_queue
           b == [e EXCEPT !.tx_app_queue = <<>>]
<1>1. IsSeq(q) /\ Len(q) \in Nat /\ \A i \in 1..Len(q) : q[i].id \in Deferred
  BY DEF Plain, IsSeq
<1>2. Plain(b)
  <2>1. IsSeq(<<>>) /\ Len(<<>>) = 0
    <3>1. <<>> \in Seq({}) /\ Len(<<>>) = 0 /\ DOMAIN <<>> = 1..Len(<<>>)
      OBVIOUS
    <3> QED
      BY <3>1 DEF IsSeq
  <2>2. /\ DOMAIN b = Fields /\ b.tx_app_queue = <<>> /\ b.tx = e.tx /\ b.comp_in = e.comp_in
        /\ b.comp_out = e.comp_out /\ b.comp_name = e.comp_name /\ b.negotiated = e.negotiated
        /\ b.offered_compression = e.offered_compression
    BY DEF Plain, Fields
  <2> HIDE DEF b
  <2> QED
    BY <2>1, <2>2 DEF Plain
<1>3. PICK w : /\ \A i \in 0..Len(q) : w[i] = IF i = 0 THEN b ELSE write_packet(w[i - 1], q[i])
               /\ FlushQueue(e) = w[Len(q)]
  <2> DEFINE v == CHOOSE v : Flushed(v, b, q)
  <2>1. Flushed(v, b, q)
    BY <1>1, FlushDefined
  <2>2. \A i \in 0..Len(q) : v[i] = IF i = 0 THEN b ELSE write_packet(v[i - 1], q[i])
    <3> HIDE DEF v, b, q
    <3> QED
      BY <2>1 DEF Flushed
  <2>3. FlushQueue(e) = v[Len(q)]
    BY Zenon DEF FlushQueue, Flushed
  <2> HIDE DEF v, b, q
  <2> QED
    BY <2>2, <2>3
<1> HIDE DEF b, q
<1> DEFINE S == {i \in Nat : i <= Len(q) => Plain(w[i])}
<1>4. 0 \in S
  BY <1>1, <1>2, <1>3
<1>5. ASSUME NEW i \in Nat, i \in S PROVE i + 1 \in S
  <2> SUFFICES ASSUME i + 1 <= Len(q) PROVE Plain(w[i + 1])
    OBVIOUS
  <2>1. i + 1 \in 1..Len(q) /\ i + 1 \in 0..Len(q) /\ i + 1 # 0 /\ i + 1 - 1 = i /\ i <= Len(q)
    BY <1>1
  <2>2. w[i + 1] = write_packet(w[i], q[i + 1]) /\ Plain(w[i])
    BY <1>3, <1>5, <2>1
  <2>3. PlainMsg(q[i + 1])
    BY <1>1, <2>1 DEF PlainMsg, Deferred, AppIds
  <2> QED
    BY <2>2, <2>3, PlainWrite
<1>6. Len(q) \in S
  <2> HIDE DEF S
  <2>1. Nat \subseteq S
    BY <1>4, <1>5, Induction
  <2> QED
    BY <1>1, <2>1
<1> QED
  BY <1>1, <1>3, <1>6

LEMMA PlainKexinit ==
    ASSUME NEW e, Plain(e)
    PROVE  Plain(send_kexinit(e))
<1> DEFINE ki == ours_with(e.role, e.rng + 1, e.offered_ciphers, e.offered_compression)
           m == Msg("KEXINIT", ki)
           n == ki.cookie
           a == [e EXCEPT !.rng = n]
           w == write_packet(a, m)
           r == [w EXCEPT !.local_kexinit = n, !.kexinit_sent = TRUE]
<1>1. send_kexinit(e) = r
  BY DEF send_kexinit
<1>2. PlainMsg(m)
  BY DEF PlainMsg, Msg, ours_with, Plain
<1> HIDE DEF m, n
<1>3. DOMAIN a = Fields /\ \A x \in PlainFields : a[x] = e[x]
  BY DEF Plain, Fields, PlainFields
<1> HIDE DEF a
<1>4. Plain(w)
  BY <1>2, <1>3, PlainSame, PlainWrite
<1> HIDE DEF w
<1>5. DOMAIN r = Fields /\ \A x \in PlainFields : r[x] = w[x]
  BY <1>4 DEF Plain, Fields, PlainFields
<1> HIDE DEF r
<1> QED
  BY <1>1, <1>4, <1>5, PlainSame

LEMMA PlainBegin ==
    ASSUME NEW e, Plain(e)
    PROVE  Plain(begin_rekey_round(e))
<1> DEFINE a == [e EXCEPT !.rekeying = TRUE,
                          !.sent_newkeys = FALSE, !.recv_newkeys = FALSE,
                          !.negotiated = NotNegotiated,
                          !.peer_kexinit = 0, !.kex_eph = 0]
<1>1. begin_rekey_round(e) = send_kexinit(a)
  BY DEF begin_rekey_round
<1>2. /\ DOMAIN a = Fields /\ a.negotiated = NotNegotiated
      /\ \A x \in PlainFields \ {"negotiated"} : a[x] = e[x]
  BY DEF Plain, Fields, PlainFields
<1> HIDE DEF a
<1>3. NotNegotiated.comp = "none"
  BY Zenon DEF NotNegotiated
<1>4. /\ a.tx = e.tx /\ a.tx_app_queue = e.tx_app_queue /\ a.comp_in = e.comp_in
      /\ a.comp_out = e.comp_out /\ a.comp_name = e.comp_name
      /\ a.offered_compression = e.offered_compression
  BY <1>2 DEF PlainFields
<1>5. Plain(a)
  BY <1>2, <1>3, <1>4 DEF Plain
<1> QED
  BY <1>1, <1>5, PlainKexinit

LEMMA PlainInitiate ==
    ASSUME NEW e, Plain(e)
    PROVE  Plain(initiate_rekey(e))
BY PlainBegin DEF initiate_rekey

LEMMA PlainDisconnect ==
    ASSUME NEW e, Plain(e)
    PROVE  Plain(disconnect(e))
<1> DEFINE m == Msg("DISCONNECT", 0)
           w == write_packet(e, m)
           r == [w EXCEPT !.closing = TRUE]
<1>1. disconnect(e) = e \/ disconnect(e) = r
  BY DEF disconnect
<1>2. PlainMsg(m)
  BY DEF PlainMsg, Msg
<1> HIDE DEF m
<1>3. Plain(w)
  BY <1>2, PlainWrite
<1> HIDE DEF w
<1>4. DOMAIN r = Fields /\ \A x \in PlainFields : r[x] = w[x]
  BY <1>3 DEF Plain, Fields, PlainFields
<1> HIDE DEF r
<1> QED
  BY <1>1, <1>3, <1>4, PlainSame

LEMMA PlainSend ==
    ASSUME NEW e, Plain(e), NEW m, m.id \in Deferred
    PROVE  Plain(send_packet(e, m))
<1> DEFINE w == write_packet(e, m)
           b == w.bytes_since_rekey + PayloadLen
           s == [w EXCEPT !.bytes_since_rekey = b]
           q == Append(e.tx_app_queue, m)
           d == [e EXCEPT !.tx_app_queue = q]
<1>1. send_packet(e, m) \in {d, s, initiate_rekey(s)}
  BY DEF send_packet
<1>2. PlainMsg(m)
  BY DEF PlainMsg, Deferred, AppIds
<1>3. Plain(w)
  BY <1>2, PlainWrite
<1> HIDE DEF w, b
<1>4. DOMAIN s = Fields /\ \A x \in PlainFields : s[x] = w[x]
  BY <1>3 DEF Plain, Fields, PlainFields
<1> HIDE DEF s
<1>5. Plain(s) /\ Plain(initiate_rekey(s))
  BY <1>3, <1>4, PlainSame, PlainInitiate
<1>6. Plain(d)
  <2>1. IsSeq(q) /\ \A i \in 1..Len(q) : q[i].id \in Deferred
    <3>1. IsSeq(e.tx_app_queue) /\ Len(e.tx_app_queue) \in Nat
          /\ \A i \in 1..Len(e.tx_app_queue) : e.tx_app_queue[i].id \in Deferred
      BY DEF Plain, IsSeq
    <3>2. /\ IsSeq(q) /\ Len(q) = Len(e.tx_app_queue) + 1 /\ q[Len(e.tx_app_queue) + 1] = m
          /\ \A i \in 1..Len(e.tx_app_queue) : q[i] = e.tx_app_queue[i]
      BY <3>1, AppendFacts
    <3>3. \A i \in 1..Len(q) : i \in 1..Len(e.tx_app_queue) \/ i = Len(e.tx_app_queue) + 1
      BY <3>1, <3>2
    <3> QED
      BY <3>1, <3>2, <3>3
  <2> HIDE DEF q
  <2>2. /\ DOMAIN d = Fields /\ d.tx_app_queue = q /\ d.tx = e.tx /\ d.comp_in = e.comp_in
        /\ d.comp_out = e.comp_out /\ d.comp_name = e.comp_name /\ d.negotiated = e.negotiated
        /\ d.offered_compression = e.offered_compression
    BY DEF Plain, Fields
  <2> HIDE DEF d
  <2> QED
    BY <2>1, <2>2 DEF Plain
<1> QED
  BY <1>1, <1>5, <1>6

LEMMA PlainComplete ==
    ASSUME NEW e, Plain(e)
    PROVE  Plain(maybe_complete_kex(e))
<1> DEFINE a == [e EXCEPT !.pending = NoPending, !.initial_kex_done = TRUE, !.phase = "Established"]
           b == EndRound(a)
<1>1. maybe_complete_kex(e) = e \/ maybe_complete_kex(e) = FlushQueue(b)
  BY DEF maybe_complete_kex
<1>2. DOMAIN a = Fields /\ \A x \in PlainFields : a[x] = e[x]
  BY DEF Plain, Fields, PlainFields
<1> HIDE DEF a
<1>3. DOMAIN b = Fields /\ \A x \in PlainFields : b[x] = a[x]
  BY <1>2 DEF Fields, PlainFields, EndRound
<1> HIDE DEF b
<1>4. Plain(b)
  BY <1>2, <1>3, PlainSame
<1> QED
  BY <1>1, <1>4, PlainFlush

LEMMA PlainContext ==
    ASSUME NEW e, Plain(e)
    PROVE  NewContext(e) = NoContext /\ NewOutContext(e) = NoContext
BY DEF Plain, NewContext, NewOutContext

LEMMA PlainFinish ==
    ASSUME NEW e, Plain(e), NEW h
    PROVE  Plain(finish_kex(e, h))
<1> DEFINE sid == SessionId(e, h)
           c2s == <<"c2s", h, sid, e.negotiated.cipher>>
           s2c == <<"s2c", h, sid, e.negotiated.cipher>>
           p == IF e.role = "client" THEN [some |-> TRUE, out |-> c2s, inn |-> s2c]
                                     ELSE [some |-> TRUE, out |-> s2c, inn |-> c2s]
           n == e.negotiated.comp
           r == [e EXCEPT !.session_id = sid, !.pending = p, !.comp_name = n]
<1>1. finish_kex(e, h) = r
  BY DEF finish_kex
<1>2. n = e.comp_name
  BY DEF Plain
<1> HIDE DEF p, sid, n
<1>3. DOMAIN r = Fields /\ r.comp_name = n /\ \A x \in PlainFields \ {"comp_name"} : r[x] = e[x]
  BY DEF Plain, Fields, PlainFields
<1> HIDE DEF r
<1>4. \A x \in PlainFields : r[x] = e[x]
  BY <1>2, <1>3 DEF PlainFields
<1> QED
  BY <1>1, <1>3, <1>4, PlainSame

LEMMA PlainSendNewkeys ==
    ASSUME NEW e, Plain(e)
    PROVE  Plain(send_newkeys(e))
<1> DEFINE m == Msg("NEWKEYS", 0)
           w == write_packet(e, m)
           k == NewOutKey(w)
           c == NewOutContext(w)
           n == SeqAfterNewkeys(w)
           r == [w EXCEPT !.cipher_out = k, !.pending.out = NoKey, !.comp_out = c,
                          !.tx_seq = n, !.sent_newkeys = TRUE]
<1>1. send_newkeys(e) = maybe_complete_kex(r)
  BY DEF send_newkeys
<1>2. PlainMsg(m)
  BY DEF PlainMsg, Msg
<1> HIDE DEF m
<1>3. Plain(w)
  BY <1>2, PlainWrite
<1> HIDE DEF w
<1>4. c = w.comp_out
  BY <1>3, PlainContext DEF Plain
<1> HIDE DEF k, c, n
<1>5. DOMAIN r = Fields /\ r.comp_out = c /\ \A x \in PlainFields \ {"comp_out"} : r[x] = w[x]
  BY <1>3 DEF Plain, Fields, PlainFields
<1> HIDE DEF r
<1>6. \A x \in PlainFields : r[x] = w[x]
  BY <1>4, <1>5 DEF PlainFields
<1> QED
  BY <1>1, <1>3, <1>5, <1>6, PlainSame, PlainComplete

LEMMA PlainFail ==
    ASSUME NEW e, Plain(e), NEW why
    PROVE  Plain(Fail(e, why))
<1> DEFINE r == Fail(e, why)
<1>1. DOMAIN r = Fields /\ \A x \in PlainFields : r[x] = e[x]
  BY DEF Fail, Plain, Fields, PlainFields
<1> HIDE DEF r
<1>2. Plain(r)
  BY <1>1, PlainSame
<1> QED
  BY <1>2 DEF r

LEMMA PlainOnNewkeys ==
    ASSUME NEW e, Plain(e)
    PROVE  Plain(on_newkeys(e))
<1> DEFINE k == e.pending.inn
           c == IF e.comp_active THEN NewContext(e) ELSE e.comp_in
           n == IF e.strict_kex THEN 0 ELSE e.rx_seq
           r == [e EXCEPT !.cipher_in = k, !.pending.inn = NoKey, !.comp_in = c,
                          !.rx_seq = n, !.recv_newkeys = TRUE]
           f == Fail(e, "NEWKEYS before key exchange")
<1>1. on_newkeys(e) = f \/ on_newkeys(e) = maybe_complete_kex(r)
  BY DEF on_newkeys
<1>2. Plain(f)
  BY PlainFail
<1>3. c = e.comp_in
  BY PlainContext DEF Plain
<1> HIDE DEF k, c, n, f
<1>4. DOMAIN r = Fields /\ r.comp_in = c /\ \A x \in PlainFields \ {"comp_in"} : r[x] = e[x]
  BY DEF Plain, Fields, PlainFields
<1> HIDE DEF r
<1>5. \A x \in PlainFields : r[x] = e[x]
  BY <1>3, <1>4 DEF PlainFields
<1> QED
  BY <1>1, <1>2, <1>4, <1>5, PlainSame, PlainComplete

LEMMA PlainPick == pick(COMPRESSIONS, COMPRESSIONS) = "none"
<1> DEFINE z == COMPRESSIONS
           I == {i \in 1..Len(z) : Contains(z, z[i])}
           b == IF I # {} THEN Min(I) ELSE 0
<1>1. pick(z, z) = IF b = 0 THEN "" ELSE z[b]
  BY DEF pick, SelectInSeq
<1>2. Len(z) = 2 /\ z[1] = "none"
  BY DEF COMPRESSIONS
<1>3. Contains(z, z[1])
  BY <1>2 DEF Contains
<1>4. 1 \in I /\ I \subseteq 1..2
  BY <1>2, <1>3
<1> HIDE DEF I
<1>5. Min(I) = 1
  <2>1. 1 \in I /\ \A y \in I : 1 =< y
    BY <1>4
  <2>2. Min(I) \in I /\ \A y \in I : Min(I) =< y
    BY <2>1 DEF Min
  <2>3. ASSUME NEW v \in 1..2, v =< 1 PROVE v = 1
    BY <2>3
  <2> QED
    BY <1>4, <2>2, <2>3, Zenon
<1>6. b = 1
  BY <1>4, <1>5
<1> HIDE DEF b, z
<1>7. pick(z, z) = "none"
  BY <1>1, <1>2, <1>6
<1> QED
  BY <1>7 DEF z

LEMMA PlainOnKexinit ==
    ASSUME NEW e, Plain(e), NEW m, m.arg.comp = COMPRESSIONS
    PROVE  Plain(on_peer_kexinit(e, m))
<1> DEFINE n       == e.consecutive_peer_rekeys + 1
           counted == [e EXCEPT !.consecutive_peer_rekeys = n]
           idle    == PeerBegins(e)
           round   == IF idle THEN begin_rekey_round(counted) ELSE e
           local   == ours_with(e.role, round.local_kexinit, e.offered_ciphers, e.offered_compression)
           agreed  == Agreed(e.role, local, m.arg)
           strict  == IF round.initial_kex_done THEN round.strict_kex
                      ELSE \E role \in Roles \ {e.role} : Contains(m.arg.kex, StrictName(role))
           c       == m.arg.cookie
           known   == [round EXCEPT !.peer_kexinit = c, !.negotiated = agreed, !.strict_kex = strict]
           q_c     == known.rng + 1
           drawn   == [known EXCEPT !.rng = q_c]
           init    == Msg("ECDH_INIT", q_c)
           w       == write_packet(drawn, init)
           sent    == [w EXCEPT !.kex_eph = q_c]
           r       == on_peer_kexinit(e, m)
<1>1. r \in {disconnect(counted), Fail(round, "no common algorithm"), sent, known}
  BY DEF on_peer_kexinit
<1> HIDE DEF r
<1>2. DOMAIN counted = Fields /\ \A x \in PlainFields : counted[x] = e[x]
  BY DEF Plain, Fields, PlainFields
<1>3. Plain(counted)
  <2> HIDE DEF counted
  <2> QED
    BY <1>2, PlainSame
<1> HIDE DEF counted
<1>4. Plain(round)
  BY <1>3, PlainBegin
<1> HIDE DEF round
<1>5. agreed.comp = "none"
  <2>1. local.comp = COMPRESSIONS
    BY DEF ours_with, Plain
  <2> HIDE DEF local
  <2>2. negotiate(local, m.arg).comp = "none" /\ negotiate(m.arg, local).comp = "none"
    BY <2>1, PlainPick DEF negotiate
  <2> QED
    BY <2>2 DEF Agreed
<1> HIDE DEF agreed, strict, c
<1>6. /\ DOMAIN known = Fields /\ known.negotiated = agreed
      /\ \A x \in PlainFields \ {"negotiated"} : known[x] = round[x]
  BY <1>4 DEF Plain, Fields, PlainFields
<1> HIDE DEF known
<1>7. Plain(known)
  <2>1. /\ known.tx = round.tx /\ known.tx_app_queue = round.tx_app_queue
        /\ known.comp_in = round.comp_in /\ known.comp_out = round.comp_out
        /\ known.comp_name = round.comp_name
        /\ known.offered_compression = round.offered_compression
    BY <1>6 DEF PlainFields
  <2> QED
    BY <1>4, <1>5, <1>6, <2>1 DEF Plain
<1> HIDE DEF q_c
<1>8. DOMAIN drawn = Fields /\ \A x \in PlainFields : drawn[x] = known[x]
  BY <1>7 DEF Plain, Fields, PlainFields
<1> HIDE DEF drawn
<1>9. PlainMsg(init)
  BY DEF PlainMsg, Msg
<1> HIDE DEF init
<1>10. Plain(w)
  BY <1>7, <1>8, <1>9, PlainSame, PlainWrite
<1> HIDE DEF w
<1>11. DOMAIN sent = Fields /\ \A x \in PlainFields : sent[x] = w[x]
  BY <1>10 DEF Plain, Fields, PlainFields
<1> HIDE DEF sent
<1>12. Plain(sent) /\ Plain(disconnect(counted)) /\ Plain(Fail(round, "no common algorithm"))
  BY <1>3, <1>4, <1>10, <1>11, PlainSame, PlainDisconnect, PlainFail
<1>13. Plain(r)
  BY <1>1, <1>7, <1>12
<1> QED
  BY <1>13 DEF r

LEMMA PlainOnInit ==
    ASSUME NEW e, Plain(e), NEW m
    PROVE  Plain(on_ecdh_init(e, m))
<1> DEFINE q_s == e.rng + 1
           h   == compute_exchange_hash(e, m.arg, q_s)
           a   == [e EXCEPT !.rng = q_s]
           y   == Msg("ECDH_REPLY", [q_s |-> q_s, signed |-> h])
           w   == write_packet(a, y)
           f   == finish_kex(w, h)
<1>1. on_ecdh_init(e, m) \in {Fail(e, "missing peer kexinit"), send_newkeys(f)}
  BY DEF on_ecdh_init
<1>2. PlainMsg(y)
  BY DEF PlainMsg, Msg
<1> HIDE DEF y, h, q_s
<1>3. DOMAIN a = Fields /\ \A x \in PlainFields : a[x] = e[x]
  BY DEF Plain, Fields, PlainFields
<1> HIDE DEF a
<1>4. Plain(w)
  BY <1>2, <1>3, PlainSame, PlainWrite
<1> HIDE DEF w
<1>5. Plain(f)
  BY <1>4, PlainFinish
<1> HIDE DEF f
<1>6. Plain(send_newkeys(f)) /\ Plain(Fail(e, "missing peer kexinit"))
  BY <1>5, PlainSendNewkeys, PlainFail
<1> QED
  BY <1>1, <1>6

LEMMA PlainOnReply ==
    ASSUME NEW e, Plain(e), NEW m
    PROVE  Plain(on_ecdh_reply(e, m))
<1> DEFINE h == compute_exchange_hash(e, e.kex_eph, m.arg.q_s)
           a == [e EXCEPT !.kex_eph = 0]
           f == finish_kex(a, h)
<1>1. on_ecdh_reply(e, m) \in {Fail(e, "KEX_ECDH_REPLY before INIT"), Fail(e, "host key signature"),
                               send_newkeys(f)}
  BY DEF on_ecdh_reply
<1>2. DOMAIN a = Fields /\ \A x \in PlainFields : a[x] = e[x]
  BY DEF Plain, Fields, PlainFields
<1> HIDE DEF a, h
<1>3. Plain(f)
  BY <1>2, PlainSame, PlainFinish
<1> HIDE DEF f
<1>4. /\ Plain(send_newkeys(f)) /\ Plain(Fail(e, "KEX_ECDH_REPLY before INIT"))
      /\ Plain(Fail(e, "host key signature"))
  BY <1>3, PlainSendNewkeys, PlainFail
<1> QED
  BY <1>1, <1>4

LEMMA PlainHandle ==
    ASSUME NEW e, Plain(e), NEW m, PlainMsg(m)
    PROVE  Plain(handle_packet(e, m))
<1> DEFINE d == [e EXCEPT !.peer_disconnected = TRUE]
           q == Append(e.events, m.arg)
           v == [e EXCEPT !.consecutive_peer_rekeys = 0, !.events = q]
           r == handle_packet(e, m)
<1>1. Plain(d)
  <2>1. DOMAIN d = Fields /\ \A x \in PlainFields : d[x] = e[x]
    BY DEF Plain, Fields, PlainFields
  <2> HIDE DEF d
  <2> QED
    BY <2>1, PlainSame
<1>2. Plain(v)
  <2> HIDE DEF q
  <2>1. DOMAIN v = Fields /\ \A x \in PlainFields : v[x] = e[x]
    BY DEF Plain, Fields, PlainFields
  <2> HIDE DEF v
  <2> QED
    BY <2>1, PlainSame
<1>3. Plain(Fail(e, "unexpected message during strict KEX"))
      /\ Plain(Fail(e, "unexpected message during handshake"))
  BY PlainFail
<1>4. Plain(on_ecdh_init(e, m)) /\ Plain(on_ecdh_reply(e, m)) /\ Plain(on_newkeys(e))
  BY PlainOnInit, PlainOnReply, PlainOnNewkeys
<1>5. m.id = "KEXINIT" => Plain(on_peer_kexinit(e, m))
  BY PlainOnKexinit DEF PlainMsg
<1>6. Deliver(e, m) = v
  BY DEF Deliver
<1> HIDE DEF d, v
<1>7. \/ r \in {Fail(e, "unexpected message during strict KEX"),
                Fail(e, "unexpected message during handshake"),
                e, d, on_ecdh_init(e, m), on_ecdh_reply(e, m), on_newkeys(e), v}
      \/ m.id = "KEXINIT" /\ r = on_peer_kexinit(e, m)
  BY <1>6 DEF handle_packet, d
<1> HIDE DEF r
<1>8. Plain(r)
  BY <1>1, <1>2, <1>3, <1>4, <1>5, <1>7
<1> QED
  BY <1>8 DEF r

LEMMA PlainDrive ==
    ASSUME NEW e, Plain(e), NEW f, PlainFrame(f)
    PROVE  Plain(drive(e, f)) /\ e.comp_in = f.comp
<1> DEFINE n       == NextSeq(e.rx_seq)
           p       == e.rx_packets_since_rekey + 1
           opened  == [e EXCEPT !.rx_seq = n, !.rx_packets_since_rekey = p]
           c       == IF opened.comp_in = NoContext THEN opened.comp_in ELSE opened.comp_in + 1
           plain   == [opened EXCEPT !.comp_in = c]
           handled == handle_packet(plain, f.msg)
           active  == IF /\ handled.role = "client" /\ ~handled.comp_active
                         /\ handled.comp_name = "zlib"
                         /\ f.msg.id = "USERAUTH_SUCCESS"
                      THEN activate_compression(handled) ELSE handled
           greeted == [e EXCEPT !.phase = "Handshake"]
           r       == drive(e, f)
<1>1. r \in {greeted, Fail(e, "open"), Fail(opened, "epoch packet limit"),
             Fail(opened, "decompress"), active, initiate_rekey(active)}
  BY DEF drive
<1> HIDE DEF r
<1>2. DOMAIN opened = Fields /\ \A x \in PlainFields : opened[x] = e[x]
  <2> HIDE DEF n, p
  <2> QED
    BY DEF Plain, Fields, PlainFields
<1>3. DOMAIN greeted = Fields /\ \A x \in PlainFields : greeted[x] = e[x]
  BY DEF Plain, Fields, PlainFields
<1> HIDE DEF opened, greeted
<1>4. Plain(opened) /\ Plain(greeted)
  BY <1>2, <1>3, PlainSame
<1>5. Plain(plain)
  <2>1. c = opened.comp_in
    BY <1>4 DEF Plain
  <2> HIDE DEF c
  <2>2. DOMAIN plain = Fields /\ plain.comp_in = c /\ \A x \in PlainFields \ {"comp_in"} : plain[x] = opened[x]
    BY <1>4 DEF Plain, Fields, PlainFields
  <2> HIDE DEF plain
  <2>3. \A x \in PlainFields : plain[x] = opened[x]
    BY <2>1, <2>2 DEF PlainFields
  <2> QED
    BY <1>4, <2>2, <2>3, PlainSame
<1> HIDE DEF plain
<1>6. Plain(handled)
  BY <1>5, PlainHandle DEF PlainFrame
<1> HIDE DEF handled
<1>7. active = handled
  BY <1>6 DEF Plain
<1> HIDE DEF active
<1>8. Plain(active) /\ Plain(initiate_rekey(active))
  BY <1>6, <1>7, PlainInitiate
<1>9. Plain(Fail(e, "open")) /\ Plain(Fail(opened, "epoch packet limit")) /\ Plain(Fail(opened, "decompress"))
  BY <1>4, PlainFail
<1>10. Plain(r)
  BY <1>1, <1>4, <1>8, <1>9
<1>11. e.comp_in = f.comp
  BY DEF Plain, PlainFrame
<1> QED
  BY <1>10, <1>11 DEF r

\* No endpoint prefers compression: neither uses it, and neither has failed
\* over it.
PlainInv == \A r \in Roles : Plain(ep[r]) /\ ep[r].err # "decompress"

LEMMA PlainStart ==
    ASSUME NEW role \in Roles, NEW ciphers \in CipherLists
    PROVE  LET r == start(role, ciphers, COMPRESSIONS)
           IN  Plain(r) /\ r.err = "none"
<1>1. PICK b : start(role, ciphers, COMPRESSIONS) = send_kexinit(b)
               /\ Blank(b, role, ciphers, COMPRESSIONS)
  BY StartFrom, CompListsOK
<1>2. VersionLine.comp = NoContext /\ PlainMsg(VersionLine.msg)
  BY DEF VersionLine, Msg, PlainMsg
<1>3. /\ b.comp_in = NoContext /\ b.comp_out = NoContext /\ b.comp_name = "none"
      /\ b.negotiated.comp = "none" /\ b.offered_compression = COMPRESSIONS
      /\ Len(b.tx) = 1 /\ b.tx[1] = VersionLine /\ Shape(b)
  BY <1>1 DEF Blank, Calm
<1>4. \A i \in 1..Len(b.tx) : PlainFrame(b.tx[i])
  <2>1. \A i \in 1..Len(b.tx) : b.tx[i] = VersionLine
    BY <1>3
  <2> QED
    BY <1>2, <2>1 DEF PlainFrame
<1>5. Plain(b)
  BY <1>3, <1>4 DEF Plain, Shape
<1>6. start(role, ciphers, COMPRESSIONS).err = "none"
  <2>1. COMPRESSIONS \in CompLists /\ IsSeq(b.tx)
    BY <1>3 DEF CompLists, Shape
  <2> QED
    BY <2>1, CompListsOK, StartStands
<1> QED
  BY <1>1, <1>5, <1>6, PlainKexinit

LEMMA PlainInit ==
    ASSUME Compression \subseteq {"none"}
    PROVE  Init => PlainInv
<1> SUFFICES ASSUME Init, NEW r \in Roles PROVE Plain(ep[r]) /\ ep[r].err # "decompress"
  BY DEF PlainInv
<1>1. PICK name \in Compression :
          ep = [q \in Roles |-> IF q = "server" THEN start(q, CIPHERS, COMPRESSIONS)
                                ELSE ClientStart(name)]
  BY DEF Init
<1>2. name # "zlib"
  OBVIOUS
<1>3. ClientStart(name) = start("client", CIPHERS, COMPRESSIONS)
  BY <1>2 DEF ClientStart
<1>4. ep[r] = start(r, CIPHERS, COMPRESSIONS)
  BY <1>1, <1>3 DEF Roles
<1>5. CIPHERS \in CipherLists
  BY DEF CipherLists
<1> QED
  BY <1>4, <1>5, PlainStart

LEMMA PlainReceive ==
    ASSUME PairInv, OrderInv, PlainInv, NEW r \in Roles, Receive(r)
    PROVE  LET x == drive(ep[r], ep[Peer(r)].tx[taken[Peer(r)] + 1])
           IN  Plain(x) /\ x.err # "decompress"
<1> DEFINE p == Peer(r)
           k == taken[p]
           d == ep[p]
           e == ep[r]
           x == drive(e, d.tx[k + 1])
<1>1. p \in Roles /\ p # r /\ Peer(p) = r
  BY Peers
<1>2. e.err = "none" /\ ~e.closing /\ k < Len(d.tx)
  BY DEF Receive, ReadNext, Running
<1> HIDE DEF p
<1>3. EndInv(e) /\ EndInv(d) /\ Faces(d, e) /\ IsSeq(d.tx) /\ k \in 0..Len(d.tx)
  <2>1. EndInv(e) /\ EndInv(d) /\ e.role = r /\ d.role = p /\ k \in 0..Len(d.tx)
    BY <1>1 DEF PairInv, EndsInv
  <2> HIDE DEF e, d, k
  <2>2. Faces(d, e) /\ IsSeq(d.tx)
    BY <1>1, <2>1 DEF EndInv, Shape, Faces
  <2> QED
    BY <2>1, <2>2
<1>4. k \in Nat /\ k + 1 \in 1..Len(d.tx)
  BY <1>2, <1>3 DEF IsSeq
<1>5. FrameOK(d.tx[k + 1])
  BY <1>3, <1>4 DEF EndInv, Shape
<1>6. Stands(e, d.tx, k) /\ LogOK(d, e.tx) /\ ~Stopped(e)
  <2>1. Seat(e, d, k, calls[r].disconnect) /\ Seat(d, e, taken[r], calls[p].disconnect)
    BY <1>1 DEF OrderInv, p
  <2> HIDE DEF e, d, k
  <2> QED
    BY <1>2, <2>1 DEF Seat, Stands, Stopped
<1>7. Plain(e) /\ PlainFrame(d.tx[k + 1])
  <2>1. Plain(e) /\ Plain(d)
    BY <1>1 DEF PlainInv
  <2> HIDE DEF e, d, k
  <2> QED
    BY <1>4, <2>1 DEF Plain
<1> HIDE DEF d, e, k
<1>8. Drives(e, d.tx, k, x)
  BY <1>2, <1>3, <1>4, <1>5, <1>6, DriveStands
<1>9. Plain(x) /\ e.comp_in = d.tx[k + 1].comp
  BY <1>7, PlainDrive
<1> HIDE DEF x
<1>10. x.err # "decompress"
  BY <1>8, <1>9 DEF Drives
<1> QED
  BY <1>9, <1>10 DEF x, d, e, k, p

LEMMA PlainKept ==
    ASSUME DOMAIN ep = Roles, PlainInv, NEW r \in Roles, NEW x, Plain(x), x.err # "decompress",
           ep' = [ep EXCEPT ![r] = x]
    PROVE  PlainInv'
<1>1. \A q \in Roles : ep'[q] = x \/ ep'[q] = ep[q]
  OBVIOUS
<1>2. \A q \in Roles : Plain(ep'[q]) /\ ep'[q].err # "decompress"
  BY <1>1 DEF PlainInv
<1> QED
  BY <1>2 DEF PlainInv

LEMMA PlainNext == PairInv /\ OrderInv /\ PlainInv /\ [Next]_vars => PlainInv'
<1> SUFFICES ASSUME PairInv, OrderInv, PlainInv, [Next]_vars PROVE PlainInv'
  OBVIOUS
<1>0. /\ DOMAIN ep = Roles
      /\ \A q \in Roles : Shape(ep[q]) /\ IsSeq(ep[q].tx) /\ taken[q] \in 0..Len(ep[q].tx)
  BY DEF PairInv, EndsInv, EndInv, Shape
<1>1. ASSUME NEW r \in Roles, Receive(r) PROVE PlainInv'
  <2> DEFINE x == drive(ep[r], ep[Peer(r)].tx[taken[Peer(r)] + 1])
  <2>1. ep' = [ep EXCEPT ![r] = x]
    BY <1>1 DEF Receive
  <2>2. Plain(x) /\ x.err # "decompress"
    BY <1>1, PlainReceive
  <2> HIDE DEF x
  <2> QED
    BY <1>0, <1>1, <2>1, <2>2, PlainKept
<1>2. ASSUME NEW r \in Roles
      PROVE  /\ Peer(r) \in Roles /\ Stands(ep[r], ep[Peer(r)].tx, taken[Peer(r)])
             /\ IsSeq(ep[Peer(r)].tx) /\ taken[Peer(r)] \in 0..Len(ep[Peer(r)].tx) /\ Plain(ep[r])
  BY <1>0, Peers DEF OrderInv, Seat, PlainInv
<1>3. ASSUME NEW r \in Roles, SendApp(r) PROVE PlainInv'
  <2>1. PICK id \in Deferred :
           /\ Running(r) /\ ep[r].phase = "Established"
           /\ ep' = [ep EXCEPT ![r] = send_packet(@, Msg(id, accepted[r] + 1))]
    BY <1>3 DEF SendApp, Deferred, AppIds
  <2> DEFINE m == Msg(id, accepted[r] + 1)
             x == send_packet(ep[r], m)
  <2>2. m.id \in Deferred
    BY DEF Msg
  <2> HIDE DEF m
  <2>3. Carries(ep[r], x)
    BY <1>0, <1>2, <1>3, <2>1, <2>2, SendPacketOwn DEF Running
  <2>4. Plain(x)
    BY <1>2, <1>3, <2>2, PlainSend
  <2>5. ep' = [ep EXCEPT ![r] = x]
    BY <2>1 DEF m
  <2> HIDE DEF x
  <2>6. x.err # "decompress"
    BY <2>1, <2>3 DEF Carries, Running
  <2> QED
    BY <1>0, <1>3, <2>4, <2>5, <2>6, PlainKept
<1>4. ASSUME NEW r \in Roles, send_chaff(r) PROVE PlainInv'
  <2> DEFINE m == Msg("IGNORE", calls[r].chaff + 1)
             x == send_packet(ep[r], m)
  <2>1. Running(r) /\ ep[r].phase = "Established" /\ ep' = [ep EXCEPT ![r] = x]
    BY <1>4 DEF send_chaff
  <2>2. m.id \in Deferred
    BY DEF Msg, Deferred
  <2> HIDE DEF m
  <2>3. Carries(ep[r], x)
    BY <1>0, <1>2, <1>4, <2>1, <2>2, SendPacketOwn DEF Running
  <2>4. Plain(x)
    BY <1>2, <1>4, <2>2, PlainSend
  <2> HIDE DEF x
  <2>5. x.err # "decompress"
    BY <2>1, <2>3 DEF Carries, Running
  <2> QED
    BY <1>0, <1>4, <2>1, <2>4, <2>5, PlainKept
<1>5. ASSUME NEW r \in Roles, InitiateRekey(r) PROVE PlainInv'
  <2> DEFINE x == initiate_rekey(ep[r])
  <2>1. Running(r) /\ ep' = [ep EXCEPT ![r] = x]
    BY <1>5 DEF InitiateRekey
  <2>2. Carries(ep[r], x)
    BY <1>0, <1>2, <1>5, <2>1, InitiateOwn DEF Running
  <2>3. Plain(x)
    BY <1>2, <1>5, PlainInitiate
  <2> HIDE DEF x
  <2>4. x.err # "decompress"
    BY <2>1, <2>2 DEF Carries, Running
  <2> QED
    BY <1>0, <1>5, <2>1, <2>3, <2>4, PlainKept
<1>6. ASSUME NEW r \in Roles, Disconnect(r) PROVE PlainInv'
  <2> DEFINE x == disconnect(ep[r])
             p == Peer(r)
  <2>1. ep[r].err = "none" /\ ~ep[r].closing /\ ep' = [ep EXCEPT ![r] = x]
    BY <1>6 DEF Disconnect, Running
  <2>2. p \in Roles /\ Seat(ep[r], ep[p], taken[p], calls[r].disconnect)
    BY <1>6, Peers DEF OrderInv
  <2> HIDE DEF p
  <2>3. x.err = "none"
    BY <1>0, <1>6, <2>1, <2>2, SeatDisconnect
  <2>4. Plain(x)
    BY <1>2, <1>6, PlainDisconnect
  <2> HIDE DEF x
  <2> QED
    BY <1>0, <1>6, <2>1, <2>3, <2>4, PlainKept
<1>7. CASE UNCHANGED vars
  BY <1>7 DEF vars, PlainInv
<1> QED
  BY <1>1, <1>3, <1>4, <1>5, <1>6, <1>7 DEF Next

\* Whatever two endpoints of this code do to each other, only two failures are
\* left: a compressed frame the receiver's context does not fit, or an epoch
\* that the peer, which has closed over it, has used up.  No frame fails to
\* open, no key-exchange message comes out of turn, no signature or algorithm
\* is refused (drive, handle_packet and the key-exchange handlers).
THEOREM FailuresExplained ==
    Spec => [](\A r \in Roles : \/ ep[r].err \in {"none", "decompress"}
                                \/ ep[r].err = "epoch packet limit" /\ Exhausted(ep[Peer(r)]))
<1>1. OrderInv => \A r \in Roles : \/ ep[r].err \in {"none", "decompress"}
                                   \/ ep[r].err = "epoch packet limit" /\ Exhausted(ep[Peer(r)])
  BY DEF OrderInv, Seat
<1> QED
  BY <1>1, KeyExchangeOrder, PTL

\* If the client lists no compression first, so that none is negotiated, the
\* endpoints never make each other fail, as long as neither uses up a key epoch:
\* every frame opens under the receiver's key and number, and every key-exchange
\* message arrives where it is expected, however re-keys, packets and chaff cross
\* on the wire (negotiate, drive, handle_packet).
THEOREM UncompressedNeverFails ==
    ASSUME Compression \subseteq {"none"}
    PROVE  Spec => []((\A r \in Roles : ~Exhausted(ep[r])) => NoEndpointFails)
<1>1. Init => PlainInv
  BY PlainInit
<1>2. PairInv /\ OrderInv /\ PlainInv /\ [Next]_vars => PlainInv'
  BY PlainNext
<1>3. OrderInv /\ PlainInv => ((\A r \in Roles : ~Exhausted(ep[r])) => NoEndpointFails)
  <2> SUFFICES ASSUME OrderInv, PlainInv, \A r \in Roles : ~Exhausted(ep[r]), NEW r \in Roles
               PROVE  ep[r].err = "none"
    BY DEF NoEndpointFails
  <2>1. Peer(r) \in Roles
    BY Peers
  <2> QED
    BY <2>1 DEF OrderInv, Seat, PlainInv
<1> QED
  BY <1>1, <1>2, <1>3, TransportInvariant, KeyExchangeOrder, PTL DEF Spec

--------------------------------------------------------------------------------
(* The pipes of the layer above *)

LEMMA ReadHead ==
    ASSUME NEW a, NEW s, IsSeq(s), NEW h, h = Append(<<>>, a) \o s
    PROVE  h # <<>> /\ Head(h) = a /\ Tail(h) = s
<1>1. PICK S : s \in Seq(S)
  BY DEF IsSeq
<1> DEFINE U == S \cup {a}
           b == Append(<<>>, a)
<1>2. s \in Seq(U) /\ b \in Seq(U) /\ Len(b) = 1 /\ b[1] = a
  BY <1>1
<1> HIDE DEF b, U
<1>3. h = b \o s
  BY DEF b
<1>4. h \in Seq(U) /\ Len(h) = 1 + Len(s) /\ h[1] = a /\ \A i \in 1..Len(s) : h[1 + i] = s[i]
  BY <1>2, <1>3
<1>5. Len(s) \in Nat
  BY <1>2
<1>6. h # <<>> /\ Head(h) = a
  BY <1>4, <1>5
<1>7. Tail(h) \in Seq(U) /\ Len(Tail(h)) = Len(s) /\ \A i \in 1..Len(s) : Tail(h)[i] = h[i + 1]
  BY <1>4, <1>5, <1>6
<1>8. Tail(h) = s
  <2>1. \A i \in 1..Len(s) : Tail(h)[i] = s[i]
    BY <1>4, <1>5, <1>7
  <2>2. IsSeq(Tail(h))
    BY <1>7, SeqIsSeq
  <2> QED
    BY <1>7, <2>1, <2>2, SameSeq
<1> QED
  BY <1>6, <1>8

LEMMA InFlightAhead ==
    ASSUME NEW r
    PROVE  InFlight(r) = Ahead(ep[r], taken[r]) /\ InFlight(r)' = Ahead(ep'[r], taken'[r])
<1>1. InFlight(r) = Ahead(ep[r], taken[r])
  BY Zenon DEF InFlight, Ahead, Flight, Unread, Queued
<1>2. InFlight(r)' = Ahead(ep'[r], taken'[r])
  BY Zenon DEF InFlight, Ahead, Flight, Unread, Queued
<1> QED
  BY <1>1, <1>2

\* r's state of closing after a step is one it may have.
LEMMA PipeMayStop ==
    ASSUME NEW r \in Roles, \A q \in Roles : ep[q].closing \in BOOLEAN /\ ep'[q].closing \in BOOLEAN,
           \A q \in Roles \ {r} : ep'[q].closing = ep[q].closing, ep[r].closing => ep'[r].closing
    PROVE  Pipe!MayStop(r)
<1> DEFINE C == [q \in Roles |-> ep[q].closing]
           B == [q \in Roles |-> ep'[q].closing]
           E == [C EXCEPT ![r] = TRUE]
<1>1. CASE ep'[r].closing = ep[r].closing
  <2>1. \A q \in Roles : ep'[q].closing = ep[q].closing
    BY <1>1
  <2>2. B = C
    BY <2>1
  <2> QED
    BY <2>2 DEF Pipe!MayStop
<1>2. CASE ep'[r].closing # ep[r].closing
  <2>1. ep'[r].closing = TRUE
    BY <1>2
  <2>2. \A q \in Roles : B[q] = E[q]
    <3> TAKE q \in Roles
    <3>1. CASE q = r
      BY <2>1, <3>1
    <3>2. CASE q # r
      BY <3>2
    <3> QED
      BY <3>1, <3>2
  <2>3. B = E
    BY <2>2
  <2> QED
    BY <2>3 DEF Pipe!MayStop
<1> QED
  BY <1>1, <1>2

\* In a step in which only r acts, its pipe, and only its pipe, is p instead.
LEMMA PipeUpdate ==
    ASSUME NEW r \in Roles, NEW p, InFlight(r)' = p, \A q \in Roles \ {r} : InFlight(q)' = InFlight(q)
    PROVE  [q \in Roles |-> InFlight(q)]' = [[q \in Roles |-> InFlight(q)] EXCEPT ![r] = p]
<1> DEFINE P == [q \in Roles |-> InFlight(q)]
           N == [q \in Roles |-> InFlight(q)']
           E == [P EXCEPT ![r] = p]
<1>1. \A q \in Roles : N[q] = E[q]
  <2> TAKE q \in Roles
  <2>1. CASE q = r
    BY <2>1
  <2>2. CASE q # r
    BY <2>2
  <2> QED
    BY <2>1, <2>2
<1>2. N = E
  BY <1>1
<1> QED
  BY <1>2

LEMMA PipeCloses ==
    ASSUME NEW r \in Roles, accepted' = accepted, \A q \in Roles : ep'[q].events = ep[q].events,
           \A q \in Roles \ {r} : ep'[q].closing = ep[q].closing, ep'[r].closing = TRUE,
           Cut(InFlight(r)', InFlight(r)), \A q \in Roles \ {r} : InFlight(q)' = InFlight(q)
    PROVE  Pipe!Close(r)
<1> DEFINE C == [q \in Roles |-> ep[q].closing]
           B == [q \in Roles |-> ep'[q].closing]
           E == [C EXCEPT ![r] = TRUE]
           P == [q \in Roles |-> InFlight(q)]
           D == [q \in Roles |-> ep[q].events]
           V == [q \in Roles |-> ep'[q].events]
<1>1. B = E
  <2>1. \A q \in Roles : B[q] = E[q]
    <3> TAKE q \in Roles
    <3>1. CASE q = r
      BY <3>1
    <3>2. CASE q # r
      BY <3>2
    <3> QED
      BY <3>1, <3>2
  <2> QED
    BY <2>1
<1>2. V = D
  OBVIOUS
<1>3. PICK k \in 0..Len(InFlight(r)) : InFlight(r)' = SubSeq(InFlight(r), 1, k)
  BY DEF Cut
<1>4. P' = [P EXCEPT ![r] = SubSeq(InFlight(r), 1, k)]
  BY <1>3, PipeUpdate
<1>5. P[r] = InFlight(r)
  OBVIOUS
<1>6. k \in 0..Len(P[r]) /\ P' = [P EXCEPT ![r] = SubSeq(P[r], 1, k)]
  BY <1>3, <1>4, <1>5
<1>7. \E n \in 0..Len(P[r]) : P' = [P EXCEPT ![r] = SubSeq(P[r], 1, n)]
  BY <1>6
<1> QED
  BY <1>1, <1>2, <1>7 DEF Pipe!Close

LEMMA PipeStutters ==
    ASSUME accepted' = accepted, \A q \in Roles : ep'[q].events = ep[q].events,
           \A q \in Roles : ep'[q].closing = ep[q].closing, \A q \in Roles : InFlight(q)' = InFlight(q)
    PROVE  UNCHANGED Pipe!vars
<1>1. [q \in Roles |-> InFlight(q)]' = [q \in Roles |-> InFlight(q)]
  OBVIOUS
<1>2. [q \in Roles |-> ep[q].events]' = [q \in Roles |-> ep[q].events]
  OBVIOUS
<1>3. [q \in Roles |-> ep[q].closing]' = [q \in Roles |-> ep[q].closing]
  OBVIOUS
<1> QED
  BY <1>1, <1>2, <1>3 DEF Pipe!vars

LEMMA PipeSends ==
    ASSUME NEW r \in Roles, accepted' = [accepted EXCEPT ![r] = @ + 1],
           \A q \in Roles : ep'[q].events = ep[q].events,
           InFlight(r)' = IF ep[r].closing THEN InFlight(r) ELSE Append(InFlight(r), accepted[r] + 1),
           \A q \in Roles \ {r} : InFlight(q)' = InFlight(q), Pipe!MayStop(r)
    PROVE  Pipe!Send(r)
<1> DEFINE C == [q \in Roles |-> ep[q].closing]
           P == [q \in Roles |-> InFlight(q)]
           D == [q \in Roles |-> ep[q].events]
           V == [q \in Roles |-> ep'[q].events]
           p == IF ep[r].closing THEN InFlight(r) ELSE Append(InFlight(r), accepted[r] + 1)
<1>1. V = D
  OBVIOUS
<1>2. P' = [P EXCEPT ![r] = p]
  <2>1. InFlight(r)' = p
    OBVIOUS
  <2> HIDE DEF p
  <2> QED
    BY <2>1, PipeUpdate
<1>3. P[r] = InFlight(r) /\ C[r] = ep[r].closing
  OBVIOUS
<1>4. p = IF C[r] THEN P[r] ELSE Append(P[r], accepted[r] + 1)
  BY <1>3
<1>5. P' = [P EXCEPT ![r] = IF C[r] THEN P[r] ELSE Append(P[r], accepted[r] + 1)]
  BY <1>2, <1>4
<1> QED
  BY <1>1, <1>5 DEF Pipe!Send

LEMMA PipeDelivers ==
    ASSUME NEW r \in Roles, accepted' = accepted, NEW a, NEW s, IsSeq(s),
           InFlight(Peer(r)) = Append(<<>>, a) \o s, InFlight(Peer(r))' = s,
           InFlight(r)' = InFlight(r), ep'[r].events = Append(ep[r].events, a),
           ep'[Peer(r)].events = ep[Peer(r)].events, Pipe!MayStop(r)
    PROVE  Pipe!Deliver(r)
<1> DEFINE P == [q \in Roles |-> InFlight(q)]
           D == [q \in Roles |-> ep[q].events]
           V == [q \in Roles |-> ep'[q].events]
           p == Peer(r)
           h == InFlight(p)
           v == Append(ep[r].events, a)
           E == [D EXCEPT ![r] = v]
<1>1. h # <<>> /\ Head(h) = a /\ Tail(h) = s
  BY ReadHead
<1>2. p \in Roles /\ p # r /\ \A q \in Roles : q = r \/ q = p
  BY Peers
<1>3. P[p] = h /\ D[r] = ep[r].events
  BY <1>2
<1>4. ep'[r].events = v /\ ep'[p].events = ep[p].events
  OBVIOUS
<1>5. InFlight(p)' = s /\ \A q \in Roles \ {p} : InFlight(q)' = InFlight(q)
  BY <1>2
<1>6. P' = [P EXCEPT ![p] = s]
  <2> HIDE DEF p
  <2> QED
    BY <1>2, <1>5, PipeUpdate
<1>7. V = E
  <2> HIDE DEF v, p
  <2>1. \A q \in Roles : V[q] = E[q]
    <3> TAKE q \in Roles
    <3>1. CASE q = r
      BY <1>4, <3>1
    <3>2. CASE q # r
      <4>1. q = p
        BY <1>2, <3>2
      <4> QED
        BY <1>4, <3>2, <4>1
    <3> QED
      BY <3>1, <3>2
  <2> QED
    BY <2>1
<1>8. v = Append(D[r], Head(P[p])) /\ s = Tail(P[p]) /\ P[p] # <<>>
  BY <1>1, <1>3
<1>9. /\ V = [D EXCEPT ![r] = Append(D[r], Head(P[p]))]
      /\ P' = [P EXCEPT ![p] = Tail(P[p])]
  BY <1>6, <1>7, <1>8
<1> QED
  BY <1>8, <1>9 DEF Pipe!Deliver

LEMMA PipeFlows ==
    ASSUME DOMAIN ep = Roles, \A q \in Roles : Piped(ep[q]), NEW r \in Roles, NEW x, Flows(ep[r], x),
           ep' = [ep EXCEPT ![r] = x], accepted' = accepted, taken'[r] = taken[r],
           taken[r] \in 0..Len(ep[r].tx), InFlight(Peer(r))' = InFlight(Peer(r))
    PROVE  [Pipe!Next]_(Pipe!vars)
<1> DEFINE e == ep[r]
           n == taken[r]
<1>1. ep'[r] = x /\ \A q \in Roles \ {r} : ep'[q] = ep[q]
  OBVIOUS
<1>2. \A q \in Roles \ {r} : q = Peer(r)
  BY Peers
<1>3. \A q \in Roles \ {r} : InFlight(q)' = InFlight(q)
  BY <1>2
<1>4. InFlight(r) = Ahead(e, n) /\ InFlight(r)' = Ahead(x, n)
  BY <1>1, InFlightAhead
<1>5. \A q \in Roles : ep'[q].events = ep[q].events
  BY <1>1 DEF Flows
<1>6. \A q \in Roles \ {r} : ep'[q].closing = ep[q].closing
  BY <1>1
<1>7. /\ e.closing \in BOOLEAN /\ x.closing \in BOOLEAN /\ (e.closing => x.closing)
      /\ Undisturbed(e, x, n)
  BY DEF Piped, Flows
<1>8. CASE e.closing = x.closing
  <2>1. InFlight(r)' = InFlight(r)
    BY <1>4, <1>7, <1>8 DEF Undisturbed
  <2>2. \A q \in Roles : InFlight(q)' = InFlight(q)
    BY <1>3, <2>1
  <2>3. \A q \in Roles : ep'[q].closing = ep[q].closing
    BY <1>1, <1>6, <1>8
  <2> QED
    BY <1>5, <2>2, <2>3, PipeStutters
<1>9. CASE e.closing # x.closing
  <2>1. x.closing = TRUE
    BY <1>7, <1>9
  <2>2. Cut(InFlight(r)', InFlight(r))
    BY <1>4, <1>7 DEF Undisturbed
  <2>3. ep'[r].closing = TRUE
    BY <1>1, <2>1
  <2>4. Pipe!Close(r)
    BY <1>3, <1>5, <1>6, <2>2, <2>3, PipeCloses
  <2> QED
    BY <2>4 DEF Pipe!Next
<1> QED
  BY <1>8, <1>9

\* Packets wait only at an endpoint that is exchanging keys, or has closed.
DrainInv == \A r \in Roles : Drained(ep[r])

\* One endpoint has moved on to x.
LEMMA DrainKept ==
    ASSUME DOMAIN ep = Roles, DrainInv, NEW r \in Roles, NEW x, Drained(x), ep' = [ep EXCEPT ![r] = x]
    PROVE  DrainInv'
<1>1. \A q \in Roles : ep'[q] = x \/ ep'[q] = ep[q]
  OBVIOUS
<1>2. \A q \in Roles : Drained(ep'[q])
  BY <1>1 DEF DrainInv
<1> QED
  BY <1>2 DEF DrainInv, Drained

\* What r reads next: a frame it has a branch for, or a packet.
LEMMA NextFrame ==
    ASSUME PairInv, OrderInv, NEW r \in Roles, Receive(r)
    PROVE  LET e == ep[r]
               d == ep[Peer(r)]
               k == taken[Peer(r)]
               f == d.tx[k + 1]
           IN  /\ k \in Nat /\ k + 1 \in 1..Len(d.tx)
               /\ e.phase = "NeedPeerVersion" <=> k = 0
               /\ k = 0 => f.msg.id \notin AppIds
               /\ k # 0 => Foreseen(e, f.msg) \/ f.msg.id \in AppIds
<1> DEFINE p == Peer(r)
           k == taken[p]
           d == ep[p]
           e == ep[r]
           f == d.tx[k + 1]
<1>1. p \in Roles /\ p # r /\ Peer(p) = r
  BY Peers
<1>2. e.err = "none" /\ ~e.closing /\ k < Len(d.tx)
  BY DEF Receive, ReadNext, Running
<1> HIDE DEF p
<1>3. EndInv(e) /\ EndInv(d) /\ Faces(d, e) /\ IsSeq(d.tx) /\ k \in 0..Len(d.tx)
  <2>1. EndInv(e) /\ EndInv(d) /\ e.role = r /\ d.role = p /\ k \in 0..Len(d.tx)
    BY <1>1 DEF PairInv, EndsInv
  <2> HIDE DEF e, d, k
  <2>2. Faces(d, e) /\ IsSeq(d.tx)
    BY <1>1, <2>1 DEF EndInv, Shape, Faces
  <2> QED
    BY <2>1, <2>2
<1>4. k \in Nat /\ k + 1 \in 1..Len(d.tx)
  BY <1>2, <1>3 DEF IsSeq
<1>5. Stands(e, d.tx, k) /\ LogOK(d, e.tx) /\ ~Stopped(e)
  <2>1. Seat(e, d, k, calls[r].disconnect) /\ Seat(d, e, taken[r], calls[p].disconnect)
    BY <1>1 DEF OrderInv, p
  <2> HIDE DEF e, d, k
  <2> QED
    BY <1>2, <2>1 DEF Seat, Stands, Stopped
<1> HIDE DEF d, e, k
<1>6. e.phase = "NeedPeerVersion" <=> k = 0
  BY <1>5 DEF Stands, Local, Flags
<1>7. ASSUME k = 0 PROVE f.msg.id \notin AppIds
  <2>1. d.tx[1].msg.id = "VERSION" /\ f = d.tx[1]
    BY <1>5, <1>7 DEF LogOK, Ordered
  <2> QED
    BY <2>1 DEF AppIds
<1>8. ASSUME k # 0 PROVE Foreseen(e, f.msg) \/ f.msg.id \in AppIds
  <2>1. k >= 1 /\ Steps(d.tx, k) \in Nat
    <3>1. Steps(d.tx, k) \in Nat
      BY <1>2, <1>3, <1>4, StepsType
    <3> QED
      BY <1>4, <1>8, <3>1
  <2>2. Follows(d.role, Steps(d.tx, k), f.msg)
    BY <1>2, <1>3, <1>4, <1>5, <2>1, FrameExpected
  <2> DEFINE m == f.msg
             n == Steps(d.tx, k)
  <2> HIDE DEF m, n
  <2>3. Follows(d.role, n, m) /\ n \in Nat
    BY <2>1, <2>2 DEF m, n
  <2>4. \/ m.id = "KEXINIT" \/ m.id = "NEWKEYS" \/ m.id = "DISCONNECT"
        \/ (m.id = "ECDH_INIT" /\ e.role = "server") \/ (m.id = "ECDH_REPLY" /\ e.role = "client")
        \/ m.id \in Deferred
    BY <1>3, <2>3, ExpectedMessage, Zenon
  <2>5. m.id \in Deferred => m.id = "IGNORE" \/ m.id \in AppIds
    BY DEF Deferred
  <2>6. Foreseen(e, m) \/ m.id \in AppIds
    BY <2>4, <2>5 DEF Foreseen
  <2> QED
    BY <2>6 DEF m
<1> HIDE DEF f
<1> QED
  BY <1>4, <1>6, <1>7, <1>8 DEF f, k, d, e, p

LEMMA PipeReceive ==
    ASSUME PairInv, OrderInv, DrainInv, NEW r \in Roles, Receive(r), NoEndpointFails'
    PROVE  [Pipe!Next]_(Pipe!vars) /\ DrainInv'
<1> DEFINE p == Peer(r)
           k == taken[p]
           d == ep[p]
           e == ep[r]
           f == d.tx[k + 1]
           m == f.msg
           x == drive(e, f)
           s == Ahead(d, k + 1)
<1>1. p \in Roles /\ p # r /\ Peer(p) = r /\ \A q \in Roles : q = r \/ q = p
  BY Peers
<1>2. ep' = [ep EXCEPT ![r] = x] /\ taken' = [taken EXCEPT ![p] = k + 1] /\ accepted' = accepted
  BY DEF Receive, ReadNext
<1>3. /\ k \in Nat /\ k + 1 \in 1..Len(d.tx)
      /\ e.phase = "NeedPeerVersion" <=> k = 0
      /\ k = 0 => m.id \notin AppIds
      /\ k # 0 => Foreseen(e, m) \/ m.id \in AppIds
  BY NextFrame
<1> HIDE DEF p
<1>4. /\ DOMAIN ep = Roles /\ DOMAIN taken = Roles
      /\ \A q \in Roles : Piped(ep[q]) /\ ep[q].closing \in BOOLEAN /\ taken[q] \in 0..Len(ep[q].tx)
  BY DEF PairInv, EndsInv, EndInv, Shape, Piped
<1> HIDE DEF x
<1>5. ep'[r] = x /\ ep'[p] = d /\ taken'[r] = taken[r] /\ taken'[p] = k + 1
  BY <1>1, <1>2, <1>4
<1>6. x.err = "none" /\ Piped(e) /\ Drained(e) /\ Piped(d)
  BY <1>1, <1>4, <1>5 DEF NoEndpointFails, DrainInv
<1>7. InFlight(p) = Ahead(d, k) /\ InFlight(p)' = s
  BY <1>5, InFlightAhead
<1>8. InFlight(r) = Ahead(e, taken[r]) /\ InFlight(r)' = Ahead(x, taken[r])
  BY <1>5, InFlightAhead
<1> HIDE DEF e, d, k
<1>9. Ahead(d, k) = WithPacket(<<>>, m) \o s /\ IsSeq(s)
  <2>1. IsSeq(d.tx) /\ IsSeq(d.tx_app_queue) /\ Len(d.tx) \in Nat
    BY <1>6 DEF Piped, IsSeq
  <2>2. k \in 0..(Len(d.tx) - 1) /\ k + 1 \in 0..Len(d.tx)
    BY <1>3, <2>1
  <2>3. Ahead(d, k) = WithPacket(<<>>, m) \o s
    BY <2>1, <2>2, FlightReads DEF Ahead
  <2>4. IsSeq(s)
    BY <1>6, <2>2, AheadSeq
  <2> QED
    BY <2>3, <2>4
<1> HIDE DEF f, m, s
<1>10. CASE m.id \notin AppIds
  <2>1. Flows(e, x)
    BY <1>3, <1>6, <1>10, FlowsDrive DEF m, x
  <2>2. InFlight(p)' = InFlight(p)
    BY <1>7, <1>9, <1>10, ConcatEmpty DEF WithPacket
  <2>3. [Pipe!Next]_(Pipe!vars)
    BY <1>2, <1>4, <1>5, <2>1, <2>2, PipeFlows DEF e, p
  <2>4. Drained(x)
    BY <1>6, <2>1 DEF Flows
  <2> QED
    BY <1>2, <1>4, <2>3, <2>4, DrainKept
<1>11. CASE m.id \in AppIds
  <2>1. Gives(e, x, m.arg)
    BY <1>3, <1>6, <1>11, GivesDriven DEF m, x
  <2> DEFINE a == m.arg
  <2>2. Ahead(d, k) = Append(<<>>, a) \o s
    BY <1>9, <1>11 DEF WithPacket
  <2>3. /\ x.events = Append(e.events, a) /\ Drained(x) /\ x.closing \in BOOLEAN
        /\ (e.closing => x.closing) /\ Ahead(x, taken[r]) = Ahead(e, taken[r])
    <3>1. taken[r] \in 0..Len(e.tx)
      BY <1>4 DEF e
    <3> QED
      BY <2>1, <3>1 DEF Gives, Piped
  <2> HIDE DEF a
  <2>4. Pipe!MayStop(r)
    <3>1. \A q \in Roles : ep[q].closing \in BOOLEAN /\ ep'[q].closing \in BOOLEAN
      BY <1>1, <1>4, <1>5, <2>3 DEF d
    <3>2. \A q \in Roles \ {r} : ep'[q].closing = ep[q].closing
      BY <1>1, <1>5 DEF d
    <3>3. ep[r].closing => ep'[r].closing
      BY <1>5, <2>3 DEF e
    <3> QED
      BY <3>1, <3>2, <3>3, PipeMayStop
  <2>5. InFlight(p) = Append(<<>>, a) \o s /\ InFlight(p)' = s /\ InFlight(r)' = InFlight(r)
    BY <1>7, <1>8, <2>2, <2>3
  <2>6. ep'[r].events = Append(ep[r].events, a) /\ ep'[p].events = ep[p].events
    BY <1>5, <2>3 DEF d, e
  <2>7. Pipe!Deliver(r)
    BY <1>2, <1>9, <2>4, <2>5, <2>6, PipeDelivers DEF p
  <2>8. [Pipe!Next]_(Pipe!vars)
    BY <2>7 DEF Pipe!Next
  <2>9. DrainInv'
    BY <1>2, <1>4, <2>3, DrainKept
  <2> QED
    BY <2>8, <2>9
<1> QED
  BY <1>10, <1>11

\* The layer above r hands over the message m.
LEMMA PipeSendPacket ==
    ASSUME PairInv, DrainInv, NEW r \in Roles, NEW m, NEW x, x = send_packet(ep[r], m),
           ep' = [ep EXCEPT ![r] = x], taken' = taken
    PROVE  /\ DrainInv' /\ Pipe!MayStop(r) /\ \A q \in Roles : ep'[q].events = ep[q].events
           /\ InFlight(r)' = IF ep[r].closing THEN InFlight(r) ELSE WithPacket(InFlight(r), m)
           /\ \A q \in Roles \ {r} : InFlight(q)' = InFlight(q)
           /\ Sends(ep[r], x, m)
<1>1. /\ DOMAIN ep = Roles
      /\ \A q \in Roles : Piped(ep[q]) /\ ep[q].closing \in BOOLEAN /\ taken[q] \in 0..Len(ep[q].tx)
  BY DEF PairInv, EndsInv, EndInv, Shape, Piped
<1>2. ep'[r] = x /\ \A q \in Roles \ {r} : ep'[q] = ep[q]
  BY <1>1
<1> DEFINE e == ep[r]
           n == taken[r]
<1>3. Piped(e) /\ Drained(e) /\ n \in 0..Len(e.tx)
  BY <1>1 DEF DrainInv
<1>4. Sends(e, x, m)
  BY <1>3, SendsPacket
<1>5. /\ Drained(x) /\ x.events = e.events /\ x.closing \in BOOLEAN /\ (e.closing => x.closing)
      /\ Ahead(x, n) = IF e.closing THEN Ahead(e, n) ELSE WithPacket(Ahead(e, n), m)
  BY <1>3, <1>4 DEF Sends, Piped
<1>6. InFlight(r) = Ahead(e, n) /\ InFlight(r)' = Ahead(x, n)
  BY <1>2, InFlightAhead
<1>7. \A q \in Roles \ {r} : InFlight(q)' = InFlight(q)
  BY <1>2, InFlightAhead
<1>8. DrainInv'
  BY <1>1, <1>5, DrainKept
<1>9. Pipe!MayStop(r)
  <2>1. \A q \in Roles : ep[q].closing \in BOOLEAN /\ ep'[q].closing \in BOOLEAN
    BY <1>1, <1>2, <1>5
  <2>2. \A q \in Roles \ {r} : ep'[q].closing = ep[q].closing
    BY <1>2
  <2>3. ep[r].closing => ep'[r].closing
    BY <1>2, <1>5
  <2> QED
    BY <2>1, <2>2, <2>3, PipeMayStop
<1>10. \A q \in Roles : ep'[q].events = ep[q].events
  BY <1>2, <1>5
<1>11. InFlight(r)' = IF ep[r].closing THEN InFlight(r) ELSE WithPacket(InFlight(r), m)
  BY <1>5, <1>6
<1> QED
  BY <1>4, <1>7, <1>8, <1>9, <1>10, <1>11

LEMMA PipeNext ==
    ASSUME PairInv, OrderInv, DrainInv, [Next]_vars, NoEndpointFails'
    PROVE  [Pipe!Next]_(Pipe!vars) /\ DrainInv'
<1>0. /\ DOMAIN ep = Roles
      /\ \A q \in Roles : Piped(ep[q]) /\ ep[q].closing \in BOOLEAN /\ taken[q] \in 0..Len(ep[q].tx)
  BY DEF PairInv, EndsInv, EndInv, Shape, Piped
<1>1. ASSUME NEW r \in Roles, Receive(r) PROVE [Pipe!Next]_(Pipe!vars) /\ DrainInv'
  BY <1>1, PipeReceive
<1>2. ASSUME NEW r \in Roles, SendApp(r) PROVE [Pipe!Next]_(Pipe!vars) /\ DrainInv'
  <2>1. PICK id \in AppIds :
           /\ ep' = [ep EXCEPT ![r] = send_packet(@, Msg(id, accepted[r] + 1))]
           /\ accepted' = [accepted EXCEPT ![r] = @ + 1] /\ taken' = taken
    BY <1>2 DEF SendApp, AppIds
  <2> DEFINE a == accepted[r] + 1
             m == Msg(id, a)
             x == send_packet(ep[r], m)
  <2>2. m.id \in AppIds /\ m.arg = a
    BY DEF Msg
  <2>3. ep' = [ep EXCEPT ![r] = x] /\ taken' = taken
    BY <2>1
  <2> HIDE DEF m, a
  <2>4. /\ DrainInv' /\ Pipe!MayStop(r) /\ \A q \in Roles : ep'[q].events = ep[q].events
        /\ InFlight(r)' = IF ep[r].closing THEN InFlight(r) ELSE WithPacket(InFlight(r), m)
        /\ \A q \in Roles \ {r} : InFlight(q)' = InFlight(q)
    BY <1>2, <2>3, PipeSendPacket
  <2>5. InFlight(r)' = IF ep[r].closing THEN InFlight(r) ELSE Append(InFlight(r), a)
    BY <2>2, <2>4 DEF WithPacket
  <2>6. Pipe!Send(r)
    BY <1>2, <2>1, <2>4, <2>5, PipeSends DEF a
  <2> QED
    BY <2>4, <2>6 DEF Pipe!Next
<1>3. ASSUME NEW r \in Roles, send_chaff(r) PROVE [Pipe!Next]_(Pipe!vars) /\ DrainInv'
  <2> DEFINE m == Msg("IGNORE", calls[r].chaff + 1)
             x == send_packet(ep[r], m)
  <2>1. ep' = [ep EXCEPT ![r] = x] /\ taken' = taken /\ accepted' = accepted
    BY <1>3 DEF send_chaff
  <2>2. m.id \notin AppIds
    BY DEF Msg, AppIds
  <2> HIDE DEF m
  <2>3. /\ DrainInv' /\ \A q \in Roles : ep'[q].events = ep[q].events
        /\ InFlight(r)' = IF ep[r].closing THEN InFlight(r) ELSE WithPacket(InFlight(r), m)
        /\ \A q \in Roles \ {r} : InFlight(q)' = InFlight(q)
        /\ Sends(ep[r], x, m)
    BY <1>3, <2>1, PipeSendPacket
  <2> HIDE DEF x
  <2>4. InFlight(r)' = InFlight(r)
    BY <2>2, <2>3 DEF WithPacket
  <2>5. \A q \in Roles : InFlight(q)' = InFlight(q)
    BY <2>3, <2>4
  <2>6. ep'[r] = x /\ \A q \in Roles \ {r} : ep'[q] = ep[q]
    BY <1>0, <2>1
  <2>7. x.closing \in BOOLEAN /\ ep[r].closing \in BOOLEAN /\ (ep[r].closing => x.closing)
    BY <1>0, <1>3, <2>3 DEF Sends, Piped
  <2>8. CASE x.closing = ep[r].closing
    <3>1. \A q \in Roles : ep'[q].closing = ep[q].closing
      BY <2>6, <2>8
    <3> QED
      BY <2>1, <2>3, <2>5, <3>1, PipeStutters
  <2>9. CASE x.closing # ep[r].closing
    <3>1. ep'[r].closing = TRUE
      BY <2>6, <2>7, <2>9
    <3>2. \A q \in Roles \ {r} : ep'[q].closing = ep[q].closing
      BY <2>6
    <3>3. Cut(InFlight(r)', InFlight(r))
      <4>1. IsSeq(InFlight(r))
        BY <1>0, <1>3, InFlightAhead, AheadSeq
      <4> QED
        BY <2>4, <4>1, CutSelf
    <3>4. Pipe!Close(r)
      BY <1>3, <2>1, <2>3, <3>1, <3>2, <3>3, PipeCloses
    <3> QED
      BY <1>3, <2>3, <3>4 DEF Pipe!Next
  <2> QED
    BY <2>8, <2>9
<1>4. ASSUME NEW r \in Roles, NEW x, Flows(ep[r], x), ep' = [ep EXCEPT ![r] = x],
             taken' = taken, accepted' = accepted
      PROVE  [Pipe!Next]_(Pipe!vars) /\ DrainInv'
  <2>1. Drained(x)
    BY <1>4 DEF DrainInv, Flows
  <2>2. DrainInv'
    BY <1>0, <1>4, <2>1, DrainKept
  <2>3. ep'[Peer(r)] = ep[Peer(r)]
    BY <1>0, <1>4, Peers
  <2>4. InFlight(Peer(r))' = InFlight(Peer(r)) /\ taken'[r] = taken[r]
    BY <1>4, <2>3, InFlightAhead
  <2>5. [Pipe!Next]_(Pipe!vars)
    BY <1>0, <1>4, <2>4, PipeFlows
  <2> QED
    BY <2>2, <2>5
<1>5. ASSUME NEW r \in Roles, InitiateRekey(r) PROVE [Pipe!Next]_(Pipe!vars) /\ DrainInv'
  <2> DEFINE x == initiate_rekey(ep[r])
  <2>1. ep' = [ep EXCEPT ![r] = x] /\ taken' = taken /\ accepted' = accepted
    BY <1>5 DEF InitiateRekey
  <2>2. Flows(ep[r], x)
    BY <1>0, <1>5, FlowsInitiate
  <2> HIDE DEF x
  <2> QED
    BY <1>4, <1>5, <2>1, <2>2
<1>6. ASSUME NEW r \in Roles, Disconnect(r) PROVE [Pipe!Next]_(Pipe!vars) /\ DrainInv'
  <2> DEFINE x == disconnect(ep[r])
  <2>1. ep' = [ep EXCEPT ![r] = x] /\ taken' = taken /\ accepted' = accepted
    BY <1>6 DEF Disconnect
  <2>2. Flows(ep[r], x)
    BY <1>0, <1>6, FlowsDisconnect
  <2> HIDE DEF x
  <2> QED
    BY <1>4, <1>6, <2>1, <2>2
<1>7. CASE UNCHANGED vars
  <2>1. accepted' = accepted /\ \A q \in Roles : ep'[q] = ep[q] /\ taken'[q] = taken[q]
    BY <1>7 DEF vars
  <2>2. \A q \in Roles : InFlight(q)' = InFlight(q)
    BY <2>1, InFlightAhead
  <2>3. UNCHANGED Pipe!vars
    BY <2>1, <2>2, PipeStutters
  <2>4. DrainInv'
    BY <1>7 DEF vars, DrainInv, Drained
  <2> QED
    BY <2>3, <2>4
<1> QED
  BY <1>1, <1>2, <1>3, <1>5, <1>6, <1>7 DEF Next

\* A new endpoint has written its version and its KEXINIT, which does not use up
\* the epoch.
LEMMA PipeStart ==
    ASSUME EpochHardPackets > 1, NEW role \in Roles, NEW ciphers, NEW compressions \in Seq(CompNames)
    PROVE  LET x == start(role, ciphers, compressions)
           IN  Ahead(x, 0) = <<>> /\ x.events = <<>> /\ x.closing = FALSE /\ Drained(x)
<1>1. PICK b : start(role, ciphers, compressions) = send_kexinit(b)
               /\ Blank(b, role, ciphers, compressions)
  BY StartFrom
<1>2. /\ IsSeq(b.tx) /\ Len(b.tx) = 1 /\ b.tx[1] = VersionLine /\ ~b.closing /\ Shape(b)
      /\ b.tx_packets_since_rekey = 0 /\ Len(b.tx_app_queue) = 0 /\ b.events = <<>>
      /\ IsSeq(b.tx_app_queue)
  BY <1>1 DEF Blank, Calm, Shape
<1>3. Piped(b) /\ Drained(b)
  BY <1>2 DEF Piped, Shape, Drained
<1> DEFINE x == send_kexinit(b)
<1>4. x.closing = FALSE
  <2> DEFINE ki == ours_with(b.role, b.rng + 1, b.offered_ciphers, b.offered_compression)
             m == Msg("KEXINIT", ki)
             n == ki.cookie
             a == [b EXCEPT !.rng = n]
             w == write_packet(a, m)
             r == [w EXCEPT !.local_kexinit = n, !.kexinit_sent = TRUE]
  <2>1. x = r
    BY DEF send_kexinit
  <2>2. m.id # "USERAUTH_SUCCESS"
    BY DEF Msg
  <2> HIDE DEF m, n
  <2>3. DOMAIN a = Fields /\ a.closing = b.closing /\ a.tx_packets_since_rekey = 0
    BY <1>2, <1>3 DEF Piped, Fields
  <2> HIDE DEF a
  <2>4. DOMAIN w = Fields /\ w.closing = FALSE
    <3> DEFINE f == [key |-> a.cipher_out, seq |-> a.tx_seq, comp |-> a.comp_out, msg |-> m]
               q == Append(a.tx, f)
               c == IF a.comp_out = NoContext THEN a.comp_out ELSE a.comp_out + 1
               p == a.tx_packets_since_rekey + 1
               t == NextSeq(a.tx_seq)
               z == (p >= EpochHardPackets)
               s == [a EXCEPT !.tx = q, !.comp_out = c, !.tx_packets_since_rekey = p,
                              !.tx_seq = t, !.closing = z]
    <3>1. w = s
      BY <1>2, <2>2, <2>3 DEF write_packet, Muted, EpochExhausted
    <3>2. z = FALSE
      <4>1. EpochHardPackets \in Nat
        BY TransportAssumption
      <4> QED
        BY <2>3, <4>1
    <3> HIDE DEF q, c, p, t, z, w
    <3>3. DOMAIN s = Fields /\ s.closing = z
      BY <2>3 DEF Fields
    <3> HIDE DEF s
    <3> QED
      BY <3>1, <3>2, <3>3
  <2> HIDE DEF w
  <2>5. r.closing = w.closing
    BY <2>4 DEF Fields
  <2> HIDE DEF r
  <2> QED
    BY <2>1, <2>4, <2>5
<1>5. Flows(b, x)
  BY <1>3, FlowsKexinit
<1> HIDE DEF x
<1>6. Drained(x) /\ x.events = <<>> /\ Ahead(x, 0) = Ahead(b, 0)
  <2>1. 0 \in 0..Len(b.tx)
    BY <1>2
  <2> QED
    BY <1>2, <1>3, <1>5, <2>1 DEF Flows, Undisturbed
<1>7. Ahead(b, 0) = <<>>
  <2> DEFINE t == b.tx
             q == b.tx_app_queue
             c == b.closing
  <2>1. IsSeq(t) /\ Len(t) = 1 /\ t[1].msg.id \notin AppIds /\ IsSeq(q) /\ q = <<>>
    <3>1. VersionLine.msg.id \notin AppIds
      BY DEF VersionLine, Msg, AppIds
    <3>2. q = <<>>
      BY <1>2, SeqEmpty
    <3> QED
      BY <1>2, <3>1, <3>2
  <2>2. Ahead(b, 0) = Flight(t, q, c, 0)
    BY DEF Ahead
  <2> HIDE DEF t, q, c
  <2>3. 0 \in 0..(Len(t) - 1) /\ 0 + 1 = 1 /\ 1 \in 0..Len(t) /\ Len(t) - 1 = 0
    BY <2>1
  <2>4. Flight(t, q, c, 0) = WithPacket(<<>>, t[1].msg) \o Flight(t, q, c, 1)
    BY <2>1, <2>3, FlightReads
  <2>5. Flight(t, q, c, 1) = AppArgs(Unread(t, 1)) \o AppArgs(Queued(q, c)) /\ IsSeq(Flight(t, q, c, 1))
    BY <2>1, <2>3, FlightParts
  <2>6. Unread(t, 1) = <<>> /\ Queued(q, c) = <<>>
    <3>1. IsSeq(Unread(t, 1)) /\ Len(Unread(t, 1)) = 0
      BY <2>1, <2>3, UnreadFacts
    <3>2. Queued(q, c) = <<>>
      BY <2>1 DEF Queued
    <3> QED
      BY <3>1, <3>2, SeqEmpty
  <2>7. Flight(t, q, c, 1) = <<>>
    BY <2>5, <2>6, AppsNone, EmptyIsSeq, ConcatEmpty
  <2>8. WithPacket(<<>>, t[1].msg) = <<>>
    BY <2>1 DEF WithPacket
  <2> QED
    BY <2>2, <2>4, <2>7, <2>8, EmptyIsSeq, ConcatEmpty
<1> QED
  BY <1>1, <1>4, <1>6, <1>7 DEF x

LEMMA PipeInit ==
    ASSUME EpochHardPackets > 1, Init
    PROVE  Pipe!Init /\ DrainInv
<1>1. PICK name \in Compression :
          ep = [q \in Roles |-> IF q = "server" THEN start(q, CIPHERS, COMPRESSIONS)
                                ELSE ClientStart(name)]
  BY DEF Init
<1>2. ASSUME NEW r \in Roles
      PROVE  Ahead(ep[r], 0) = <<>> /\ ep[r].events = <<>> /\ ep[r].closing = FALSE /\ Drained(ep[r])
  <2>1. \E c, z : z \in Seq(CompNames) /\ ep[r] = start(r, c, z)
    <3>1. CASE r = "server"
      BY <1>1, <1>2, <3>1, CompListsOK
    <3>2. CASE r # "server"
      <4>1. r = "client" /\ ep[r] = ClientStart(name)
        BY <1>1, <1>2, <3>2 DEF Roles
      <4> QED
        BY <4>1, CompListsOK DEF ClientStart
    <3> QED
      BY <3>1, <3>2
  <2>2. PICK c, z : z \in Seq(CompNames) /\ ep[r] = start(r, c, z)
    BY <2>1
  <2> QED
    BY <1>2, <2>2, PipeStart
<1>3. \A r \in Roles : taken[r] = 0
  BY DEF Init
<1>4. \A r \in Roles : InFlight(r) = <<>>
  BY <1>2, <1>3, InFlightAhead
<1>5. /\ [r \in Roles |-> InFlight(r)] = [r \in Roles |-> <<>>]
      /\ [r \in Roles |-> ep[r].events] = [r \in Roles |-> <<>>]
      /\ [r \in Roles |-> ep[r].closing] = [r \in Roles |-> FALSE]
  BY <1>2, <1>4
<1>6. accepted = [r \in Roles |-> 0]
  BY DEF Init
<1>7. Pipe!Init
  BY <1>5, <1>6 DEF Pipe!Init
<1> QED
  BY <1>2, <1>7 DEF DrainInv

\* As long as no endpoint fails, the two transports implement the ordered
\* lossless pipes of AppPipe: every packet that send_packet accepts is delivered
\* once and in order however many key exchanges it waits for or crosses, and
\* only an endpoint that closes drops packets, the last ones it was given.
THEOREM TransportImplementsPipe ==
    ASSUME EpochHardPackets > 1
    PROVE  Spec /\ []NoEndpointFails => ImplementsPipe
<1>1. Init => Pipe!Init /\ DrainInv
  BY PipeInit
<1>2. PairInv /\ OrderInv /\ DrainInv /\ NoEndpointFails' /\ [Next]_vars
      => [Pipe!Next]_(Pipe!vars) /\ DrainInv'
  BY PipeNext
<1> QED
  BY <1>1, <1>2, TransportInvariant, KeyExchangeOrder, PTL DEF Spec, ImplementsPipe, Pipe!Spec

\* The same without that assumption, when the client lists no compression first,
\* so that none is negotiated, and while neither has used up a key epoch.
THEOREM UncompressedImplementsPipe ==
    ASSUME EpochHardPackets > 1, Compression \subseteq {"none"}
    PROVE  Spec /\ [](\A r \in Roles : ~Exhausted(ep[r])) => ImplementsPipe
<1>1. Spec => []((\A r \in Roles : ~Exhausted(ep[r])) => NoEndpointFails)
  BY UncompressedNeverFails
<1>2. Spec /\ []NoEndpointFails => ImplementsPipe
  BY TransportImplementsPipe
<1> QED
  BY <1>1, <1>2, PTL
================================================================================
