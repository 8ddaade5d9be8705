-------------------------- MODULE ChannelOutputProofs --------------------------
(***************************************************************************)
(* Theorems about the output queue of a channel: what drain_output emits,  *)
(* for every maximum packet, chunk cap, window and sequence of writes.     *)
(***************************************************************************)
EXTENDS ChannelOutput, FiniteSetTheorems, WellFoundedInduction, SequenceTheorems, TLAPS

--------------------------------------------------------------------------------
(* Induction over the natural numbers, stated of sets *)

\* Every nonempty set of natural numbers has a least element: the intervals
\* from zero are finite sets, which inclusion orders well.
LEMMA LeastNumber ==
    ASSUME NEW T, T \subseteq Nat, T # {}
    PROVE  \E x \in T : \A y \in T : ~(y < x)
<1> DEFINE R == StrictSubsetOrdering(Nat)
           F == {0..m : m \in T}
<1>1. IsWellFoundedOn(R, FiniteSubsetsOf(Nat))
  BY FS_StrictSubsetOrderingWellFounded
<1>2. F \subseteq FiniteSubsetsOf(Nat) /\ F # {}
  <2>1. ASSUME NEW m \in T PROVE 0..m \in SUBSET Nat /\ IsFiniteSet(0..m)
    <3>1. m \in Int /\ 0 \in Int
      OBVIOUS
    <3> QED
      BY <3>1, FS_Interval
  <2> QED
    BY <2>1 DEF FiniteSubsetsOf
<1>3. PICK X \in F : \A Y \in F : ~(<<Y, X>> \in R)
  <2> HIDE DEF R, F
  <2> QED
    BY <1>1, <1>2, WFMin
<1>4. PICK x \in T : X = 0..x
  OBVIOUS
<1>5. ASSUME NEW y \in T, y < x PROVE FALSE
  <2>1. 0..y \subseteq 0..x /\ 0..y # 0..x /\ 0..x \subseteq Nat
    BY <1>5
  <2>2. <<0..y, 0..x>> \in R
    BY <2>1 DEF StrictSubsetOrdering
  <2> QED
    BY <1>3, <1>4, <2>2
<1> QED
  BY <1>5

\* A set with zero in it that is closed under successor holds every number.
LEMMA Induction ==
    ASSUME NEW S, 0 \in S, \A n \in Nat : n \in S => n + 1 \in S
    PROVE  Nat \subseteq S
<1>1. SUFFICES ASSUME Nat \ S # {} PROVE FALSE
  OBVIOUS
<1>2. PICK x \in Nat \ S : \A y \in Nat \ S : ~(y < x)
  BY <1>1, LeastNumber
<1>3. x # 0 /\ x - 1 \in Nat
  OBVIOUS
<1>4. x - 1 \in S
  BY <1>2, <1>3
<1> QED
  BY <1>3, <1>4

--------------------------------------------------------------------------------
(* Flattening a sequence of sequences *)

\* f[i] is the concatenation of the first i of s.
Partial(f, s, n) ==
    f = [i \in 1..n |-> IF i = 1 THEN s[i] ELSE f[i - 1] \o s[i]]

LEMMA PartialDefined ==
    ASSUME NEW s, NEW m \in Nat
    PROVE  \E f : Partial(f, s, m)
<1> DEFINE S == {n \in Nat : \E f : Partial(f, s, n)}
<1>1. 0 \in S
  <2> DEFINE f == [i \in 1..0 |-> s]
  <2>1. f = [i \in 1..0 |-> IF i = 1 THEN s[i] ELSE f[i - 1] \o s[i]]
    OBVIOUS
  <2> QED
    BY <2>1 DEF Partial
<1>2. ASSUME NEW n \in Nat, n \in S PROVE n + 1 \in S
  <2>1. PICK f : Partial(f, s, n)
    BY <1>2
  <2> DEFINE g == [i \in 1..(n + 1) |-> IF i = n + 1 THEN IF i = 1 THEN s[i] ELSE f[n] \o s[n + 1]
                                        ELSE f[i]]
  <2>2. ASSUME NEW i \in 1..(n + 1)
        PROVE  g[i] = IF i = 1 THEN s[i] ELSE g[i - 1] \o s[i]
    <3>1. CASE i = n + 1
      BY <3>1
    <3>2. CASE i \in 1..n
      <4>1. f[i] = IF i = 1 THEN s[i] ELSE f[i - 1] \o s[i]
        BY <2>1, <3>2 DEF Partial
      <4>2. i # n + 1 /\ g[i] = f[i]
        BY <3>2
      <4>3. i # 1 => i - 1 \in 1..(n + 1) /\ i - 1 # n + 1
        BY <3>2
      <4>4. i # 1 => g[i - 1] = f[i - 1]
        BY <4>3
      <4> HIDE DEF g
      <4> QED
        BY <4>1, <4>2, <4>4
    <3> QED
      BY <3>1, <3>2
  <2>3. g = [i \in 1..(n + 1) |-> IF i = 1 THEN s[i] ELSE g[i - 1] \o s[i]]
    BY <2>2
  <2> HIDE DEF g
  <2>4. Partial(g, s, n + 1)
    BY <2>3, Zenon DEF Partial
  <2>5. n + 1 \in Nat
    OBVIOUS
  <2> QED
    BY <2>4, <2>5
<1>3. Nat \subseteq S
  <2> HIDE DEF S
  <2> QED
    BY <1>1, <1>2, Induction
<1> QED
  BY <1>3

LEMMA FlattenIsPartial ==
    ASSUME NEW s, Len(s) \in Nat, Len(s) # 0
    PROVE  \E f : Partial(f, s, Len(s)) /\ FlattenSeq(s) = f[Len(s)]
<1>1. \E f : f = [i \in 1..Len(s) |-> IF i = 1 THEN s[i] ELSE f[i - 1] \o s[i]]
  BY PartialDefined, Zenon DEF Partial
<1> DEFINE v == CHOOSE f : f = [i \in 1..Len(s) |-> IF i = 1 THEN s[i] ELSE f[i - 1] \o s[i]]
<1>2. v = [i \in 1..Len(s) |-> IF i = 1 THEN s[i] ELSE v[i - 1] \o s[i]]
  BY <1>1, Zenon
<1>3. FlattenSeq(s) = v[Len(s)]
  BY Zenon DEF FlattenSeq
<1> HIDE DEF v
<1> QED
  BY <1>2, <1>3, Zenon DEF Partial

LEMMA FlattenAppend ==
    ASSUME NEW B, NEW s \in Seq(Seq(B)), NEW x \in Seq(B)
    PROVE  FlattenSeq(Append(s, x)) = IF s = <<>> THEN x ELSE FlattenSeq(s) \o x
<1> DEFINE t == Append(s, x)
           m == Len(s)
<1>1. /\ m \in Nat /\ Len(t) = m + 1 /\ t[m + 1] = x /\ \A i \in 1..m : t[i] = s[i]
      /\ s = <<>> <=> m = 0
  OBVIOUS
<1> HIDE DEF t
<1>2. PICK g : Partial(g, t, m + 1) /\ FlattenSeq(t) = g[m + 1]
  <2>1. Len(t) \in Nat /\ Len(t) # 0
    BY <1>1
  <2> QED
    BY <1>1, <2>1, FlattenIsPartial
<1>3. \A i \in 1..(m + 1) : g[i] = IF i = 1 THEN t[i] ELSE g[i - 1] \o t[i]
  BY <1>2 DEF Partial
<1>4. CASE m = 0
  BY <1>1, <1>2, <1>3, <1>4 DEF t
<1>5. CASE m # 0
  <2>1. PICK f : Partial(f, s, m) /\ FlattenSeq(s) = f[m]
    BY <1>1, <1>5, FlattenIsPartial
  <2>2. \A i \in 1..m : f[i] = IF i = 1 THEN s[i] ELSE f[i - 1] \o s[i]
    BY <2>1 DEF Partial
  <2> DEFINE S == {n \in Nat : n + 1 <= m => f[n + 1] = g[n + 1]}
  <2>3. 0 \in S
    BY <1>1, <1>3, <1>5, <2>2
  <2>4. ASSUME NEW n \in Nat, n \in S PROVE n + 1 \in S
    <3> SUFFICES ASSUME n + 2 <= m PROVE f[n + 2] = g[n + 2]
      OBVIOUS
    <3>1. n + 2 \in 1..m /\ n + 2 \in 1..(m + 1) /\ (n + 2) - 1 = n + 1 /\ n + 2 # 1
      BY <1>1
    <3>2. f[n + 1] = g[n + 1] /\ t[n + 2] = s[n + 2]
      BY <1>1, <2>4, <3>1
    <3>3. f[n + 2] = f[n + 1] \o s[n + 2]
      BY <2>2, <3>1
    <3>4. g[n + 2] = g[n + 1] \o t[n + 2]
      BY <1>3, <3>1
    <3> QED
      BY <3>2, <3>3, <3>4
  <2>5. Nat \subseteq S
    <3> HIDE DEF S
    <3> QED
      BY <2>3, <2>4, Induction
  <2>6. f[m] = g[m]
    <3> DEFINE k == m - 1
    <3>1. k \in Nat /\ k + 1 = m /\ k + 1 <= m
      BY <1>1, <1>5
    <3> HIDE DEF k
    <3>2. f[k + 1] = g[k + 1]
      BY <2>5, <3>1
    <3> QED
      BY <3>1, <3>2
  <2>7. g[m + 1] = g[m] \o x
    <3> DEFINE k == m + 1
    <3>1. k \in 1..k /\ k - 1 = m /\ k # 1 /\ t[k] = x
      BY <1>1, <1>5
    <3>2. \A i \in 1..k : g[i] = IF i = 1 THEN t[i] ELSE g[i - 1] \o t[i]
      BY <1>3
    <3> HIDE DEF k
    <3>3. g[k] = g[k - 1] \o t[k]
      BY <3>1, <3>2, Zenon
    <3> QED
      BY <3>1, <3>3 DEF k
  <2> QED
    BY <1>1, <1>2, <1>5, <2>1, <2>6, <2>7 DEF t
<1> QED
  BY <1>4, <1>5

LEMMA FlattenEmpty == FlattenSeq(<<>>) = <<>>
<1>1. Len(<<>>) = 0
  OBVIOUS
<1> QED
  BY <1>1, Zenon DEF FlattenSeq

LEMMA FlattenType ==
    ASSUME NEW B, NEW s \in Seq(Seq(B))
    PROVE  FlattenSeq(s) \in Seq(B)
<1> DEFINE S == {n \in Nat : \A t \in Seq(Seq(B)) : Len(t) = n => FlattenSeq(t) \in Seq(B)}
<1>1. 0 \in S
  <2>1. ASSUME NEW t \in Seq(Seq(B)), Len(t) = 0 PROVE FlattenSeq(t) \in Seq(B)
    <3>1. t = <<>>
      BY <2>1
    <3>2. FlattenSeq(t) = <<>>
      BY <3>1, FlattenEmpty
    <3> QED
      BY <3>2
  <2> QED
    BY <2>1
<1>2. ASSUME NEW n \in Nat, n \in S PROVE n + 1 \in S
  <2>1. ASSUME NEW t \in Seq(Seq(B)), Len(t) = n + 1 PROVE FlattenSeq(t) \in Seq(B)
    <3>0. t # <<>>
      BY <2>1
    <3>1. PICK r \in Seq(Seq(B)), x \in Seq(B) : t = Append(r, x)
      BY <3>0, SequenceEmptyOrAppend
    <3>2. Len(r) = n
      BY <2>1, <3>1
    <3>3. FlattenSeq(r) \in Seq(B)
      BY <1>2, <3>2
    <3>4. FlattenSeq(t) = IF r = <<>> THEN x ELSE FlattenSeq(r) \o x
      BY <3>1, FlattenAppend
    <3> QED
      BY <3>3, <3>4
  <2> QED
    BY <2>1
<1>3. Nat \subseteq S
  <2> HIDE DEF S
  <2> QED
    BY <1>1, <1>2, Induction
<1>4. Len(s) \in Nat
  OBVIOUS
<1> QED
  BY <1>3, <1>4

LEMMA FlattenGrows ==
    ASSUME NEW B, NEW s \in Seq(Seq(B)), NEW x \in Seq(B)
    PROVE  FlattenSeq(Append(s, x)) = FlattenSeq(s) \o x
<1>1. FlattenSeq(Append(s, x)) = IF s = <<>> THEN x ELSE FlattenSeq(s) \o x
  BY FlattenAppend
<1>2. <<>> \o x = x
  OBVIOUS
<1> QED
  BY <1>1, <1>2, FlattenEmpty

LEMMA FlattenConcat ==
    ASSUME NEW B, NEW s \in Seq(Seq(B)), NEW u \in Seq(Seq(B))
    PROVE  FlattenSeq(s \o u) = FlattenSeq(s) \o FlattenSeq(u)
<1> DEFINE P(t) == FlattenSeq(s \o t) = FlattenSeq(s) \o FlattenSeq(t)
           S == {n \in Nat : \A t \in Seq(Seq(B)) : Len(t) = n => P(t)}
<1>0. FlattenSeq(s) \in Seq(B)
  BY FlattenType
<1>1. 0 \in S
  <2>1. ASSUME NEW t \in Seq(Seq(B)), Len(t) = 0 PROVE P(t)
    <3>1. t = <<>> /\ s \o t = s
      BY <2>1
    <3>2. FlattenSeq(t) = <<>>
      BY <3>1, FlattenEmpty
    <3>3. FlattenSeq(s) \o <<>> = FlattenSeq(s)
      BY <1>0, ConcatEmptySeq
    <3> QED
      BY <3>1, <3>2, <3>3
  <2> QED
    BY <2>1
<1>2. ASSUME NEW n \in Nat, n \in S PROVE n + 1 \in S
  <2>1. ASSUME NEW t \in Seq(Seq(B)), Len(t) = n + 1 PROVE P(t)
    <3>0. t # <<>>
      BY <2>1
    <3>1. PICK r \in Seq(Seq(B)), x \in Seq(B) : t = Append(r, x)
      BY <3>0, SequenceEmptyOrAppend
    <3>2. Len(r) = n
      BY <2>1, <3>1
    <3>3. FlattenSeq(s \o r) = FlattenSeq(s) \o FlattenSeq(r)
      BY <1>2, <3>2
    <3>4. s \o t = Append(s \o r, x) /\ s \o r \in Seq(Seq(B))
      BY <3>1
    <3>5. FlattenSeq(Append(s \o r, x)) = FlattenSeq(s \o r) \o x
      BY <3>4, FlattenGrows
    <3>6. FlattenSeq(t) = FlattenSeq(r) \o x
      BY <3>1, FlattenGrows
    <3>7. FlattenSeq(r) \in Seq(B)
      BY FlattenType
    <3>8. (FlattenSeq(s) \o FlattenSeq(r)) \o x = FlattenSeq(s) \o (FlattenSeq(r) \o x)
      BY <1>0, <3>7, ConcatAssociative, SMTT(40)
    <3> QED
      BY <3>3, <3>4, <3>5, <3>6, <3>8
  <2> HIDE DEF P
  <2> QED
    BY <2>1
<1>3. Nat \subseteq S
  <2> HIDE DEF S
  <2> QED
    BY <1>1, <1>2, Induction
<1>4. Len(u) \in Nat
  OBVIOUS
<1>5. P(u)
  <2> HIDE DEF P
  <2> QED
    BY <1>3, <1>4
<1> QED
  BY <1>5

LEMMA FlattenFirst ==
    ASSUME NEW B, NEW x \in Seq(B), NEW s \in Seq(Seq(B))
    PROVE  FlattenSeq(<<x>> \o s) = x \o FlattenSeq(s)
<1>1. <<>> \in Seq(Seq(B)) /\ <<x>> = Append(<<>>, x) /\ <<x>> \in Seq(Seq(B))
  OBVIOUS
<1>2. FlattenSeq(<<x>>) = x
  BY <1>1, FlattenAppend
<1>3. FlattenSeq(<<x>> \o s) = FlattenSeq(<<x>>) \o FlattenSeq(s)
  BY <1>1, FlattenConcat
<1> QED
  BY <1>2, <1>3

--------------------------------------------------------------------------------
(* Messages and items *)

Byte == BOOLEAN \X Nat
Message == [ext : BOOLEAN, data : Seq(Byte)]
Item == [ext : BOOLEAN, buf : Seq(Byte), sent : Nat]

\* An item of the queue has bytes left to send, all of its own stream.
Pending(x) == x.sent < Len(x.buf) /\ \A j \in 1..Len(x.buf) : x.buf[j][1] = x.ext

Data(msgs) == [i \in 1..Len(msgs) |-> msgs[i].data]

Rest(x) == SubSeq(x.buf, x.sent + 1, Len(x.buf))
Rests(items) == [i \in 1..Len(items) |-> Rest(items[i])]

LEMMA BytesType ==
    ASSUME NEW msgs \in Seq(Message)
    PROVE  /\ Data(msgs) \in Seq(Seq(Byte)) /\ BytesOf(msgs) = FlattenSeq(Data(msgs))
           /\ BytesOf(msgs) \in Seq(Byte)
<1>0. \A i \in 1..Len(msgs) : msgs[i] \in Message
  OBVIOUS
<1>1. \A i \in 1..Len(msgs) : msgs[i].data \in Seq(Byte)
  <2>1. \A x \in Message : x.data \in Seq(Byte)
    BY DEF Message
  <2> QED
    BY <1>0, <2>1
<1>2. Data(msgs) \in Seq(Seq(Byte))
  BY <1>1 DEF Data
<1>3. BytesOf(msgs) = FlattenSeq(Data(msgs))
  BY Zenon DEF BytesOf, Data
<1> QED
  BY <1>2, <1>3, FlattenType

LEMMA BytesConcat ==
    ASSUME NEW m \in Seq(Message), NEW k \in Seq(Message)
    PROVE  BytesOf(m \o k) = BytesOf(m) \o BytesOf(k)
<1>1. Data(m) \in Seq(Seq(Byte)) /\ BytesOf(m) = FlattenSeq(Data(m))
  BY BytesType
<1>2. Data(k) \in Seq(Seq(Byte)) /\ BytesOf(k) = FlattenSeq(Data(k))
  BY BytesType
<1> DEFINE n == m \o k
<1>3. n \in Seq(Message) /\ Len(n) = Len(m) + Len(k)
  OBVIOUS
<1>4. Data(n) \in Seq(Seq(Byte)) /\ BytesOf(n) = FlattenSeq(Data(n))
  BY <1>3, BytesType
<1>5. \A i \in 1..Len(n) : n[i] = IF i <= Len(m) THEN m[i] ELSE k[i - Len(m)]
  OBVIOUS
<1> HIDE DEF n
<1> DEFINE b == Data(m) \o Data(k)
<1>6. Len(Data(m)) = Len(m) /\ Len(Data(k)) = Len(k) /\ Len(Data(n)) = Len(n)
  BY <1>3 DEF Data
<1>7. /\ b \in Seq(Seq(Byte)) /\ Len(b) = Len(n)
      /\ \A i \in 1..Len(n) : b[i] = IF i <= Len(m) THEN Data(m)[i] ELSE Data(k)[i - Len(m)]
  <2> DEFINE p == Data(m)
             q == Data(k)
  <2>1. p \in Seq(Seq(Byte)) /\ q \in Seq(Seq(Byte)) /\ Len(p) + Len(q) = Len(n) /\ Len(p) = Len(m)
    BY <1>1, <1>2, <1>3, <1>6
  <2> HIDE DEF p, q
  <2>2. /\ p \o q \in Seq(Seq(Byte)) /\ Len(p \o q) = Len(p) + Len(q)
        /\ \A i \in 1..(Len(p) + Len(q)) : (p \o q)[i] = IF i <= Len(p) THEN p[i] ELSE q[i - Len(p)]
    BY <2>1, ConcatProperties
  <2> QED
    BY <2>1, <2>2 DEF p, q
<1>8. \A i \in 1..Len(n) : b[i] = Data(n)[i]
  <2> TAKE i \in 1..Len(n)
  <2>1. Data(n)[i] = n[i].data
    BY DEF Data
  <2>2. CASE i <= Len(m)
    <3>1. i \in 1..Len(m)
      BY <2>2
    <3>2. Data(m)[i] = m[i].data
      BY <3>1 DEF Data
    <3> QED
      BY <1>5, <1>7, <2>1, <2>2, <3>2
  <2>3. CASE ~(i <= Len(m))
    <3> DEFINE j == i - Len(m)
    <3>1. j \in 1..Len(k)
      BY <1>3, <2>3
    <3>2. Data(k)[j] = k[j].data
      BY <3>1 DEF Data
    <3> QED
      BY <1>5, <1>7, <2>1, <2>3, <3>2
  <2> QED
    BY <2>2, <2>3
<1> HIDE DEF b
<1>9. b = Data(n)
  BY <1>4, <1>6, <1>7, <1>8, SeqEqual
<1>10. FlattenSeq(Data(m) \o Data(k)) = FlattenSeq(Data(m)) \o FlattenSeq(Data(k))
  BY <1>1, <1>2, FlattenConcat
<1> QED
  BY <1>1, <1>2, <1>4, <1>9, <1>10 DEF n, b

LEMMA BytesAppend ==
    ASSUME NEW m \in Seq(Message), NEW x \in Message
    PROVE  /\ Append(m, x) \in Seq(Message)
           /\ BytesOf(Append(m, x)) = BytesOf(m) \o x.data
<1> DEFINE k == <<x>>
           d == x.data
<1>1. k \in Seq(Message) /\ Append(m, x) = m \o k /\ Append(m, x) \in Seq(Message)
  OBVIOUS
<1>2. Data(k) = Append(<<>>, d) /\ d \in Seq(Byte) /\ <<>> \in Seq(Seq(Byte))
  BY DEF Data, Message
<1>3. BytesOf(k) = FlattenSeq(Data(k))
  BY <1>1, BytesType
<1> HIDE DEF k, d
<1>4. BytesOf(k) = d
  BY <1>2, <1>3, FlattenAppend
<1>5. BytesOf(m \o k) = BytesOf(m) \o BytesOf(k)
  BY <1>1, BytesConcat
<1> QED
  BY <1>1, <1>4, <1>5 DEF d

LEMMA RestType ==
    ASSUME NEW x \in Item, x.sent <= Len(x.buf)
    PROVE  /\ Rest(x) \in Seq(Byte) /\ Len(Rest(x)) = Len(x.buf) - x.sent
           /\ x.sent = 0 => Rest(x) = x.buf
<1>1. x.buf \in Seq(Byte) /\ x.sent \in Nat /\ Len(x.buf) \in Nat
  BY DEF Item
<1> QED
  BY <1>1 DEF Rest

LEMMA UnsentType ==
    ASSUME NEW items \in Seq(Item), \A i \in 1..Len(items) : Pending(items[i])
    PROVE  /\ Rests(items) \in Seq(Seq(Byte)) /\ UnsentOf(items) = FlattenSeq(Rests(items))
           /\ UnsentOf(items) \in Seq(Byte)
<1>1. ASSUME NEW i \in 1..Len(items) PROVE Rest(items[i]) \in Seq(Byte)
  <2> DEFINE x == items[i]
  <2>1. x \in Item /\ Pending(x)
    OBVIOUS
  <2> HIDE DEF x
  <2>2. x.sent <= Len(x.buf)
    BY <2>1 DEF Pending, Item
  <2>3. Rest(x) \in Seq(Byte)
    BY <2>1, <2>2, RestType
  <2> QED
    BY <2>3 DEF x
<1>2. Rests(items) \in Seq(Seq(Byte))
  BY <1>1 DEF Rests
<1>3. UnsentOf(items) = FlattenSeq(Rests(items))
  BY Zenon DEF UnsentOf, Rests, Rest
<1> QED
  BY <1>2, <1>3, FlattenType

--------------------------------------------------------------------------------
(* The queue *)

Good(items) == items \in Seq(Item) /\ \A i \in 1..Len(items) : Pending(items[i])

LEMMA GoodUnsent ==
    ASSUME NEW items, Good(items)
    PROVE  /\ Rests(items) \in Seq(Seq(Byte)) /\ Len(Rests(items)) = Len(items)
           /\ UnsentOf(items) = FlattenSeq(Rests(items)) /\ UnsentOf(items) \in Seq(Byte)
<1>1. items \in Seq(Item) /\ Len(items) \in Nat
  BY DEF Good
<1>2. Len(Rests(items)) = Len(items)
  BY <1>1 DEF Rests
<1> QED
  BY <1>1, <1>2, UnsentType DEF Good

LEMMA PendingRest ==
    ASSUME NEW x \in Item, Pending(x)
    PROVE  /\ Rest(x) \in Seq(Byte) /\ Len(Rest(x)) = Len(x.buf) - x.sent
           /\ x.sent = 0 => Rest(x) = x.buf
<1>1. x.sent <= Len(x.buf)
  BY DEF Pending, Item
<1> QED
  BY <1>1, RestType

\* A write goes to the end of what is unsent.
LEMMA QueueAppend ==
    ASSUME NEW items, Good(items), NEW x \in Item, Pending(x), x.sent = 0
    PROVE  /\ Good(Append(items, x))
           /\ UnsentOf(Append(items, x)) = UnsentOf(items) \o x.buf
<1> DEFINE n == Append(items, x)
           b == Rest(x)
           r == Rests(items)
<1>1. items \in Seq(Item) /\ Len(items) \in Nat
  BY DEF Good
<1>2. /\ n \in Seq(Item) /\ Len(n) = Len(items) + 1 /\ n[Len(items) + 1] = x
      /\ \A i \in 1..Len(items) : n[i] = items[i]
  BY <1>1, AppendProperties
<1> HIDE DEF n
<1>3. \A i \in 1..Len(n) : i \in 1..Len(items) \/ i = Len(items) + 1
  BY <1>1, <1>2
<1>4. Good(n)
  BY <1>2, <1>3 DEF Good
<1>5. b \in Seq(Byte) /\ b = x.buf
  BY PendingRest
<1>6. r \in Seq(Seq(Byte)) /\ Len(r) = Len(items) /\ UnsentOf(items) = FlattenSeq(r)
  BY GoodUnsent
<1>7. Rests(n) \in Seq(Seq(Byte)) /\ Len(Rests(n)) = Len(n) /\ UnsentOf(n) = FlattenSeq(Rests(n))
  BY <1>4, GoodUnsent
<1>8. \A i \in 1..Len(n) : Rests(n)[i] = IF i = Len(items) + 1 THEN b ELSE r[i]
  <2> TAKE i \in 1..Len(n)
  <2>1. Rests(n)[i] = Rest(n[i])
    BY DEF Rests
  <2>2. CASE i \in 1..Len(items)
    <3>1. r[i] = Rest(items[i])
      BY <2>2 DEF Rests
    <3>2. i # Len(items) + 1
      BY <1>1, <2>2
    <3> QED
      BY <1>2, <2>1, <2>2, <3>1, <3>2
  <2>3. CASE i = Len(items) + 1
    BY <1>2, <2>1, <2>3
  <2> QED
    BY <1>3, <2>2, <2>3
<1> HIDE DEF b, r
<1> DEFINE a == Append(r, b)
<1>9. /\ a \in Seq(Seq(Byte)) /\ Len(a) = Len(r) + 1 /\ a[Len(r) + 1] = b
      /\ \A i \in 1..Len(r) : a[i] = r[i]
  BY <1>5, <1>6, AppendProperties
<1> HIDE DEF a
<1>10. Rests(n) = a
  <2>1. \A i \in 1..Len(a) : a[i] = Rests(n)[i]
    BY <1>1, <1>2, <1>3, <1>6, <1>8, <1>9
  <2>2. Len(a) = Len(Rests(n))
    BY <1>2, <1>6, <1>7, <1>9
  <2> QED
    BY <1>7, <1>9, <2>1, <2>2, SeqEqual
<1>11. FlattenSeq(a) = FlattenSeq(r) \o b
  BY <1>5, <1>6, FlattenGrows DEF a
<1> QED
  BY <1>4, <1>5, <1>6, <1>7, <1>10, <1>11 DEF n

\* What is unsent starts with the rest of the front item.
LEMMA QueueFront ==
    ASSUME NEW items, Good(items), items # <<>>
    PROVE  /\ items[1] \in Item /\ Pending(items[1]) /\ Good(Tail(items))
           /\ UnsentOf(items) = Rest(items[1]) \o UnsentOf(Tail(items))
<1> DEFINE t == Tail(items)
           h == items[1]
           b == Rest(h)
<1>1. items \in Seq(Item) /\ Len(items) \in Nat /\ 1 \in 1..Len(items)
  BY DEF Good
<1>2. h \in Item /\ Pending(h)
  BY <1>1 DEF Good
<1>3. t \in Seq(Item) /\ Len(t) = Len(items) - 1 /\ \A i \in 1..Len(t) : t[i] = items[i + 1]
  BY <1>1, HeadTailProperties
<1> HIDE DEF t
<1>4. \A i \in 1..Len(t) : i + 1 \in 1..Len(items)
  BY <1>1, <1>3
<1>5. Good(t)
  BY <1>3, <1>4 DEF Good
<1>6. b \in Seq(Byte)
  <2> HIDE DEF h
  <2> QED
    BY <1>2, PendingRest
<1> DEFINE r == Rests(t)
           q == Rests(items)
<1>7. r \in Seq(Seq(Byte)) /\ Len(r) = Len(t) /\ UnsentOf(t) = FlattenSeq(r)
  BY <1>5, GoodUnsent
<1>8. q \in Seq(Seq(Byte)) /\ Len(q) = Len(items) /\ UnsentOf(items) = FlattenSeq(q)
  BY GoodUnsent
<1>9. \A i \in 1..Len(items) : q[i] = IF i = 1 THEN b ELSE r[i - 1]
  <2> TAKE i \in 1..Len(items)
  <2>1. q[i] = Rest(items[i])
    BY DEF Rests
  <2>2. CASE i # 1
    <3> DEFINE j == i - 1
    <3>1. j \in 1..Len(t) /\ j + 1 = i
      BY <1>1, <1>3, <2>2
    <3> HIDE DEF j
    <3>2. r[j] = Rest(t[j]) /\ t[j] = items[i]
      BY <1>3, <3>1 DEF Rests
    <3> QED
      BY <2>1, <2>2, <3>2 DEF j
  <2> QED
    BY <2>1, <2>2
<1> HIDE DEF b, r, q
<1> DEFINE o == <<b>>
           a == o \o r
<1>10. o \in Seq(Seq(Byte)) /\ Len(o) = 1 /\ o[1] = b
  BY <1>6
<1> HIDE DEF o
<1>11. /\ a \in Seq(Seq(Byte)) /\ Len(a) = Len(o) + Len(r)
       /\ \A i \in 1..(Len(o) + Len(r)) : a[i] = IF i <= Len(o) THEN o[i] ELSE r[i - Len(o)]
  <2>1. o \in Seq(Seq(Byte)) /\ r \in Seq(Seq(Byte))
    BY <1>7, <1>10
  <2> QED
    BY <2>1, ConcatProperties, ZenonT(40)
<1> HIDE DEF a
<1>12. a = q
  <2>1. Len(a) = Len(q) /\ Len(a) = Len(items) /\ Len(o) + Len(r) = Len(items)
    BY <1>1, <1>3, <1>7, <1>8, <1>10, <1>11
  <2>2. \A i \in 1..Len(a) : a[i] = q[i]
    <3> TAKE i \in 1..Len(a)
    <3>1. i \in 1..Len(items) /\ (i <= 1 => i = 1)
      BY <1>1, <2>1
    <3>2. a[i] = IF i <= 1 THEN o[i] ELSE r[i - 1]
      BY <1>10, <1>11, <2>1, <3>1
    <3> QED
      BY <1>9, <1>10, <3>1, <3>2
  <2> QED
    BY <1>8, <1>11, <2>1, <2>2, SeqEqual
<1>13. FlattenSeq(<<b>> \o r) = b \o FlattenSeq(r)
  BY <1>6, <1>7, FlattenFirst
<1> QED
  BY <1>2, <1>5, <1>7, <1>8, <1>12, <1>13 DEF a, o, b, t, h

\* Replacing the front item by a good one.
LEMMA QueueReplace ==
    ASSUME NEW items, Good(items), items # <<>>, NEW x \in Item, Pending(x),
           NEW r, r = [items EXCEPT ![1] = x]
    PROVE  Good(r) /\ UnsentOf(r) = Rest(x) \o UnsentOf(Tail(items))
<1>1. items \in Seq(Item) /\ Len(items) \in Nat /\ 1 \in 1..Len(items)
  BY DEF Good
<1>2. r \in Seq(Item) /\ Len(r) = Len(items)
  BY <1>1
<1>3. \A i \in 1..Len(r) : r[i] = IF i = 1 THEN x ELSE items[i]
  BY <1>1, <1>2
<1>4. Good(r)
  BY <1>2, <1>3 DEF Good
<1>5. r # <<>> /\ r[1] = x
  BY <1>1, <1>2, <1>3
<1>6. Tail(r) = Tail(items)
  <2>1. /\ Tail(r) \in Seq(Item) /\ Len(Tail(r)) = Len(r) - 1
        /\ \A i \in 1..Len(Tail(r)) : Tail(r)[i] = r[i + 1]
    BY <1>2, <1>5, HeadTailProperties
  <2>2. /\ Tail(items) \in Seq(Item) /\ Len(Tail(items)) = Len(items) - 1
        /\ \A i \in 1..Len(Tail(items)) : Tail(items)[i] = items[i + 1]
    BY <1>1, HeadTailProperties
  <2>3. \A i \in 1..Len(Tail(r)) : i + 1 \in 1..Len(r) /\ i + 1 # 1 /\ i \in 1..Len(Tail(items))
    BY <1>1, <1>2, <2>1, <2>2
  <2>4. \A i \in 1..Len(Tail(r)) : Tail(r)[i] = Tail(items)[i]
    BY <1>3, <2>1, <2>2, <2>3
  <2> QED
    BY <1>2, <2>1, <2>2, <2>4, SeqEqual
<1> QED
  BY <1>4, <1>5, <1>6, QueueFront

\* A chunk of the rest of an item, and what is left of it.
LEMMA ChunkOfRest ==
    ASSUME NEW x \in Item, Pending(x), NEW take \in 1..(Len(x.buf) - x.sent)
    PROVE  /\ Chunk(x, take) \in Seq(Byte) /\ Len(Chunk(x, take)) = take
           /\ \A j \in 1..take : Chunk(x, take)[j][1] = x.ext
           /\ x.sent + take = Len(x.buf) => Chunk(x, take) = Rest(x)
           /\ Rest(x) = Chunk(x, take) \o SubSeq(x.buf, x.sent + take + 1, Len(x.buf))
<1> DEFINE b == x.buf
           s == x.sent
           l == Len(b)
<1>1. b \in Seq(Byte) /\ s \in Nat /\ l \in Nat /\ take \in Nat /\ s + take <= l /\ 1 <= take
  BY DEF Item
<1>2. \A j \in 1..l : b[j][1] = x.ext /\ b[j] \in Byte
  BY <1>1 DEF Pending
<1> DEFINE e == s + take
<1>3. Chunk(x, take) = SubSeq(b, s + 1, e)
  BY DEF Chunk
<1>4. Rest(x) = SubSeq(b, s + 1, l)
  BY DEF Rest
<1>5. e \in Nat /\ e <= l /\ s + 1 <= e /\ s + 1 \in Int
  BY <1>1
<1> HIDE DEF b, s, l
<1>6. /\ SubSeq(b, s + 1, e) \in Seq(Byte) /\ Len(SubSeq(b, s + 1, e)) = take
      /\ \A j \in 1..take : SubSeq(b, s + 1, e)[j] = b[s + j]
  <2> DEFINE m == s + 1
             c == SubSeq(b, m, e)
  <2>1. m \in Int /\ e \in Int /\ m <= e /\ e - m + 1 = take /\ \A i \in m..e : b[i] \in Byte
    BY <1>1, <1>2, <1>5
  <2> HIDE DEF m
  <2>2. /\ c \in Seq(Byte) /\ Len(c) = IF m <= e THEN e - m + 1 ELSE 0
        /\ \A i \in 1..(e - m + 1) : c[i] = b[m + i - 1]
    <3> HIDE DEF e
    <3> QED
      BY <2>1, SubSeqProperties
  <2> HIDE DEF c, e
  <2>3. \A i \in 1..take : m + i - 1 = s + i
    BY <1>1 DEF m
  <2> QED
    BY <2>1, <2>2, <2>3 DEF c, m
<1>7. \A j \in 1..take : SubSeq(b, s + 1, e)[j][1] = x.ext
  <2>1. \A j \in 1..take : s + j \in 1..l
    BY <1>1
  <2> QED
    BY <1>2, <1>6, <2>1
<1>8. SubSeq(b, s + 1, e) \o SubSeq(b, e + 1, l) = SubSeq(b, s + 1, l)
  <2> DEFINE m == s + 1
  <2>1. m \in 1..Len(b) + 1 /\ e \in (m - 1)..Len(b) /\ l \in e..Len(b)
    BY <1>1, <1>5 DEF l
  <2> HIDE DEF m, e
  <2>2. SubSeq(b, m, e) \o SubSeq(b, e + 1, l) = SubSeq(b, m, l)
    BY <1>1, <2>1, ConcatAdjacentSubSeq
  <2> QED
    BY <2>2 DEF m
<1>9. s + take = l => SubSeq(b, s + 1, e) = SubSeq(b, s + 1, l)
  OBVIOUS
<1> QED
  BY <1>3, <1>4, <1>6, <1>7, <1>8, <1>9 DEF b, s, l

\* Sending a chunk of the front item takes it off what is unsent.
LEMMA AdvanceKeeps ==
    ASSUME NEW items, Good(items), items # <<>>,
           NEW take \in 1..(Len(items[1].buf) - items[1].sent)
    PROVE  /\ Good(Advance(items, take))
           /\ UnsentOf(items) = Chunk(items[1], take) \o UnsentOf(Advance(items, take))
<1> DEFINE h == items[1]
           c == Chunk(h, take)
           u == UnsentOf(Tail(items))
<1>1. h \in Item /\ Pending(h) /\ Good(Tail(items)) /\ UnsentOf(items) = Rest(h) \o u
  BY QueueFront
<1>2. u \in Seq(Byte)
  BY <1>1, GoodUnsent
<1>3. take \in 1..(Len(h.buf) - h.sent)
  OBVIOUS
<1>4. Advance(items, take) = IF h.sent + take = Len(h.buf) THEN Tail(items)
                             ELSE [items EXCEPT ![1].sent = @ + take]
  BY DEF Advance
<1> HIDE DEF h
<1>5. /\ c \in Seq(Byte) /\ (h.sent + take = Len(h.buf) => c = Rest(h))
      /\ Rest(h) = c \o SubSeq(h.buf, h.sent + take + 1, Len(h.buf))
  BY <1>1, <1>3, ChunkOfRest
<1>6. CASE h.sent + take = Len(h.buf)
  BY <1>1, <1>4, <1>5, <1>6 DEF h
<1>7. CASE h.sent + take # Len(h.buf)
  <2> DEFINE s == h.sent + take
             x == [h EXCEPT !.sent = s]
             r == [items EXCEPT ![1] = x]
  <2>1. Advance(items, take) = r
    BY <1>4, <1>7 DEF h
  <2>0. s \in Nat
    BY <1>1 DEF Item
  <2>2. x \in Item /\ x.buf = h.buf /\ x.ext = h.ext /\ x.sent = s
    <3> HIDE DEF s
    <3> QED
      BY <1>1, <2>0 DEF Item
  <2> HIDE DEF x
  <2>3. Pending(x)
    <3>1. h.sent \in Nat /\ Len(h.buf) \in Nat
      BY <1>1 DEF Item
    <3>2. h.sent + take < Len(h.buf)
      BY <1>3, <1>7, <3>1
    <3> QED
      BY <1>1, <2>2, <3>2 DEF Pending
  <2>4. Good(r) /\ UnsentOf(r) = Rest(x) \o u
    BY <2>2, <2>3, QueueReplace
  <2>5. Rest(x) \in Seq(Byte)
    BY <2>2, <2>3, PendingRest
  <2>6. Rest(h) = c \o Rest(x)
    BY <1>5, <2>2 DEF Rest
  <2> DEFINE y == Rest(x)
  <2> HIDE DEF c, u, r, y
  <2>7. (c \o y) \o u = c \o (y \o u)
    <3>1. c \in Seq(Byte) /\ y \in Seq(Byte) /\ u \in Seq(Byte)
      BY <1>2, <1>5, <2>5 DEF y
    <3> QED
      BY <3>1, ConcatAssociative, SMTT(40)
  <2> QED
    <3>1. UnsentOf(items) = c \o UnsentOf(r) /\ Good(r)
      BY <1>1, <2>4, <2>6, <2>7 DEF y
    <3> QED
      BY <2>1, <3>1 DEF c, h
<1> QED
  BY <1>6, <1>7

--------------------------------------------------------------------------------
(* The loop of drain_output *)

Settings == remote_max_packet \in Nat \ {0} /\ max_chunk \in Nat \cup {NoCap}

\* A message within the peer's packet size and the cap, of one stream.
Fits(m) ==
    /\ Len(m.data) \in 1..remote_max_packet
    /\ max_chunk # NoCap => Len(m.data) <= ChunkCap
    /\ \A j \in 1..Len(m.data) : m.data[j][1] = m.ext

LEMMA LimitFacts ==
    ASSUME Settings, NEW w \in Nat
    PROVE  /\ Limit(w) \in Nat /\ Limit(w) <= w /\ Limit(w) <= remote_max_packet
           /\ max_chunk # NoCap => Limit(w) <= ChunkCap
           /\ Limit(w) = 0 <=> w = 0
BY DEF Settings, Limit, Smaller, NoCap, ChunkCap

\* What the loop keeps: the messages so far and then the rest of the queue are
\* the bytes u it began with, and their length has come off the window w.
LoopInv(l, u, w) ==
    /\ Good(l.items) /\ l.window \in Nat
    /\ l.msgs \in Seq(Message) /\ \A i \in 1..Len(l.msgs) : Fits(l.msgs[i])
    /\ BytesOf(l.msgs) \o UnsentOf(l.items) = u
    /\ l.window + Len(BytesOf(l.msgs)) = w

LEMMA TurnKeeps ==
    ASSUME Settings, NEW u, NEW w \in Nat, NEW l, LoopInv(l, u, w)
    PROVE  /\ LoopInv(Turn(l), u, w)
           /\ Stops(l.items, l.window) => Turn(l) = l
           /\ ~Stops(l.items, l.window) => Turn(l).window < l.window
<1>1. CASE Stops(l.items, l.window)
  <2>1. Turn(l) = l
    BY <1>1, Zenon DEF Turn
  <2> QED
    BY <1>1, <2>1
<1>2. CASE ~Stops(l.items, l.window)
  <2> DEFINE q == l.items
             h == q[1]
             lim == Limit(l.window)
             take == Smaller(Len(h.buf) - h.sent, lim)
             c == Chunk(h, take)
             m == [ext |-> h.ext, data |-> c]
             r == Turn(l)
  <2>1. /\ r.items = Advance(q, take) /\ r.window = l.window - take
        /\ r.msgs = Append(l.msgs, m)
    BY <1>2 DEF Turn
  <2>2. q # <<>> /\ lim # 0
    BY <1>2 DEF Stops
  <2>3. Good(q) /\ l.window \in Nat /\ l.msgs \in Seq(Message)
    BY DEF LoopInv
  <2>4. h \in Item /\ Pending(h)
    BY <2>2, <2>3, QueueFront
  <2>5. /\ lim \in Nat /\ lim <= l.window /\ lim <= remote_max_packet
        /\ max_chunk # NoCap => lim <= ChunkCap
    BY <2>3, LimitFacts
  <2>6. h.sent \in Nat /\ Len(h.buf) \in Nat /\ h.sent < Len(h.buf) /\ h.ext \in BOOLEAN
    <3> HIDE DEF h
    <3> QED
      BY <2>4 DEF Item, Pending
  <2>7. take \in 1..(Len(h.buf) - h.sent) /\ take \in Nat /\ take <= lim /\ 1 <= take
    <3> HIDE DEF h, lim
    <3> QED
      BY <2>2, <2>5, <2>6 DEF Smaller
  <2>8. /\ c \in Seq(Byte) /\ Len(c) = take /\ \A j \in 1..take : c[j][1] = h.ext
    <3> HIDE DEF h, take
    <3> QED
      BY <2>4, <2>7, ChunkOfRest
  <2>9. Good(r.items) /\ UnsentOf(q) = c \o UnsentOf(r.items)
    <3>1. Good(Advance(q, take)) /\ UnsentOf(q) = Chunk(q[1], take) \o UnsentOf(Advance(q, take))
      <4> HIDE DEF take
      <4> QED
        BY <2>2, <2>3, <2>7, AdvanceKeeps DEF h
    <3> QED
      BY <2>1, <3>1
  <2>10. m \in Message /\ m.data = c /\ m.ext = h.ext
    <3> HIDE DEF c, h
    <3> QED
      BY <2>6, <2>8 DEF Message
  <2> HIDE DEF m, c, take, lim, h, q, r
  <2>11. Fits(m)
    <3>1. Len(m.data) \in 1..remote_max_packet /\ (max_chunk # NoCap => Len(m.data) <= ChunkCap)
      BY <2>5, <2>7, <2>8, <2>10 DEF Settings, NoCap, ChunkCap
    <3> QED
      BY <2>8, <2>10, <3>1 DEF Fits
  <2>12. r.msgs \in Seq(Message) /\ BytesOf(r.msgs) = BytesOf(l.msgs) \o c
    BY <2>1, <2>3, <2>10, BytesAppend
  <2>13. \A i \in 1..Len(r.msgs) : Fits(r.msgs[i])
    <3>1. \A i \in 1..Len(l.msgs) : Fits(l.msgs[i])
      BY DEF LoopInv
    <3> DEFINE a == l.msgs
    <3> HIDE DEF a
    <3>2. /\ Len(Append(a, m)) = Len(a) + 1 /\ Append(a, m)[Len(a) + 1] = m
          /\ \A i \in 1..Len(a) : Append(a, m)[i] = a[i]
      BY <2>3, <2>10, AppendProperties DEF a
    <3>3. \A i \in 1..(Len(a) + 1) : i \in 1..Len(a) \/ i = Len(a) + 1
      BY <2>3 DEF a
    <3> QED
      BY <2>1, <2>11, <3>1, <3>2, <3>3 DEF a
  <2> DEFINE b == BytesOf(l.msgs)
             v == UnsentOf(r.items)
  <2>14. b \in Seq(Byte) /\ v \in Seq(Byte)
    BY <2>3, <2>9, BytesType, GoodUnsent
  <2>15. b \o UnsentOf(q) = u /\ l.window + Len(b) = w
    BY DEF LoopInv, q
  <2> HIDE DEF b, v
  <2>16. (b \o c) \o v = b \o (c \o v)
    <3>1. b \in Seq(Byte) /\ c \in Seq(Byte) /\ v \in Seq(Byte)
      BY <2>8, <2>14
    <3> QED
      BY <3>1, ConcatAssociative, SMTT(40)
  <2>17. Len(b \o c) = Len(b) + take /\ Len(b) \in Nat
    <3>1. Len(b \o c) = Len(b) + Len(c) /\ Len(b) \in Nat
      <4>1. b \in Seq(Byte) /\ c \in Seq(Byte)
        BY <2>8, <2>14
      <4> QED
        BY <4>1
    <3> QED
      BY <2>8, <3>1
  <2>18. r.window \in Nat /\ r.window < l.window /\ r.window + (Len(b) + take) = w
    <3>1. /\ r.window = l.window - take /\ l.window \in Nat /\ take \in Nat /\ 1 <= take
          /\ take <= l.window /\ Len(b) \in Nat /\ l.window + Len(b) = w
      <4>1. lim \in Nat /\ lim <= l.window /\ take \in Nat /\ take <= lim /\ 1 <= take
        BY <2>5, <2>7, Zenon
      <4>2. take <= l.window
        BY <2>3, <4>1
      <4> QED
        BY <2>1, <2>3, <2>15, <2>17, <4>1, <4>2, Zenon
    <3> QED
      BY <3>1
  <2>19. BytesOf(r.msgs) \o UnsentOf(r.items) = u
    BY <2>9, <2>12, <2>15, <2>16 DEF b, v
  <2>20. r.window + Len(BytesOf(r.msgs)) = w
    BY <2>12, <2>17, <2>18 DEF b
  <2>21. LoopInv(r, u, w)
    BY <2>9, <2>12, <2>13, <2>18, <2>19, <2>20 DEF LoopInv
  <2> QED
    BY <1>2, <2>18, <2>21 DEF r
<1> QED
  BY <1>1, <1>2

\* f[n] is the state of the loop after n turns from b.
Turns(f, b, w) == f = [n \in 0..w |-> IF n = 0 THEN b ELSE Turn(f[n - 1])]

LEMMA TurnsDefined ==
    ASSUME NEW b, NEW w \in Nat
    PROVE  \E f : Turns(f, b, w)
<1> DEFINE S == {k \in Nat : \E f : Turns(f, b, k)}
<1>1. 0 \in S
  <2> DEFINE f == [n \in 0..0 |-> b]
  <2>1. f = [n \in 0..0 |-> IF n = 0 THEN b ELSE Turn(f[n - 1])]
    OBVIOUS
  <2> QED
    BY <2>1 DEF Turns
<1>2. ASSUME NEW k \in Nat, k \in S PROVE k + 1 \in S
  <2>1. PICK f : Turns(f, b, k)
    BY <1>2
  <2> DEFINE g == [n \in 0..(k + 1) |-> IF n = k + 1 THEN Turn(f[k]) ELSE f[n]]
  <2>2. ASSUME NEW n \in 0..(k + 1)
        PROVE  g[n] = IF n = 0 THEN b ELSE Turn(g[n - 1])
    <3>1. CASE n = k + 1
      BY <3>1
    <3>2. CASE n \in 0..k
      <4>1. f[n] = IF n = 0 THEN b ELSE Turn(f[n - 1])
        BY <2>1, <3>2 DEF Turns
      <4>2. n # k + 1 /\ g[n] = f[n]
        BY <3>2
      <4>3. n # 0 => n - 1 \in 0..(k + 1) /\ n - 1 # k + 1
        BY <3>2
      <4>4. n # 0 => g[n - 1] = f[n - 1]
        BY <4>3
      <4> HIDE DEF g
      <4> QED
        BY <4>1, <4>2, <4>4
    <3> QED
      BY <3>1, <3>2
  <2>3. g = [n \in 0..(k + 1) |-> IF n = 0 THEN b ELSE Turn(g[n - 1])]
    BY <2>2
  <2> HIDE DEF g
  <2>4. Turns(g, b, k + 1)
    BY <2>3, Zenon DEF Turns
  <2>5. k + 1 \in Nat
    OBVIOUS
  <2> QED
    BY <2>4, <2>5
<1>3. Nat \subseteq S
  <2> HIDE DEF S
  <2> QED
    BY <1>1, <1>2, Induction
<1> QED
  BY <1>3

LEMMA DrainIsTurns ==
    ASSUME NEW items, NEW w \in Nat,
           NEW b, b = [items |-> items, window |-> w, msgs |-> <<>>]
    PROVE  \E f : Turns(f, b, w) /\ DrainLoop(items, w) = f[w]
<1>1. \E f : f = [n \in 0..w |-> IF n = 0 THEN b ELSE Turn(f[n - 1])]
  <2>1. \E f : Turns(f, b, w)
    BY TurnsDefined
  <2> QED
    BY <2>1, Zenon DEF Turns
<1> DEFINE v == CHOOSE f : f = [n \in 0..w |-> IF n = 0 THEN b ELSE Turn(f[n - 1])]
<1>2. v = [n \in 0..w |-> IF n = 0 THEN b ELSE Turn(v[n - 1])]
  BY <1>1, Zenon
<1>3. DrainLoop(items, w) = v[w]
  BY Zenon DEF DrainLoop
<1> HIDE DEF v
<1> QED
  BY <1>2, <1>3, Zenon DEF Turns

\* What drain_output leaves and emits: nothing is lost, and it stops only with an
\* empty queue or without window.
LEMMA DrainFacts ==
    ASSUME Settings, NEW items, Good(items), NEW w \in Nat
    PROVE  LET d == DrainLoop(items, w)
           IN  /\ LoopInv(d, UnsentOf(items), w)
               /\ d.items = <<>> \/ d.window = 0
<1> DEFINE b == [items |-> items, window |-> w, msgs |-> <<>>]
           u == UnsentOf(items)
<1>1. LoopInv(b, u, w)
  <2>1. b.items = items /\ b.window = w /\ b.msgs = <<>>
    OBVIOUS
  <2> HIDE DEF b
  <2>2. b.msgs \in Seq(Message) /\ Len(b.msgs) = 0
    BY <2>1
  <2>3. BytesOf(b.msgs) = <<>>
    <3>1. Data(b.msgs) = <<>>
      BY <2>1 DEF Data
    <3>2. BytesOf(b.msgs) = FlattenSeq(Data(b.msgs))
      BY <2>2, BytesType
    <3> QED
      BY <3>1, <3>2, FlattenEmpty
  <2>4. u \in Seq(Byte)
    BY GoodUnsent
  <2> HIDE DEF u
  <2>5. <<>> \o u = u /\ Len(<<>>) = 0
    BY <2>4
  <2>6. BytesOf(b.msgs) \o UnsentOf(b.items) = u
    BY <2>1, <2>3, <2>5 DEF u
  <2>7. b.window + Len(BytesOf(b.msgs)) = w
    BY <2>1, <2>3, <2>5
  <2> QED
    BY <2>1, <2>2, <2>6, <2>7 DEF LoopInv
<1>2. PICK f : Turns(f, b, w) /\ DrainLoop(items, w) = f[w]
  <2> DEFINE c == b
  <2>1. c = [items |-> items, window |-> w, msgs |-> <<>>]
    OBVIOUS
  <2> HIDE DEF c
  <2>2. \E f : Turns(f, c, w) /\ DrainLoop(items, w) = f[w]
    BY <2>1, DrainIsTurns
  <2> QED
    BY <2>2 DEF c
<1> HIDE DEF b, u
<1>3. f[0] = b /\ \A n \in 0..w : n # 0 => f[n] = Turn(f[n - 1])
  BY <1>2 DEF Turns
<1> DEFINE Done(l) == Stops(l.items, l.window)
           S == {n \in Nat : n <= w => LoopInv(f[n], u, w) /\ (Done(f[n]) \/ f[n].window <= w - n)}
<1>4. 0 \in S
  <2>1. b.window = w
    BY DEF b
  <2> QED
    BY <1>1, <1>3, <2>1
<1>5. ASSUME NEW n \in Nat, n \in S PROVE n + 1 \in S
  <2> SUFFICES ASSUME n + 1 <= w
               PROVE  LoopInv(f[n + 1], u, w) /\ (Done(f[n + 1]) \/ f[n + 1].window <= w - (n + 1))
    OBVIOUS
  <2> DEFINE l == f[n]
             r == f[n + 1]
  <2>1. LoopInv(l, u, w) /\ (Done(l) \/ l.window <= w - n)
    BY <1>5
  <2>2. r = Turn(l)
    <3> DEFINE k == n + 1
    <3>1. k \in 0..w /\ k # 0 /\ k - 1 = n
      OBVIOUS
    <3> HIDE DEF k
    <3>2. f[k] = Turn(f[k - 1])
      BY <1>3, <3>1
    <3> QED
      BY <3>1, <3>2 DEF k
  <2> HIDE DEF l, r
  <2>3. LoopInv(r, u, w) /\ (Done(l) => r = l) /\ (~Done(l) => r.window < l.window)
    BY <2>1, <2>2, TurnKeeps
  <2>4. l.window \in Nat /\ r.window \in Nat
    BY <2>1, <2>3 DEF LoopInv
  <2>5. Done(r) \/ r.window <= w - (n + 1)
    <3>1. CASE Done(l)
      BY <2>3, <3>1
    <3>2. CASE ~Done(l)
      BY <2>1, <2>3, <2>4, <3>2
    <3> QED
      BY <3>1, <3>2
  <2> QED
    BY <2>3, <2>5 DEF r
<1>6. Nat \subseteq S
  <2> HIDE DEF S
  <2> QED
    BY <1>4, <1>5, Induction
<1> DEFINE d == f[w]
<1>7. LoopInv(d, u, w) /\ (Done(d) \/ d.window <= w - w)
  BY <1>6
<1> HIDE DEF d
<1>8. d.window \in Nat
  BY <1>7 DEF LoopInv
<1>9. d.items = <<>> \/ d.window = 0
  <2>1. d.window <= w - w => d.window = 0
    BY <1>8
  <2>2. Limit(d.window) = 0 => d.window = 0
    BY <1>8, LimitFacts
  <2> QED
    BY <1>7, <2>1, <2>2 DEF Stops
<1> QED
  BY <1>2, <1>7, <1>9 DEF d, u

--------------------------------------------------------------------------------
(* The channel *)

TypeInv ==
    /\ Settings /\ Good(out) /\ remote_window \in Nat
    /\ flushed_out \in Nat /\ released \in Nat
    /\ emitted \in Seq(Message) /\ enqueued \in Seq(Byte)

OutputInv == TypeInv /\ NothingLost /\ MessagesWellFormed /\ BudgetExact

LEMMA WellFormedFits == MessagesWellFormed <=> \A i \in 1..Len(emitted) : Fits(emitted[i])
BY Zenon DEF MessagesWellFormed, Fits

LEMMA InitOutput == Init => OutputInv
<1> SUFFICES ASSUME Init PROVE OutputInv
  OBVIOUS
<1>1. Settings
  BY OutputAssumption DEF Init, Settings
<1>2. out = <<>> /\ emitted = <<>> /\ enqueued = <<>> /\ remote_window = 0
      /\ flushed_out = 0 /\ released = 0
  BY DEF Init
<1>3. Good(out) /\ emitted \in Seq(Message) /\ enqueued \in Seq(Byte) /\ Len(emitted) = 0
  BY <1>2 DEF Good
<1>4. BytesOf(emitted) = <<>>
  <2>1. Data(emitted) = <<>>
    BY <1>2 DEF Data
  <2>2. BytesOf(emitted) = FlattenSeq(Data(emitted))
    BY <1>3, BytesType
  <2> QED
    BY <2>1, <2>2, FlattenEmpty
<1>5. UnsentOf(out) = <<>>
  <2>1. Rests(out) = <<>>
    BY <1>2 DEF Rests
  <2>2. UnsentOf(out) = FlattenSeq(Rests(out))
    BY <1>3, GoodUnsent
  <2> QED
    BY <2>1, <2>2, FlattenEmpty
<1>6. NothingLost
  <2>1. <<>> \o <<>> = <<>>
    OBVIOUS
  <2> QED
    BY <1>2, <1>4, <1>5, <2>1 DEF NothingLost, Unsent
<1>7. BudgetExact
  <2>1. Len(<<>>) = 0
    OBVIOUS
  <2> QED
    BY <1>2, <1>4, <2>1 DEF BudgetExact
<1>8. MessagesWellFormed
  BY <1>3, WellFormedFits
<1> QED
  BY <1>1, <1>2, <1>3, <1>6, <1>7, <1>8 DEF OutputInv, TypeInv

LEMMA EnqueueKeeps ==
    ASSUME OutputInv, NEW ext \in BOOLEAN, NEW n \in 0..MaxWrite, enqueue(ext, n)
    PROVE  OutputInv'
<1> DEFINE bytes == [i \in 1..n |-> <<ext, Len(enqueued) + i>>]
           x == [ext |-> ext, buf |-> bytes, sent |-> 0]
<1>0. n \in Nat
  BY OutputAssumption
<1>1. /\ enqueued' = enqueued \o bytes
      /\ out' = IF n = 0 THEN out ELSE Append(out, x)
      /\ remote_max_packet' = remote_max_packet /\ max_chunk' = max_chunk
      /\ remote_window' = remote_window /\ flushed_out' = flushed_out
      /\ emitted' = emitted /\ released' = released
  BY DEF enqueue
<1>2. TypeInv
  BY DEF OutputInv
<1>3. enqueued \in Seq(Byte) /\ Len(enqueued) \in Nat /\ Good(out) /\ emitted \in Seq(Message)
  BY <1>2 DEF TypeInv
<1>4. bytes \in Seq(Byte) /\ Len(bytes) = n /\ \A j \in 1..n : bytes[j][1] = ext
  BY <1>0, <1>3 DEF Byte
<1> HIDE DEF bytes
<1>5. x \in Item /\ x.buf = bytes /\ x.sent = 0 /\ x.ext = ext
  BY <1>4 DEF Item
<1> HIDE DEF x
<1>6. Good(out') /\ UnsentOf(out') = UnsentOf(out) \o bytes
  <2>0. UnsentOf(out) \in Seq(Byte)
    BY <1>3, GoodUnsent
  <2>1. CASE n = 0
    <3>1. bytes = <<>>
      BY <1>4, <2>1
    <3>2. UnsentOf(out) \o <<>> = UnsentOf(out)
      BY <2>0, ConcatEmptySeq
    <3> QED
      BY <1>1, <1>3, <2>1, <3>1, <3>2
  <2>2. CASE n # 0
    <3>1. Pending(x)
      BY <1>0, <1>4, <1>5, <2>2 DEF Pending
    <3>2. Good(Append(out, x)) /\ UnsentOf(Append(out, x)) = UnsentOf(out) \o bytes
      BY <1>3, <1>5, <3>1, QueueAppend
    <3> QED
      BY <1>1, <2>2, <3>2
  <2> QED
    BY <2>1, <2>2
<1>7. NothingLost'
  <2> DEFINE b == BytesOf(emitted)
             v == UnsentOf(out)
  <2>1. b \in Seq(Byte) /\ v \in Seq(Byte) /\ b \o v = enqueued
    BY <1>3, BytesType, GoodUnsent DEF OutputInv, NothingLost, Unsent
  <2> HIDE DEF b, v
  <2>2. (b \o v) \o bytes = b \o (v \o bytes)
    <3>1. b \in Seq(Byte) /\ v \in Seq(Byte) /\ bytes \in Seq(Byte)
      BY <1>4, <2>1
    <3> QED
      BY <3>1, ConcatAssociative
  <2>3. BytesOf(emitted') \o UnsentOf(out') = enqueued'
    BY <1>1, <1>6, <2>1, <2>2 DEF b, v
  <2> QED
    BY <2>3 DEF NothingLost, Unsent
<1>8. TypeInv'
  <2>1. enqueued' \in Seq(Byte)
    BY <1>1, <1>3, <1>4, ConcatProperties
  <2> QED
    BY <1>1, <1>2, <1>6, <2>1 DEF TypeInv, Settings
<1>9. MessagesWellFormed' /\ BudgetExact'
  BY <1>1, Zenon DEF OutputInv, MessagesWellFormed, BudgetExact, ChunkCap
<1> QED
  BY <1>7, <1>8, <1>9 DEF OutputInv

LEMMA SmallerSum ==
    ASSUME NEW c \in Nat, NEW v \in Nat, NEW d \in Nat, v = 0 \/ d = 0
    PROVE  Smaller(c + v, d + c) = c
BY DEF Smaller

LEMMA DrainKeeps ==
    ASSUME OutputInv, drain_output
    PROVE  /\ OutputInv'
           /\ LET n == Smaller(Len(Unsent), remote_window)
              IN  /\ Len(BytesOf(emitted')) = Len(BytesOf(emitted)) + n
                  /\ remote_window' = remote_window - n
<1> DEFINE d == DrainLoop(out, remote_window)
<1>1. /\ out' = d.items /\ remote_window' = d.window
      /\ flushed_out' = flushed_out + (remote_window - d.window)
      /\ emitted' = emitted \o d.msgs
      /\ remote_max_packet' = remote_max_packet /\ max_chunk' = max_chunk
      /\ enqueued' = enqueued /\ released' = released
  BY DEF drain_output, Flushed
<1>2. /\ Settings /\ Good(out) /\ remote_window \in Nat /\ flushed_out \in Nat /\ released \in Nat
      /\ emitted \in Seq(Message) /\ enqueued \in Seq(Byte)
  BY DEF OutputInv, TypeInv
<1>3. LoopInv(d, UnsentOf(out), remote_window) /\ (d.items = <<>> \/ d.window = 0)
  BY <1>2, DrainFacts
<1> HIDE DEF d
<1> DEFINE k == d.msgs
           e == BytesOf(emitted)
           c == BytesOf(k)
           v == UnsentOf(d.items)
           u == UnsentOf(out)
<1>4. /\ Good(d.items) /\ d.window \in Nat /\ k \in Seq(Message)
      /\ \A i \in 1..Len(k) : Fits(k[i])
      /\ c \o v = u /\ d.window + Len(c) = remote_window
  BY <1>3 DEF LoopInv
<1>5. e \in Seq(Byte) /\ c \in Seq(Byte)
  BY <1>2, <1>4, BytesType
<1>6. v \in Seq(Byte) /\ u \in Seq(Byte)
  BY <1>2, <1>4, GoodUnsent
<1>7. BytesOf(emitted') = e \o c /\ emitted' \in Seq(Message)
  BY <1>1, <1>2, <1>4, BytesConcat, ConcatProperties
<1>8. e \o u = enqueued
  BY DEF OutputInv, NothingLost, Unsent
<1>9. released + flushed_out = Len(e)
  BY DEF OutputInv, BudgetExact
<1>10. d.items = <<>> => v = <<>>
  <2> SUFFICES ASSUME d.items = <<>> PROVE v = <<>>
    OBVIOUS
  <2>1. Rests(d.items) = <<>>
    BY DEF Rests
  <2>2. UnsentOf(d.items) = FlattenSeq(Rests(d.items))
    BY <1>4, GoodUnsent
  <2> QED
    BY <2>1, <2>2, FlattenEmpty
<1>11. UnsentOf(out') = v
  BY <1>1
<1>12. MessagesWellFormed'
  <2>1. \A i \in 1..Len(emitted) : Fits(emitted[i])
    BY WellFormedFits DEF OutputInv
  <2> DEFINE m == emitted \o k
  <2> HIDE DEF k
  <2>2. /\ Len(m) = Len(emitted) + Len(k)
        /\ \A i \in 1..(Len(emitted) + Len(k)) :
              m[i] = IF i <= Len(emitted) THEN emitted[i] ELSE k[i - Len(emitted)]
    BY <1>2, <1>4, ConcatProperties
  <2> HIDE DEF m
  <2>3. \A i \in 1..Len(m) : Fits(m[i])
    <3> TAKE i \in 1..Len(m)
    <3>1. Len(emitted) \in Nat /\ Len(k) \in Nat
      BY <1>2, <1>4
    <3>2. CASE i <= Len(emitted)
      BY <2>1, <2>2, <3>1, <3>2
    <3>3. CASE ~(i <= Len(emitted))
      <4> DEFINE j == i - Len(emitted)
      <4>1. j \in 1..Len(k)
        BY <2>2, <3>1, <3>3
      <4>2. m[i] = k[j]
        BY <2>2, <3>1, <3>3
      <4> QED
        BY <1>4, <4>1, <4>2
    <3> QED
      BY <3>2, <3>3
  <2>4. emitted' = m
    BY <1>1 DEF m, k
  <2>5. /\ \A i \in 1..Len(m) : /\ Len(m[i].data) \in 1..remote_max_packet
                                /\ max_chunk # NoCap => Len(m[i].data) <= ChunkCap
                                /\ \A j \in 1..Len(m[i].data) : m[i].data[j][1] = m[i].ext
    BY <2>3, Zenon DEF Fits
  <2> QED
    BY <1>1, <2>4, <2>5, Zenon DEF MessagesWellFormed, ChunkCap
<1> HIDE DEF k, e, c, v, u
<1>13. e \o c \o v = e \o (c \o v)
  BY <1>5, <1>6, ConcatAssociative
<1>14. NothingLost'
  <2>1. BytesOf(emitted') \o UnsentOf(out') = enqueued'
    BY <1>1, <1>4, <1>7, <1>8, <1>11, <1>13
  <2> QED
    BY <2>1 DEF NothingLost, Unsent
<1>15. /\ Len(e \o c) = Len(e) + Len(c) /\ Len(u) = Len(c) + Len(v)
       /\ Len(e) \in Nat /\ Len(c) \in Nat /\ Len(v) \in Nat
  <2>1. Len(e \o c) = Len(e) + Len(c) /\ Len(e) \in Nat /\ Len(c) \in Nat /\ Len(v) \in Nat
    BY <1>5, <1>6
  <2>2. Len(c \o v) = Len(c) + Len(v)
    BY <1>5, <1>6, ConcatProperties
  <2> QED
    BY <1>4, <2>1, <2>2
<1>16. /\ d.window \in Nat /\ remote_window \in Nat /\ d.window + Len(c) = remote_window
       /\ remote_window - d.window = Len(c) /\ d.window = remote_window - Len(c)
  <2>1. d.window \in Nat /\ remote_window \in Nat /\ d.window + Len(c) = remote_window
    BY <1>2, <1>4
  <2> QED
    BY <1>15, <2>1
<1>17. BudgetExact'
  <2>1. Len(BytesOf(emitted')) = Len(e) + Len(c)
    BY <1>7, <1>15
  <2>2. flushed_out' = flushed_out + Len(c) /\ released' = released
    BY <1>1, <1>16
  <2>3. released + (flushed_out + Len(c)) = Len(e) + Len(c)
    BY <1>2, <1>9, <1>15
  <2> QED
    BY <2>1, <2>2, <2>3 DEF BudgetExact
<1>18. TypeInv'
  <2>1. flushed_out' \in Nat
    BY <1>1, <1>2, <1>15, <1>16
  <2> QED
    BY <1>1, <1>2, <1>4, <1>7, <2>1 DEF TypeInv, Settings, k
<1>19. Len(c) = Smaller(Len(u), remote_window)
  <2>1. v = <<>> => Len(v) = 0
    OBVIOUS
  <2>2. Len(v) = 0 \/ d.window = 0
    BY <1>3, <1>10, <2>1
  <2>3. Smaller(Len(c) + Len(v), d.window + Len(c)) = Len(c)
    BY <1>15, <1>16, <2>2, SmallerSum
  <2> QED
    BY <1>15, <1>16, <2>3
<1>20. /\ Len(BytesOf(emitted')) = Len(BytesOf(emitted)) + Smaller(Len(Unsent), remote_window)
       /\ remote_window' = remote_window - Smaller(Len(Unsent), remote_window)
  <2>1. u = Unsent
    BY DEF u, Unsent
  <2>2. Len(BytesOf(emitted')) = Len(e) + Len(c)
    BY <1>7, <1>15
  <2>3. remote_window' = remote_window - Len(c)
    BY <1>1, <1>16, Zenon
  <2> QED
    BY <1>19, <2>1, <2>2, <2>3 DEF e
<1> QED
  BY <1>12, <1>14, <1>17, <1>18, <1>20 DEF OutputInv

LEMMA OthersKeep ==
    ASSUME OutputInv,
           (\E n \in 1..MaxWindow : add_remote_window(n)) \/ take_flushed_out \/ UNCHANGED vars
    PROVE  OutputInv'
<1>1. /\ out' = out /\ emitted' = emitted /\ enqueued' = enqueued
      /\ remote_max_packet' = remote_max_packet /\ max_chunk' = max_chunk
  BY DEF add_remote_window, take_flushed_out, vars
<1>2. TypeInv
  BY DEF OutputInv
<1>3. /\ remote_window' \in Nat /\ flushed_out' \in Nat /\ released' \in Nat
      /\ released' + flushed_out' = released + flushed_out
  <2>1. CASE \E n \in 1..MaxWindow : add_remote_window(n)
    BY <1>2, <2>1, OutputAssumption DEF TypeInv, add_remote_window
  <2>2. CASE take_flushed_out
    BY <1>2, <2>2 DEF TypeInv, take_flushed_out
  <2>3. CASE UNCHANGED vars
    BY <1>2, <2>3 DEF TypeInv, vars
  <2> QED
    BY <2>1, <2>2, <2>3
<1>4. TypeInv'
  BY <1>1, <1>2, <1>3 DEF TypeInv, Settings
<1>5. NothingLost' /\ MessagesWellFormed'
  BY <1>1, Zenon DEF OutputInv, NothingLost, MessagesWellFormed, Unsent, ChunkCap
<1>6. BudgetExact'
  BY <1>1, <1>3 DEF OutputInv, BudgetExact
<1> QED
  BY <1>4, <1>5, <1>6 DEF OutputInv

LEMMA OutputStep == OutputInv /\ [Next]_vars => OutputInv'
<1> SUFFICES ASSUME OutputInv, [Next]_vars PROVE OutputInv'
  OBVIOUS
<1>1. ASSUME NEW ext \in BOOLEAN, NEW n \in 0..MaxWrite, enqueue(ext, n) PROVE OutputInv'
  BY <1>1, EnqueueKeeps
<1>2. CASE drain_output
  BY <1>2, DrainKeeps
<1>3. CASE (\E n \in 1..MaxWindow : add_remote_window(n)) \/ take_flushed_out \/ UNCHANGED vars
  BY <1>3, OthersKeep
<1> QED
  BY <1>1, <1>2, <1>3 DEF Next

--------------------------------------------------------------------------------
\* The invariant behind the theorems below: every item of the queue has bytes
\* left to send, all of its own stream, and the three properties the run checks.
THEOREM OutputInvariant == Spec => []OutputInv
<1> QED
  BY InitOutput, OutputStep, PTL DEF Spec

\* However writes, window adjustments and drains interleave, the bytes emitted
\* and then the bytes still queued are the bytes enqueued, in order and once
\* (drain_output and the front.sent cursor), for every packet size and cap.
THEOREM OutputNeverLost == Spec => []NothingLost
<1>1. OutputInv => NothingLost
  BY DEF OutputInv
<1> QED
  BY <1>1, OutputInvariant, PTL

\* Every message drain_output emits has at least one byte, no more than the
\* peer's maximum packet and the obfuscation cap allow, and bytes of one stream.
THEOREM MessagesAlwaysFit == Spec => []MessagesWellFormed
<1>1. OutputInv => MessagesWellFormed
  BY DEF OutputInv
<1> QED
  BY <1>1, OutputInvariant, PTL

\* What take_flushed_out has released and will release is what has been emitted.
THEOREM BudgetAlwaysExact == Spec => []BudgetExact
<1>1. OutputInv => BudgetExact
  BY DEF OutputInv
<1> QED
  BY <1>1, OutputInvariant, PTL

\* One call of drain_output sends all that is queued or all that the window
\* allows, and charges exactly that to the window: the step ChannelFlow takes.
THEOREM DrainExact == Spec => DrainsExactly
<1> DEFINE Exact == emitted' # emitted =>
                      LET n == Smaller(Len(Unsent), remote_window)
                      IN  /\ Len(BytesOf(emitted')) = Len(BytesOf(emitted)) + n
                          /\ remote_window' = remote_window - n
<1>1. OutputInv /\ [Next]_vars => [Exact]_vars
  <2> SUFFICES ASSUME OutputInv, Next PROVE Exact
    OBVIOUS
  <2>1. CASE drain_output
    <3>1. LET n == Smaller(Len(Unsent), remote_window)
          IN  /\ Len(BytesOf(emitted')) = Len(BytesOf(emitted)) + n
              /\ remote_window' = remote_window - n
      BY <2>1, DrainKeeps
    <3> QED
      BY <3>1
  <2>2. CASE ~drain_output
    <3>1. emitted' = emitted
      BY <2>2 DEF Next, enqueue, add_remote_window, take_flushed_out
    <3> QED
      BY <3>1
  <2> QED
    BY <2>1, <2>2
<1>2. OutputInv /\ [Next]_vars => [emitted' # emitted =>
          LET n == Smaller(Len(Unsent), remote_window)
          IN  /\ Len(BytesOf(emitted')) = Len(BytesOf(emitted)) + n
              /\ remote_window' = remote_window - n]_vars
  BY <1>1
<1> HIDE DEF Exact
<1> QED
  BY <1>2, OutputInvariant, PTL DEF Spec, DrainsExactly
================================================================================
