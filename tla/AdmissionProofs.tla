--------------------------- MODULE AdmissionProofs ---------------------------
(***************************************************************************)
(* The accept-time defences, for every set of addresses and tasks and all  *)
(* settings: the connection limiter keeps its books, the token bucket      *)
(* bounds the passes of every stretch of time, and the ban table loses no  *)
(* strike that counts and invents none.                                    *)
(***************************************************************************)
EXTENDS Admission, FiniteSetTheorems, TLAPS

States == {"free", "login", "session", "striking", "ending", "released"}

\* The types the limiter's invariant rests on.  A task that is not free, and a
\* listener that is deciding on a peer, know an address.
LimiterType ==
    /\ perIpMax \in PerIpMaxes
    /\ permits \in Nat
    /\ count \in [IPs -> Nat]
    /\ conn \in [Conns -> [st : States, ip : IPs \cup {NoIp}, now : Int]]
    /\ \A c \in Conns : conn[c].st # "free" => conn[c].ip \in IPs
    /\ listener \in [at : {"accept", "policy", "admit"}, ip : IPs \cup {NoIp}]
    /\ listener.at # "accept" => listener.ip \in IPs
    /\ clock \in Nat

LimiterInv == LimiterType /\ SlotsExact

-----------------------------------------------------------------------------
\* Every set of tasks is finite.
LEMMA TasksFinite ==
    ASSUME NEW S, S \subseteq Conns
    PROVE  IsFiniteSet(S) /\ Cardinality(S) \in Nat
  BY ConnsAssumption, FS_Subset, FS_CardinalityType

\* One task more, one task less.
LEMMA OneMore ==
    ASSUME NEW S, S \subseteq Conns, NEW c \in Conns, c \notin S
    PROVE  Cardinality(S \cup {c}) = Cardinality(S) + 1
  BY TasksFinite, FS_AddElement

LEMMA OneLess ==
    ASSUME NEW S, S \subseteq Conns, NEW c \in S
    PROVE  Cardinality(S \ {c}) = Cardinality(S) - 1
  BY TasksFinite, FS_RemoveElement

LEMMA Subsets ==
    /\ Holding \subseteq Conns
    /\ \A i : Counted(i) \subseteq Conns
  BY DEF Holding, Counted

\* A step that changes no task's holdings and none of the limiter's variables
\* keeps the books.
LEMMA BooksKept ==
    ASSUME SlotsExact, UNCHANGED limiter,
           Holding' = Holding, \A i \in IPs : Counted(i)' = Counted(i)
    PROVE  SlotsExact'
  BY DEF SlotsExact, limiter, MaxGlobal

\* A task that moves between two states in which it is counted.
LEMMA StaysCounted ==
    ASSUME LimiterType, NEW c \in Conns, NEW s \in States, NEW t \in Int,
           conn[c].st \notin {"free", "released"}, s \notin {"free", "released"},
           conn' = [conn EXCEPT ![c] = [st |-> s, ip |-> conn[c].ip, now |-> t]]
    PROVE  /\ Holding' = Holding
           /\ \A i \in IPs : Counted(i)' = Counted(i)
           /\ conn' \in [Conns -> [st : States, ip : IPs \cup {NoIp}, now : Int]]
           /\ \A d \in Conns : conn'[d].st # "free" => conn'[d].ip \in IPs
<1>1. \A d \in Conns : conn'[d] = IF d = c THEN [st |-> s, ip |-> conn[c].ip, now |-> t] ELSE conn[d]
  BY DEF LimiterType
<1>2. conn[c].ip \in IPs
  BY DEF LimiterType
<1>3. Holding' = Holding
  BY <1>1 DEF Holding
<1>4. \A i \in IPs : Counted(i)' = Counted(i)
  BY <1>1 DEF Counted
<1>5. conn' \in [Conns -> [st : States, ip : IPs \cup {NoIp}, now : Int]]
  BY <1>1, <1>2 DEF LimiterType
<1>6. \A d \in Conns : conn'[d].st # "free" => conn'[d].ip \in IPs
  BY <1>1, <1>2 DEF LimiterType
<1> QED
  BY <1>3, <1>4, <1>5, <1>6

-----------------------------------------------------------------------------
LEMMA InitKeepsBooks == Init => LimiterInv
<1> SUFFICES ASSUME Init PROVE LimiterInv
  OBVIOUS
<1> USE DEF Init
<1>1. LimiterType
  <2>1. MaxGlobal \in Nat
    BY TasksFinite DEF MaxGlobal
  <2> QED
    BY <2>1 DEF LimiterType, States, Free, Accepting, None
<1>2. Holding = {} /\ \A i \in IPs : Counted(i) = {}
  BY DEF Holding, Counted, Free
<1>3. Cardinality({}) = 0
  BY FS_EmptySet
<1>4. perIpMax # NoLimit => perIpMax \in Nat
  BY LimitAssumption
<1>5. SlotsExact
  <2>1. permits + Cardinality(Holding) = MaxGlobal
    BY <1>2, <1>3, TasksFinite DEF MaxGlobal
  <2>2. perIpMax # NoLimit =>
          \A i \in IPs : count[i] = Cardinality(Counted(i)) /\ count[i] <= perIpMax
    <3>1. \A i \in IPs : count[i] = 0 /\ Cardinality(Counted(i)) = 0
      BY <1>2, <1>3
    <3> HIDE DEF Init
    <3> QED
      BY <1>4, <3>1
  <2> QED
    BY <2>1, <2>2 DEF SlotsExact
<1> QED
  BY <1>1, <1>5 DEF LimiterInv

\* try_admit: a refused peer changes nothing the invariant speaks of but the set
\* of map entries, which only grows; an admitted one takes a permit, is counted
\* if there is a cap, and was under it.
LEMMA AdmitKeepsBooks ==
    ASSUME LimiterInv, try_admit
    PROVE  LimiterInv'
<1> USE DEF LimiterInv
<1>1. listener.ip \in IPs /\ perIpMax' = perIpMax /\ clock' = clock /\ listener' = Accepting
  BY DEF try_admit, LimiterType
<1>2. perIpMax # NoLimit => perIpMax \in Nat
  BY LimitAssumption DEF LimiterType
<1>3. perIpMax # NoLimit => tracked' = tracked \cup {listener.ip}
  BY DEF try_admit
<1>4. CASE UNCHANGED <<permits, count, conn>>
  <2>1. LimiterType'
    BY <1>1, <1>4 DEF LimiterType, Accepting
  <2>2. Holding' = Holding /\ \A i \in IPs : Counted(i)' = Counted(i)
    BY <1>4 DEF Holding, Counted
  <2>3. SlotsExact'
    BY <1>1, <1>3, <1>4, <2>2 DEF SlotsExact, MaxGlobal
  <2> QED
    BY <2>1, <2>3
<1>5. ASSUME UnderIpCap(listener.ip), permits > 0, permits' = permits - 1,
             count' = IF perIpMax = NoLimit THEN count
                      ELSE [count EXCEPT ![listener.ip] = @ + 1],
             NEW c \in Conns, conn[c].st = "free",
             conn' = [conn EXCEPT ![c] = [st |-> "login", ip |-> listener.ip, now |-> None]]
      PROVE  LimiterInv'
  <2>1. \A d \in Conns : conn'[d] = IF d = c THEN [st |-> "login", ip |-> listener.ip, now |-> None]
                                    ELSE conn[d]
    BY <1>5 DEF LimiterType
  <2>2. LimiterType'
    <3>1. permits' \in Nat /\ count' \in [IPs -> Nat]
      BY <1>1, <1>5 DEF LimiterType
    <3>2. conn' \in [Conns -> [st : States, ip : IPs \cup {NoIp}, now : Int]]
      <4>1. [st |-> "login", ip |-> listener.ip, now |-> None]
              \in [st : States, ip : IPs \cup {NoIp}, now : Int]
        BY <1>1 DEF States, None
      <4>2. conn' = [d \in Conns |-> conn'[d]]
        BY <1>5 DEF LimiterType
      <4> QED
        BY <2>1, <4>1, <4>2 DEF LimiterType
    <3> QED
      BY <1>1, <2>1, <3>1, <3>2 DEF LimiterType, Accepting
  <2>3. Holding' = Holding \cup {c} /\ c \notin Holding
    BY <1>5, <2>1 DEF Holding
  <2>4. Cardinality(Holding') = Cardinality(Holding) + 1
    BY <2>3, OneMore, Subsets
  <2>5. permits' + Cardinality(Holding') = MaxGlobal'
    <3>1. Cardinality(Holding) \in Nat
      BY Subsets, TasksFinite
    <3> QED
      BY <1>5, <2>4, <3>1 DEF SlotsExact, MaxGlobal, LimiterType
  <2>6. ASSUME perIpMax # NoLimit, NEW i \in IPs
        PROVE  /\ count'[i] = Cardinality(Counted(i)')
               /\ count'[i] <= perIpMax
               /\ i \notin tracked' => count'[i] = 0
    <3>1. CASE i = listener.ip
      <4>1. Counted(i)' = Counted(i) \cup {c} /\ c \notin Counted(i)
        BY <1>5, <2>1, <3>1 DEF Counted
      <4>2. Cardinality(Counted(i)') = Cardinality(Counted(i)) + 1
        BY <4>1, OneMore, Subsets
      <4>3. count'[i] = count[i] + 1 /\ count[i] < perIpMax /\ i \in tracked'
        BY <1>3, <1>5, <2>6, <3>1 DEF UnderIpCap, LimiterType
      <4> QED
        BY <4>2, <4>3, <2>6, <1>2 DEF SlotsExact, LimiterType
    <3>2. CASE i # listener.ip
      <4>1. Counted(i)' = Counted(i)
        BY <1>5, <2>1, <3>2 DEF Counted
      <4>2. count'[i] = count[i]
        BY <1>5, <3>2 DEF LimiterType
      <4> QED
        BY <4>1, <4>2, <2>6, <1>3 DEF SlotsExact
    <3> QED
      BY <3>1, <3>2
  <2>7. SlotsExact'
    BY <1>1, <2>5, <2>6 DEF SlotsExact
  <2> QED
    BY <2>2, <2>7
<1> QED
  BY <1>4, <1>5 DEF try_admit

\* ConnectionGuard::drop: the address loses one, and its entry with the last.
LEMMA DropCountKeepsBooks ==
    ASSUME LimiterInv, NEW c \in Conns, DropCount(c)
    PROVE  LimiterInv'
<1> USE DEF LimiterInv
<1>1. /\ conn[c].st = "ending" /\ conn[c].ip \in IPs
      /\ UNCHANGED <<clock, perIpMax, permits, listener>>
      /\ conn' = [conn EXCEPT ![c].st = "released"]
  BY DEF DropCount, LimiterType
<1>2. \A d \in Conns : conn'[d] = IF d = c THEN [conn[c] EXCEPT !.st = "released"] ELSE conn[d]
  BY <1>1 DEF LimiterType
<1>3. conn'[c].st = "released" /\ conn'[c].ip = conn[c].ip
  BY <1>2 DEF LimiterType
<1>4. perIpMax # NoLimit => perIpMax \in Nat
  BY LimitAssumption DEF LimiterType
<1>5. Holding' = Holding
  BY <1>1, <1>2, <1>3 DEF Holding
<1>6. ASSUME perIpMax # NoLimit, NEW i \in IPs
      PROVE  /\ count'[i] \in Nat
             /\ count'[i] = Cardinality(Counted(i)')
             /\ count'[i] <= perIpMax
             /\ i \notin tracked' => count'[i] = 0
  <2>1. /\ count' = [count EXCEPT ![conn[c].ip] = @ - 1]
        /\ tracked' = IF count[conn[c].ip] = 1 THEN tracked \ {conn[c].ip} ELSE tracked
    BY <1>6 DEF DropCount
  <2>2. CASE i = conn[c].ip
    <3>1. Counted(i)' = Counted(i) \ {c} /\ c \in Counted(i)
      BY <1>1, <1>2, <1>3, <2>2 DEF Counted
    <3>2. Cardinality(Counted(i)') = Cardinality(Counted(i)) - 1
      BY <3>1, OneLess, Subsets
    <3>3. Cardinality(Counted(i)') \in Nat
      <4>1. Counted(i) \ {c} \subseteq Conns
        BY Subsets
      <4> QED
        BY <3>1, <4>1, TasksFinite
    <3>4. count'[i] = count[i] - 1
      BY <2>1, <2>2 DEF LimiterType
    <3>5. i \in tracked
      BY <3>2, <3>3, <1>6 DEF SlotsExact, LimiterType
    <3> QED
      BY <2>1, <2>2, <3>2, <3>3, <3>4, <3>5, <1>4, <1>6 DEF SlotsExact, LimiterType
  <2>3. CASE i # conn[c].ip
    <3>1. Counted(i)' = Counted(i)
      BY <1>1, <1>2, <1>3, <2>3 DEF Counted
    <3>2. count'[i] = count[i] /\ (i \in tracked' <=> i \in tracked)
      BY <2>1, <2>3 DEF LimiterType
    <3> QED
      BY <3>1, <3>2, <1>6 DEF SlotsExact, LimiterType
  <2> QED
    BY <2>2, <2>3
<1>7. SlotsExact'
  BY <1>1, <1>5, <1>6 DEF SlotsExact, MaxGlobal
<1>8. count' \in [IPs -> Nat]
  <2>1. CASE perIpMax = NoLimit
    BY <2>1 DEF DropCount, LimiterType
  <2>2. CASE perIpMax # NoLimit
    <3>1. count' = [count EXCEPT ![conn[c].ip] = @ - 1]
      BY <2>2 DEF DropCount
    <3> QED
      BY <2>2, <3>1, <1>6 DEF LimiterType
  <2> QED
    BY <2>1, <2>2
<1>9. LimiterType'
  <2>1. conn' \in [Conns -> [st : States, ip : IPs \cup {NoIp}, now : Int]]
    BY <1>1 DEF LimiterType, States
  <2> QED
    BY <1>1, <1>2, <1>3, <1>8, <2>1 DEF LimiterType
<1> QED
  BY <1>7, <1>9

\* The drop of the guard's permit.
LEMMA DropPermitKeepsBooks ==
    ASSUME LimiterInv, NEW c \in Conns, DropPermit(c)
    PROVE  LimiterInv'
<1> USE DEF LimiterInv
<1>1. /\ conn[c].st = "released" /\ permits' = permits + 1
      /\ UNCHANGED <<clock, perIpMax, count, tracked, listener>>
      /\ conn' = [conn EXCEPT ![c] = Free]
  BY DEF DropPermit
<1>2. \A d \in Conns : conn'[d] = IF d = c THEN Free ELSE conn[d]
  BY <1>1 DEF LimiterType
<1>3. LimiterType'
  <2>1. Free \in [st : States, ip : IPs \cup {NoIp}, now : Int] /\ Free.st = "free"
    BY DEF Free, States, None
  <2> QED
    BY <1>1, <1>2, <2>1 DEF LimiterType
<1>4. Holding' = Holding \ {c} /\ c \in Holding
  BY <1>1, <1>2 DEF Holding, Free
<1>5. Cardinality(Holding') = Cardinality(Holding) - 1 /\ Cardinality(Holding) \in Nat
  BY <1>4, OneLess, Subsets, TasksFinite
<1>6. \A i \in IPs : Counted(i)' = Counted(i)
  BY <1>1, <1>2 DEF Counted, Free
<1>7. permits' + Cardinality(Holding') = MaxGlobal'
  BY <1>1, <1>5 DEF SlotsExact, MaxGlobal, LimiterType
<1>8. SlotsExact'
  BY <1>1, <1>6, <1>7 DEF SlotsExact
<1> QED
  BY <1>3, <1>8

LEMMA NextKeepsBooks == LimiterInv /\ [Next]_vars => LimiterInv'
<1> SUFFICES ASSUME LimiterInv, [Next]_vars PROVE LimiterInv'
  OBVIOUS
<1> USE DEF LimiterInv
<1>1. ASSUME NEW i \in IPs, try_acquire(i) PROVE LimiterInv'
  <2>1. UNCHANGED <<clock, limiter, conn>>
    BY <1>1 DEF try_acquire
  <2>2. Holding' = Holding /\ \A j \in IPs : Counted(j)' = Counted(j)
    BY <2>1 DEF Holding, Counted
  <2>3. listener' \in [at : {"accept", "policy", "admit"}, ip : IPs \cup {NoIp}]
        /\ (listener'.at # "accept" => listener'.ip \in IPs)
    BY <1>1 DEF try_acquire, LimiterType
  <2> QED
    BY <2>1, <2>2, <2>3, BooksKept DEF LimiterType, limiter
<1>2. ASSUME evaluate PROVE LimiterInv'
  <2>1. UNCHANGED <<clock, limiter, conn>> /\ listener.ip \in IPs
    BY <1>2 DEF evaluate, LimiterType
  <2>2. Holding' = Holding /\ \A j \in IPs : Counted(j)' = Counted(j)
    BY <2>1 DEF Holding, Counted
  <2>3. listener' \in [at : {"accept", "policy", "admit"}, ip : IPs \cup {NoIp}]
        /\ (listener'.at # "accept" => listener'.ip \in IPs)
    <3>1. listener' = Accepting \/ listener' = [listener EXCEPT !.at = "admit"]
      BY <1>2 DEF evaluate
    <3> QED
      BY <2>1, <3>1 DEF LimiterType, Accepting
  <2> QED
    BY <2>1, <2>2, <2>3, BooksKept DEF LimiterType, limiter
<1>3. ASSUME NEW c \in Conns, NEW s \in States, NEW t \in Int,
             conn[c].st \notin {"free", "released"}, s \notin {"free", "released"},
             conn' = [conn EXCEPT ![c] = [st |-> s, ip |-> conn[c].ip, now |-> t]],
             UNCHANGED <<clock, limiter, listener>>
      PROVE  LimiterInv'
  BY <1>3, StaysCounted, BooksKept DEF LimiterType, limiter
<1>4. \A c \in Conns : \A s :
        /\ [conn[c] EXCEPT !.st = s] = [st |-> s, ip |-> conn[c].ip, now |-> conn[c].now]
        /\ conn[c].now \in Int
  BY DEF LimiterType
<1>5. ASSUME NEW c \in Conns, on_authenticated(c) PROVE LimiterInv'
  <2>1. /\ conn[c].st = "login" /\ UNCHANGED <<clock, limiter, listener>>
        /\ conn' = [conn EXCEPT ![c] = [st |-> "session", ip |-> conn[c].ip, now |-> conn[c].now]]
    BY <1>4, <1>5 DEF on_authenticated
  <2> QED
    BY <2>1, <1>3, <1>4 DEF States
<1>6. ASSUME NEW c \in Conns, ReadNow(c) PROVE LimiterInv'
  <2>1. /\ conn[c].st = "login" /\ UNCHANGED <<clock, limiter, listener>>
        /\ conn' = [conn EXCEPT ![c] = [st |-> "striking", ip |-> conn[c].ip, now |-> clock]]
        /\ clock \in Int
    BY <1>6 DEF ReadNow, LimiterType
  <2> QED
    BY <2>1, <1>3 DEF States
<1>7. ASSUME NEW c \in Conns, on_auth_exhausted(c) PROVE LimiterInv'
  <2>1. /\ conn[c].st = "striking" /\ UNCHANGED <<clock, limiter, listener>>
        /\ conn' = [conn EXCEPT ![c] = [st |-> "ending", ip |-> conn[c].ip, now |-> None]]
    BY <1>7 DEF on_auth_exhausted
  <2>2. None \in Int /\ "ending" \in States
    BY DEF States, None
  <2> QED
    BY <2>1, <2>2, <1>3
<1>8. ASSUME NEW c \in Conns, End(c) PROVE LimiterInv'
  <2>1. /\ conn[c].st \in {"login", "session"} /\ UNCHANGED <<clock, limiter, listener>>
        /\ conn' = [conn EXCEPT ![c] = [st |-> "ending", ip |-> conn[c].ip, now |-> conn[c].now]]
    BY <1>4, <1>8 DEF End
  <2> QED
    BY <2>1, <1>3, <1>4 DEF States
<1>9. CASE Tick
  <2>1. UNCHANGED <<limiter, conn, listener>> /\ clock' \in Nat
    BY <1>9 DEF Tick, LimiterType
  <2>2. Holding' = Holding /\ \A j \in IPs : Counted(j)' = Counted(j)
    BY <2>1 DEF Holding, Counted
  <2> QED
    BY <2>1, <2>2, BooksKept DEF LimiterType, limiter
<1>10. CASE UNCHANGED vars
  <2>1. UNCHANGED <<clock, limiter, conn, listener>>
    BY <1>10 DEF vars
  <2>2. Holding' = Holding /\ \A j \in IPs : Counted(j)' = Counted(j)
    BY <2>1 DEF Holding, Counted
  <2> QED
    BY <2>1, <2>2, BooksKept DEF LimiterType, limiter
<1> QED
  BY <1>1, <1>2, <1>5, <1>6, <1>7, <1>8, <1>9, <1>10,
     AdmitKeepsBooks, DropCountKeepsBooks, DropPermitKeepsBooks DEF Next

\* ConnectionLimiter never loses or over-lends a slot: in every reachable state,
\* whatever the interleaving of admissions with the two-step drops of guards,
\* for any number of addresses and connections and with or without a per-IP cap.
THEOREM SlotsAlwaysExact == Spec => []SlotsExact
<1>1. LimiterInv => SlotsExact
  BY DEF LimiterInv
<1> QED
  BY <1>1, InitKeepsBooks, NextKeepsBooks, PTL DEF Spec

-----------------------------------------------------------------------------
(***************************************************************************)
(* The token bucket.  RateBound alone does not say what the bucket still   *)
(* holds: the invariant adds it to what was spent since tick s.            *)
(***************************************************************************)
BucketType ==
    /\ clock \in Times
    /\ bucket \in [tokens : Nat, last : Nat]
    /\ bucket.tokens <= Burst
    /\ bucket.last <= clock
    /\ passed \in [Times -> Nat]

\* Spent since s, plus what is there to spend, is covered by a full bucket and
\* the refill; nothing is passed at a tick to come.
BucketInv ==
    /\ BucketType
    /\ \A s \in 0..clock : passed[s] * Cost + Refilled <= Burst + (clock - s) * Rate
    /\ \A s \in Times : s > clock => passed[s] = 0

(***************************************************************************)
(* The Fail2Ban table.  Each record is tied to the strikes it stands for.  *)
(***************************************************************************)
StrikingInv ==
    \A c \in Conns : conn[c].st = "striking" =>
                        conn[c].now \in Nat /\ conn[c].now <= clock /\ clock - conn[c].now <= Skew

\* A record is empty, or its ban is exactly BanDuration from its last strike
\* and set exactly when it has BanThreshold strikes.
RecordOK(r) ==
    \/ r = NoRecord
    \/ /\ r \in [strikes : Nat \ {0}, banned_until : Nat \cup {None}, last_strike : Nat]
       /\ r.last_strike <= clock
       /\ r.strikes < BanThreshold => r.banned_until = None
       /\ r.strikes >= BanThreshold => r.banned_until = r.last_strike + BanDuration

\* No strike was stamped in the future; the ones of the last BanDuration - Skew
\* are all in the record; the record holds no strike that was not made; no
\* strike is later than the record's last by more than Skew, and the last one
\* is a strike that was made.
RecordFaithful(r, l) ==
    /\ \A t \in Past : t >= clock => l[t] = 0
    /\ \A t \in Past : t >= clock - (BanDuration - Skew) => l[t] <= r.strikes
    /\ r.strikes <= l[-1]
    /\ r # NoRecord => \A t \in Past : /\ t >= r.last_strike + Skew => l[t] = 0
                                       /\ t < r.last_strike => l[t] > 0

BanInv ==
    /\ clock \in Times
    /\ log \in [IPs -> [Past -> Nat]]
    /\ DOMAIN bans = IPs
    /\ StrikingInv
    /\ \A i \in IPs : RecordOK(bans[i]) /\ RecordFaithful(bans[i], log[i])

-----------------------------------------------------------------------------
LEMMA InitFillsBucket == Init => BucketInv
<1> SUFFICES ASSUME Init PROVE BucketInv
  OBVIOUS
<1> USE BucketAssumption, BanAssumption DEF Init
<1>1. BucketType
  BY DEF BucketType, Times
<1>2. Refilled = Burst
  <2>1. bucket.tokens = Burst /\ (clock - bucket.last) * Rate = 0
    BY ONLY BucketAssumption, clock = 0, bucket = [tokens |-> Burst, last |-> 0]
  <2> QED
    BY <2>1 DEF Refilled, Lesser
<1>3. \A s \in 0..clock : passed[s] * Cost + Refilled <= Burst + (clock - s) * Rate
  <2> SUFFICES ASSUME NEW s \in 0..clock
               PROVE  passed[s] * Cost + Refilled <= Burst + (clock - s) * Rate
    OBVIOUS
  <2>1. s = 0 /\ clock = 0 /\ passed[s] = 0
    BY DEF Times
  <2>2. passed[s] * Cost = 0 /\ (clock - s) * Rate = 0
    BY ONLY <2>1, BucketAssumption
  <2> QED
    BY <1>2, <2>2
<1>4. \A s \in Times : s > clock => passed[s] = 0
  OBVIOUS
<1> QED
  BY <1>1, <1>3, <1>4 DEF BucketInv

\* What the bucket holds is a number of tokens no greater than Burst.
LEMMA RefilledType ==
    ASSUME BucketType
    PROVE  Refilled \in Nat /\ Refilled <= Burst
<1>1. (clock - bucket.last) * Rate \in Nat
  <2>1. clock - bucket.last \in Nat
    BY BanAssumption DEF BucketType, Times
  <2> QED
    BY ONLY <2>1, BucketAssumption
<1> QED
  BY <1>1, BucketAssumption DEF BucketType, Refilled, Lesser

\* A bucket that was filled this tick holds its tokens.
LEMMA JustFilled ==
    ASSUME BucketType, bucket.last = clock
    PROVE  Refilled = bucket.tokens
<1>1. (clock - bucket.last) * Rate = 0
  <2>1. clock - bucket.last = 0
    BY BanAssumption DEF BucketType, Times
  <2> QED
    BY ONLY <2>1, BucketAssumption
<1> QED
  BY <1>1, BucketAssumption DEF BucketType, Refilled, Lesser

\* RateLimiter::try_acquire: the tokens a pass takes out pay for it.
LEMMA AcquireKeepsBucket ==
    ASSUME BucketInv, NEW i \in IPs, try_acquire(i)
    PROVE  BucketInv'
<1> USE DEF BucketInv
<1>1. clock' = clock /\ clock \in Nat /\ Refilled \in Nat /\ Refilled <= Burst
  BY RefilledType, BanAssumption DEF try_acquire, BucketType, Times
<1>2. ASSUME NEW n \in Nat, n <= Burst, bucket' = [tokens |-> n, last |-> clock],
             passed' \in [Times -> Nat]
      PROVE  BucketType' /\ Refilled' = n
  <2>1. BucketType'
    BY <1>1, <1>2 DEF BucketType
  <2>2. bucket'.last = clock' /\ bucket'.tokens = n
    BY <1>1, <1>2
  <2>3. (clock' - bucket'.last) * Rate = 0
    <3>1. clock' - bucket'.last = 0
      BY <2>2, <1>1
    <3> QED
      BY ONLY <3>1, BucketAssumption
  <2>4. Refilled' = n
    BY <1>2, <2>2, <2>3, BucketAssumption DEF Refilled, Lesser
  <2> QED
    BY <2>1, <2>4
<1>3. CASE /\ Refilled >= Cost
           /\ bucket' = [tokens |-> Refilled - Cost, last |-> clock]
           /\ passed' = [s \in Times |-> IF s <= clock THEN passed[s] + 1 ELSE passed[s]]
  <2>1. passed' \in [Times -> Nat]
    BY <1>3 DEF BucketType
  <2>2. Refilled - Cost \in Nat /\ Refilled - Cost <= Burst
    BY <1>1, <1>3, BucketAssumption
  <2>3. BucketType' /\ Refilled' = Refilled - Cost
    BY <1>2, <1>3, <2>1, <2>2
  <2>4. ASSUME NEW s \in 0..clock'
        PROVE  passed'[s] * Cost + Refilled' <= Burst + (clock' - s) * Rate
    <3>1. s \in 0..clock /\ s \in Times /\ passed[s] \in Nat /\ passed'[s] = passed[s] + 1
      BY <1>1, <1>3, BanAssumption DEF BucketType, Times
    <3>2. passed[s] * Cost + Refilled <= Burst + (clock - s) * Rate
      BY <3>1
    <3>3. passed'[s] * Cost = passed[s] * Cost + Cost
      BY ONLY <3>1, BucketAssumption
    <3>4. passed[s] * Cost \in Nat /\ (clock - s) * Rate \in Int
      BY <1>1, <3>1, BucketAssumption
    <3> QED
      BY <1>1, <2>3, <3>2, <3>3, <3>4, BucketAssumption
  <2>5. ASSUME NEW s \in Times, s > clock'
        PROVE  passed'[s] = 0
    <3>1. ~(s <= clock) /\ s > clock
      BY <1>1, <2>5, BanAssumption DEF Times
    <3> QED
      BY <1>3, <3>1
  <2> QED
    BY <2>3, <2>4, <2>5
<1>4. CASE Refilled < Cost /\ bucket' = [tokens |-> Refilled, last |-> clock] /\ passed' = passed
  <2>1. BucketType' /\ Refilled' = Refilled
    BY <1>1, <1>2, <1>4 DEF BucketType
  <2> QED
    BY <1>1, <1>4, <2>1
<1> QED
  BY <1>3, <1>4 DEF try_acquire

\* Time passes: every window grows by one tick, and the bucket by at most Rate.
LEMMA TickKeepsBucket ==
    ASSUME BucketInv, Tick
    PROVE  BucketInv'
<1> USE DEF BucketInv
<1>1. /\ clock \in Nat /\ clock < MaxTime /\ clock' = clock + 1
      /\ bucket' = bucket /\ passed' = passed
  BY BanAssumption DEF Tick, BucketType, Times
<1>2. BucketType'
  BY <1>1, BanAssumption DEF BucketType, Times
<1>3. /\ Refilled \in Nat
      /\ Refilled' \in Nat /\ Refilled' <= Burst
  <2>1. Refilled \in Nat
    BY RefilledType
  <2>2. (clock' - bucket'.last) * Rate \in Nat
    <3>1. clock' - bucket'.last \in Nat
      BY <1>1 DEF BucketType
    <3> QED
      BY ONLY <3>1, BucketAssumption
  <2>3. bucket'.tokens \in Nat
    BY <1>2 DEF BucketType
  <2> QED
    BY <2>1, <2>2, <2>3, BucketAssumption DEF Refilled, Lesser
<1>4. Refilled' <= Refilled + Rate
  <2>1. bucket.last \in Nat /\ bucket.tokens \in Nat /\ bucket.last <= clock
    BY DEF BucketType
  <2>2. (clock' - bucket.last) * Rate = (clock - bucket.last) * Rate + Rate
    <3> DEFINE d == clock - bucket.last
    <3>1. clock' - bucket.last = d + 1 /\ d \in Nat
      BY <1>1, <2>1
    <3> HIDE DEF d
    <3>2. (d + 1) * Rate = d * Rate + Rate
      BY <3>1, BucketAssumption
    <3>3. (clock' - bucket.last) * Rate = d * Rate + Rate
      BY <3>1, <3>2, Zenon
    <3> QED
      BY <3>3 DEF d
  <2>3. (clock - bucket.last) * Rate \in Int
    BY ONLY <1>1, <2>1, BucketAssumption
  <2> QED
    BY <1>1, <2>1, <2>2, <2>3, BucketAssumption DEF Refilled, Lesser
<1>5. ASSUME NEW s \in 0..clock'
      PROVE  passed'[s] * Cost + Refilled' <= Burst + (clock' - s) * Rate
  <2>1. CASE s <= clock
    <3>1. s \in 0..clock /\ s \in Times /\ passed[s] \in Nat
      BY <1>1, <2>1, BanAssumption DEF BucketType, Times
    <3>2. passed[s] * Cost + Refilled <= Burst + (clock - s) * Rate
      BY <3>1
    <3>3. (clock' - s) * Rate = (clock - s) * Rate + Rate
      BY ONLY <1>1, <3>1, BucketAssumption
    <3>4. passed[s] * Cost \in Nat /\ (clock - s) * Rate \in Int
      BY ONLY <1>1, <3>1, BucketAssumption
    <3> QED
      BY <1>1, <1>3, <1>4, <3>2, <3>3, <3>4, BucketAssumption
  <2>2. CASE s > clock
    <3>1. s = clock' /\ s \in Times /\ passed[s] = 0
      BY <1>1, <2>2, BanAssumption DEF BucketType, Times
    <3>2. passed'[s] * Cost = 0 /\ (clock' - s) * Rate = 0
      <4>1. clock' - s = 0 /\ passed'[s] = 0
        BY <1>1, <3>1
      <4> QED
        BY ONLY <4>1, BucketAssumption
    <3> QED
      BY <1>3, <3>2, BucketAssumption
  <2> QED
    BY <1>1, <2>1, <2>2
<1>6. \A s \in Times : s > clock' => passed'[s] = 0
  BY <1>1, BanAssumption DEF Times
<1> QED
  BY <1>2, <1>5, <1>6

LEMMA NextKeepsBucket == BucketInv /\ [Next]_vars => BucketInv'
<1> SUFFICES ASSUME BucketInv, [Next]_vars PROVE BucketInv'
  OBVIOUS
<1>1. ASSUME UNCHANGED <<clock, bucket, passed>> PROVE BucketInv'
  BY <1>1 DEF BucketInv, BucketType, Refilled
<1> QED
  BY <1>1, AcquireKeepsBucket, TickKeepsBucket
     DEF Next, vars, evaluate, try_admit, on_authenticated, ReadNow, on_auth_exhausted, End,
         DropCount, DropPermit

\* RateLimiter never lets more through, over any stretch of time, than a full
\* bucket and the refill of that time pay for, whatever the rate, the burst, the
\* cost of a connection and the moments at which connections arrive.
THEOREM RateAlwaysBounded == Spec => []RateBound
<1>1. BucketInv => RateBound
  <2> SUFFICES ASSUME BucketInv, NEW s \in 0..clock
               PROVE  passed[s] * Cost <= Burst + (clock - s) * Rate
    BY DEF RateBound
  <2>1. passed[s] * Cost + Refilled <= Burst + (clock - s) * Rate
    BY DEF BucketInv
  <2>2. Refilled \in Nat /\ passed[s] \in Nat /\ clock \in Nat
    BY RefilledType, BanAssumption DEF BucketInv, BucketType, Times
  <2>3. passed[s] * Cost \in Nat /\ (clock - s) * Rate \in Int
    BY ONLY <2>2, BucketAssumption, s \in 0..clock
  <2> QED
    BY <2>1, <2>2, <2>3, BucketAssumption
<1> QED
  BY <1>1, InitFillsBucket, NextKeepsBucket, PTL DEF Spec

-----------------------------------------------------------------------------
LEMMA InitBans == Init => BanInv
<1> SUFFICES ASSUME Init PROVE BanInv
  OBVIOUS
<1> USE BanAssumption DEF Init
<1>1. clock = 0 /\ clock \in Times /\ DOMAIN bans = IPs /\ -1 \in Past
  BY DEF Times, Past
<1>2. log \in [IPs -> [Past -> Nat]]
  OBVIOUS
<1>3. StrikingInv
  BY DEF StrikingInv, Free
<1>4. ASSUME NEW i \in IPs PROVE RecordOK(bans[i]) /\ RecordFaithful(bans[i], log[i])
  <2>1. bans[i] = NoRecord /\ NoRecord.strikes = 0 /\ \A t \in Past : log[i][t] = 0
    BY DEF NoRecord
  <2> QED
    BY <1>1, <2>1 DEF RecordOK, RecordFaithful
<1> QED
  BY <1>1, <1>2, <1>3, <1>4 DEF BanInv

\* Forgetting a record whose last strike is BanDuration old or more: no strike
\* that still counts is lost.
LEMMA Forgotten ==
    ASSUME clock \in Times, NEW r, NEW l \in [Past -> Nat],
           RecordOK(r), RecordFaithful(r, l),
           r # NoRecord => r.last_strike + BanDuration <= clock
    PROVE  RecordOK(NoRecord) /\ RecordFaithful(NoRecord, l)
<1> USE BanAssumption
<1>1. -1 \in Past /\ clock \in Nat
  BY DEF Past, Times
<1>2. NoRecord.strikes = 0
  BY DEF NoRecord
<1>3. CASE r = NoRecord
  BY <1>3
<1>4. CASE r # NoRecord
  <2>1. r.last_strike \in Nat /\ r.last_strike + Skew <= clock - (BanDuration - Skew)
    BY <1>1, <1>4 DEF RecordOK
  <2>2. \A t \in Past : t >= clock - (BanDuration - Skew) => l[t] = 0
    BY <1>1, <1>4, <2>1 DEF RecordFaithful, Past
  <2> QED
    BY <1>1, <1>2, <2>2 DEF RecordOK, RecordFaithful
<1> QED
  BY <1>3, <1>4

\* Fail2Ban::gc at a time now that is not ahead of the clock.
LEMMA PruningForgetsNothing ==
    ASSUME BanInv, NEW now \in Nat, now <= clock, NEW i \in IPs
    PROVE  RecordOK(gc(now)[i]) /\ RecordFaithful(gc(now)[i], log[i])
<1> USE BanAssumption
<1>1. /\ clock \in Nat /\ clock \in Times /\ log[i] \in [Past -> Nat]
      /\ RecordOK(bans[i]) /\ RecordFaithful(bans[i], log[i])
  BY DEF BanInv, Times
<1>2. CASE Retained(bans[i], now)
  BY <1>1, <1>2 DEF gc
<1>3. CASE ~Retained(bans[i], now)
  <2>1. gc(now)[i] = NoRecord
    BY <1>3 DEF gc
  <2>2. ASSUME bans[i] # NoRecord PROVE bans[i].last_strike + BanDuration <= clock
    <3> DEFINE r == bans[i]
    <3>1. /\ r \in [strikes : Nat \ {0}, banned_until : Nat \cup {None}, last_strike : Nat]
          /\ r.strikes < BanThreshold => r.banned_until = None
          /\ r.strikes >= BanThreshold => r.banned_until = r.last_strike + BanDuration
      BY <1>1, <2>2 DEF RecordOK
    <3> HIDE DEF r
    <3>2. ~Retained(r, now)
      BY <1>3 DEF r
    <3>3. r.last_strike + BanDuration <= clock
      BY <1>1, <3>1, <3>2 DEF Retained, None
    <3> QED
      BY <3>3 DEF r
  <2> QED
    BY <1>1, <2>1, <2>2, Forgotten
<1> QED
  BY <1>2, <1>3

\* One more strike on a record that is right, stamped now, and as many more in
\* the log.
LEMMA StruckIsFaithful ==
    ASSUME clock \in Times, NEW r, NEW l \in [Past -> Nat], NEW m,
           RecordOK(r), RecordFaithful(r, l),
           NEW now \in Nat, now <= clock, clock - now <= Skew,
           m = [t \in Past |-> IF now > t THEN l[t] + 1 ELSE l[t]]
    PROVE  /\ m \in [Past -> Nat]
           /\ RecordOK(Struck(r, now)) /\ RecordFaithful(Struck(r, now), m)
<1> USE BanAssumption
<1> DEFINE q == Struck(r, now)
<1>1. -1 \in Past /\ clock \in Nat /\ Past \subseteq Int
  BY DEF Past, Times
<1>2. r.strikes \in Nat /\ (r.strikes + 1 < BanThreshold => r.banned_until = None)
  <2>1. CASE r = NoRecord
    BY <2>1 DEF NoRecord
  <2>2. CASE r # NoRecord
    BY <2>2 DEF RecordOK
  <2> QED
    BY <2>1, <2>2
<1>3. /\ q.strikes = r.strikes + 1 /\ q.last_strike = now
      /\ q.banned_until = IF r.strikes + 1 >= BanThreshold THEN now + BanDuration
                          ELSE r.banned_until
      /\ q = [strikes |-> q.strikes, banned_until |-> q.banned_until, last_strike |-> q.last_strike]
  BY DEF Struck
<1> HIDE DEF q
<1>4. m \in [Past -> Nat] /\ \A t \in Past : m[t] = IF now > t THEN l[t] + 1 ELSE l[t]
  OBVIOUS
<1>5. RecordOK(q)
  <2>1. q.banned_until \in Nat \cup {None}
    BY <1>2, <1>3
  <2>2. q \in [strikes : Nat \ {0}, banned_until : Nat \cup {None}, last_strike : Nat]
    BY <1>2, <1>3, <2>1
  <2> QED
    BY <1>2, <1>3, <2>2 DEF RecordOK
<1>6. RecordFaithful(q, m)
  <2>1. \A t \in Past : t >= clock => m[t] = 0
    BY <1>1, <1>4 DEF RecordFaithful
  <2>2. \A t \in Past : t >= clock - (BanDuration - Skew) => m[t] <= q.strikes
    BY <1>1, <1>2, <1>3, <1>4 DEF RecordFaithful
  <2>3. q.strikes <= m[-1]
    BY <1>1, <1>2, <1>3, <1>4 DEF RecordFaithful
  <2>4. ASSUME NEW t \in Past
        PROVE  /\ t >= q.last_strike + Skew => m[t] = 0
               /\ t < q.last_strike => m[t] > 0
    BY <1>1, <1>3, <1>4, <2>1, <2>4
  <2> QED
    BY <2>1, <2>2, <2>3, <2>4 DEF RecordFaithful
<1> QED
  BY <1>4, <1>5, <1>6 DEF q

-----------------------------------------------------------------------------
\* A step that leaves the clock, the table and the log alone.
LEMMA TableKept ==
    ASSUME BanInv, UNCHANGED <<clock, bans, log>>, StrikingInv'
    PROVE  BanInv'
  BY DEF BanInv, RecordOK, RecordFaithful

LEMMA EvaluateKeepsBans ==
    ASSUME LimiterInv, BanInv, evaluate
    PROVE  BanInv'
<1> USE BanAssumption DEF BanInv
<1> DEFINE p == listener.ip
<1>1. p \in IPs /\ UNCHANGED <<clock, conn, log>> /\ clock \in Nat
  BY DEF evaluate, LimiterInv, LimiterType
<1>2. StrikingInv'
  BY <1>1 DEF StrikingInv
<1>3. CASE ~Expired(p)
  BY <1>1, <1>2, <1>3, TableKept DEF evaluate
<1>4. CASE Expired(p)
  <2>1. bans' = [bans EXCEPT ![p] = NoRecord]
    BY <1>4 DEF evaluate
  <2>2. bans[p] # NoRecord => bans[p].last_strike + BanDuration <= clock
    BY <1>1, <1>4 DEF Expired, RecordOK, None
  <2>3. RecordOK(NoRecord) /\ RecordFaithful(NoRecord, log[p])
    BY <1>1, <2>2, Forgotten
  <2>4. ASSUME NEW j \in IPs PROVE RecordOK(bans'[j]) /\ RecordFaithful(bans'[j], log[j])
    BY <1>1, <2>1, <2>3
  <2>5. \A j \in IPs : RecordOK(bans[j])' /\ RecordFaithful(bans[j], log[j])'
    BY <1>1, <2>4 DEF RecordOK, RecordFaithful
  <2> QED
    BY <1>1, <1>2, <2>1, <2>5
<1> QED
  BY <1>3, <1>4

LEMMA LoginKeepsBans ==
    ASSUME LimiterInv, BanInv, NEW c \in Conns, on_authenticated(c)
    PROVE  BanInv'
<1> USE BanAssumption DEF BanInv
<1> DEFINE p == conn[c].ip
<1>1. /\ p \in IPs /\ clock' = clock /\ clock \in Nat /\ -1 \in Past
      /\ bans' = [bans EXCEPT ![p] = NoRecord]
      /\ log' = [log EXCEPT ![p] = [t \in Past |-> 0]]
  BY DEF on_authenticated, LimiterInv, LimiterType, Past
<1>2. StrikingInv'
  <2>1. \A d \in Conns : conn'[d].st = "striking" => conn[d].st = "striking" /\ conn'[d] = conn[d]
    BY DEF on_authenticated, LimiterInv, LimiterType
  <2> QED
    BY <1>1, <2>1 DEF StrikingInv
<1>3. log' \in [IPs -> [Past -> Nat]] /\ DOMAIN bans' = IPs
  BY <1>1
<1>4. ASSUME NEW j \in IPs PROVE RecordOK(bans[j])' /\ RecordFaithful(bans[j], log[j])'
  <2>1. CASE j = p
    <3>1. bans'[j] = NoRecord /\ NoRecord.strikes = 0 /\ \A t \in Past : log'[j][t] = 0
      BY <1>1, <2>1 DEF NoRecord
    <3> QED
      BY <1>1, <3>1 DEF RecordOK, RecordFaithful
  <2>2. CASE j # p
    <3>1. bans'[j] = bans[j] /\ log'[j] = log[j]
      BY <1>1, <2>2
    <3> QED
      BY <1>1, <3>1 DEF RecordOK, RecordFaithful
  <2> QED
    BY <2>1, <2>2
<1> QED
  BY <1>1, <1>2, <1>3, <1>4

LEMMA StrikeKeepsBans ==
    ASSUME LimiterInv, BanInv, NEW c \in Conns, on_auth_exhausted(c)
    PROVE  BanInv'
<1> USE BanAssumption DEF BanInv
<1> DEFINE p == conn[c].ip
           now == conn[c].now
           g == gc(now)
           m == [t \in Past |-> IF now > t THEN log[p][t] + 1 ELSE log[p][t]]
<1>1. /\ p \in IPs /\ clock' = clock /\ clock \in Nat /\ clock \in Times
      /\ now \in Nat /\ now <= clock /\ clock - now <= Skew
  BY DEF on_auth_exhausted, LimiterInv, LimiterType, StrikingInv
<1>2. bans' = [g EXCEPT ![p] = Struck(g[p], now)] /\ log' = [log EXCEPT ![p] = m]
  BY DEF on_auth_exhausted
<1>3. DOMAIN g = IPs
  BY DEF gc
<1>4. StrikingInv'
  <2>1. \A d \in Conns : conn'[d].st = "striking" => conn[d].st = "striking" /\ conn'[d] = conn[d]
    BY DEF on_auth_exhausted, LimiterInv, LimiterType
  <2> QED
    BY <1>1, <2>1 DEF StrikingInv
<1>5. \A j \in IPs : RecordOK(g[j]) /\ RecordFaithful(g[j], log[j])
  BY <1>1, PruningForgetsNothing
<1>6. /\ m \in [Past -> Nat]
      /\ RecordOK(Struck(g[p], now)) /\ RecordFaithful(Struck(g[p], now), m)
  <2>1. log[p] \in [Past -> Nat] /\ RecordOK(g[p]) /\ RecordFaithful(g[p], log[p])
    BY <1>1, <1>5
  <2> HIDE DEF g, now, p
  <2> QED
    BY <1>1, <2>1, StruckIsFaithful
<1> HIDE DEF m, g, now, p
<1>7. log' \in [IPs -> [Past -> Nat]] /\ DOMAIN bans' = IPs
  BY <1>1, <1>2, <1>3, <1>6
<1>8. ASSUME NEW j \in IPs PROVE RecordOK(bans'[j]) /\ RecordFaithful(bans'[j], log'[j])
  <2>1. CASE j = p
    BY <1>1, <1>2, <1>3, <1>6, <2>1
  <2>2. CASE j # p
    BY <1>1, <1>2, <1>3, <1>5, <2>2
  <2> QED
    BY <2>1, <2>2
<1>9. \A j \in IPs : RecordOK(bans[j])' /\ RecordFaithful(bans[j], log[j])'
  BY <1>1, <1>8 DEF RecordOK, RecordFaithful
<1> QED
  BY <1>1, <1>4, <1>7, <1>9

LEMMA TickKeepsBans ==
    ASSUME LimiterInv, BanInv, Tick
    PROVE  BanInv'
<1> USE BanAssumption DEF BanInv
<1>1. /\ clock \in Nat /\ clock' = clock + 1 /\ clock' \in Times
      /\ UNCHANGED <<bans, log, conn>> /\ Past \subseteq Int
  BY DEF Tick, Times, limiter, Past
<1>2. StrikingInv'
  BY <1>1 DEF StrikingInv, Tick
<1>3. ASSUME NEW j \in IPs PROVE RecordOK(bans[j])'
  BY <1>1 DEF RecordOK
<1>4. ASSUME NEW j \in IPs PROVE RecordFaithful(bans[j], log[j])'
  <2>1. bans'[j] = bans[j] /\ log'[j] = log[j] /\ RecordFaithful(bans[j], log[j])
    BY <1>1
  <2>2. \A t \in Past : /\ t >= clock' => t >= clock
                        /\ t >= clock' - (BanDuration - Skew) => t >= clock - (BanDuration - Skew)
    BY <1>1
  <2> QED
    BY <2>1, <2>2 DEF RecordFaithful
<1> QED
  BY <1>1, <1>2, <1>3, <1>4

LEMMA NextKeepsBans == LimiterInv /\ BanInv /\ [Next]_vars => BanInv'
<1> SUFFICES ASSUME LimiterInv, BanInv, [Next]_vars PROVE BanInv'
  OBVIOUS
<1>1. ASSUME UNCHANGED <<clock, bans, log>>,
             \A c \in Conns : conn'[c].st = "striking" =>
                conn'[c].now = clock \/ (conn[c].st = "striking" /\ conn'[c].now = conn[c].now)
      PROVE  BanInv'
  <2>1. StrikingInv'
    BY <1>1, BanAssumption DEF BanInv, StrikingInv, LimiterInv, LimiterType
  <2> QED
    BY <1>1, <2>1, TableKept
<1>2. ASSUME NEW i \in IPs, try_acquire(i) PROVE BanInv'
  BY <1>1, <1>2 DEF try_acquire
<1>3. ASSUME try_admit PROVE BanInv'
  BY <1>1, <1>3 DEF try_admit, LimiterInv, LimiterType
<1>4. ASSUME NEW c \in Conns, ReadNow(c) \/ End(c) \/ DropCount(c) \/ DropPermit(c) PROVE BanInv'
  BY <1>1, <1>4 DEF ReadNow, End, DropCount, DropPermit, Free, LimiterInv, LimiterType
<1>5. CASE UNCHANGED vars
  BY <1>1, <1>5 DEF vars
<1> QED
  BY <1>2, <1>3, <1>4, <1>5, EvaluateKeepsBans, LoginKeepsBans, StrikeKeepsBans, TickKeepsBans
     DEF Next

-----------------------------------------------------------------------------
\* What Fail2Ban::evaluate decides is right in a state of the invariant.
LEMMA VerdictFair ==
    ASSUME LimiterInv, BanInv, [Next]_vars, listener.at = "policy", listener' # listener
    PROVE  IF listener'.at = "admit"
           THEN log[listener.ip][clock - (BanDuration - Skew)] < BanThreshold
           ELSE /\ log[listener.ip][-1] >= BanThreshold
                /\ log[listener.ip][clock - BanDuration] > 0
<1> USE BanAssumption
<1> DEFINE p == listener.ip
           r == bans[p]
           l == log[p]
<1>1. evaluate
  BY DEF Next, vars, try_acquire, try_admit, on_authenticated, ReadNow, on_auth_exhausted, End,
         DropCount, DropPermit, Tick
<1>2. /\ p \in IPs /\ clock \in Nat /\ clock \in Times /\ l \in [Past -> Nat]
      /\ RecordOK(r) /\ RecordFaithful(r, l)
      /\ DOMAIN listener = {"at", "ip"}
  BY <1>1 DEF evaluate, LimiterInv, LimiterType, BanInv
<1>3. /\ -1 \in Past /\ clock - BanDuration \in Past /\ clock - (BanDuration - Skew) \in Past
  BY <1>2 DEF Past, Times
<1>4. CASE Banned(p)
  <2>1. listener'.at = "accept"
    BY <1>1, <1>4 DEF evaluate, Accepting
  <2>2. r.banned_until # None /\ clock < r.banned_until
    BY <1>4 DEF Banned
  <2> HIDE DEF r, l
  <2>3. r # NoRecord
    BY <2>2 DEF NoRecord
  <2>4. /\ r.strikes \in Nat /\ r.last_strike \in Nat /\ r.strikes >= BanThreshold
        /\ r.banned_until = r.last_strike + BanDuration
    BY <1>2, <2>2, <2>3 DEF RecordOK
  <2>5. l[-1] >= BanThreshold
    BY <1>2, <1>3, <2>4 DEF RecordFaithful
  <2>6. clock - BanDuration < r.last_strike
    BY <1>2, <2>2, <2>4
  <2>7. l[clock - BanDuration] > 0
    BY <1>2, <1>3, <2>3, <2>6 DEF RecordFaithful
  <2> QED
    BY <2>1, <2>5, <2>7 DEF l
<1>5. CASE ~Banned(p)
  <2>1. listener'.at = "admit"
    BY <1>1, <1>2, <1>5 DEF evaluate
  <2>2. r.banned_until = None \/ clock >= r.banned_until
    <3>1. ~(r.banned_until # None /\ clock < r.banned_until)
      BY <1>5 DEF Banned
    <3>2. r.banned_until = None \/ r.banned_until \in Nat
      BY <1>2 DEF RecordOK, NoRecord, None
    <3> QED
      BY <1>2, <3>1, <3>2
  <2> HIDE DEF r, l
  <2>3. l[clock - (BanDuration - Skew)] < BanThreshold
    <3>1. CASE r = NoRecord
      <4>1. r.strikes = 0
        BY <3>1 DEF NoRecord
      <4> QED
        BY <1>2, <1>3, <4>1 DEF RecordFaithful
    <3>2. CASE r # NoRecord /\ r.banned_until = None
      <4>1. r.strikes \in Nat /\ r.strikes < BanThreshold
        BY <1>2, <3>2 DEF RecordOK, None
      <4> QED
        BY <1>2, <1>3, <4>1 DEF RecordFaithful
    <3>3. CASE r # NoRecord /\ r.banned_until # None /\ clock >= r.banned_until
      <4>1. r.last_strike \in Nat /\ r.last_strike + BanDuration <= clock
        BY <1>2, <3>3 DEF RecordOK
      <4>2. l[clock - (BanDuration - Skew)] = 0
        BY <1>2, <1>3, <3>3, <4>1 DEF RecordFaithful
      <4> QED
        BY <4>2
    <3> QED
      BY <2>2, <3>1, <3>2, <3>3
  <2> QED
    BY <2>1, <2>3 DEF l
<1> QED
  BY <1>4, <1>5

\* Fail2Ban is just in both directions, for any threshold, ban duration, number
\* of addresses and connections: evaluate lets a peer past only when fewer than
\* BanThreshold exhausted logins of its address fall in the last BanDuration
\* (less the wait for the lock) since its last success, and turns it away only
\* when the address has collected BanThreshold of them, one within BanDuration.
\* Neither gc, nor an expiry, nor another address's strike, nor a strike applied
\* with a time older than the record's last can break it.
THEOREM BansAlwaysFair == Spec => BansFair
<1>1. LimiterInv /\ BanInv /\ [Next]_vars =>
        [ listener.at = "policy" /\ listener' # listener =>
            IF listener'.at = "admit"
            THEN log[listener.ip][clock - (BanDuration - Skew)] < BanThreshold
            ELSE /\ log[listener.ip][-1] >= BanThreshold
                 /\ log[listener.ip][clock - BanDuration] > 0 ]_vars
  BY VerdictFair
<1> QED
  BY <1>1, InitKeepsBooks, NextKeepsBooks, InitBans, NextKeepsBans, PTL DEF Spec, BansFair
=============================================================================
