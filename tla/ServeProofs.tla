------------------------------ MODULE ServeProofs ------------------------------
(***************************************************************************)
(* Theorems about Serve, for every budget, reservation, window and number  *)
(* of sessions: no handler outlives its channel, output stays on the       *)
(* channel of its own session, and the output budget is conserved.         *)
(***************************************************************************)
EXTENDS Serve, FiniteSetTheorems, TLAPS

Maybe   == 0..MaxHandlers
LoopType == [phase : {"flush", "select", "closing", "ended"}, authenticated : BOOLEAN,
             pending : BOOLEAN, stdin_tx : Maybe, out_budget : Maybe, consumed_rx : Maybe,
             handler_task : Maybe, out_inflight : Nat, last_consumed : Nat]
ChanType == [gen : Maybe, out : Seq(Handlers), window : Nat, flushed : Nat,
             exit_by : Maybe, sent_close : BOOLEAN, started : BOOLEAN]
Outbound == [from : Handlers, kind : {"data", "exit"}, len : 0..MaxReserve]
HandlerType == [task : {"none", "running", "returned", "aborting", "gone"}, child : BOOLEAN,
                permits : Nat, closed : BOOLEAN, want : [Pumps -> 0..MaxReserve],
                pumping : SUBSET Pumps, stdin : Nat, consumed : Nat, on : Maybe]
PeerType == [opens : Maybe, sent : Nat, polite : BOOLEAN, reading : BOOLEAN]

TypeOK ==
    /\ loop \in LoopType /\ chan \in ChanType /\ out_rx \in Seq(Outbound)
    /\ hnd \in [Handlers -> HandlerType] /\ peer \in PeerType /\ written \in Nat

\* The wired handler and its budget belong together, and to the open channel if the
\* handler was started on one; a polite peer starts no other.
WiredInv ==
    /\ loop.out_budget = loop.handler_task
    /\ loop.handler_task # 0 => hnd[loop.handler_task].on \in {0, chan.gen}
    /\ peer.polite /\ loop.handler_task # 0 => chan.gen = loop.handler_task
    /\ loop.phase = "ended" => loop.handler_task = 0
    /\ \A h \in Handlers : hnd[h].task = "running" => loop.handler_task = h

\* A handler that will send nothing more.
Quiet(h) == hnd[h].task # "running" /\ hnd[h].pumping = {}

\* Only a pump that still runs waits for budget.
Pumped(r) == \A p \in Pumps : r.want[p] > 0 => p \in r.pumping

\* As long as the peer is polite, only the handler of the open channel has
\* anything to say; its exit status is the last of it.
OthersQuiet == peer.polite => \A h \in Handlers : h # chan.gen => Quiet(h)
OwnQueue ==
    peer.polite => \A i \in DOMAIN out_rx :
        /\ out_rx[i].from = chan.gen
        /\ out_rx[i].kind = "exit" => i = Len(out_rx) /\ out_rx[i].len = 0 /\ Quiet(chan.gen)

\* The channel holds its own handler's output, and nothing follows the exit.
ExitIsLast == chan.exit_by # 0 => chan.exit_by = chan.gen /\ out_rx = <<>> /\ Quiet(chan.gen)
CloseIsLast == chan.sent_close => chan.exit_by # 0 /\ chan.out = <<>>
OwnOutput == \A i \in DOMAIN chan.out : chan.out[i] = chan.gen

\* A channel on which no program was started is as it was opened.
Fresh ==
    chan.gen # 0 /\ ~chan.started =>
        /\ out_rx = <<>> /\ chan.out = <<>> /\ chan.flushed = 0
        /\ chan.exit_by = 0 /\ Quiet(chan.gen)

OutputInv ==
    /\ \A h \in Handlers : Pumped(hnd[h])
    /\ chan.gen # 0 => peer.polite
    /\ OthersQuiet /\ OwnQueue
    /\ ExitIsLast /\ CloseIsLast /\ OwnOutput /\ Fresh
    /\ OutputOnItsChannel

\* Every byte of the open channel's budget is free, queued or in flight.
BudgetInv ==
    loop.out_budget # 0 /\ chan.gen # 0 =>
        /\ hnd[loop.out_budget].permits + Queued(loop.out_budget) + loop.out_inflight = OutLimit
        /\ loop.out_inflight = Len(chan.out) + chan.flushed

ServeInv == TypeOK /\ WiredInv /\ OutputInv /\ BudgetInv

--------------------------------------------------------------------------------
(* Types *)

LEMMA InitType == Init => TypeOK
BY ServeAssumption DEF Init, TypeOK, LoopType, ChanType, Outbound, HandlerType, PeerType,
   NoChannel, NotSpawned, Maybe, Handlers, Pumps

\* Writing one handler's record.
LEMMA SetFacts ==
    ASSUME NEW f \in [Handlers -> HandlerType], NEW h \in Handlers, NEW r \in HandlerType
    PROVE  /\ [f EXCEPT ![h] = r] \in [Handlers -> HandlerType]
           /\ [f EXCEPT ![h] = r][h] = r
           /\ \A k \in Handlers : k # h => [f EXCEPT ![h] = r][k] = f[k]
OBVIOUS

\* Closing a budget and aborting a task touch nothing that sends output.
LEMMA GuardRecords ==
    ASSUME NEW r \in HandlerType
    PROVE  LET c == [r EXCEPT !.closed = TRUE]
               a == [r EXCEPT !.task = "aborting"]
           IN  /\ c \in HandlerType /\ a \in HandlerType
               /\ c.pumping = r.pumping /\ a.pumping = r.pumping
               /\ c.want = r.want /\ a.want = r.want
               /\ c.permits = r.permits /\ a.permits = r.permits
               /\ c.task = r.task /\ a.task = "aborting"
               /\ c.on = r.on /\ a.on = r.on
BY DEF HandlerType

\* What dropping the guards of a handler does to the handlers.
LEMMA TearDownFacts ==
    ASSUME TypeOK
    PROVE  /\ TearDown(hnd) \in [Handlers -> HandlerType]
           /\ \A h \in Handlers :
                /\ TearDown(hnd)[h].pumping = hnd[h].pumping
                /\ TearDown(hnd)[h].want = hnd[h].want
                /\ TearDown(hnd)[h].permits = hnd[h].permits
                /\ TearDown(hnd)[h].on = hnd[h].on
                /\ TearDown(hnd)[h].task = "running" =>
                      hnd[h].task = "running" /\ loop.handler_task # h
<1> DEFINE b == loop.out_budget
           t == loop.handler_task
           f == CloseBudget(hnd, b)
<1>1. /\ hnd \in [Handlers -> HandlerType]
      /\ b = 0 \/ b \in Handlers
      /\ t = 0 \/ t \in Handlers
  BY ServeAssumption DEF TypeOK, LoopType, Maybe, Handlers
<1>2. /\ f \in [Handlers -> HandlerType]
      /\ \A h \in Handlers : /\ f[h].pumping = hnd[h].pumping
                             /\ f[h].want = hnd[h].want
                             /\ f[h].permits = hnd[h].permits
                             /\ f[h].task = hnd[h].task /\ f[h].on = hnd[h].on
  <2>1. CASE b = 0
    BY <1>1, <2>1 DEF CloseBudget
  <2>2. CASE b \in Handlers
    <3> DEFINE c == [hnd[b] EXCEPT !.closed = TRUE]
    <3>1. f = [hnd EXCEPT ![b] = c]
      BY <2>2, ServeAssumption DEF CloseBudget, Handlers
    <3>2. /\ c \in HandlerType /\ c.pumping = hnd[b].pumping /\ c.want = hnd[b].want
          /\ c.permits = hnd[b].permits /\ c.task = hnd[b].task /\ c.on = hnd[b].on
      BY <1>1, <2>2, GuardRecords
    <3> HIDE DEF c, f
    <3>3. /\ f \in [Handlers -> HandlerType]
          /\ \A h \in Handlers : f[h] = IF h = b THEN c ELSE hnd[h]
      BY <1>1, <2>2, <3>1, <3>2
    <3> QED
      BY <3>2, <3>3
  <2> QED
    BY <1>1, <2>1, <2>2
<1>3. TearDown(hnd) = Abort(f, t)
  BY DEF TearDown
<1> HIDE DEF f, b, t
<1>4. CASE t # 0 /\ f[t].task = "running"
  <2>1. Abort(f, t) = [f EXCEPT ![t] = [f[t] EXCEPT !.task = "aborting"]]
    BY <1>4 DEF Abort
  <2> DEFINE a == [f[t] EXCEPT !.task = "aborting"]
  <2>2. t \in Handlers /\ f[t] \in HandlerType
    BY <1>1, <1>2, <1>4
  <2>3. a \in HandlerType /\ a.pumping = f[t].pumping /\ a.want = f[t].want
        /\ a.permits = f[t].permits /\ a.task # "running" /\ a.on = f[t].on
    BY <2>2, GuardRecords
  <2> HIDE DEF a
  <2>4. Abort(f, t) = [f EXCEPT ![t] = a]
    BY <2>1 DEF a
  <2>5. \A h \in Handlers : /\ Abort(f, t)[h].pumping = f[h].pumping
                            /\ Abort(f, t)[h].want = f[h].want
                            /\ Abort(f, t)[h].permits = f[h].permits
                            /\ Abort(f, t)[h].on = f[h].on
                            /\ Abort(f, t)[h].task = "running" => f[h].task = "running" /\ t # h
    BY <1>2, <2>2, <2>3, <2>4
  <2> QED
    BY <1>2, <1>3, <2>2, <2>3, <2>4, <2>5 DEF t
<1>5. CASE ~(t # 0 /\ f[t].task = "running")
  <2>1. Abort(f, t) = f
    BY <1>5 DEF Abort
  <2>2. \A h \in Handlers : h # 0
    BY DEF Handlers
  <2> QED
    BY <1>1, <1>2, <1>3, <1>5, <2>1, <2>2 DEF t
<1> QED
  BY <1>4, <1>5

\* What flush_channel leaves of a channel.
LEMMA FlushFacts ==
    ASSUME NEW ch \in ChanType, flush_channel(ch)
    PROVE  /\ chan' \in ChanType
           /\ chan'.gen = ch.gen /\ chan'.exit_by = ch.exit_by /\ chan'.started = ch.started
           /\ Len(chan'.out) + chan'.flushed = Len(ch.out) + ch.flushed
           /\ \A i \in DOMAIN chan'.out : \E j \in DOMAIN ch.out : chan'.out[i] = ch.out[j]
           /\ ch.out = <<>> => chan'.out = <<>>
           /\ chan'.sent_close => ch.sent_close \/ (chan'.out = <<>> /\ ch.exit_by # 0)
<1> DEFINE n    == Smaller(ch.window, Len(ch.out))
           left == SubSeq(ch.out, n + 1, Len(ch.out))
           ends == left = <<>> /\ ch.exit_by # 0
<1>0. /\ ch.out \in Seq(Handlers) /\ Len(ch.out) \in Nat /\ ch.window \in Nat /\ ch.flushed \in Nat
      /\ ch.sent_close \in BOOLEAN
  BY DEF ChanType
<1>1. n \in Nat /\ n <= ch.window /\ n <= Len(ch.out)
  BY <1>0 DEF Smaller
<1> HIDE DEF n
<1>2. /\ left \in Seq(Handlers) /\ Len(left) = Len(ch.out) - n
      /\ \A i \in 1..Len(left) : left[i] = ch.out[n + i]
  BY <1>0, <1>1
<1>3. chan' = [ch EXCEPT !.out = left, !.window = @ - n, !.flushed = @ + n,
                         !.sent_close = @ \/ ends]
  BY DEF flush_channel, n
<1>4. /\ ch.window - n \in Nat /\ ch.flushed + n \in Nat /\ (ch.sent_close \/ ends) \in BOOLEAN
  BY <1>0, <1>1
<1> HIDE DEF left, ends
<1>5. /\ chan' \in ChanType /\ chan'.gen = ch.gen /\ chan'.exit_by = ch.exit_by
      /\ chan'.started = ch.started
      /\ chan'.out = left /\ chan'.flushed = ch.flushed + n
      /\ chan'.sent_close = (ch.sent_close \/ ends)
  BY <1>2, <1>3, <1>4 DEF ChanType
<1>6. \A i \in DOMAIN left : \E j \in DOMAIN ch.out : left[i] = ch.out[j]
  BY <1>0, <1>1, <1>2
<1>7. ch.out = <<>> => left = <<>>
  BY <1>0, <1>1, <1>2
<1> QED
  BY <1>0, <1>1, <1>2, <1>5, <1>6, <1>7 DEF ends

--------------------------------------------------------------------------------
(* Counting the bytes of a queue *)

\* Bijections keep the number of elements.
LEMMA SameSize ==
    ASSUME NEW S, NEW T, IsFiniteSet(S), NEW f \in [S -> T],
           \A x, y \in S : f[x] = f[y] => x = y,
           \A t \in T : \E x \in S : f[x] = t
    PROVE  IsFiniteSet(T) /\ Cardinality(T) = Cardinality(S)
<1>1. f \in Bijection(S, T)
  BY DEF Bijection, Injection, Surjection, IsInjective
<1> QED
  BY <1>1, FS_Bijection DEF ExistsBijection

LEMMA BytesFinite ==
    ASSUME NEW q \in Seq(Outbound), NEW h
    PROVE  IsFiniteSet(Bytes(q, h)) /\ Cardinality(Bytes(q, h)) \in Nat
<1>1. IsFiniteSet(1..Len(q)) /\ IsFiniteSet(1..MaxReserve)
  BY FS_Interval, ServeAssumption
<1>2. IsFiniteSet((1..Len(q)) \X (1..MaxReserve))
  BY <1>1, FS_Product
<1>3. Bytes(q, h) \subseteq (1..Len(q)) \X (1..MaxReserve)
  BY DEF Bytes
<1> QED
  BY <1>2, <1>3, FS_Subset, FS_CardinalityType

\* The bytes of the k-th message of a queue, if they are of handler h.
BytesOf(m, k, h) == {b \in {k} \X (1..MaxReserve) : m.from = h /\ b[2] <= m.len}

LEMMA BytesOfOne ==
    ASSUME NEW m \in Outbound, NEW k, NEW h
    PROVE  /\ IsFiniteSet(BytesOf(m, k, h))
           /\ Cardinality(BytesOf(m, k, h)) = IF m.from = h THEN m.len ELSE 0
<1>1. m.len \in 0..MaxReserve
  BY DEF Outbound
<1>2. CASE m.from = h
  <2> DEFINE S == 1..m.len
             f == [i \in S |-> <<k, i>>]
  <2>0. m.len \in Nat /\ 1 \in Int /\ m.len \in Int
    BY <1>1, ServeAssumption
  <2>1. IsFiniteSet(S) /\ Cardinality(S) = m.len
    <3>1. IsFiniteSet(S) /\ Cardinality(S) = IF 1 > m.len THEN 0 ELSE m.len - 1 + 1
      BY <2>0, FS_Interval
    <3> QED
      BY <2>0, <3>1
  <2>2. f \in [S -> BytesOf(m, k, h)]
    BY <1>1, <1>2, ServeAssumption DEF BytesOf
  <2>3. \A x, y \in S : f[x] = f[y] => x = y
    OBVIOUS
  <2>4. \A t \in BytesOf(m, k, h) : \E x \in S : f[x] = t
    BY <1>1, <1>2, ServeAssumption DEF BytesOf
  <2> HIDE DEF S, f
  <2> QED
    BY <1>2, <2>1, <2>2, <2>3, <2>4, SameSize
<1>3. CASE m.from # h
  <2>1. BytesOf(m, k, h) = {}
    BY <1>3 DEF BytesOf
  <2> QED
    BY <1>3, <2>1, FS_EmptySet
<1> QED
  BY <1>2, <1>3

\* A message at the end of the queue.
LEMMA BytesAppend ==
    ASSUME NEW q \in Seq(Outbound), NEW m \in Outbound, NEW h
    PROVE  Cardinality(Bytes(Append(q, m), h)) =
               Cardinality(Bytes(q, h)) + (IF m.from = h THEN m.len ELSE 0)
<1> DEFINE k == Len(q) + 1
           N == BytesOf(m, k, h)
<1>1. Len(q) \in Nat /\ DOMAIN q = 1..Len(q) /\ DOMAIN Append(q, m) = 1..k
      /\ Append(q, m)[k] = m /\ \A i \in 1..Len(q) : Append(q, m)[i] = q[i]
  OBVIOUS
<1>2. Bytes(Append(q, m), h) = Bytes(q, h) \cup N
  BY <1>1 DEF Bytes, BytesOf
<1>3. Bytes(q, h) \cap N = {}
  BY <1>1 DEF Bytes, BytesOf
<1>4. IsFiniteSet(N) /\ Cardinality(N) = IF m.from = h THEN m.len ELSE 0
  BY BytesOfOne
<1>5. IsFiniteSet(Bytes(q, h)) /\ Cardinality(Bytes(q, h)) \in Nat
  BY BytesFinite
<1>6. m.len \in Nat
  BY ServeAssumption DEF Outbound
<1> HIDE DEF N
<1>7. Cardinality(Bytes(q, h) \cup N)
          = Cardinality(Bytes(q, h)) + Cardinality(N) - Cardinality(Bytes(q, h) \cap N)
  BY <1>4, <1>5, FS_Union
<1>8. Cardinality(Bytes(q, h) \cap N) = 0
  BY <1>3, FS_EmptySet
<1>9. Cardinality(Bytes(q, h) \cup N) = Cardinality(Bytes(q, h)) + Cardinality(N)
  <2>1. Cardinality(N) \in Nat
    BY <1>4, FS_CardinalityType
  <2> QED
    BY <1>5, <1>7, <1>8, <2>1
<1> QED
  BY <1>2, <1>4, <1>9

\* The message at the head of the queue.
LEMMA BytesTail ==
    ASSUME NEW q \in Seq(Outbound), q # <<>>, NEW h
    PROVE  Cardinality(Bytes(q, h)) =
               Cardinality(Bytes(Tail(q), h)) + (IF Head(q).from = h THEN Head(q).len ELSE 0)
<1> DEFINE t == Tail(q)
           m == Head(q)
           S == Bytes(t, h)
           T == Bytes(q, h) \ BytesOf(m, 1, h)
           f == [b \in S |-> <<b[1] + 1, b[2]>>]
<1>1. /\ t \in Seq(Outbound) /\ m \in Outbound /\ m = q[1] /\ Len(q) \in Nat /\ Len(q) >= 1
      /\ Len(t) = Len(q) - 1 /\ DOMAIN q = 1..Len(q) /\ DOMAIN t = 1..(Len(q) - 1)
      /\ \A i \in DOMAIN t : t[i] = q[i + 1]
  OBVIOUS
<1> HIDE DEF t, m
<1>2. f \in [S -> T]
  <2>1. ASSUME NEW b \in S PROVE f[b] \in T
    <3>1. /\ b[1] \in 1..(Len(q) - 1) /\ b[2] \in 1..MaxReserve
          /\ t[b[1]].from = h /\ b[2] <= t[b[1]].len
      BY <1>1 DEF Bytes
    <3>2. b[1] + 1 \in 1..Len(q) /\ b[1] + 1 # 1 /\ t[b[1]] = q[b[1] + 1]
      BY <1>1, <3>1
    <3>3. <<b[1] + 1, b[2]>> \in Bytes(q, h)
      BY <1>1, <3>1, <3>2 DEF Bytes
    <3>4. <<b[1] + 1, b[2]>> \notin BytesOf(m, 1, h)
      BY <3>2 DEF BytesOf
    <3>5. f[b] = <<b[1] + 1, b[2]>>
      OBVIOUS
    <3> QED
      BY <3>3, <3>4, <3>5
  <2> QED
    BY <2>1
<1>3. \A x, y \in S : f[x] = f[y] => x = y
  <2>1. \A x \in S : x[1] \in Int /\ x = <<x[1], x[2]>>
    BY <1>1 DEF Bytes
  <2> HIDE DEF S
  <2>2. ASSUME NEW x \in S, NEW y \in S, f[x] = f[y] PROVE x = y
    <3>1. x[1] + 1 = y[1] + 1 /\ x[2] = y[2]
      BY <2>2
    <3> QED
      BY <2>1, <3>1
  <2> QED
    BY <2>2
<1>4. \A b \in T : \E x \in S : f[x] = b
  <2>1. ASSUME NEW b \in T PROVE \E x \in S : f[x] = b
    <3>1. b[1] \in 2..Len(q) /\ b[2] \in 1..MaxReserve /\ b = <<b[1], b[2]>>
          /\ q[b[1]].from = h /\ b[2] <= q[b[1]].len
      BY <1>1 DEF Bytes, BytesOf
    <3>2. <<b[1] - 1, b[2]>> \in S
      BY <1>1, <3>1 DEF Bytes
    <3>3. f[<<b[1] - 1, b[2]>>] = b
      BY <3>1, <3>2
    <3> QED
      BY <3>2, <3>3
  <2> QED
    BY <2>1
<1>5. IsFiniteSet(S) /\ Cardinality(S) \in Nat
  BY <1>1, BytesFinite
<1>6. IsFiniteSet(T) /\ Cardinality(T) = Cardinality(S)
  <2> HIDE DEF S, T, f
  <2> QED
    BY <1>2, <1>3, <1>4, <1>5, SameSize
<1>7. BytesOf(m, 1, h) \subseteq Bytes(q, h)
  BY <1>1 DEF Bytes, BytesOf
<1>8. /\ IsFiniteSet(BytesOf(m, 1, h))
      /\ Cardinality(BytesOf(m, 1, h)) = IF m.from = h THEN m.len ELSE 0
  BY <1>1, BytesOfOne
<1>9. Cardinality(T) = Cardinality(Bytes(q, h)) - Cardinality(Bytes(q, h) \cap BytesOf(m, 1, h))
  BY BytesFinite, FS_Difference
<1>10. Bytes(q, h) \cap BytesOf(m, 1, h) = BytesOf(m, 1, h)
  BY <1>7
<1>11. Cardinality(Bytes(q, h)) \in Nat /\ m.len \in Nat
  <2>1. Cardinality(Bytes(q, h)) \in Nat
    BY BytesFinite
  <2>2. m.len \in Nat
    BY <1>1, ServeAssumption DEF Outbound
  <2> QED
    BY <2>1, <2>2
<1>12. Cardinality(S) = Cardinality(Bytes(q, h)) - Cardinality(BytesOf(m, 1, h))
  BY <1>6, <1>9, <1>10
<1> HIDE DEF T, S
<1>13. Cardinality(Bytes(q, h)) = Cardinality(S) + (IF m.from = h THEN m.len ELSE 0)
  BY <1>5, <1>8, <1>11, <1>12
<1> QED
  BY <1>13 DEF t, m, S

LEMMA BytesEmpty ==
    ASSUME NEW h
    PROVE  Cardinality(Bytes(<<>>, h)) = 0
<1>1. Bytes(<<>>, h) = {}
  BY DEF Bytes
<1> QED
  BY <1>1, FS_EmptySet

--------------------------------------------------------------------------------
(* Steps of a handler *)

HandlerMoves(h) ==
    \/ \E p \in Pumps, n \in 1..MaxReserve : Reserve(h, p, n) \/ Write(h, p, n)
    \/ \E p \in Pumps : WriteFails(h, p) \/ PumpEnds(h, p)
    \/ ChildExits(h)
    \/ Returns(h)
    \/ Dropped(h)
    \/ ReadStdin(h)

\* s is what a step of a handler may leave of r: no pump and no task starts.
Less(r, s) ==
    /\ s \in HandlerType
    /\ s.pumping \subseteq r.pumping
    /\ s.task = "running" => r.task = "running"
    /\ s.on = r.on
    /\ Pumped(r) => Pumped(s)

\* What a handler sends in a step that leaves s of its record r.
Silent(r, s) == s.permits = r.permits /\ out_rx' = out_rx
Data(h, r, s, n) ==
    /\ s.permits = r.permits - n
    /\ out_rx' = Append(out_rx, [from |-> h, kind |-> "data", len |-> n])
    /\ \E p \in Pumps : r.want[p] > 0
Exit(h, r, s) ==
    /\ s.permits = r.permits
    /\ out_rx' = Append(out_rx, [from |-> h, kind |-> "exit", len |-> 0])
    /\ r.task = "running" /\ s.task # "running" /\ s.pumping = {}

HandlerEffect(h) ==
    /\ UNCHANGED <<loop, chan, peer, wire>> /\ written' \in Nat
    /\ \E s : /\ hnd' = [hnd EXCEPT ![h] = s] /\ Less(hnd[h], s)
              /\ \/ Silent(hnd[h], s)
                 \/ \E n \in 1..MaxReserve : Data(h, hnd[h], s, n)
                 \/ Exit(h, hnd[h], s)

\* Each step of a handler changes its own record, and sends at most one message.
LEMMA HandlerFacts ==
    ASSUME TypeOK, NEW h \in Handlers, HandlerMoves(h)
    PROVE  HandlerEffect(h)
<1> DEFINE r == hnd[h]
<1>0. /\ r \in HandlerType /\ written \in Nat /\ MaxReserve \in Nat
  BY ServeAssumption DEF TypeOK
<1>1. ASSUME NEW p \in Pumps, NEW n \in 1..MaxReserve, Reserve(h, p, n) PROVE HandlerEffect(h)
  <2> DEFINE s == [r EXCEPT !.want[p] = n]
  <2>1. Less(r, s) /\ s.permits = r.permits
    BY <1>0, <1>1 DEF Less, Pumped, HandlerType, Reserve
  <2>2. hnd' = [hnd EXCEPT ![h] = s] /\ out_rx' = out_rx
    BY <1>1 DEF Reserve, Set
  <2>3. UNCHANGED <<loop, chan, peer, wire>> /\ written' \in Nat
    BY <1>0, <1>1 DEF Reserve
  <2> QED
    BY <2>1, <2>2, <2>3 DEF Silent, HandlerEffect
<1>2. ASSUME NEW p \in Pumps, NEW n \in 1..MaxReserve, Write(h, p, n) PROVE HandlerEffect(h)
  <2> DEFINE w == [r.want EXCEPT ![p] = 0]
             a == r.permits - n
             s == [r EXCEPT !.want = w, !.permits = a]
  <2>1. n \in 1..r.want[p] /\ r.permits >= r.want[p]
    BY <1>2 DEF Write
  <2>2. s \in HandlerType /\ s.permits = a /\ s.pumping = r.pumping
        /\ s.task = r.task /\ s.want = w /\ s.on = r.on
    <3>1. w \in [Pumps -> 0..MaxReserve] /\ a \in Nat
      BY <1>0, <2>1 DEF HandlerType
    <3> HIDE DEF w, a
    <3> QED
      BY <1>0, <3>1 DEF HandlerType
  <2>3. Less(r, s)
    BY <1>0, <2>2 DEF Less, Pumped, HandlerType
  <2>4. hnd' = [hnd EXCEPT ![h] = s]
        /\ out_rx' = Append(out_rx, [from |-> h, kind |-> "data", len |-> n])
    BY <1>2 DEF Write, Set, Charge
  <2>5. UNCHANGED <<loop, chan, peer, wire>> /\ written' \in Nat
    BY <1>0, <1>2 DEF Write
  <2>6. r.want[p] > 0
    BY <1>0, <2>1 DEF HandlerType
  <2>7. Data(h, r, s, n)
    BY <2>2, <2>4, <2>6 DEF Data
  <2> QED
    BY <2>3, <2>4, <2>5, <2>7 DEF HandlerEffect
<1>3. ASSUME NEW p \in Pumps, WriteFails(h, p) PROVE HandlerEffect(h)
  <2> DEFINE w == [r.want EXCEPT ![p] = 0]
             g == r.pumping \ {p}
             s == [r EXCEPT !.want = w, !.pumping = g]
  <2>1. s \in HandlerType /\ s.permits = r.permits /\ s.pumping = g
        /\ s.task = r.task /\ s.want = w /\ s.on = r.on
    <3>1. w \in [Pumps -> 0..MaxReserve] /\ g \subseteq Pumps
      BY <1>0 DEF HandlerType
    <3> HIDE DEF w, g
    <3> QED
      BY <1>0, <3>1 DEF HandlerType
  <2>2. Less(r, s)
    BY <1>0, <2>1 DEF Less, Pumped, HandlerType
  <2>3. hnd' = [hnd EXCEPT ![h] = s] /\ out_rx' = out_rx
    BY <1>3 DEF WriteFails, Set
  <2>4. UNCHANGED <<loop, chan, peer, wire>> /\ written' \in Nat
    BY <1>0, <1>3 DEF WriteFails
  <2> QED
    BY <2>1, <2>2, <2>3, <2>4 DEF Silent, HandlerEffect
<1>4. ASSUME NEW p \in Pumps, PumpEnds(h, p) PROVE HandlerEffect(h)
  <2> DEFINE s == [r EXCEPT !.pumping = @ \ {p}]
  <2>1. s \in HandlerType /\ s.permits = r.permits /\ s.pumping = r.pumping \ {p}
        /\ s.task = r.task /\ s.want = r.want /\ s.on = r.on
    BY <1>0 DEF HandlerType
  <2>2. Less(r, s)
    BY <1>0, <1>4, <2>1 DEF Less, Pumped, HandlerType, PumpEnds
  <2>3. hnd' = [hnd EXCEPT ![h] = s] /\ out_rx' = out_rx
    BY <1>4 DEF PumpEnds, Set
  <2>4. UNCHANGED <<loop, chan, peer, wire>> /\ written' \in Nat
    BY <1>0, <1>4 DEF PumpEnds
  <2> QED
    BY <2>1, <2>2, <2>3, <2>4 DEF Silent, HandlerEffect
<1>5. ASSUME ChildExits(h) PROVE HandlerEffect(h)
  <2> DEFINE s == [r EXCEPT !.child = FALSE]
  <2>1. Less(r, s) /\ s.permits = r.permits
    BY <1>0 DEF Less, Pumped, HandlerType
  <2>2. hnd' = [hnd EXCEPT ![h] = s] /\ out_rx' = out_rx
    BY <1>5 DEF ChildExits, Set
  <2>3. UNCHANGED <<loop, chan, peer, wire>> /\ written' \in Nat
    BY <1>0, <1>5 DEF ChildExits
  <2> QED
    BY <2>1, <2>2, <2>3 DEF Silent, HandlerEffect
<1>6. ASSUME Returns(h) PROVE HandlerEffect(h)
  <2> DEFINE s == [r EXCEPT !.task = "returned"]
  <2>1. Less(r, s) /\ s.permits = r.permits /\ s.pumping = r.pumping /\ s.task = "returned"
    BY <1>0 DEF Less, Pumped, HandlerType
  <2>2. hnd' = [hnd EXCEPT ![h] = s] /\ r.task = "running" /\ r.pumping = {}
    BY <1>6 DEF Returns, Set, Finished
  <2>3. UNCHANGED <<loop, chan, peer, wire>> /\ written' \in Nat
    BY <1>0, <1>6 DEF Returns
  <2>4. \/ out_rx' = out_rx
        \/ out_rx' = Append(out_rx, [from |-> h, kind |-> "exit", len |-> 0])
    BY <1>6 DEF Returns
  <2>5. Silent(r, s) \/ Exit(h, r, s)
    BY <2>1, <2>2, <2>4 DEF Silent, Exit
  <2> QED
    BY <2>1, <2>2, <2>3, <2>5 DEF HandlerEffect
<1>7. ASSUME Dropped(h) PROVE HandlerEffect(h)
  <2> DEFINE s == [r EXCEPT !.task = "gone", !.child = FALSE]
  <2>1. Less(r, s) /\ s.permits = r.permits
    BY <1>0 DEF Less, Pumped, HandlerType
  <2>2. hnd' = [hnd EXCEPT ![h] = s] /\ out_rx' = out_rx
    BY <1>7 DEF Dropped, Set
  <2>3. UNCHANGED <<loop, chan, peer, wire>> /\ written' \in Nat
    BY <1>0, <1>7 DEF Dropped
  <2> QED
    BY <2>1, <2>2, <2>3 DEF Silent, HandlerEffect
<1>8. ASSUME ReadStdin(h) PROVE HandlerEffect(h)
  <2> DEFINE k == IF r.child THEN r.stdin - 1 ELSE 0
             c == r.consumed + 1
             s == [r EXCEPT !.stdin = k, !.consumed = c]
  <2>1. k \in Nat /\ c \in Nat
    BY <1>0, <1>8 DEF HandlerType, ReadStdin
  <2>2. hnd' = [hnd EXCEPT ![h] = s] /\ out_rx' = out_rx
    BY <1>8 DEF ReadStdin, Set
  <2> HIDE DEF k, c
  <2>3. Less(r, s) /\ s.permits = r.permits
    <3>1. s \in HandlerType /\ s.permits = r.permits /\ s.pumping = r.pumping
          /\ s.task = r.task /\ s.want = r.want /\ s.on = r.on
      BY <1>0, <2>1 DEF HandlerType
    <3> QED
      BY <1>0, <3>1 DEF Less, Pumped
  <2>4. UNCHANGED <<loop, chan, peer, wire>> /\ written' \in Nat
    BY <1>0, <1>8 DEF ReadStdin
  <2> QED
    BY <2>2, <2>3, <2>4 DEF Silent, HandlerEffect
<1> QED
  BY <1>1, <1>2, <1>3, <1>4, <1>5, <1>6, <1>7, <1>8 DEF HandlerMoves

--------------------------------------------------------------------------------
(* Steps of the loop *)

\* The handlers send, wait and run as before, and hold the same permits.
SameHandlers ==
    /\ hnd' \in [Handlers -> HandlerType]
    /\ \A h \in Handlers :
         /\ hnd'[h].pumping = hnd[h].pumping /\ hnd'[h].want = hnd[h].want
         /\ hnd'[h].permits = hnd[h].permits /\ hnd'[h].on = hnd[h].on
         /\ hnd'[h].task = "running" => hnd[h].task = "running"

\* The wiring is kept, and the loop does not return.
SameWiring ==
    /\ loop' \in LoopType
    /\ loop'.out_budget = loop.out_budget /\ loop'.handler_task = loop.handler_task
    /\ loop'.phase = "ended" => loop.phase = "ended"

\* Steps that leave the channel, the queue and the wiring alone.
IdleEffect ==
    /\ SameWiring /\ loop'.out_inflight = loop.out_inflight
    /\ SameHandlers
    /\ peer' \in PeerType /\ peer'.polite = peer.polite
    /\ UNCHANGED <<chan, out_rx, wire, written>>

LEMMA NoHandler == 0 \in Maybe /\ \A h : h \in Maybe <=> h = 0 \/ h \in Handlers
BY ServeAssumption DEF Maybe, Handlers

LEMMA SameHandlersUnchanged ==
    ASSUME TypeOK, hnd' = hnd
    PROVE  SameHandlers
BY DEF TypeOK, SameHandlers

LEMMA IdleFacts ==
    ASSUME TypeOK,
           \/ Consumption \/ Authenticates \/ Disconnecting
           \/ ChannelData \/ ChannelEof \/ StopReading
    PROVE  IdleEffect
<1>0. loop \in LoopType /\ peer \in PeerType /\ hnd \in [Handlers -> HandlerType]
  BY DEF TypeOK
<1>1. CASE Consumption
  <2> DEFINE h == loop.consumed_rx
             c == hnd[h].consumed
             p == loop.pending \/ (Delta(hnd[h].consumed, loop.last_consumed) > 0 /\ chan.gen # 0)
             x == IF c = loop.last_consumed THEN 0 ELSE h
  <2>1. h \in Handlers
    BY <1>0, <1>1, ServeAssumption DEF Consumption, LoopType, Maybe, Handlers
  <2>2. hnd[h] \in HandlerType
    BY <1>0, <2>1
  <2>3. c \in Nat /\ p \in BOOLEAN /\ x \in Maybe
    BY <1>0, <2>1, <2>2, ServeAssumption DEF HandlerType, LoopType, Maybe
  <2>4. loop' = [loop EXCEPT !.last_consumed = c, !.pending = p, !.consumed_rx = x, !.phase = "flush"]
    BY <1>1 DEF Consumption, Again
  <2> HIDE DEF c, p, x
  <2>5. SameWiring /\ loop'.out_inflight = loop.out_inflight
    BY <1>0, <2>3, <2>4 DEF SameWiring, LoopType
  <2> QED
    BY <1>0, <1>1, <2>5, SameHandlersUnchanged DEF IdleEffect, Consumption
<1>2. CASE Authenticates
  <2>1. SameWiring /\ loop'.out_inflight = loop.out_inflight
    BY <1>0, <1>2 DEF SameWiring, LoopType, Authenticates, Again
  <2> QED
    BY <1>0, <1>2, <2>1, SameHandlersUnchanged DEF IdleEffect, Authenticates
<1>3. CASE Disconnecting
  <2>1. SameWiring /\ loop'.out_inflight = loop.out_inflight
    BY <1>0, <1>3 DEF SameWiring, LoopType, Disconnecting
  <2> QED
    BY <1>0, <1>3, <2>1, SameHandlersUnchanged DEF IdleEffect, Disconnecting
<1>4. CASE ChannelData
  <2>1. SameWiring /\ loop'.out_inflight = loop.out_inflight
    BY <1>0, <1>4 DEF SameWiring, LoopType, ChannelData, Again
  <2>2. peer' \in PeerType /\ peer'.polite = peer.polite
    BY <1>0, <1>4 DEF PeerType, ChannelData
  <2>3. SameHandlers
    <3>1. CASE loop.stdin_tx = 0
      BY <1>4, <3>1, SameHandlersUnchanged DEF ChannelData
    <3>2. CASE loop.stdin_tx # 0
      <4> DEFINE h == loop.stdin_tx
                 n == hnd[h].stdin + 1
                 s == [hnd[h] EXCEPT !.stdin = n]
      <4>1. h \in Handlers /\ hnd[h] \in HandlerType
        BY <1>0, <3>2, ServeAssumption DEF LoopType, Maybe, Handlers
      <4>2. n \in Nat
        BY <4>1 DEF HandlerType
      <4>3. hnd' = [hnd EXCEPT ![h] = s]
        BY <1>4, <3>2 DEF ChannelData
      <4> HIDE DEF n
      <4>4. s \in HandlerType /\ s.pumping = hnd[h].pumping /\ s.want = hnd[h].want
            /\ s.permits = hnd[h].permits /\ s.task = hnd[h].task /\ s.on = hnd[h].on
        BY <4>1, <4>2 DEF HandlerType
      <4> HIDE DEF s
      <4> QED
        BY <1>0, <4>1, <4>3, <4>4 DEF SameHandlers
    <3> QED
      BY <3>1, <3>2
  <2> QED
    BY <1>4, <2>1, <2>2, <2>3 DEF IdleEffect, ChannelData
<1>5. CASE ChannelEof
  <2>1. SameWiring /\ loop'.out_inflight = loop.out_inflight
    <3>1. loop' = [loop EXCEPT !.stdin_tx = 0, !.phase = "flush"]
      BY <1>5 DEF ChannelEof, Again
    <3> QED
      BY <1>0, <3>1, NoHandler DEF SameWiring, LoopType
  <2> QED
    BY <1>0, <1>5, <2>1, SameHandlersUnchanged DEF IdleEffect, ChannelEof
<1>6. CASE StopReading
  <2>1. peer' \in PeerType /\ peer'.polite = peer.polite
    BY <1>0, <1>6 DEF PeerType, StopReading
  <2> QED
    BY <1>0, <1>6, <2>1, SameHandlersUnchanged DEF IdleEffect, StopReading, SameWiring
<1> QED
  BY <1>1, <1>2, <1>3, <1>4, <1>5, <1>6

\* A step that drops the guards of the wired handler, if any, and unwires it.
UnwireEffect ==
    /\ loop' \in LoopType /\ loop'.out_budget = 0 /\ loop'.handler_task = 0
    /\ SameHandlers
    /\ \A h \in Handlers : hnd'[h].task = "running" => loop.handler_task # h
    /\ UNCHANGED <<wire, written>>

ReturnEffect == UnwireEffect /\ out_rx' = <<>> /\ UNCHANGED <<chan, peer>>

LEMMA ReturnFacts ==
    ASSUME TypeOK, LoginTimer \/ IdleTimer \/ FinalFlush \/ PeerLeaves
    PROVE  ReturnEffect
<1>1. Return
  BY DEF LoginTimer, IdleTimer, FinalFlush, PeerLeaves
<1>2. loop' \in LoopType /\ loop'.out_budget = 0 /\ loop'.handler_task = 0
  BY <1>1, NoHandler DEF Return, TypeOK, LoopType
<1>3. hnd' = TearDown(hnd)
  BY <1>1 DEF Return
<1>4. SameHandlers /\ \A h \in Handlers : hnd'[h].task = "running" => loop.handler_task # h
  BY <1>3, TearDownFacts DEF SameHandlers
<1> QED
  BY <1>1, <1>2, <1>4 DEF Return, UnwireEffect, ReturnEffect

CloseEffect ==
    /\ UnwireEffect /\ out_rx' = out_rx
    /\ chan' = NoChannel
    /\ peer' \in PeerType /\ peer'.polite = chan.sent_close

LEMMA CloseFacts ==
    ASSUME TypeOK, ChannelClose
    PROVE  CloseEffect
<1> DEFINE p == loop.pending \/ (chan.gen # 0 /\ ~chan.sent_close)
<1>0. loop \in LoopType /\ peer \in PeerType /\ chan.sent_close \in BOOLEAN
  BY DEF TypeOK, ChanType
<1>1. p \in BOOLEAN
  BY <1>0 DEF LoopType
<1>2. loop' = [loop EXCEPT !.stdin_tx = 0, !.out_budget = 0, !.handler_task = 0,
                           !.pending = p, !.phase = "flush"]
  BY DEF ChannelClose, Again
<1> HIDE DEF p
<1>3. loop' \in LoopType /\ loop'.out_budget = 0 /\ loop'.handler_task = 0
  BY <1>0, <1>1, <1>2, NoHandler DEF LoopType
<1>4. hnd' = TearDown(hnd)
  BY DEF ChannelClose
<1>5. SameHandlers /\ \A h \in Handlers : hnd'[h].task = "running" => loop.handler_task # h
  BY <1>4, TearDownFacts DEF SameHandlers
<1>6. peer' \in PeerType /\ peer'.polite = chan.sent_close
  BY <1>0 DEF ChannelClose, PeerType
<1> QED
  BY <1>3, <1>5, <1>6 DEF ChannelClose, UnwireEffect, CloseEffect

\* The credit for what has reached the wire.
FlushEffect ==
    LET credit == Smaller(chan.flushed, loop.out_inflight)
        b      == loop.out_budget
    IN  /\ SameWiring
        /\ chan' \in ChanType
        /\ chan'.gen = chan.gen /\ chan'.out = chan.out /\ chan'.started = chan.started
        /\ chan'.exit_by = chan.exit_by /\ chan'.sent_close = chan.sent_close
        /\ chan'.flushed \in {0, chan.flushed}
        /\ hnd' \in [Handlers -> HandlerType]
        /\ \A h \in Handlers : /\ hnd'[h].pumping = hnd[h].pumping /\ hnd'[h].want = hnd[h].want
                               /\ hnd'[h].task = hnd[h].task /\ hnd'[h].on = hnd[h].on
        /\ b # 0 => /\ loop'.out_inflight = loop.out_inflight - credit
                    /\ chan'.flushed = 0
                    /\ hnd'[b].permits = hnd[b].permits + credit
        /\ UNCHANGED <<out_rx, peer, wire, written>>

LEMMA CreditFacts ==
    ASSUME TypeOK, Flush
    PROVE  FlushEffect
<1> DEFINE credit == Smaller(chan.flushed, loop.out_inflight)
           b      == loop.out_budget
           left   == loop.out_inflight - credit
<1>0. /\ loop \in LoopType /\ chan \in ChanType /\ hnd \in [Handlers -> HandlerType]
      /\ b \in Maybe
  BY DEF TypeOK, LoopType
<1>1. credit \in Nat /\ left \in Nat
  BY <1>0 DEF Smaller, LoopType, ChanType
<1>2. CASE b = 0
  <2>1. loop' = [loop EXCEPT !.phase = "select", !.pending = FALSE] /\ UNCHANGED <<chan, hnd>>
        /\ UNCHANGED <<out_rx, peer, wire, written>> /\ loop.phase = "flush"
    BY <1>2 DEF Flush
  <2>2. SameWiring
    BY <1>0, <2>1 DEF SameWiring, LoopType
  <2> QED
    BY <1>0, <1>2, <2>1, <2>2 DEF FlushEffect
<1>3. CASE b # 0
  <2>1. loop' = [loop EXCEPT !.phase = "select", !.pending = FALSE, !.out_inflight = left]
        /\ UNCHANGED <<out_rx, peer, wire, written>> /\ chan' = [chan EXCEPT !.flushed = 0]
    BY <1>3 DEF Flush
  <2>2. SameWiring /\ loop'.out_inflight = left
    <3> HIDE DEF left
    <3> QED
      BY <1>0, <1>1, <2>1 DEF SameWiring, LoopType
  <2>3. /\ chan' \in ChanType
        /\ chan'.gen = chan.gen /\ chan'.out = chan.out /\ chan'.started = chan.started
        /\ chan'.exit_by = chan.exit_by /\ chan'.sent_close = chan.sent_close
        /\ chan'.flushed = 0
    BY <1>0, <2>1 DEF ChanType
  <2> DEFINE m == hnd[b].permits + credit
             s == [hnd[b] EXCEPT !.permits = m]
  <2>4. b \in Handlers /\ hnd[b] \in HandlerType
    BY <1>0, <1>3, NoHandler
  <2>5. m \in Nat
    <3> HIDE DEF credit
    <3> QED
      BY <1>1, <2>4 DEF HandlerType
  <2>6. hnd' = [hnd EXCEPT ![b] = s]
    BY <1>3 DEF Flush
  <2> HIDE DEF m
  <2>7. s \in HandlerType /\ s.pumping = hnd[b].pumping /\ s.want = hnd[b].want
        /\ s.permits = m /\ s.task = hnd[b].task /\ s.on = hnd[b].on
    BY <2>4, <2>5 DEF HandlerType
  <2> HIDE DEF s
  <2>8. /\ hnd' \in [Handlers -> HandlerType]
        /\ \A h \in Handlers : /\ hnd'[h].pumping = hnd[h].pumping /\ hnd'[h].want = hnd[h].want
                               /\ hnd'[h].task = hnd[h].task /\ hnd'[h].on = hnd[h].on
        /\ hnd'[b].permits = m
    BY <1>0, <2>4, <2>6, <2>7
  <2> QED
    BY <1>0, <2>1, <2>2, <2>3, <2>8 DEF FlushEffect, m
<1> QED
  BY <1>2, <1>3

\* The channel with the message out of a handler in it.
Received(out, ch) ==
    /\ ch \in ChanType /\ ch.gen = chan.gen /\ ch.flushed = chan.flushed
    /\ ch.sent_close = chan.sent_close /\ ch.started = chan.started
    /\ \/ /\ chan.gen = 0
          /\ ch.out = chan.out /\ ch.exit_by = chan.exit_by
       \/ /\ chan.gen # 0 /\ out.kind = "exit"
          /\ ch.out = chan.out /\ ch.exit_by = out.from
       \/ /\ chan.gen # 0 /\ out.kind # "exit"
          /\ ch.exit_by = chan.exit_by /\ Len(ch.out) = Len(chan.out) + out.len
          /\ \A i \in DOMAIN ch.out : ch.out[i] = out.from \/ \E j \in DOMAIN chan.out : ch.out[i] = chan.out[j]

RecvEffect ==
    /\ SameWiring /\ loop'.out_inflight = loop.out_inflight + Head(out_rx).len
    /\ out_rx # <<>> /\ Head(out_rx) \in Outbound /\ out_rx' = Tail(out_rx)
    /\ \E ch : Received(Head(out_rx), ch) /\ flush_channel(ch)
    /\ UNCHANGED <<hnd, peer, written>>

LEMMA RecvFacts ==
    ASSUME TypeOK, RecvOut
    PROVE  RecvEffect
<1> DEFINE out == Head(out_rx)
           ch  == IF chan.gen = 0 THEN chan
                  ELSE IF out.kind = "exit" THEN [chan EXCEPT !.exit_by = out.from]
                  ELSE [chan EXCEPT !.out = @ \o [i \in 1..out.len |-> out.from]]
           p   == loop.pending \/ Emits(ch)
           n   == loop.out_inflight + out.len
<1>0. loop \in LoopType /\ chan \in ChanType /\ out_rx \in Seq(Outbound) /\ out_rx # <<>>
  BY DEF TypeOK, RecvOut
<1>1. out \in Outbound
  BY <1>0
<1> HIDE DEF out
<1>2. out.from \in Handlers /\ out.from \in Maybe /\ out.len \in Nat
  BY <1>1, NoHandler, ServeAssumption DEF Outbound
<1>3. Received(out, ch)
  <2>1. CASE chan.gen = 0
    BY <1>0, <2>1 DEF Received
  <2>2. CASE chan.gen # 0 /\ out.kind = "exit"
    <3>1. ch = [chan EXCEPT !.exit_by = out.from]
      BY <2>2
    <3> HIDE DEF ch
    <3>2. ch \in ChanType /\ ch.gen = chan.gen /\ ch.flushed = chan.flushed /\ ch.out = chan.out
          /\ ch.sent_close = chan.sent_close /\ ch.exit_by = out.from /\ ch.started = chan.started
      BY <1>0, <1>2, <3>1 DEF ChanType
    <3> QED
      BY <2>2, <3>2 DEF Received
  <2>3. CASE chan.gen # 0 /\ out.kind # "exit"
    <3> DEFINE new == [i \in 1..out.len |-> out.from]
               q   == chan.out \o new
    <3>1. chan.out \in Seq(Handlers)
      BY <1>0 DEF ChanType
    <3>2. new \in Seq(Handlers) /\ Len(new) = out.len /\ \A i \in 1..out.len : new[i] = out.from
      BY <1>2
    <3> HIDE DEF new
    <3>3. /\ q \in Seq(Handlers) /\ Len(q) = Len(chan.out) + out.len
          /\ \A i \in DOMAIN q : q[i] = out.from \/ \E j \in DOMAIN chan.out : q[i] = chan.out[j]
      BY <1>2, <3>1, <3>2
    <3>4. ch = [chan EXCEPT !.out = q]
      BY <2>3 DEF new
    <3> HIDE DEF q, ch
    <3>5. ch \in ChanType /\ ch.gen = chan.gen /\ ch.flushed = chan.flushed /\ ch.out = q
          /\ ch.sent_close = chan.sent_close /\ ch.exit_by = chan.exit_by /\ ch.started = chan.started
      BY <1>0, <3>3, <3>4 DEF ChanType
    <3> QED
      BY <2>3, <3>3, <3>5 DEF Received
  <2> QED
    BY <2>1, <2>2, <2>3
<1>4. flush_channel(ch) /\ out_rx' = Tail(out_rx) /\ UNCHANGED <<hnd, peer, written>>
      /\ loop' = [loop EXCEPT !.out_inflight = n, !.pending = p, !.phase = "flush"]
      /\ loop.phase = "select"
  BY DEF RecvOut, Again, out
<1>5. n \in Nat /\ p \in BOOLEAN
  BY <1>0, <1>2 DEF LoopType
<1>6. SameWiring /\ loop'.out_inflight = n
  <2> HIDE DEF n, p
  <2> QED
    BY <1>0, <1>4, <1>5 DEF SameWiring, LoopType
<1> QED
  BY <1>0, <1>1, <1>3, <1>4, <1>6 DEF out, RecvEffect

AdjustEffect ==
    /\ SameWiring /\ loop'.out_inflight = loop.out_inflight
    /\ \E ch : /\ ch \in ChanType /\ ch.gen = chan.gen /\ ch.flushed = chan.flushed
               /\ ch.sent_close = chan.sent_close /\ ch.out = chan.out
               /\ ch.exit_by = chan.exit_by /\ ch.started = chan.started /\ flush_channel(ch)
    /\ UNCHANGED <<out_rx, hnd, peer, written>>

LEMMA AdjustFacts ==
    ASSUME TypeOK, WindowAdjust
    PROVE  AdjustEffect
<1> DEFINE w  == chan.window + Window
           ch == [chan EXCEPT !.window = w]
           p  == loop.pending \/ Emits(ch)
<1>0. loop \in LoopType /\ chan \in ChanType
  BY DEF TypeOK
<1>1. w \in Nat
  BY <1>0, ServeAssumption DEF ChanType
<1>2. flush_channel(ch) /\ UNCHANGED <<out_rx, hnd, peer, written>>
      /\ loop' = [loop EXCEPT !.pending = p, !.phase = "flush"] /\ loop.phase = "select"
  BY DEF WindowAdjust, Again, Reading
<1>3. p \in BOOLEAN
  BY <1>0 DEF LoopType
<1> HIDE DEF w, p
<1>4. /\ ch \in ChanType /\ ch.gen = chan.gen /\ ch.flushed = chan.flushed
      /\ ch.sent_close = chan.sent_close /\ ch.out = chan.out /\ ch.exit_by = chan.exit_by
      /\ ch.started = chan.started
  BY <1>0, <1>1 DEF ChanType
<1>5. SameWiring /\ loop'.out_inflight = loop.out_inflight
  BY <1>0, <1>2, <1>3 DEF SameWiring, LoopType
<1> HIDE DEF ch
<1> QED
  BY <1>2, <1>4, <1>5 DEF AdjustEffect

\* A channel just opened.
OpenEffect ==
    /\ chan.gen = 0 /\ (EarlyReopen \/ peer.polite)
    /\ SameWiring /\ hnd' = hnd
    /\ peer' \in PeerType /\ peer'.polite = peer.polite
    /\ chan' \in ChanType /\ chan'.gen \in Handlers /\ chan'.out = <<>>
    /\ chan'.flushed = 0 /\ chan'.exit_by = 0 /\ ~chan'.sent_close
    /\ UNCHANGED <<out_rx, wire, written>>

LEMMA OpenFacts ==
    ASSUME TypeOK, ChannelOpen
    PROVE  OpenEffect
<1> DEFINE h == peer.opens + 1
<1>0. /\ loop \in LoopType /\ peer \in PeerType
      /\ h \in Handlers /\ h \in Maybe /\ 0 \in Maybe
  BY NoHandler DEF TypeOK, ChannelOpen
<1>1. /\ chan.gen = 0 /\ (EarlyReopen \/ peer.polite) /\ loop.phase = "select"
      /\ chan' = [gen |-> h, out |-> <<>>, window |-> Window, flushed |-> 0,
                  exit_by |-> 0, sent_close |-> FALSE, started |-> FALSE]
      /\ peer' = [peer EXCEPT !.opens = h, !.sent = 0]
      /\ loop' = [loop EXCEPT !.pending = TRUE, !.phase = "flush"]
      /\ UNCHANGED <<out_rx, hnd, wire, written>>
  BY DEF ChannelOpen, NoChannel, Reading, Again
<1> HIDE DEF h
<1>2. peer' \in PeerType /\ peer'.polite = peer.polite
  BY <1>0, <1>1 DEF PeerType
<1>3. /\ chan' \in ChanType /\ chan'.gen = h /\ chan'.out = <<>>
      /\ chan'.flushed = 0 /\ chan'.exit_by = 0 /\ ~chan'.sent_close
  BY <1>0, <1>1, ServeAssumption DEF ChanType
<1>4. SameWiring
  BY <1>0, <1>1 DEF SameWiring, LoopType
<1> QED
  BY <1>0, <1>1, <1>2, <1>3, <1>4 DEF OpenEffect

\* A program that was refused, and one whose handler was just spawned.
RefusedEffect ==
    /\ SameWiring /\ loop'.out_inflight = loop.out_inflight /\ hnd' = hnd
    /\ peer'.polite = peer.polite
SpawnedEffect(h) ==
    /\ peer'.polite <=> peer.polite /\ chan.gen # 0
    /\ loop' \in LoopType /\ loop'.phase = "flush" /\ loop'.out_inflight = 0
    /\ loop'.out_budget = h /\ loop'.handler_task = h
    /\ hnd' \in [Handlers -> HandlerType]
    /\ hnd'[h].permits = OutLimit /\ Pumped(hnd'[h]) /\ hnd'[h].on = chan.gen
    /\ \A k \in Handlers \ {h} :
         /\ hnd'[k].pumping = hnd[k].pumping /\ hnd'[k].want = hnd[k].want
         /\ hnd'[k].task = "running" => hnd[k].task = "running" /\ loop.handler_task # k

RequestEffect ==
    /\ ~chan.started /\ peer' \in PeerType
    /\ chan' \in ChanType /\ chan'.gen = chan.gen /\ chan'.out = chan.out
    /\ chan'.flushed = chan.flushed /\ chan'.exit_by = chan.exit_by
    /\ chan'.sent_close = chan.sent_close /\ chan'.started
    /\ \/ RefusedEffect
       \/ \E h \in Handlers : (chan.gen # 0 => h = chan.gen) /\ SpawnedEffect(h)
    /\ UNCHANGED <<out_rx, wire, written>>

LEMMA RequestFacts ==
    ASSUME TypeOK, NEW accepted \in BOOLEAN, ProgramRequest(accepted)
    PROVE  RequestEffect
<1> DEFINE h == IF chan.gen # 0 THEN chan.gen ELSE peer.opens + 1
<1>0. /\ loop \in LoopType /\ peer \in PeerType /\ hnd \in [Handlers -> HandlerType]
      /\ chan \in ChanType /\ chan.gen \in Maybe
      /\ h \in Handlers /\ h \in Maybe /\ 0 \in Maybe /\ (chan.gen # 0 => h = chan.gen)
  BY NoHandler DEF TypeOK, ChanType, ProgramRequest
<1>1. /\ ~chan.started /\ loop.phase = "select"
      /\ chan' = [chan EXCEPT !.started = TRUE]
      /\ peer' = IF chan.gen # 0 THEN peer
                 ELSE [peer EXCEPT !.opens = h, !.polite = @ /\ ~accepted]
      /\ UNCHANGED <<out_rx, wire, written>>
  BY DEF ProgramRequest, Reading
<1>2. \/ ~accepted /\ hnd' = hnd /\ loop' = [loop EXCEPT !.pending = TRUE, !.phase = "flush"]
      \/ /\ accepted /\ hnd' = spawn_handler(TearDown(hnd), h, chan.gen)
         /\ loop' = [loop EXCEPT !.stdin_tx = h, !.out_budget = h, !.consumed_rx = h,
                      !.handler_task = h, !.out_inflight = 0, !.last_consumed = 0,
                      !.pending = TRUE, !.phase = "flush"]
  BY DEF ProgramRequest, Again, Wire
<1> HIDE DEF h
<1>4. /\ peer' \in PeerType
      /\ peer'.polite <=> peer.polite /\ (chan.gen # 0 \/ ~accepted)
  BY <1>0, <1>1 DEF PeerType
<1>5. /\ chan' \in ChanType /\ chan'.gen = chan.gen /\ chan'.out = chan.out
      /\ chan'.flushed = chan.flushed /\ chan'.exit_by = chan.exit_by
      /\ chan'.sent_close = chan.sent_close /\ chan'.started
  BY <1>0, <1>1 DEF ChanType
<1>6. CASE ~accepted /\ hnd' = hnd /\ loop' = [loop EXCEPT !.pending = TRUE, !.phase = "flush"]
  <2>0. peer'.polite = peer.polite
    BY <1>0, <1>4, <1>6 DEF PeerType
  <2>1. RefusedEffect
    BY <1>0, <1>6, <2>0 DEF RefusedEffect, SameWiring, LoopType
  <2> QED
    BY <1>1, <1>4, <1>5, <2>1 DEF RequestEffect
<1>7. CASE /\ accepted /\ hnd' = spawn_handler(TearDown(hnd), h, chan.gen)
           /\ loop' = [loop EXCEPT !.stdin_tx = h, !.out_budget = h, !.consumed_rx = h,
                      !.handler_task = h, !.out_inflight = 0, !.last_consumed = 0,
                      !.pending = TRUE, !.phase = "flush"]
  <2>1. /\ loop' \in LoopType /\ loop'.phase = "flush" /\ loop'.out_inflight = 0
        /\ loop'.out_budget = h /\ loop'.handler_task = h
    BY <1>0, <1>7 DEF LoopType
  <2> DEFINE f == TearDown(hnd)
             s == [NotSpawned EXCEPT !.task = "running", !.child = TRUE, !.permits = OutLimit,
                                     !.pumping = Pumps, !.on = chan.gen]
  <2>2. hnd' = [f EXCEPT ![h] = s]
    BY <1>7 DEF spawn_handler
  <2>3. s \in HandlerType /\ s.permits = OutLimit /\ Pumped(s) /\ s.on = chan.gen
    <3>1. NotSpawned \in HandlerType /\ NotSpawned.want = [p \in Pumps |-> 0]
      BY NoHandler, ServeAssumption DEF HandlerType, NotSpawned
    <3>2. s \in HandlerType /\ s.permits = OutLimit /\ s.want = NotSpawned.want
          /\ s.on = chan.gen
      BY <1>0, <3>1, ServeAssumption DEF HandlerType
    <3> QED
      BY <3>1, <3>2 DEF Pumped
  <2>4. /\ f \in [Handlers -> HandlerType]
        /\ \A k \in Handlers : /\ f[k].pumping = hnd[k].pumping /\ f[k].want = hnd[k].want
                               /\ f[k].task = "running" =>
                                     hnd[k].task = "running" /\ loop.handler_task # k
    BY TearDownFacts
  <2> HIDE DEF f, s
  <2>5. SpawnedEffect(h)
    BY <1>0, <1>4, <1>7, <2>1, <2>2, <2>3, <2>4 DEF SpawnedEffect
  <2> QED
    BY <1>0, <1>1, <1>4, <1>5, <2>5 DEF RequestEffect
<1> QED
  BY <1>2, <1>6, <1>7

\* What flush_channel puts on the wire.
LEMMA FlushOnItsChannel ==
    ASSUME NEW ch \in ChanType, flush_channel(ch), OutputOnItsChannel,
           \A i \in DOMAIN ch.out : ch.out[i] = ch.gen,
           ch.exit_by # 0 => ch.exit_by = ch.gen,
           ch.sent_close => ch.out = <<>>
    PROVE  OutputOnItsChannel'
<1> DEFINE n    == Smaller(ch.window, Len(ch.out))
           left == SubSeq(ch.out, n + 1, Len(ch.out))
           ends == left = <<>> /\ ch.exit_by # 0
           data == {<<ch.gen, ch.out[i], ch.sent_close>> : i \in 1..n}
           end  == IF ends /\ ~ch.sent_close THEN {<<ch.gen, ch.exit_by, ch.sent_close>>} ELSE {}
<1>0. ch.out \in Seq(Handlers) /\ ch.window \in Nat /\ ch.sent_close \in BOOLEAN
  BY DEF ChanType
<1>1. n \in Nat /\ n <= Len(ch.out) /\ DOMAIN ch.out = 1..Len(ch.out)
  BY <1>0 DEF Smaller
<1>2. wire' = wire \cup data \cup end
  BY DEF flush_channel
<1>3. \A m \in end : m[1] = m[2] /\ ~m[3]
  <2>1. ends => ch.exit_by = ch.gen
    OBVIOUS
  <2> HIDE DEF ends
  <2>2. \A m \in end : ends /\ ~ch.sent_close /\ m = <<ch.gen, ch.exit_by, ch.sent_close>>
    OBVIOUS
  <2> HIDE DEF end
  <2> QED
    BY <2>1, <2>2
<1> HIDE DEF n, end
<1>4. \A m \in data : m[1] = m[2] /\ ~m[3]
  <2>1. ASSUME NEW i \in 1..n
        PROVE  i \in DOMAIN ch.out /\ ch.out[i] = ch.gen /\ ~ch.sent_close
    BY <1>0, <1>1
  <2> QED
    BY <2>1
<1> HIDE DEF data
<1> QED
  BY <1>2, <1>3, <1>4 DEF OutputOnItsChannel

\* Every step, in those terms.
StepEffect ==
    \/ IdleEffect
    \/ ReturnEffect
    \/ CloseEffect
    \/ FlushEffect
    \/ RecvEffect
    \/ AdjustEffect
    \/ OpenEffect
    \/ RequestEffect
    \/ \E h \in Handlers : HandlerEffect(h)

LEMMA StepFacts ==
    ASSUME TypeOK, [Next]_vars
    PROVE  StepEffect
<1>1. CASE UNCHANGED vars
  <2>1. SameWiring
    BY <1>1 DEF vars, TypeOK, SameWiring
  <2> QED
    BY <1>1, <2>1, SameHandlersUnchanged DEF vars, TypeOK, IdleEffect, StepEffect
<1>2. CASE \/ Consumption \/ Authenticates \/ Disconnecting
           \/ ChannelData \/ ChannelEof \/ StopReading
  BY <1>2, IdleFacts DEF StepEffect
<1>3. CASE LoginTimer \/ IdleTimer \/ FinalFlush \/ PeerLeaves
  BY <1>3, ReturnFacts DEF StepEffect
<1>4. CASE Flush
  BY <1>4, CreditFacts DEF StepEffect
<1>5. CASE RecvOut
  BY <1>5, RecvFacts DEF StepEffect
<1>6. CASE ChannelOpen \/ \E accepted \in BOOLEAN : ProgramRequest(accepted)
  BY <1>6, OpenFacts, RequestFacts DEF StepEffect
<1>7. CASE WindowAdjust
  BY <1>7, AdjustFacts DEF StepEffect
<1>8. CASE ChannelClose
  BY <1>8, CloseFacts DEF StepEffect
<1>9. CASE \E h \in Handlers : HandlerMoves(h)
  BY <1>9, HandlerFacts DEF StepEffect
<1> QED
  BY <1>1, <1>2, <1>3, <1>4, <1>5, <1>6, <1>7, <1>8, <1>9 DEF Next, HandlerMoves

--------------------------------------------------------------------------------
(* The inductive invariant *)

LEMMA NextType == TypeOK /\ [Next]_vars => TypeOK'
<1> SUFFICES ASSUME TypeOK, [Next]_vars PROVE TypeOK'
  OBVIOUS
<1>1. StepEffect
  BY StepFacts
<1>2. CASE IdleEffect
  BY <1>2 DEF IdleEffect, SameWiring, SameHandlers, TypeOK
<1>3. CASE ReturnEffect
  BY <1>3 DEF ReturnEffect, UnwireEffect, SameHandlers, TypeOK
<1>4. CASE CloseEffect
  <2>1. chan' \in ChanType
    BY <1>4, NoHandler DEF CloseEffect, NoChannel, ChanType
  <2> QED
    BY <1>4, <2>1 DEF CloseEffect, UnwireEffect, SameHandlers, TypeOK
<1>5. CASE FlushEffect
  BY <1>5 DEF FlushEffect, SameWiring, TypeOK
<1>6. CASE RecvEffect
  <2>1. PICK ch : Received(Head(out_rx), ch) /\ flush_channel(ch)
    BY <1>6 DEF RecvEffect
  <2>2. chan' \in ChanType
    BY <2>1, FlushFacts DEF Received
  <2>3. out_rx' \in Seq(Outbound)
    BY <1>6 DEF RecvEffect, TypeOK
  <2> QED
    BY <1>6, <2>2, <2>3 DEF RecvEffect, SameWiring, TypeOK
<1>7. CASE AdjustEffect
  <2>1. PICK ch : ch \in ChanType /\ flush_channel(ch)
    BY <1>7 DEF AdjustEffect
  <2>2. chan' \in ChanType
    BY <2>1, FlushFacts
  <2> QED
    BY <1>7, <2>2 DEF AdjustEffect, SameWiring, TypeOK
<1>8. CASE OpenEffect \/ RequestEffect
  BY <1>8 DEF OpenEffect, RequestEffect, RefusedEffect, SpawnedEffect, SameWiring, TypeOK
<1>9. ASSUME NEW h \in Handlers, HandlerEffect(h) PROVE TypeOK'
  <2>1. PICK s : /\ hnd' = [hnd EXCEPT ![h] = s] /\ Less(hnd[h], s)
                 /\ \/ Silent(hnd[h], s)
                    \/ \E n \in 1..MaxReserve : Data(h, hnd[h], s, n)
                    \/ Exit(h, hnd[h], s)
    BY <1>9 DEF HandlerEffect
  <2>2. hnd' \in [Handlers -> HandlerType]
    BY <2>1 DEF Less, TypeOK
  <2>3. out_rx' \in Seq(Outbound)
    <3>1. \A n \in 1..MaxReserve : [from |-> h, kind |-> "data", len |-> n] \in Outbound
      BY ServeAssumption DEF Outbound
    <3>2. [from |-> h, kind |-> "exit", len |-> 0] \in Outbound
      BY ServeAssumption DEF Outbound
    <3>3. out_rx \in Seq(Outbound) /\ \A m \in Outbound : Append(out_rx, m) \in Seq(Outbound)
      BY DEF TypeOK
    <3>4. out_rx' = out_rx \/ \E m \in Outbound : out_rx' = Append(out_rx, m)
      BY <2>1, <3>1, <3>2 DEF Silent, Data, Exit
    <3> QED
      BY <3>3, <3>4
  <2> QED
    BY <1>9, <2>2, <2>3 DEF HandlerEffect, TypeOK
<1> QED
  BY <1>1, <1>2, <1>3, <1>4, <1>5, <1>6, <1>7, <1>8, <1>9 DEF StepEffect

LEMMA NextWired == TypeOK /\ WiredInv /\ [Next]_vars => WiredInv'
<1> SUFFICES ASSUME TypeOK, WiredInv, [Next]_vars PROVE WiredInv'
  OBVIOUS
<1>1. StepEffect
  BY StepFacts
<1>0. /\ \A h \in Handlers : h # 0
      /\ loop.handler_task = 0 \/ loop.handler_task \in Handlers
  BY NoHandler DEF Handlers, TypeOK, LoopType
<1>2. CASE IdleEffect
  BY <1>0, <1>2 DEF IdleEffect, SameWiring, SameHandlers, WiredInv
<1>3. CASE ReturnEffect
  BY <1>3 DEF ReturnEffect, UnwireEffect, SameHandlers, WiredInv
<1>4. CASE CloseEffect
  BY <1>4 DEF CloseEffect, UnwireEffect, SameHandlers, WiredInv
<1>5. CASE FlushEffect
  BY <1>0, <1>5 DEF FlushEffect, SameWiring, WiredInv
<1>6. CASE RecvEffect
  <2>1. PICK ch : Received(Head(out_rx), ch) /\ flush_channel(ch)
    BY <1>6 DEF RecvEffect
  <2>2. chan'.gen = chan.gen
    BY <2>1, FlushFacts DEF Received
  <2> QED
    BY <1>6, <2>2 DEF RecvEffect, SameWiring, WiredInv
<1>7. CASE AdjustEffect
  <2>1. PICK ch : ch \in ChanType /\ ch.gen = chan.gen /\ flush_channel(ch)
    BY <1>7 DEF AdjustEffect
  <2>2. chan'.gen = chan.gen
    BY <2>1, FlushFacts
  <2> QED
    BY <1>7, <2>2 DEF AdjustEffect, SameWiring, WiredInv
<1>8. CASE OpenEffect \/ RequestEffect
  <2>1. CASE OpenEffect
    BY <1>0, <2>1 DEF OpenEffect, SameWiring, WiredInv
  <2>2. CASE RequestEffect /\ RefusedEffect
    BY <2>2 DEF RequestEffect, RefusedEffect, SameWiring, WiredInv
  <2>3. ASSUME RequestEffect, NEW h \in Handlers, chan.gen # 0 => h = chan.gen, SpawnedEffect(h)
        PROVE  WiredInv'
    BY <1>0, <2>3 DEF RequestEffect, SpawnedEffect, WiredInv
  <2> QED
    BY <1>8, <2>1, <2>2, <2>3 DEF RequestEffect
<1>9. ASSUME NEW h \in Handlers, HandlerEffect(h) PROVE WiredInv'
  <2>1. PICK s : hnd' = [hnd EXCEPT ![h] = s] /\ Less(hnd[h], s)
    BY <1>9 DEF HandlerEffect
  <2>2. \A k \in Handlers : /\ hnd'[k].task = "running" => hnd[k].task = "running"
                            /\ hnd'[k].on = hnd[k].on
    BY <2>1 DEF Less, TypeOK
  <2> QED
    BY <1>0, <1>9, <2>2 DEF HandlerEffect, WiredInv
<1> QED
  BY <1>1, <1>2, <1>3, <1>4, <1>5, <1>6, <1>7, <1>8, <1>9 DEF StepEffect

\* Handlers that were quiet stay so.
Calmer == \A h \in Handlers : (Pumped(hnd[h]) => Pumped(hnd'[h])) /\ (Quiet(h) => Quiet(h)')

\* A message of a polite peer's session is of the open channel's handler.
LEMMA QueueOwner ==
    ASSUME TypeOK, OutputInv, peer.polite, NEW i \in DOMAIN out_rx
    PROVE  chan.gen \in Handlers /\ out_rx[i] \in Outbound
<1>1. out_rx[i] \in Outbound
  BY DEF TypeOK
<1>2. out_rx[i].from \in Handlers
  BY <1>1 DEF Outbound
<1> QED
  BY <1>1, <1>2 DEF OutputInv, OwnQueue

\* Steps that send nothing.
LEMMA QueueKept ==
    ASSUME TypeOK, OutputInv, Calmer, chan'.gen = chan.gen, peer'.polite = peer.polite,
           out_rx' = out_rx \/ out_rx' = <<>>
    PROVE  /\ OthersQuiet' /\ OwnQueue'
           /\ chan.gen # 0 /\ ~chan.started => out_rx' = <<>> /\ Quiet(chan.gen)'
           /\ chan.exit_by # 0 => chan.exit_by = chan'.gen /\ out_rx' = <<>> /\ Quiet(chan.gen)'
<1>1. OthersQuiet'
  BY DEF OthersQuiet, OutputInv, Calmer
<1>2. chan.gen \in Handlers /\ Quiet(chan.gen) => Quiet(chan.gen)'
  BY DEF Calmer, Quiet
<1>3. OwnQueue'
  <2> SUFFICES ASSUME peer'.polite, NEW i \in DOMAIN out_rx'
               PROVE  /\ out_rx'[i].from = chan'.gen
                      /\ out_rx'[i].kind = "exit" =>
                            i = Len(out_rx') /\ out_rx'[i].len = 0 /\ Quiet(chan.gen)'
    BY DEF OwnQueue
  <2>1. out_rx' = out_rx
    OBVIOUS
  <2> QED
    BY <1>2, <2>1, QueueOwner DEF OwnQueue, OutputInv
<1>4. chan.exit_by # 0 \/ chan.gen # 0 => chan.gen \in Handlers
  BY NoHandler DEF TypeOK, ChanType, OutputInv, ExitIsLast
<1> QED
  BY <1>1, <1>2, <1>3, <1>4 DEF OutputInv, ExitIsLast, Fresh

LEMMA IdleKeepsOutput == TypeOK /\ OutputInv /\ IdleEffect => OutputInv'
<1> SUFFICES ASSUME TypeOK, OutputInv, IdleEffect PROVE OutputInv'
  OBVIOUS
<1>1. Calmer
  BY DEF IdleEffect, SameHandlers, Quiet, Pumped, Calmer
<1>2. chan' = chan /\ out_rx' = out_rx /\ peer'.polite = peer.polite /\ wire' = wire
  BY DEF IdleEffect
<1>3. OthersQuiet' /\ OwnQueue' /\ ExitIsLast' /\ Fresh'
  BY <1>1, <1>2, QueueKept DEF ExitIsLast, Fresh, OutputInv, Quiet
<1> QED
  BY <1>1, <1>2, <1>3 DEF OutputInv, CloseIsLast, OwnOutput, OutputOnItsChannel, Calmer

LEMMA ReturnKeepsOutput == TypeOK /\ OutputInv /\ ReturnEffect => OutputInv'
<1> SUFFICES ASSUME TypeOK, OutputInv, ReturnEffect PROVE OutputInv'
  OBVIOUS
<1>1. Calmer
  BY DEF ReturnEffect, UnwireEffect, SameHandlers, Quiet, Pumped, Calmer
<1>2. chan' = chan /\ out_rx' = <<>> /\ peer'.polite = peer.polite /\ wire' = wire
  BY DEF ReturnEffect, UnwireEffect
<1>3. OthersQuiet' /\ OwnQueue' /\ ExitIsLast' /\ Fresh'
  BY <1>1, <1>2, QueueKept DEF ExitIsLast, Fresh, OutputInv, Quiet
<1> QED
  BY <1>1, <1>2, <1>3 DEF OutputInv, CloseIsLast, OwnOutput, OutputOnItsChannel, Calmer

LEMMA CreditKeepsOutput == TypeOK /\ OutputInv /\ FlushEffect => OutputInv'
<1> SUFFICES ASSUME TypeOK, OutputInv, FlushEffect PROVE OutputInv'
  OBVIOUS
<1>1. Calmer
  BY DEF FlushEffect, Quiet, Pumped, Calmer
<1>2. /\ chan'.gen = chan.gen /\ chan'.out = chan.out /\ chan'.exit_by = chan.exit_by
      /\ chan'.sent_close = chan.sent_close /\ chan'.started = chan.started
      /\ chan'.flushed \in {0, chan.flushed}
      /\ out_rx' = out_rx /\ peer' = peer /\ wire' = wire
  BY DEF FlushEffect
<1>3. OthersQuiet' /\ OwnQueue' /\ ExitIsLast' /\ Fresh'
  BY <1>1, <1>2, QueueKept DEF ExitIsLast, Fresh, OutputInv, Quiet
<1> QED
  BY <1>1, <1>2, <1>3 DEF OutputInv, CloseIsLast, OwnOutput, OutputOnItsChannel, Calmer

LEMMA AdjustKeepsOutput == TypeOK /\ OutputInv /\ AdjustEffect => OutputInv'
<1> SUFFICES ASSUME TypeOK, OutputInv, AdjustEffect PROVE OutputInv'
  OBVIOUS
<1>1. PICK ch : /\ ch \in ChanType /\ ch.gen = chan.gen /\ ch.flushed = chan.flushed
                /\ ch.sent_close = chan.sent_close /\ ch.out = chan.out
                /\ ch.exit_by = chan.exit_by /\ ch.started = chan.started /\ flush_channel(ch)
  BY DEF AdjustEffect
<1>2. hnd' = hnd /\ out_rx' = out_rx /\ peer' = peer
  BY DEF AdjustEffect
<1>3. Calmer
  BY <1>2 DEF Calmer, Quiet
<1>4. /\ chan'.gen = chan.gen /\ chan'.exit_by = chan.exit_by /\ chan'.started = chan.started
      /\ chan' \in ChanType /\ Len(chan'.out) + chan'.flushed = Len(chan.out) + chan.flushed
      /\ \A i \in DOMAIN chan'.out : \E j \in DOMAIN chan.out : chan'.out[i] = chan.out[j]
      /\ chan.out = <<>> => chan'.out = <<>>
      /\ chan'.sent_close => chan.sent_close \/ (chan'.out = <<>> /\ chan.exit_by # 0)
  BY <1>1, FlushFacts
<1>5. OthersQuiet' /\ OwnQueue' /\ ExitIsLast' /\ Fresh'
  <2>1. chan.out = <<>> /\ chan.flushed = 0 => chan'.flushed = 0
    BY <1>4 DEF ChanType
  <2> QED
    BY <1>2, <1>3, <1>4, <2>1, QueueKept DEF ExitIsLast, Fresh, OutputInv, Quiet
<1>6. OutputOnItsChannel'
  BY <1>1, FlushOnItsChannel DEF OutputInv, ExitIsLast, CloseIsLast, OwnOutput
<1>7. CloseIsLast' /\ OwnOutput'
  BY <1>4 DEF CloseIsLast, OwnOutput, OutputInv
<1> QED
  BY <1>2, <1>4, <1>5, <1>6, <1>7 DEF OutputInv

LEMMA CloseKeepsOutput == TypeOK /\ OutputInv /\ CloseEffect => OutputInv'
<1> SUFFICES ASSUME TypeOK, OutputInv, CloseEffect PROVE OutputInv'
  OBVIOUS
<1>1. Calmer
  BY DEF CloseEffect, UnwireEffect, SameHandlers, Quiet, Pumped, Calmer
<1>2. /\ chan'.gen = 0 /\ chan'.out = <<>> /\ chan'.exit_by = 0 /\ ~chan'.sent_close
      /\ out_rx' = out_rx /\ peer'.polite = chan.sent_close /\ wire' = wire
  BY DEF CloseEffect, UnwireEffect, NoChannel
<1>3. ASSUME peer'.polite
      PROVE  out_rx = <<>> /\ Quiet(chan.gen) /\ peer.polite
  BY <1>2, <1>3 DEF OutputInv, CloseIsLast, ExitIsLast, CloseEffect
<1>4. OthersQuiet'
  BY <1>1, <1>3 DEF OthersQuiet, OutputInv, Calmer
<1>5. OwnQueue'
  BY <1>2, <1>3 DEF OwnQueue
<1> QED
  BY <1>1, <1>2, <1>4, <1>5
     DEF OutputInv, ExitIsLast, CloseIsLast, OwnOutput, OutputOnItsChannel, Calmer, Fresh

\* A polite peer without a session leaves nothing in the queue.
LEMMA NothingQueued ==
    ASSUME TypeOK, OutputInv, peer.polite, chan.gen = 0
    PROVE  out_rx = <<>>
<1>1. \A i \in DOMAIN out_rx : FALSE
  <2>1. 0 \notin Handlers
    BY DEF Handlers
  <2> QED
    BY <2>1, QueueOwner
<1>2. out_rx \in Seq(Outbound) /\ (out_rx # <<>> => 1 \in DOMAIN out_rx)
  BY DEF TypeOK
<1> QED
  BY <1>1, <1>2

LEMMA OpenKeepsOutput ==
    EarlyReopen = FALSE /\ TypeOK /\ OutputInv /\ OpenEffect => OutputInv'
<1> SUFFICES ASSUME EarlyReopen = FALSE, TypeOK, OutputInv, OpenEffect
             PROVE  OutputInv'
  OBVIOUS
<1>1. /\ peer.polite /\ peer'.polite = peer.polite /\ chan'.gen \in Handlers /\ chan'.out = <<>>
      /\ chan'.exit_by = 0 /\ ~chan'.sent_close /\ out_rx' = out_rx /\ wire' = wire
      /\ chan.gen = 0 /\ chan'.flushed = 0 /\ hnd' = hnd
  BY DEF OpenEffect
<1>2. out_rx = <<>>
  BY <1>1, NothingQueued
<1>3. \A h \in Handlers : Quiet(h)
  BY <1>1 DEF OutputInv, OthersQuiet, Handlers
<1>4. OthersQuiet' /\ OwnQueue' /\ Fresh'
  BY <1>1, <1>2, <1>3 DEF OthersQuiet, OwnQueue, Fresh, Quiet
<1> QED
  BY <1>1, <1>2, <1>4
     DEF OutputInv, ExitIsLast, CloseIsLast, OwnOutput, OutputOnItsChannel

LEMMA RequestKeepsOutput == TypeOK /\ OutputInv /\ RequestEffect => OutputInv'
<1> SUFFICES ASSUME TypeOK, OutputInv, RequestEffect
             PROVE  OutputInv'
  OBVIOUS
<1>1. /\ chan'.gen = chan.gen /\ chan'.out = chan.out
      /\ chan'.exit_by = chan.exit_by /\ chan'.sent_close = chan.sent_close
      /\ chan'.started /\ out_rx' = out_rx /\ wire' = wire /\ ~chan.started
  BY DEF RequestEffect
<1>2. /\ chan.exit_by = 0
      /\ chan.gen # 0 => out_rx = <<>> /\ peer.polite
  BY <1>1 DEF OutputInv, Fresh, ExitIsLast
<1>3. CloseIsLast' /\ ExitIsLast' /\ OwnOutput' /\ Fresh' /\ OutputOnItsChannel'
  BY <1>1, <1>2 DEF ExitIsLast, CloseIsLast, OwnOutput, Fresh, OutputInv, OutputOnItsChannel
<1>4. CASE RefusedEffect
  BY <1>1, <1>3, <1>4 DEF RefusedEffect, OutputInv, OthersQuiet, OwnQueue, Quiet
<1>5. ASSUME NEW h \in Handlers, chan.gen # 0 => h = chan.gen, SpawnedEffect(h)
      PROVE  OutputInv'
  <2>1. \A k \in Handlers : Pumped(hnd'[k])
    BY <1>5 DEF SpawnedEffect, OutputInv, Pumped
  <2>2. peer'.polite => chan.gen = h /\ peer.polite /\ out_rx = <<>>
    BY <1>2, <1>5 DEF SpawnedEffect
  <2>3. ASSUME peer.polite, chan.gen = h, NEW k \in Handlers, k # chan.gen
        PROVE  Quiet(k)'
    BY <1>5, <2>3 DEF SpawnedEffect, OutputInv, OthersQuiet, Quiet
  <2>4. OthersQuiet' /\ OwnQueue'
    BY <1>1, <2>2, <2>3 DEF OthersQuiet, OwnQueue
  <2>5. chan'.gen # 0 => peer'.polite
    BY <1>1, <1>2, <1>5 DEF SpawnedEffect
  <2> QED
    BY <1>3, <2>1, <2>4, <2>5 DEF OutputInv
<1> QED
  BY <1>4, <1>5 DEF RequestEffect

LEMMA RecvKeepsOutput == TypeOK /\ OutputInv /\ RecvEffect => OutputInv'
<1> SUFFICES ASSUME TypeOK, OutputInv, RecvEffect PROVE OutputInv'
  OBVIOUS
<1> DEFINE out == Head(out_rx)
           q   == Tail(out_rx)
<1>1. PICK ch : Received(out, ch) /\ flush_channel(ch)
  BY DEF RecvEffect
<1>2. /\ hnd' = hnd /\ peer' = peer /\ out_rx' = q /\ out_rx # <<>>
  BY DEF RecvEffect
<1>3. /\ out_rx \in Seq(Outbound) /\ 1 \in DOMAIN out_rx /\ out = out_rx[1]
      /\ Len(q) = Len(out_rx) - 1 /\ Len(out_rx) \in Nat /\ q \in Seq(Outbound)
      /\ \A i \in DOMAIN q : i + 1 \in DOMAIN out_rx /\ q[i] = out_rx[i + 1]
  BY <1>2 DEF TypeOK
<1> HIDE DEF out, q
<1>4. ch \in ChanType /\ ch.gen = chan.gen
  BY <1>1 DEF Received
<1>5. /\ chan'.gen = chan.gen /\ chan'.exit_by = ch.exit_by /\ chan'.started = ch.started
      /\ \A i \in DOMAIN chan'.out : \E j \in DOMAIN ch.out : chan'.out[i] = ch.out[j]
      /\ ch.out = <<>> => chan'.out = <<>>
      /\ chan'.sent_close => ch.sent_close \/ (chan'.out = <<>> /\ ch.exit_by # 0)
  BY <1>1, <1>4, FlushFacts
<1>6. chan.gen # 0 => /\ out.from = chan.gen
                      /\ out.kind = "exit" => Len(out_rx) = 1 /\ Quiet(chan.gen)
  BY <1>3 DEF OutputInv, OwnQueue
<1>7. chan.exit_by = 0 /\ ~chan.sent_close
  BY <1>2 DEF OutputInv, ExitIsLast, CloseIsLast
<1>8. ch.exit_by # 0 => ch.exit_by = chan.gen /\ q = <<>> /\ Quiet(chan.gen)
  BY <1>1, <1>3, <1>6, <1>7 DEF Received
<1>9. \A i \in DOMAIN ch.out : ch.out[i] = chan.gen
  BY <1>1, <1>6 DEF Received, OutputInv, OwnOutput
<1>10. ~ch.sent_close
  BY <1>1, <1>7 DEF Received
<1>11. OutputOnItsChannel'
  BY <1>1, <1>4, <1>8, <1>9, <1>10, FlushOnItsChannel DEF OutputInv
<1>12. ExitIsLast' /\ CloseIsLast' /\ OwnOutput'
  BY <1>2, <1>4, <1>5, <1>8, <1>9, <1>10 DEF ExitIsLast, CloseIsLast, OwnOutput, Quiet
<1>13. OwnQueue'
  <2> SUFFICES ASSUME peer.polite, NEW i \in DOMAIN q
               PROVE  /\ q[i].from = chan.gen
                      /\ q[i].kind = "exit" => i = Len(q) /\ q[i].len = 0 /\ Quiet(chan.gen)
    BY <1>2, <1>5 DEF OwnQueue, Quiet
  <2>1. i \in Nat /\ i + 1 \in DOMAIN out_rx /\ q[i] = out_rx[i + 1]
    BY <1>3
  <2> QED
    BY <1>3, <2>1 DEF OutputInv, OwnQueue
<1>14. OthersQuiet'
  BY <1>2, <1>5 DEF OthersQuiet, OutputInv, Quiet
<1>15. Fresh'
  <2>1. chan.gen = 0 \/ chan.started
    BY <1>2 DEF OutputInv, Fresh
  <2> QED
    BY <1>1, <1>5, <2>1 DEF Fresh, Received
<1> QED
  BY <1>2, <1>5, <1>11, <1>12, <1>13, <1>14, <1>15 DEF OutputInv

LEMMA HandlerKeepsOutput ==
    ASSUME TypeOK, WiredInv, OutputInv, NEW h \in Handlers, HandlerEffect(h)
    PROVE  OutputInv'
<1>1. PICK s : /\ hnd' = [hnd EXCEPT ![h] = s] /\ Less(hnd[h], s)
               /\ \/ Silent(hnd[h], s)
                  \/ \E n \in 1..MaxReserve : Data(h, hnd[h], s, n)
                  \/ Exit(h, hnd[h], s)
  BY DEF HandlerEffect
<1>2. chan' = chan /\ peer' = peer /\ wire' = wire
  BY DEF HandlerEffect
<1>3. hnd'[h] = s /\ \A k \in Handlers : k # h => hnd'[k] = hnd[k]
  BY <1>1 DEF TypeOK
<1>4. Calmer
  BY <1>1, <1>3 DEF Calmer, Less, Quiet
<1>5. CASE Silent(hnd[h], s)
  <2>1. OthersQuiet' /\ OwnQueue' /\ ExitIsLast' /\ Fresh'
    BY <1>2, <1>4, <1>5, QueueKept DEF ExitIsLast, Silent, Fresh, OutputInv, Quiet
  <2> QED
    BY <1>2, <1>4, <2>1 DEF OutputInv, CloseIsLast, OwnOutput, OutputOnItsChannel, Calmer
<1>6. ASSUME NEW m \in Outbound, out_rx' = Append(out_rx, m), m.from = h, ~Quiet(h),
             m.kind = "exit" => m.len = 0 /\ Quiet(h)'
      PROVE  OutputInv'
  <2>0. /\ out_rx \in Seq(Outbound) /\ Len(out_rx) \in Nat /\ Len(out_rx') = Len(out_rx) + 1
        /\ DOMAIN out_rx' = 1..(Len(out_rx) + 1) /\ DOMAIN out_rx = 1..Len(out_rx)
        /\ out_rx'[Len(out_rx) + 1] = m /\ \A i \in DOMAIN out_rx : out_rx'[i] = out_rx[i]
    BY <1>6 DEF TypeOK
  <2>1. peer.polite => h = chan.gen
    BY <1>6 DEF OutputInv, OthersQuiet
  <2>2. chan.exit_by = 0
    <3>1. chan.exit_by # 0 => chan.gen # 0 /\ Quiet(chan.gen)
      BY DEF OutputInv, ExitIsLast
    <3> QED
      BY <1>6, <2>1, <3>1 DEF OutputInv
  <2>3. OwnQueue'
    <3> SUFFICES ASSUME peer.polite, NEW i \in DOMAIN out_rx'
                 PROVE  /\ out_rx'[i].from = chan.gen
                        /\ out_rx'[i].kind = "exit" =>
                              i = Len(out_rx') /\ out_rx'[i].len = 0 /\ Quiet(chan.gen)'
      BY <1>2 DEF OwnQueue
    <3>1. CASE i \in DOMAIN out_rx
      <4>1. out_rx[i].from = chan.gen /\ (out_rx[i].kind = "exit" => Quiet(chan.gen))
        BY <3>1 DEF OutputInv, OwnQueue
      <4>2. out_rx'[i] = out_rx[i]
        BY <2>0, <3>1
      <4> QED
        BY <1>6, <2>1, <4>1, <4>2
    <3>2. CASE i = Len(out_rx) + 1
      <4>1. out_rx'[i] = m /\ i = Len(out_rx') /\ h = chan.gen
        BY <2>0, <2>1, <3>2
      <4>2. m.kind = "exit" => Quiet(chan.gen)'
        BY <1>2, <1>6, <4>1 DEF Quiet
      <4> QED
        BY <1>6, <4>1, <4>2
    <3> QED
      BY <2>0, <3>1, <3>2
  <2>4. OthersQuiet'
    BY <1>2, <1>4 DEF OthersQuiet, OutputInv, Calmer
  <2>5. Fresh'
    <3>1. chan.gen = 0 \/ chan.started
      BY <1>6, <2>1 DEF OutputInv, Fresh
    <3> QED
      BY <1>2, <3>1 DEF Fresh
  <2> QED
    BY <1>2, <1>4, <2>2, <2>3, <2>4, <2>5
       DEF OutputInv, ExitIsLast, CloseIsLast, OwnOutput, OutputOnItsChannel, Calmer
<1>7. ASSUME NEW n \in 1..MaxReserve, Data(h, hnd[h], s, n) PROVE OutputInv'
  <2> DEFINE m == [from |-> h, kind |-> "data", len |-> n]
  <2>1. m \in Outbound /\ m.from = h /\ m.kind # "exit"
    BY ServeAssumption DEF Outbound
  <2>2. ~Quiet(h)
    BY <1>7 DEF Data, OutputInv, Pumped, Quiet
  <2> QED
    BY <1>6, <1>7, <2>1, <2>2 DEF Data
<1>8. CASE Exit(h, hnd[h], s)
  <2> DEFINE m == [from |-> h, kind |-> "exit", len |-> 0]
  <2>1. m \in Outbound /\ m.from = h /\ m.len = 0
    BY ServeAssumption DEF Outbound
  <2>2. ~Quiet(h) /\ Quiet(h)'
    BY <1>3, <1>8 DEF Exit, Quiet
  <2> QED
    BY <1>6, <1>8, <2>1, <2>2 DEF Exit
<1> QED
  BY <1>1, <1>5, <1>7, <1>8

LEMMA NextOutput ==
    EarlyReopen = FALSE /\ TypeOK /\ WiredInv /\ OutputInv /\ [Next]_vars => OutputInv'
BY StepFacts, IdleKeepsOutput, ReturnKeepsOutput, CloseKeepsOutput, CreditKeepsOutput,
   RecvKeepsOutput, AdjustKeepsOutput, OpenKeepsOutput, RequestKeepsOutput,
   HandlerKeepsOutput DEF StepEffect

LEMMA NextBudget ==
    EarlyReopen = FALSE /\ ServeInv /\ [Next]_vars => BudgetInv'
<1> SUFFICES ASSUME EarlyReopen = FALSE, TypeOK, WiredInv, OutputInv, BudgetInv, [Next]_vars,
                    loop'.out_budget # 0, chan'.gen # 0
             PROVE  /\ hnd'[loop'.out_budget].permits + Queued(loop.out_budget)'
                           + loop'.out_inflight = OutLimit
                    /\ loop'.out_inflight = Len(chan'.out) + chan'.flushed
  BY DEF ServeInv, BudgetInv
<1> DEFINE b == loop.out_budget
           n == Cardinality(Bytes(out_rx, b))
<1>0. StepEffect
  BY StepFacts
<1>1. Queued(loop.out_budget)' = Cardinality(Bytes(out_rx', loop'.out_budget))
  BY DEF Queued, Bytes
<1>2. /\ chan \in ChanType /\ out_rx \in Seq(Outbound) /\ loop.out_inflight \in Nat
      /\ n \in Nat /\ chan.flushed \in Nat /\ Len(chan.out) \in Nat /\ OutLimit \in Nat
  BY BytesFinite, ServeAssumption DEF TypeOK, LoopType, ChanType
<1>3. b # 0 /\ chan.gen # 0 =>
               /\ b \in Handlers /\ hnd[b] \in HandlerType /\ hnd[b].permits \in Nat
               /\ chan.gen = b /\ peer.polite
               /\ hnd[b].permits + n + loop.out_inflight = OutLimit
               /\ loop.out_inflight = Len(chan.out) + chan.flushed
  <2> SUFFICES ASSUME b # 0, chan.gen # 0 PROVE <1>3!2
    OBVIOUS
  <2>1. b \in Handlers /\ hnd[b] \in HandlerType
    BY NoHandler DEF TypeOK, LoopType
  <2>2. hnd[b].permits \in Nat
    BY <2>1 DEF HandlerType
  <2>3. chan.gen = b /\ peer.polite
    BY DEF WiredInv, OutputInv
  <2> QED
    BY <2>1, <2>2, <2>3 DEF BudgetInv, Queued
<1> HIDE DEF n
<1>4. CASE IdleEffect
  <2>1. loop'.out_budget = b /\ b # 0 /\ loop'.out_inflight = loop.out_inflight
        /\ chan' = chan /\ out_rx' = out_rx
    BY <1>4 DEF IdleEffect, SameWiring
  <2>2. hnd'[b].permits = hnd[b].permits
    BY <1>3, <1>4, <2>1 DEF IdleEffect, SameHandlers
  <2> QED
    BY <1>1, <1>3, <2>1, <2>2 DEF n
<1>5. CASE ReturnEffect \/ CloseEffect
  BY <1>5 DEF ReturnEffect, CloseEffect, UnwireEffect
<1>6. CASE FlushEffect
  <2> DEFINE credit == Smaller(chan.flushed, loop.out_inflight)
  <2>1. loop'.out_budget = b /\ b # 0 /\ loop'.out_inflight = loop.out_inflight - credit
        /\ out_rx' = out_rx /\ chan'.out = chan.out /\ chan'.flushed = 0
        /\ chan'.gen = chan.gen /\ hnd'[b].permits = hnd[b].permits + credit
    BY <1>6 DEF FlushEffect, SameWiring
  <2>2. credit = chan.flushed
    BY <1>2, <1>3, <2>1 DEF Smaller
  <2> HIDE DEF credit
  <2> QED
    BY <1>1, <1>2, <1>3, <2>1, <2>2 DEF n
<1>7. CASE RecvEffect
  <2> DEFINE out == Head(out_rx)
  <2>1. PICK ch : Received(out, ch) /\ flush_channel(ch)
    BY <1>7 DEF RecvEffect
  <2>2. /\ loop'.out_budget = b /\ b # 0 /\ loop'.out_inflight = loop.out_inflight + out.len
        /\ out_rx' = Tail(out_rx) /\ out_rx # <<>> /\ hnd' = hnd /\ out \in Outbound
        /\ chan.gen # 0
    <3>1. chan'.gen = chan.gen
      BY <2>1, FlushFacts DEF Received
    <3> QED
      BY <1>7, <3>1 DEF RecvEffect, SameWiring
  <2>3. n = Cardinality(Bytes(Tail(out_rx), b)) + (IF out.from = b THEN out.len ELSE 0)
    BY <1>2, <2>2, BytesTail DEF n
  <2>4. Cardinality(Bytes(Tail(out_rx), b)) \in Nat
    <3>1. Tail(out_rx) \in Seq(Outbound)
      BY <1>2, <2>2
    <3> QED
      BY <3>1, BytesFinite
  <2>5. out.from = b /\ (out.kind = "exit" => out.len = 0)
    <3>1. 1 \in DOMAIN out_rx /\ out = out_rx[1]
      BY <1>2, <2>2
    <3> QED
      BY <1>3, <2>2, <3>1 DEF OutputInv, OwnQueue
  <2>6. out.len \in Nat
    BY <2>2, ServeAssumption DEF Outbound
  <2> HIDE DEF out
  <2>7. ch \in ChanType /\ Len(ch.out) + ch.flushed = Len(chan.out) + chan.flushed + out.len
    <3>1. ch \in ChanType /\ ch.flushed = chan.flushed /\ Len(ch.out) = Len(chan.out) + out.len
      BY <1>2, <1>3, <2>1, <2>2, <2>5 DEF Received
    <3> QED
      BY <1>2, <2>6, <3>1
  <2>8. Len(chan'.out) + chan'.flushed = Len(ch.out) + ch.flushed
    BY <2>1, <2>7, FlushFacts
  <2>9. loop'.out_inflight = Len(chan'.out) + chan'.flushed
    BY <1>2, <1>3, <2>2, <2>6, <2>7, <2>8
  <2>10. hnd'[b].permits + Cardinality(Bytes(out_rx', b)) + loop'.out_inflight = OutLimit
    <3>1. n = Cardinality(Bytes(out_rx', b)) + out.len /\ Cardinality(Bytes(out_rx', b)) \in Nat
      BY <2>2, <2>3, <2>4, <2>5
    <3>2. hnd'[b].permits = hnd[b].permits /\ hnd[b].permits \in Nat
          /\ hnd[b].permits + n + loop.out_inflight = OutLimit
      BY <1>3, <2>2
    <3> QED
      BY <1>2, <2>2, <2>6, <3>1, <3>2, SMTT(30)
  <2> QED
    BY <1>1, <2>2, <2>9, <2>10
<1>8. CASE AdjustEffect
  <2>1. PICK ch : /\ ch \in ChanType /\ ch.flushed = chan.flushed /\ ch.out = chan.out
                  /\ ch.gen = chan.gen /\ flush_channel(ch)
    BY <1>8 DEF AdjustEffect
  <2>2. /\ loop'.out_budget = b /\ b # 0 /\ loop'.out_inflight = loop.out_inflight
        /\ out_rx' = out_rx /\ hnd' = hnd
    BY <1>8 DEF AdjustEffect, SameWiring
  <2>3. Len(chan'.out) + chan'.flushed = Len(chan.out) + chan.flushed /\ chan.gen # 0
    BY <2>1, FlushFacts
  <2> QED
    BY <1>1, <1>3, <2>2, <2>3 DEF n
<1>9. CASE OpenEffect \/ RequestEffect
  <2>1. CASE OpenEffect
    <3>1. peer.polite /\ chan.gen = 0 /\ b # 0
      BY <2>1 DEF OpenEffect, SameWiring
    <3> QED
      BY <3>1 DEF WiredInv
  <2>2. CASE RequestEffect /\ RefusedEffect
    BY <1>1, <1>3, <2>2 DEF RequestEffect, RefusedEffect, SameWiring, n
  <2>3. CASE RequestEffect /\ SpawnedEffect(chan.gen)
    <3>0. chan.gen # 0
      BY <2>3 DEF RequestEffect
    <3>1. out_rx = <<>> /\ chan.out = <<>> /\ chan.flushed = 0
      BY <2>3, <3>0 DEF RequestEffect, OutputInv, Fresh
    <3>2. /\ loop'.out_budget = chan.gen /\ loop'.out_inflight = 0 /\ out_rx' = <<>>
          /\ hnd'[chan.gen].permits = OutLimit /\ chan'.out = <<>> /\ chan'.flushed = 0
      BY <2>3, <3>1 DEF SpawnedEffect, RequestEffect
    <3>3. Cardinality(Bytes(<<>>, chan.gen)) = 0
      BY BytesEmpty
    <3> QED
      BY <1>1, <1>2, <3>2, <3>3
  <2> QED
    BY <1>9, <2>1, <2>2, <2>3 DEF RequestEffect
<1>10. ASSUME NEW h \in Handlers, HandlerEffect(h)
       PROVE  hnd'[b].permits + Cardinality(Bytes(out_rx', b)) = hnd[b].permits + n
  <2>1. PICK s : /\ hnd' = [hnd EXCEPT ![h] = s] /\ Less(hnd[h], s)
                 /\ \/ Silent(hnd[h], s)
                    \/ \E k \in 1..MaxReserve : Data(h, hnd[h], s, k)
                    \/ Exit(h, hnd[h], s)
    BY <1>10 DEF HandlerEffect
  <2>2. b # 0 /\ chan.gen # 0
    BY <1>10 DEF HandlerEffect
  <2>3. hnd'[b] = IF b = h THEN s ELSE hnd[b]
    BY <1>3, <2>1, <2>2 DEF TypeOK
  <2>4. CASE Silent(hnd[h], s)
    BY <2>3, <2>4 DEF Silent, n
  <2>5. ASSUME NEW k \in 1..MaxReserve, Data(h, hnd[h], s, k)
        PROVE  hnd'[b].permits + Cardinality(Bytes(out_rx', b)) = hnd[b].permits + n
    <3> DEFINE m == [from |-> h, kind |-> "data", len |-> k]
    <3>1. m \in Outbound /\ m.from = h /\ m.len = k /\ out_rx' = Append(out_rx, m)
      BY <2>5, ServeAssumption DEF Outbound, Data
    <3> HIDE DEF m
    <3>2. Cardinality(Bytes(out_rx', b)) = n + (IF h = b THEN k ELSE 0)
      BY <1>2, <3>1, BytesAppend DEF n
    <3>3. s.permits = hnd[h].permits - k
      BY <2>5 DEF Data
    <3>4. k \in Nat
      BY ServeAssumption
    <3> QED
      BY <1>2, <1>3, <2>2, <2>3, <3>2, <3>3, <3>4
  <2>6. CASE Exit(h, hnd[h], s)
    <3> DEFINE m == [from |-> h, kind |-> "exit", len |-> 0]
    <3>1. m \in Outbound /\ m.from = h /\ m.len = 0 /\ out_rx' = Append(out_rx, m)
      BY <2>6, ServeAssumption DEF Outbound, Exit
    <3> HIDE DEF m
    <3>2. Cardinality(Bytes(out_rx', b)) = n
      BY <1>2, <3>1, BytesAppend DEF n
    <3>3. s.permits = hnd[h].permits
      BY <2>6 DEF Exit
    <3> QED
      BY <2>3, <3>2, <3>3
  <2> QED
    BY <2>1, <2>4, <2>5, <2>6
<1>11. CASE \E h \in Handlers : HandlerEffect(h)
  <2>1. loop' = loop /\ chan' = chan
    BY <1>11 DEF HandlerEffect
  <2> QED
    BY <1>1, <1>2, <1>3, <1>10, <1>11, <2>1
<1> QED
  BY <1>0, <1>4, <1>5, <1>6, <1>7, <1>8, <1>9, <1>11 DEF StepEffect

--------------------------------------------------------------------------------
(* The theorems *)

LEMMA InitInv == Init => ServeInv
<1> SUFFICES ASSUME Init PROVE WiredInv /\ OutputInv /\ BudgetInv
  BY InitType DEF ServeInv
<1>1. /\ loop.out_budget = 0 /\ loop.handler_task = 0 /\ loop.phase = "flush"
      /\ chan = NoChannel /\ out_rx = <<>> /\ wire = {}
      /\ \A h \in Handlers : hnd[h] = NotSpawned
  BY DEF Init
<1>2. /\ NotSpawned.task = "none" /\ NotSpawned.pumping = {}
      /\ NotSpawned.want = [p \in Pumps |-> 0]
  BY DEF NotSpawned
<1>3. chan.gen = 0 /\ chan.out = <<>> /\ chan.exit_by = 0 /\ ~chan.sent_close
  BY <1>1 DEF NoChannel
<1>4. WiredInv /\ BudgetInv
  BY <1>1, <1>2 DEF WiredInv, BudgetInv
<1>5. \A h \in Handlers : Quiet(h) /\ Pumped(hnd[h])
  BY <1>1, <1>2 DEF Quiet, Pumped
<1>6. OthersQuiet /\ OwnQueue
  BY <1>1, <1>5 DEF OthersQuiet, OwnQueue
<1>7. ExitIsLast /\ CloseIsLast /\ OwnOutput /\ Fresh /\ OutputOnItsChannel
  BY <1>1, <1>3 DEF Fresh, ExitIsLast, CloseIsLast, OwnOutput, OutputOnItsChannel
<1> QED
  BY <1>3, <1>4, <1>5, <1>6, <1>7 DEF OutputInv

\* The variables of serve_with, the channel, the queue and the handlers have
\* their types, whatever the peer does.
THEOREM ServeTypeCorrect == Spec => []TypeOK
<1>1. Init => TypeOK
  BY InitType
<1>2. TypeOK /\ [Next]_vars => TypeOK'
  BY NextType
<1> QED
  BY <1>1, <1>2, PTL DEF Spec

\* No handler outlives the channel it was started on, its connection or the handler
\* that replaces it, whatever the peer does and in whatever order, programs asked
\* for with no channel open included: the guards that serve_with holds are dropped
\* with each (TaskGuard).
THEOREM HandlersNeverOrphaned == Spec => []NoOrphan
<1>1. Init => TypeOK /\ WiredInv
  BY InitInv DEF ServeInv
<1>2. TypeOK /\ WiredInv /\ [Next]_vars => (TypeOK /\ WiredInv)'
  BY NextType, NextWired
<1>3. TypeOK /\ WiredInv => NoOrphan
  BY NoHandler DEF WiredInv, NoOrphan, Handlers
<1> QED
  BY <1>1, <1>2, <1>3, PTL DEF Spec

\* With a peer that opens a session only after the server has closed the one
\* before, and none after a program that it started outside a channel, the whole
\* inductive invariant holds.
THEOREM ServeInvariant ==
    ASSUME EarlyReopen = FALSE
    PROVE  Spec => []ServeInv
<1>1. Init => ServeInv
  BY InitInv
<1>2. ServeInv /\ [Next]_vars => ServeInv'
  BY NextType, NextWired, NextOutput, NextBudget DEF ServeInv
<1> QED
  BY <1>1, <1>2, PTL DEF Spec

\* What is sent on a channel is its own handler's output and nothing of it
\* follows the CLOSE, for every budget, window and number of sessions.
THEOREM OutputStaysOnChannel ==
    ASSUME EarlyReopen = FALSE
    PROVE  Spec => []OutputOnItsChannel
<1>1. ServeInv => OutputOnItsChannel
  BY DEF ServeInv, OutputInv
<1> QED
  BY <1>1, ServeInvariant, PTL

\* Every permit of an open channel's budget is free, queued or in flight: the
\* server never buffers more than OutLimit bytes and loses no permit.
THEOREM BudgetConserved ==
    ASSUME EarlyReopen = FALSE
    PROVE  Spec => []BudgetBalanced
<1>1. ServeInv => BudgetBalanced
  BY NoHandler DEF ServeInv, BudgetInv, BudgetBalanced
<1> QED
  BY <1>1, ServeInvariant, PTL
================================================================================
