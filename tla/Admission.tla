----------------------------- MODULE Admission -----------------------------
(***************************************************************************)
(* The accept-time defences of the server: the loop of serve_listener      *)
(* (serve.rs) with its three gates, the token bucket and the connection    *)
(* limiter (limits.rs), the Fail2Ban table (policy.rs), and of each        *)
(* connection task only what the defences see: it logs in, exhausts its    *)
(* attempts, or just ends, and drops its ConnectionGuard.                  *)
(*                                                                         *)
(* The listener and the tasks run concurrently, so an action is what one   *)
(* of them does under one lock.  Two things are split on purpose.  A guard *)
(* is dropped in two steps: the count goes down under the lock, then the   *)
(* field holding the global permit is dropped.  And on_auth_exhausted      *)
(* reads the clock before it takes the lock, so a strike may be applied    *)
(* with a time that is older than what the table already holds; Skew is    *)
(* how far the clock may run on while a task waits for that lock.          *)
(*                                                                         *)
(* The f64 tokens are integers here, a connection costing Cost of them,    *)
(* so a bucket may hold a fraction of a connection.                        *)
(***************************************************************************)
EXTENDS Integers, FiniteSets

CONSTANTS IPs,            \* peer addresses
          Conns,          \* connection tasks, one per global permit
          PerIpMaxes,     \* the per_ip_max settings to start with
          NoLimit,        \* per_ip_max = None
          Rate,           \* tokens per tick
          Burst,          \* capacity of the bucket
          Cost,           \* tokens of one connection (1.0 in the code)
          BanThreshold, BanDuration,
          Skew,           \* ticks between Instant::now() and the lock
          MaxTime         \* bound on the clock

ASSUME ConnsAssumption == IsFiniteSet(Conns)
ASSUME LimitAssumption == PerIpMaxes \subseteq Nat \cup {NoLimit} /\ NoLimit \notin Nat
ASSUME BucketAssumption == Rate \in Nat /\ Burst \in Nat /\ Cost \in Nat \ {0}
ASSUME BanAssumption == /\ BanThreshold \in Nat \ {0}
                        /\ BanDuration \in Nat
                        /\ Skew \in 0..BanDuration
                        /\ MaxTime \in Nat

VARIABLES clock,
          perIpMax,       \* ConnectionLimiter::per_ip_max
          permits,        \* permits left in ConnectionLimiter::global
          count, tracked, \* ConnectionLimiter::per_ip and its keys
          bucket,         \* the Bucket of the RateLimiter
          bans,           \* Fail2Ban::state
          listener,       \* where serve_listener is, and for which peer
          conn,           \* the connection tasks
          log,            \* history: log[i][t], the strikes stamped after time t
                          \* against i since its last success
          passed          \* history: passed[s], the passes of the bucket at
                          \* tick s or later

limiter == <<perIpMax, permits, count, tracked>>
vars == <<clock, limiter, bucket, bans, listener, conn, log, passed>>

Times == 0..MaxTime
Past == (-1 - BanDuration)..MaxTime   \* every start of a window of strikes
None == -1
NoRecord == [strikes |-> 0, banned_until |-> None, last_strike |-> None]
MaxGlobal == Cardinality(Conns)
NoIp == "no address"
Accepting == [at |-> "accept", ip |-> NoIp]
Free == [st |-> "free", ip |-> NoIp, now |-> None]

Init ==
  /\ clock = 0
  /\ perIpMax \in PerIpMaxes
  /\ permits = MaxGlobal
  /\ count = [i \in IPs |-> 0] /\ tracked = {}
  /\ bucket = [tokens |-> Burst, last |-> 0]
  /\ bans = [i \in IPs |-> NoRecord]
  /\ listener = Accepting
  /\ conn = [c \in Conns |-> Free]
  /\ log = [i \in IPs |-> [t \in Past |-> 0]]
  /\ passed = [t \in Times |-> 0]

(* RateLimiter::try_acquire's refill: what the bucket holds now.           *)
Lesser(a, b) == IF a <= b THEN a ELSE b
Refilled_uncapped == bucket.tokens + (clock - bucket.last) * Rate
Refilled == Lesser(bucket.tokens + (clock - bucket.last) * Rate, Burst)

(* listener.accept() gives a peer, and the rate limiter takes a token for  *)
(* it or refuses it.                                                       *)
try_acquire(i) ==
  /\ listener.at = "accept"
  /\ \/ /\ Refilled >= Cost
        /\ bucket' = [tokens |-> Refilled - Cost, last |-> clock]
        /\ listener' = [at |-> "policy", ip |-> i]
        /\ passed' = [s \in Times |-> IF s <= clock THEN passed[s] + 1 ELSE passed[s]]
     \/ /\ Refilled < Cost
        /\ bucket' = [tokens |-> Refilled, last |-> clock]
        /\ UNCHANGED <<listener, passed>>
  /\ UNCHANGED <<clock, limiter, bans, conn, log>>

Banned(i) == bans[i].banned_until # None /\ clock < bans[i].banned_until
Expired(i) == bans[i].banned_until # None /\ clock >= bans[i].banned_until

(* Fail2Ban::evaluate, that is is_banned: an expired ban is forgotten.     *)
evaluate ==
  /\ listener.at = "policy"
  /\ listener' = IF Banned(listener.ip) THEN Accepting
                 ELSE [listener EXCEPT !.at = "admit"]
  /\ bans' = IF Expired(listener.ip)
             THEN [bans EXCEPT ![listener.ip] = NoRecord] ELSE bans
  /\ UNCHANGED <<clock, limiter, bucket, conn, log, passed>>

(* ConnectionLimiter::try_admit, and the spawn of the serving task.  The   *)
(* entry of the address is made before the global permit is asked for and  *)
(* stays, at zero, when there is none.                                     *)
UnderIpCap(i) == IF perIpMax = NoLimit THEN TRUE ELSE count[i] < perIpMax

try_admit ==
  /\ listener.at = "admit"
  /\ listener' = Accepting
  /\ tracked' = IF perIpMax = NoLimit THEN tracked ELSE tracked \cup {listener.ip}
  /\ \/ /\ UnderIpCap(listener.ip) /\ permits > 0
        /\ permits' = permits - 1
        /\ count' = IF perIpMax = NoLimit THEN count
                    ELSE [count EXCEPT ![listener.ip] = @ + 1]
        /\ \E c \in Conns :
             /\ conn[c].st = "free"
             /\ conn' = [conn EXCEPT ![c] = [st |-> "login", ip |-> listener.ip, now |-> None]]
     \/ /\ ~(UnderIpCap(listener.ip) /\ permits > 0)
        /\ UNCHANGED <<permits, count, conn>>
  /\ UNCHANGED <<clock, perIpMax, bucket, bans, log, passed>>

(* serve_with reports the login: on_authenticated forgets the address.     *)
on_authenticated(c) ==
  /\ conn[c].st = "login"
  /\ conn' = [conn EXCEPT ![c].st = "session"]
  /\ bans' = [bans EXCEPT ![conn[c].ip] = NoRecord]
  /\ log' = [log EXCEPT ![conn[c].ip] = [t \in Past |-> 0]]
  /\ UNCHANGED <<clock, limiter, bucket, listener, passed>>

(* on_auth_exhausted, first half: `now` is read, the lock not yet held.    *)
ReadNow(c) ==
  /\ conn[c].st = "login"
  /\ conn' = [conn EXCEPT ![c] = [st |-> "striking", ip |-> @.ip, now |-> clock]]
  /\ UNCHANGED <<clock, limiter, bucket, bans, listener, log, passed>>

(* Fail2Ban::gc: the records that survive pruning at time now.  Instant's  *)
(* duration_since saturates at zero.                                       *)
Retained_banned(r, now) == r.banned_until # None /\ r.banned_until > now
Retained(r, now) == IF r.banned_until # None THEN r.banned_until > now
                    ELSE now - r.last_strike < BanDuration
gc(now) == [i \in IPs |-> IF Retained(bans[i], now) THEN bans[i] ELSE NoRecord]

Struck(r, now) ==
  [strikes      |-> r.strikes + 1,
   banned_until |-> IF r.strikes + 1 >= BanThreshold THEN now + BanDuration
                    ELSE r.banned_until,
   last_strike  |-> now]

(* on_auth_exhausted, second half, under the lock; then serve_with ends.   *)
on_auth_exhausted(c) ==
  /\ conn[c].st = "striking"
  /\ LET now == conn[c].now
         i == conn[c].ip
     IN  /\ bans' = [gc(now) EXCEPT ![i] = Struck(@, now)]
         /\ log' = [log EXCEPT ![i] = [t \in Past |-> IF now > t THEN @[t] + 1 ELSE @[t]]]
  /\ conn' = [conn EXCEPT ![c] = [st |-> "ending", ip |-> @.ip, now |-> None]]
  /\ UNCHANGED <<clock, limiter, bucket, listener, passed>>

(* serve_with returns for any other reason: hang-up, fault, timeout.       *)
End(c) ==
  /\ conn[c].st \in {"login", "session"}
  /\ conn' = [conn EXCEPT ![c].st = "ending"]
  /\ UNCHANGED <<clock, limiter, bucket, bans, listener, log, passed>>

(* ConnectionGuard::drop, then the drop of its _permit field.              *)
DropCount_remove(c) ==
  /\ conn[c].st = "ending"
  /\ conn' = [conn EXCEPT ![c].st = "released"]
  /\ tracked' = tracked \ {conn[c].ip}
  /\ count' = [count EXCEPT ![conn[c].ip] = 0]
  /\ UNCHANGED <<clock, perIpMax, permits, bucket, bans, listener, log, passed>>

DropCount(c) ==
  /\ conn[c].st = "ending"
  /\ conn' = [conn EXCEPT ![c].st = "released"]
  /\ IF perIpMax = NoLimit
     THEN UNCHANGED <<count, tracked>>
     ELSE /\ count' = [count EXCEPT ![conn[c].ip] = @ - 1]
          /\ tracked' = IF count[conn[c].ip] = 1 THEN tracked \ {conn[c].ip} ELSE tracked
  /\ UNCHANGED <<clock, perIpMax, permits, bucket, bans, listener, log, passed>>

DropPermit(c) ==
  /\ conn[c].st = "released"
  /\ conn' = [conn EXCEPT ![c] = Free]
  /\ permits' = permits + 1
  /\ UNCHANGED <<clock, perIpMax, count, tracked, bucket, bans, listener, log, passed>>

Tick ==
  /\ clock < MaxTime
  /\ \A c \in Conns : conn[c].st = "striking" => clock - conn[c].now < Skew
  /\ clock' = clock + 1
  /\ UNCHANGED <<limiter, bucket, bans, listener, conn, log, passed>>

Next ==
  \/ \E i \in IPs : try_acquire(i)
  \/ evaluate
  \/ try_admit
  \/ \E c \in Conns : \/ on_authenticated(c)
                      \/ ReadNow(c)
                      \/ on_auth_exhausted(c)
                      \/ End(c)
                      \/ DropCount(c)
                      \/ DropPermit(c)
  \/ Tick

Spec == Init /\ [][Next]_vars

-----------------------------------------------------------------------------
(* The tasks that hold a permit, and those that are counted for address i. *)
Holding == {c \in Conns : conn[c].st # "free"}
Counted(i) == {c \in Conns : conn[c].st \notin {"free", "released"} /\ conn[c].ip = i}

(* The limiter loses no slot and lends none twice.  At every moment, also  *)
(* between the two steps of a guard's drop, the permits left and the tasks *)
(* holding one make up the global cap; the count of an address is the      *)
(* number of its tasks still counted, so never over per_ip_max; and an     *)
(* address is dropped from the map only when nothing is counted for it.    *)
SlotsExact ==
  /\ permits + Cardinality(Holding) = MaxGlobal
  /\ perIpMax # NoLimit =>
       \A i \in IPs : /\ count[i] = Cardinality(Counted(i))
                      /\ count[i] <= perIpMax
                      /\ i \notin tracked => count[i] = 0

(* What the bucket promises over any stretch of time, not only from the    *)
(* start: from tick s to now it let through no more connections than a     *)
(* full bucket and the refill of the time between pay for.                 *)
RateBound == \A s \in 0..clock : passed[s] * Cost <= Burst + (clock - s) * Rate

(* The policy is just in both directions.  A peer is let past it only if   *)
(* fewer than BanThreshold exhausted logins of its address fall in the     *)
(* last BanDuration (less the wait for the lock) since it last succeeded:  *)
(* no pruning, expiry, other address's strike or strike applied late loses *)
(* a strike that still counts.  And it is turned away only if its address  *)
(* did collect BanThreshold of them since its last success, one within the *)
(* last BanDuration.                                                       *)
BansFair ==
  [][ listener.at = "policy" /\ listener' # listener =>
        IF listener'.at = "admit"
        THEN log[listener.ip][clock - (BanDuration - Skew)] < BanThreshold
        ELSE /\ log[listener.ip][-1] >= BanThreshold
             /\ log[listener.ip][clock - BanDuration] > 0 ]_vars
=============================================================================
