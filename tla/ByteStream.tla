------------------------------- MODULE ByteStream -------------------------------
(***************************************************************************)
(* What one direction of a channel promises: a stream of bytes that are    *)
(* read in the order they were written, at most Capacity of them accepted  *)
(* by the network and not yet consumed, and an end mark that is seen only  *)
(* after the last byte.                                                    *)
(***************************************************************************)
EXTENDS Integers

CONSTANT Capacity

VARIABLES
    written,    \* bytes the producer has written
    launched,   \* bytes that have left the producer's queue
    consumed,   \* bytes the consumer has used up
    ended,      \* the producer has declared the end
    seen        \* the consumer has seen the end

vars == <<written, launched, consumed, ended, seen>>

Init ==
    /\ written = 0 /\ launched = 0 /\ consumed = 0
    /\ ended = FALSE /\ seen = FALSE

\* The producer writes, and what the credit allows is launched with it.
Produce ==
    /\ ~ended
    /\ written' \in {n \in Nat : n >= written}
    /\ launched' \in launched..written'
    /\ launched' <= consumed + Capacity
    /\ ended' \in BOOLEAN
    /\ UNCHANGED <<consumed, seen>>

\* Returned credit lets more of the queue leave.
Launch ==
    /\ launched' \in launched..written
    /\ launched' <= consumed + Capacity
    /\ UNCHANGED <<written, consumed, ended, seen>>

Consume ==
    /\ consumed' \in consumed..launched
    /\ UNCHANGED <<written, launched, ended, seen>>

SeeEnd ==
    /\ ended /\ launched = written
    /\ seen' = TRUE
    /\ UNCHANGED <<written, launched, consumed, ended>>

Next == Produce \/ Launch \/ Consume \/ SeeEnd

Spec == Init /\ [][Next]_vars
================================================================================
