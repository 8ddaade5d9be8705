-------------------------------- MODULE AppPipe --------------------------------
(***************************************************************************)
(* What the transport promises the layer above it: two ordered, lossless   *)
(* pipes of application packets, whatever key exchanges happen underneath. *)
(* The packets of one direction are numbered in the order in which         *)
(* send_packet accepted them.  Only an endpoint that has closed may lose   *)
(* what it accepted, and then it loses a suffix.                           *)
(***************************************************************************)
EXTENDS Integers, Sequences

CONSTANT Ends, Other(_)

VARIABLES
    accepted,    \* accepted[r]: packets r has handed to the transport
    pipe,        \* pipe[r]: those that r's peer has not been given yet
    delivered,   \* delivered[r]: packets given to the layer above r
    closed       \* closed[r]: r has stopped sending

vars == <<accepted, pipe, delivered, closed>>

Init ==
    /\ accepted  = [r \in Ends |-> 0]
    /\ pipe      = [r \in Ends |-> <<>>]
    /\ delivered = [r \in Ends |-> <<>>]
    /\ closed    = [r \in Ends |-> FALSE]

\* The packet that r writes in this step may be its last.
MayStop(r) == closed' \in {closed, [closed EXCEPT ![r] = TRUE]}

Send(r) ==
    /\ accepted' = [accepted EXCEPT ![r] = @ + 1]
    /\ pipe' = [pipe EXCEPT ![r] = IF closed[r] THEN @ ELSE Append(@, accepted[r] + 1)]
    /\ MayStop(r)
    /\ UNCHANGED delivered

Deliver(r) ==
    /\ pipe[Other(r)] # <<>>
    /\ delivered' = [delivered EXCEPT ![r] = Append(@, Head(pipe[Other(r)]))]
    /\ pipe' = [pipe EXCEPT ![Other(r)] = Tail(@)]
    /\ MayStop(r)
    /\ UNCHANGED accepted

\* r stops; whatever was still queued behind its last sealed packet is dropped.
Close(r) ==
    /\ closed' = [closed EXCEPT ![r] = TRUE]
    /\ \E n \in 0..Len(pipe[r]) : pipe' = [pipe EXCEPT ![r] = SubSeq(@, 1, n)]
    /\ UNCHANGED <<accepted, delivered>>

Next == \E r \in Ends : Send(r) \/ Deliver(r) \/ Close(r)

Spec == Init /\ [][Next]_vars
================================================================================
