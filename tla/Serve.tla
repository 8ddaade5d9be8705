--------------------------------- MODULE Serve ---------------------------------
(***************************************************************************)
(* One served connection (crates/ssh-io/src/serve.rs, exec.rs, system.rs): *)
(* the select loop of serve_with, the handlers it spawns, the budget that  *)
(* bounds their buffered output, and the two timers.  A handler is what    *)
(* SystemRunner runs: a child process, a pump for each of its two output   *)
(* pipes, and a reader of stdin.  Handler h is the one of the h-th        *)
(* session; every session has channel number 0 in the code, so which       *)
(* session a byte belongs to is a ghost.  A program asked for while no     *)
(* channel is open, which the session does not refuse, takes a number of   *)
(* its own.                                                                *)
(*                                                                         *)
(* The session layer is reduced to what the loop calls (SessionPair has    *)
(* it in full): the channel's output queue, its window and flushed_out,    *)
(* its close.  A read of the socket brings one message; a read that brings *)
(* several is several turns of the loop in a row.                          *)
(***************************************************************************)
EXTENDS Integers, Sequences, FiniteSets

CONSTANTS
    OutLimit,      \* max_buffered_output, at least MAX_RESERVE
    MaxReserve,    \* MAX_RESERVE
    Window,        \* what the peer grants with a channel and with an adjustment
    MaxHandlers,   \* sessions the peer opens, and programs it starts outside one (bound)
    MaxOutput,     \* bytes the children write in all (bound)
    MaxInput,      \* bytes the peer sends to a handler (bound)
    EarlyReopen,   \* may the peer open a session, or ask for a program outside one, while
                   \* an earlier program may still run?
    StallsAtEnd    \* may a peer that no longer reads cause the server to disconnect?

ASSUME ServeAssumption ==
    /\ MaxReserve \in Nat \ {0} /\ OutLimit \in Nat /\ OutLimit >= MaxReserve
    /\ Window \in Nat \ {0} /\ MaxHandlers \in Nat
    /\ MaxOutput \in Nat /\ MaxInput \in Nat
    /\ EarlyReopen \in BOOLEAN /\ StallsAtEnd \in BOOLEAN

Handlers == 1..MaxHandlers
Pumps    == {"stdout", "stderr"}

VARIABLES
    loop,     \* the local variables of serve_with; 0 is None
    chan,     \* the session's channel (gen is 0 if there is none), and program_started
    out_rx,   \* Outbound messages of all handlers, in the order sent
    hnd,      \* the handlers
    peer,     \* what the peer has done
    wire,     \* ghost: <<session, handler, after CLOSE?>> of everything sent
    written   \* bytes the children have written

vars == <<loop, chan, out_rx, hnd, peer, wire, written>>

NoChannel == [gen |-> 0, out |-> <<>>, window |-> 0, flushed |-> 0,
              exit_by |-> 0, sent_close |-> FALSE, started |-> FALSE]

NotSpawned == [task |-> "none", child |-> FALSE, permits |-> 0, closed |-> FALSE,
               want |-> [p \in Pumps |-> 0], pumping |-> {},
               stdin |-> 0, consumed |-> 0, on |-> 0]

Init ==
    /\ loop = [phase |-> "flush", authenticated |-> FALSE, pending |-> TRUE,
               stdin_tx |-> 0, out_budget |-> 0, consumed_rx |-> 0, handler_task |-> 0,
               out_inflight |-> 0, last_consumed |-> 0]
    /\ chan = NoChannel /\ out_rx = <<>>
    /\ hnd = [h \in Handlers |-> NotSpawned]
    /\ peer = [opens |-> 0, sent |-> 0, polite |-> TRUE, reading |-> TRUE]
    /\ wire = {} /\ written = 0

Smaller(a, b) == IF a <= b THEN a ELSE b

--------------------------------------------------------------------------------
(* The channel, as the loop uses it *)

\* flush_channel: what the window allows goes out; behind the last byte of a
\* channel that is to close go exit-status, EOF and CLOSE.
flush_channel(ch) ==
    LET n    == Smaller(ch.window, Len(ch.out))
        left == SubSeq(ch.out, n + 1, Len(ch.out))
        ends == left = <<>> /\ ch.exit_by # 0
    IN  /\ chan' = [ch EXCEPT !.out = left, !.window = @ - n, !.flushed = @ + n,
                              !.sent_close = @ \/ ends]
        /\ wire' = wire \cup {<<ch.gen, ch.out[i], ch.sent_close>> : i \in 1..n}
                        \cup (IF ends /\ ~ch.sent_close THEN {<<ch.gen, ch.exit_by, ch.sent_close>>} ELSE {})

\* Does flush_channel put anything into the session's output?
Emits(ch) == ch.gen # 0 /\ (Smaller(ch.window, Len(ch.out)) > 0
                            \/ (ch.out = <<>> /\ ch.exit_by # 0 /\ ~ch.sent_close))

--------------------------------------------------------------------------------
(* Handlers *)

Set(h, r) == hnd' = [hnd EXCEPT ![h] = r]

\* Fault: dropping the guard leaves the budget open.
CloseBudget_open(f, h) == f

\* BudgetGuard::drop: writers that wait for the budget of h get an error.
CloseBudget(f, h) == IF h = 0 THEN f ELSE [f EXCEPT ![h].closed = TRUE]

\* TaskGuard::drop: the task of h, if it still runs, stops at its next await.
Abort(f, h) ==
    IF h # 0 /\ f[h].task = "running" THEN [f EXCEPT ![h].task = "aborting"] ELSE f

\* Fault: the handler's task survives its channel.
TearDown_budget(f) == CloseBudget(f, loop.out_budget)

\* Budget and task of the wired handler are dropped: on ChannelClose, when a new
\* handler replaces it, when serve_with returns.
TearDown(f) == Abort(CloseBudget(f, loop.out_budget), loop.handler_task)

\* spawn_handler and run_process up to its select: a full budget, a running child
\* and its three pumps.  A child that cannot be started is one that writes to
\* stderr and exits.  The channel it is started on is a ghost.
spawn_handler(f, h, gen) ==
    [f EXCEPT ![h] = [NotSpawned EXCEPT
        !.task = "running", !.child = TRUE, !.permits = OutLimit,
        !.pumping = Pumps, !.on = gen]]

\* A pump has read n bytes of its pipe and asks the budget for them.
Reserve(h, p, n) ==
    /\ p \in hnd[h].pumping /\ hnd[h].want[p] = 0 /\ hnd[h].child
    /\ written + n <= MaxOutput /\ written' = written + n
    /\ Set(h, [hnd[h] EXCEPT !.want[p] = n])
    /\ UNCHANGED <<loop, chan, out_rx, peer, wire>>

\* Fault: bytes reserved for a longer buffer are not given back.
Charge_all(want, n) == want

\* What a write of n bytes takes from a budget it had reserved want of: poll_write
\* returns the rest.
Charge(want, n) == n

\* The budget grants the reservation and the bytes are sent: all of them
\* (reserve_and_send), or fewer after a retry with a shorter buffer (poll_write).
Write(h, p, n) ==
    LET want == hnd[h].want[p]
    IN  /\ n \in 1..want /\ ~hnd[h].closed /\ hnd[h].permits >= want
        /\ loop.phase # "ended"
        /\ Set(h, [hnd[h] EXCEPT !.want[p] = 0, !.permits = @ - Charge(want, n)])
        /\ out_rx' = Append(out_rx, [from |-> h, kind |-> "data", len |-> n])
        /\ UNCHANGED <<loop, chan, peer, wire, written>>

\* A write fails once the budget is closed or the receiver is gone; the pump ends.
WriteFails(h, p) ==
    /\ hnd[h].want[p] > 0
    /\ hnd[h].closed \/ (loop.phase = "ended" /\ hnd[h].permits >= hnd[h].want[p])
    /\ Set(h, [hnd[h] EXCEPT !.want[p] = 0, !.pumping = @ \ {p}])
    /\ UNCHANGED <<loop, chan, out_rx, peer, wire, written>>

\* The child exits, or writer.closed() makes the runner kill it.
ChildExits(h) ==
    /\ hnd[h].child
    /\ Set(h, [hnd[h] EXCEPT !.child = FALSE])
    /\ UNCHANGED <<loop, chan, out_rx, peer, wire, written>>

\* The pipe is at its end.
PumpEnds(h, p) ==
    /\ p \in hnd[h].pumping /\ hnd[h].want[p] = 0 /\ ~hnd[h].child
    /\ Set(h, [hnd[h] EXCEPT !.pumping = @ \ {p}])
    /\ UNCHANGED <<loop, chan, out_rx, peer, wire, written>>

\* Fault: the runner waits for the child and not for its output.
Finished_child(h) == ~hnd[h].child

\* run_process joins both pumps before it waits for the child.
Finished(h) == ~hnd[h].child /\ hnd[h].pumping = {}

\* run_process returns and the task reports the exit status.
Returns(h) ==
    /\ hnd[h].task = "running" /\ Finished(h)
    /\ Set(h, [hnd[h] EXCEPT !.task = "returned"])
    /\ out_rx' = IF loop.phase = "ended" THEN out_rx
                 ELSE Append(out_rx, [from |-> h, kind |-> "exit", len |-> 0])
    /\ UNCHANGED <<loop, chan, peer, wire, written>>

\* An aborted task is dropped: kill_on_drop ends the child, the pumps go on.
Dropped(h) ==
    /\ hnd[h].task = "aborting"
    /\ Set(h, [hnd[h] EXCEPT !.task = "gone", !.child = FALSE])
    /\ UNCHANGED <<loop, chan, out_rx, peer, wire, written>>

\* The stdin pump is a task of its own, which an aborted handler leaves behind.  It
\* ends at EOF, when run_process aborts it before it returns, or when it cannot
\* write to the child.
StdinEnded(h) == hnd[h].task = "returned" \/ (hnd[h].stdin = 0 /\ loop.stdin_tx # h)

\* SessionReader::poll_read in the stdin pump.
ReadStdin(h) ==
    /\ hnd[h].task # "returned" /\ hnd[h].stdin > 0
    /\ Set(h, [hnd[h] EXCEPT !.stdin = IF hnd[h].child THEN @ - 1 ELSE 0, !.consumed = @ + 1])
    /\ UNCHANGED <<loop, chan, out_rx, peer, wire, written>>

--------------------------------------------------------------------------------
(* The loop *)

\* serve_with returns: everything it holds is dropped.
Return ==
    /\ loop' = [loop EXCEPT !.phase = "ended", !.stdin_tx = 0, !.out_budget = 0,
                            !.consumed_rx = 0, !.handler_task = 0]
    /\ hnd' = TearDown(hnd)
    /\ out_rx' = <<>>
    /\ UNCHANGED <<chan, peer, wire, written>>

\* The socket takes what is written to it as long as the peer reads.
Writable == loop.pending => peer.reading

\* driver.flush(), then the credit for what has reached the wire.
Flush ==
    LET credit == Smaller(chan.flushed, loop.out_inflight)
        h      == loop.out_budget
    IN  /\ loop.phase = "flush" /\ Writable
        /\ IF h = 0
           THEN /\ loop' = [loop EXCEPT !.phase = "select", !.pending = FALSE]
                /\ UNCHANGED <<chan, hnd>>
           ELSE /\ loop' = [loop EXCEPT !.phase = "select", !.pending = FALSE,
                                        !.out_inflight = @ - credit]
                /\ chan' = [chan EXCEPT !.flushed = 0]
                /\ hnd' = [hnd EXCEPT ![h].permits = @ + credit]
        /\ UNCHANGED <<out_rx, peer, wire, written>>

\* Fault: the flush at the top of the loop runs without the timers.
Timed_select(phase) == phase = "select"

\* The timers run beside the flush and beside the select.
Timed(phase) == phase \in {"flush", "select"}

LoginTimer == Timed(loop.phase) /\ ~loop.authenticated /\ Return

IdleTimer == Timed(loop.phase) /\ Return

Again(l) == loop' = [l EXCEPT !.phase = "flush"]

\* total.saturating_sub(last_consumed)
Delta(total, last) == IF total > last THEN total - last ELSE 0

\* The watch reports what the handler has consumed and the channel may grant it
\* back (channel_consumed, in ChannelFlow); a dropped reader ends the watch.
Consumption ==
    LET h     == loop.consumed_rx
        delta == Delta(hnd[h].consumed, loop.last_consumed)
    IN  /\ loop.phase = "select" /\ h # 0
        /\ hnd[h].consumed # loop.last_consumed \/ StdinEnded(h)
        /\ Again([loop EXCEPT !.last_consumed = hnd[h].consumed,
                              !.pending = @ \/ (delta > 0 /\ chan.gen # 0),
                              !.consumed_rx = IF hnd[h].consumed = loop.last_consumed THEN 0 ELSE h])
        /\ UNCHANGED <<chan, out_rx, hnd, peer, wire, written>>

\* out_rx.recv()
RecvOut ==
    LET out == Head(out_rx)
        ch  == IF chan.gen = 0 THEN chan
               ELSE IF out.kind = "exit" THEN [chan EXCEPT !.exit_by = out.from]
               ELSE [chan EXCEPT !.out = @ \o [i \in 1..out.len |-> out.from]]
    IN  /\ loop.phase = "select" /\ out_rx # <<>>
        /\ out_rx' = Tail(out_rx)
        /\ Again([loop EXCEPT !.out_inflight = @ + out.len, !.pending = @ \/ Emits(ch)])
        /\ flush_channel(ch)
        /\ UNCHANGED <<hnd, peer, written>>

--------------------------------------------------------------------------------
(* Reads: what the peer sends, and the events the session makes of it *)

Reading == loop.phase = "select"

Authenticates ==
    /\ Reading /\ ~loop.authenticated
    /\ Again([loop EXCEPT !.authenticated = TRUE, !.pending = TRUE])
    /\ UNCHANGED <<chan, out_rx, hnd, peer, wire, written>>

\* AuthExhausted, or a violation that makes the session disconnect: the loop
\* flushes the DISCONNECT, outside the select, and returns.
Disconnecting ==
    /\ Reading /\ (StallsAtEnd \/ peer.reading)
    /\ loop' = [loop EXCEPT !.phase = "closing", !.pending = TRUE]
    /\ UNCHANGED <<chan, out_rx, hnd, peer, wire, written>>

FinalFlush == loop.phase = "closing" /\ Writable /\ Return

\* wire_handler and the counters that start again.
Wire(l, h) ==
    [l EXCEPT !.stdin_tx = h, !.out_budget = h, !.consumed_rx = h, !.handler_task = h,
              !.out_inflight = 0, !.last_consumed = 0]

\* A session is opened.
ChannelOpen ==
    LET h == peer.opens + 1
    IN  /\ Reading /\ loop.authenticated /\ chan.gen = 0
        /\ h \in Handlers /\ (EarlyReopen \/ peer.polite)
        /\ chan' = [NoChannel EXCEPT !.gen = h, !.window = Window]
        /\ peer' = [peer EXCEPT !.opens = h, !.sent = 0]
        /\ Again([loop EXCEPT !.pending = TRUE])
        /\ UNCHANGED <<out_rx, hnd, wire, written>>

\* A program is requested, on the open channel or on none, and no other has been
\* since the last OPEN or CLOSE: its handler replaces the one that is wired.
ProgramRequest(accepted) ==
    LET h == IF chan.gen # 0 THEN chan.gen ELSE peer.opens + 1
    IN  /\ Reading /\ loop.authenticated /\ ~chan.started
        /\ h \in Handlers /\ (EarlyReopen \/ peer.polite \/ chan.gen # 0)
        /\ chan' = [chan EXCEPT !.started = TRUE]
        /\ peer' = IF chan.gen # 0 THEN peer
                   ELSE [peer EXCEPT !.opens = h, !.polite = @ /\ ~accepted]
        /\ \/ /\ accepted /\ hnd' = spawn_handler(TearDown(hnd), h, chan.gen)
              /\ Again([Wire(loop, h) EXCEPT !.pending = TRUE])
           \/ ~accepted /\ hnd' = hnd /\ Again([loop EXCEPT !.pending = TRUE])
        /\ UNCHANGED <<out_rx, wire, written>>

\* Data, EOF and CLOSE reach the wired handler also when no channel is open.
ChannelData ==
    /\ Reading /\ (chan.gen # 0 \/ loop.stdin_tx # 0) /\ peer.sent < MaxInput
    /\ peer' = [peer EXCEPT !.sent = @ + 1]
    /\ hnd' = IF loop.stdin_tx = 0 THEN hnd ELSE [hnd EXCEPT ![loop.stdin_tx].stdin = @ + 1]
    /\ Again(loop)
    /\ UNCHANGED <<chan, out_rx, wire, written>>

ChannelEof ==
    /\ Reading /\ loop.stdin_tx # 0
    /\ Again([loop EXCEPT !.stdin_tx = 0])
    /\ UNCHANGED <<chan, out_rx, hnd, peer, wire, written>>

WindowAdjust ==
    /\ Reading /\ chan.gen # 0 /\ chan.window = 0 /\ chan.out # <<>>
    /\ LET ch == [chan EXCEPT !.window = @ + Window]
       IN  flush_channel(ch) /\ Again([loop EXCEPT !.pending = @ \/ Emits(ch)])
    /\ UNCHANGED <<out_rx, hnd, peer, written>>

ChannelClose ==
    /\ Reading /\ (chan.gen # 0 \/ chan.started)
    /\ chan' = NoChannel
    /\ hnd' = TearDown(hnd)
    /\ Again([loop EXCEPT !.stdin_tx = 0, !.out_budget = 0, !.handler_task = 0,
                          !.pending = @ \/ (chan.gen # 0 /\ ~chan.sent_close)])
    /\ peer' = [peer EXCEPT !.polite = chan.sent_close]
    /\ UNCHANGED <<out_rx, wire, written>>

\* DISCONNECT from the peer, the end of the stream, a reset.
PeerLeaves == Reading /\ Return

\* The peer stops reading its socket and the buffers in between are full.
StopReading ==
    /\ peer.reading /\ loop.phase # "ended"
    /\ StallsAtEnd \/ loop.phase # "closing"
    /\ peer' = [peer EXCEPT !.reading = FALSE]
    /\ UNCHANGED <<loop, chan, out_rx, hnd, wire, written>>

HandlerStep(h) ==
    \/ \E p \in Pumps : WriteFails(h, p) \/ PumpEnds(h, p) \/ \E n \in 1..MaxReserve : Write(h, p, n)
    \/ Returns(h)
    \/ Dropped(h)

Next ==
    \/ Flush
    \/ LoginTimer
    \/ IdleTimer
    \/ Consumption
    \/ RecvOut
    \/ Authenticates
    \/ Disconnecting
    \/ FinalFlush
    \/ ChannelOpen
    \/ \E accepted \in BOOLEAN : ProgramRequest(accepted)
    \/ ChannelData
    \/ ChannelEof
    \/ WindowAdjust
    \/ ChannelClose
    \/ PeerLeaves
    \/ StopReading
    \/ \E h \in Handlers :
          \/ \E p \in Pumps, n \in 1..MaxReserve : Reserve(h, p, n) \/ Write(h, p, n)
          \/ \E p \in Pumps : WriteFails(h, p) \/ PumpEnds(h, p)
          \/ ChildExits(h)
          \/ Returns(h)
          \/ Dropped(h)
          \/ ReadStdin(h)

Spec == Init /\ [][Next]_vars

\* The runtime polls every task that can go on, and timers fire.  Every read puts
\* the idle timer off; a peer sends only so much here, so in the end it fires.
\* Nothing is assumed of the peer, and no child is assumed to write, read or exit.
FairSpec ==
    /\ Spec
    /\ WF_vars(Flush) /\ WF_vars(FinalFlush) /\ WF_vars(IdleTimer)
    /\ WF_vars(Consumption) /\ WF_vars(RecvOut)
    /\ \A h \in Handlers : WF_vars(HandlerStep(h))

--------------------------------------------------------------------------------
(* Properties *)

\* What is sent on a session's channel, output and exit status, comes from that
\* session's handler, and none of it follows the CLOSE: the exit status is
\* behind the last byte of both pumps (run_process, out_rx, channel_exit).
OutputOnItsChannel == \A sent \in wire : sent[1] = sent[2] /\ ~sent[3]

\* The bytes of handler h in a queue of Outbound messages: which message, and
\* which byte of it.
Bytes(q, h) == {b \in (DOMAIN q) \X (1..MaxReserve) : q[b[1]].from = h /\ b[2] <= q[b[1]].len}

\* Bytes of handler h on their way to the loop.
Queued(h) == Cardinality(Bytes(out_rx, h))

\* While a handler's budget is open every byte of it is in one place: free,
\* queued in out_rx, or in flight in the channel; so the server buffers at most
\* OutLimit bytes and a handler never loses budget for good (poll_write,
\* out_inflight, take_flushed_output).
BudgetBalanced ==
    LET h == loop.out_budget IN h # 0 /\ chan.gen = h =>
        /\ hnd[h].permits + Queued(h) + loop.out_inflight = OutLimit
        /\ loop.out_inflight = Len(chan.out) + chan.flushed

\* A handler that has not been told to stop is the one the loop has wired, on a
\* connection that is served, and the channel it was started on, if it was started
\* on one, is the channel that is open: however the peer orders OPEN, requests and
\* CLOSE, no handler outlives its channel, its connection or its successor
\* (TaskGuard, wire_handler).
NoOrphan ==
    \A h \in Handlers : hnd[h].task = "running" =>
        loop.phase # "ended" /\ loop.handler_task = h /\ hnd[h].on \in {0, chan.gen}

\* With an idle timeout, as by default, every connection whose peer falls silent
\* ends, also when the peer stops reading in the middle of a flush: the timers
\* run beside the flush (the comment at the top of the loop).
ConnectionEnds == <>(loop.phase = "ended")

\* No writer waits for output budget for ever: it is granted, or its budget is
\* closed and the write fails (BudgetGuard).
WritersReleased ==
    \A h \in Handlers, p \in Pumps : hnd[h].want[p] > 0 ~> hnd[h].want[p] = 0
================================================================================
