------------------------------ MODULE ChannelOutput ------------------------------
(***************************************************************************)
(* The output queue of a Channel (crates/ssh-transport/src/connection.rs): *)
(* stdout and stderr writes wait in one queue and drain_output cuts them   *)
(* into data messages within the remote window, the remote maximum packet  *)
(* and the obfuscation chunk cap.  ChannelFlow abstracts this loop to the  *)
(* number of bytes it sends; here is the loop itself, byte for byte.       *)
(*                                                                         *)
(* A byte is a pair <<ext, n>>: the stream it was written to and its       *)
(* position in the order of writing.                                       *)
(***************************************************************************)
EXTENDS Integers, Sequences, SequencesExt

CONSTANTS
    MaxPackets,   \* remote maximum packets the peer may advertise
    MaxChunks,    \* obfuscation chunk caps that may be configured, besides none
    MaxWindow,    \* the largest window the peer lets us reach (bound)
    MaxWrite,     \* bytes per write (bound)
    MaxBytes      \* bytes written in all (bound)

ASSUME OutputAssumption ==
    /\ MaxPackets \subseteq Nat /\ MaxChunks \subseteq Nat
    /\ MaxWindow \in Nat /\ MaxWrite \in Nat /\ MaxBytes \in Nat

VARIABLES
    remote_max_packet, max_chunk,   \* fixed when the channel opens
    out,             \* VecDeque<OutItem>: [ext, buf, sent]
    remote_window,
    flushed_out,
    emitted,         \* every message handed to emit
    enqueued,        \* every byte ever enqueued
    released         \* what take_flushed_out has returned in all

vars == <<remote_max_packet, max_chunk, out, remote_window, flushed_out,
          emitted, enqueued, released>>

NoCap == -1    \* a max_chunk of None

Init ==
    /\ remote_max_packet \in {IF m = 0 THEN 1 ELSE m : m \in MaxPackets}
    /\ max_chunk \in MaxChunks \cup {NoCap}
    /\ out = <<>> /\ remote_window = 0 /\ flushed_out = 0
    /\ emitted = <<>> /\ enqueued = <<>> /\ released = 0

--------------------------------------------------------------------------------
Smaller(a, b) == IF a <= b THEN a ELSE b

\* enqueue_stdout, enqueue_stderr; an empty write leaves no item.
enqueue(ext, n) ==
    LET bytes == [i \in 1..n |-> <<ext, Len(enqueued) + i>>]
    IN  /\ Len(enqueued) + n <= MaxBytes
        /\ enqueued' = enqueued \o bytes
        /\ out' = IF n = 0 THEN out ELSE Append(out, [ext |-> ext, buf |-> bytes, sent |-> 0])
        /\ UNCHANGED <<remote_max_packet, max_chunk, remote_window, flushed_out,
                       emitted, released>>

add_remote_window(n) ==
    /\ remote_window + n <= MaxWindow
    /\ remote_window' = remote_window + n
    /\ UNCHANGED <<remote_max_packet, max_chunk, out, flushed_out, emitted,
                   enqueued, released>>

\* Fault: the chunk cap is ignored.
Limit_uncapped(w) == Smaller(w, remote_max_packet)

\* A cap of zero is taken for one.
ChunkCap == IF max_chunk = 0 THEN 1 ELSE max_chunk

\* The payload bytes the next message may carry.
Limit(w) ==
    LET l == Smaller(w, remote_max_packet)
    IN  IF max_chunk = NoCap THEN l ELSE Smaller(l, ChunkCap)

\* Fault: the rest of a partly sent item is sent from its beginning again.
Chunk_restart(item, take) == SubSeq(item.buf, 1, take)

\* The next bytes of the item at the front of the queue.
Chunk(item, take) == SubSeq(item.buf, item.sent + 1, item.sent + take)

\* Marks bytes of the front item as sent; a finished item leaves the queue.
Advance(items, take) ==
    IF items[1].sent + take = Len(items[1].buf) THEN Tail(items)
    ELSE [items EXCEPT ![1].sent = @ + take]

\* Fault: the loop stops after the first message of a partly sent item.
Stops_early(items, w) == items = <<>> \/ Limit(w) = 0 \/ items[1].sent > 0

\* The loop ends with an empty queue or without window.
Stops(items, w) == items = <<>> \/ Limit(w) = 0

\* One turn of the loop of drain_output, on what is left of the queue and of the
\* window and the messages emitted so far; a loop that has ended stays as it is.
Turn(l) ==
    IF Stops(l.items, l.window) THEN l
    ELSE LET item == l.items[1]
             take == Smaller(Len(item.buf) - item.sent, Limit(l.window))
         IN  [items |-> Advance(l.items, take), window |-> l.window - take,
              msgs |-> Append(l.msgs, [ext |-> item.ext, data |-> Chunk(item, take)])]

\* The loop: a turn takes at least one byte off the window, so it has ended after
\* as many turns as the window has bytes.
DrainLoop(items, w) ==
    LET loop[n \in 0..w] == IF n = 0 THEN [items |-> items, window |-> w, msgs |-> <<>>]
                            ELSE Turn(loop[n - 1])
    IN  loop[w]

\* Fault: flushed_out counts messages, not bytes.
Flushed_messages(d) == Len(d.msgs)

\* What a drain adds to flushed_out: every take that came off the window.
Flushed(d) == remote_window - d.window

drain_output ==
    LET d == DrainLoop(out, remote_window)
    IN  /\ out # <<>> /\ Limit(remote_window) > 0
        /\ out' = d.items
        /\ remote_window' = d.window
        /\ flushed_out' = flushed_out + Flushed(d)
        /\ emitted' = emitted \o d.msgs
        /\ UNCHANGED <<remote_max_packet, max_chunk, enqueued, released>>

take_flushed_out ==
    /\ flushed_out > 0
    /\ released' = released + flushed_out
    /\ flushed_out' = 0
    /\ UNCHANGED <<remote_max_packet, max_chunk, out, remote_window, emitted, enqueued>>

Next ==
    \/ \E ext \in BOOLEAN, n \in 0..MaxWrite : enqueue(ext, n)
    \/ \E n \in 1..MaxWindow : add_remote_window(n)
    \/ drain_output
    \/ take_flushed_out

Spec == Init /\ [][Next]_vars

--------------------------------------------------------------------------------
BytesOf(msgs) == FlattenSeq([i \in 1..Len(msgs) |-> msgs[i].data])

UnsentOf(items) == FlattenSeq([i \in 1..Len(items) |->
                        SubSeq(items[i].buf, items[i].sent + 1, Len(items[i].buf))])

Unsent == UnsentOf(out)

\* However writes, windows and partial drains interleave, the bytes emitted and
\* then the bytes queued are the bytes enqueued: none lost, repeated or
\* reordered, within or across items (drain_output, front.sent).
NothingLost == BytesOf(emitted) \o Unsent = enqueued

\* Every message carries bytes of one stream only, marked as that stream, at
\* least one and at most what the peer's packet size and the cap allow.
MessagesWellFormed ==
    \A i \in 1..Len(emitted) : LET m == emitted[i] IN
        /\ Len(m.data) \in 1..remote_max_packet
        /\ max_chunk # NoCap => Len(m.data) <= ChunkCap
        /\ \A j \in 1..Len(m.data) : m.data[j][1] = m.ext

\* A drain sends exactly as many bytes as are queued or the window allows,
\* whichever is less, and charges them to the window: what ChannelFlow assumes.
DrainsExactly ==
    [][emitted' # emitted =>
          LET n == Smaller(Len(Unsent), remote_window)
          IN  /\ Len(BytesOf(emitted')) = Len(BytesOf(emitted)) + n
              /\ remote_window' = remote_window - n]_vars

\* The driver's output budget gets back exactly what has left the queue
\* (take_flushed_out).
BudgetExact == released + flushed_out = Len(BytesOf(emitted))
================================================================================
