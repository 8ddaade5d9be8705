------------------------------ MODULE ChannelFlow ------------------------------
(***************************************************************************)
(* One direction of a session channel: the sending Channel, the receiving  *)
(* Channel and the two message queues between them (crates/ssh-transport/  *)
(* src/connection.rs, and the callers of Channel in server.rs and          *)
(* client.rs).  With SenderRole = "server" the stream is a program's       *)
(* output, which the client acknowledges as it receives it; with           *)
(* SenderRole = "client" it is stdin, which the server acknowledges only   *)
(* as its handler consumes it.                                             *)
(*                                                                         *)
(* Bytes are counted, not stored.  A message carries its position in the   *)
(* stream (off) so that the properties can tell order and loss; the code   *)
(* never reads it.  The write boundaries inside the output queue are       *)
(* abstracted: drain_output may cut what it sends into messages anywhere,  *)
(* within the limits the code computes (module ChannelOutput has the exact *)
(* loop).  The transport delivers messages in order (TransportPair).       *)
(***************************************************************************)
EXTENDS Integers, Sequences

CONSTANTS
    SenderRole,       \* which side sends the stream
    DEFAULT_WINDOW,
    RemoteMaxPacket,  \* the receiver's maximum packet, as advertised
    MaxChunk,         \* the obfuscation chunk cap; U32Max when there is none
    U32Max,           \* 2^32 - 1
    MaxWritten        \* bytes the application writes in all (bound)

ASSUME FlowAssumption ==
    /\ SenderRole \in {"client", "server"}
    /\ DEFAULT_WINDOW \in Nat \ {0}
    /\ RemoteMaxPacket \in Nat /\ MaxChunk \in Nat
    /\ U32Max \in Nat /\ DEFAULT_WINDOW <= U32Max
    /\ MaxWritten \in Nat

VARIABLES
    \* the sender's Channel
    snd_open,        \* is channel Some?
    remote_set,      \* has set_remote been called?
    remote_window, out, want_end, sent_end,
    \* the receiver's Channel
    rcv_open,        \* is channel Some?
    local_window, unacked, sent_close, violated,
    \* the messages in transit, and the end of stream as the receiver saw it
    wire, back, eof_seen,
    \* totals over the life of the channel
    written, sent, received, consumed, granted, adjusted

sndVars == <<snd_open, remote_set, remote_window, out, want_end, sent_end>>
rcvVars == <<rcv_open, local_window, unacked, sent_close, violated, eof_seen>>
totals  == <<written, sent, received, consumed, granted, adjusted>>
vars    == <<sndVars, rcvVars, wire, back, totals>>

Min2(a, b) == IF a <= b THEN a ELSE b
AtLeast1(n) == IF n = 0 THEN 1 ELSE n

DataTypes == {"DATA", "EXIT_STATUS", "EOF", "CLOSE"}
BackTypes == {"CONFIRMATION", "WINDOW_ADJUST", "CLOSE"}

DataMsg == {m \in [type : DataTypes, off : Nat, len : Nat] :
               m.type # "DATA" => m.len = 0}
BackMsg == {m \in [type : BackTypes, off : Nat, len : Nat] :
               m.type # "WINDOW_ADJUST" => m.len = 0}

Msg(type, off, len) == [type |-> type, off |-> off, len |-> len]

\* w covers the stream positions from a to b without gap, overlap or reordering.
Chain(w, a, b) ==
    /\ w = <<>> => a = b
    /\ w # <<>> => w[1].off = a /\ w[Len(w)].off + w[Len(w)].len = b
    /\ \A i \in 1..Len(w) : a <= w[i].off /\ w[i].off + w[i].len <= b
    /\ \A i, j \in 1..Len(w) : i < j => w[i].off + w[i].len <= w[j].off
    /\ \A i \in 1..Len(w) : i + 1 <= Len(w) => w[i+1].off = w[i].off + w[i].len

Init ==
    /\ snd_open = TRUE
    /\ remote_set = (SenderRole = "server")
    /\ remote_window = (IF SenderRole = "server" THEN DEFAULT_WINDOW ELSE 0)
    /\ out = 0 /\ want_end = FALSE /\ sent_end = FALSE
    /\ rcv_open = TRUE /\ local_window = DEFAULT_WINDOW /\ unacked = 0
    /\ sent_close = FALSE /\ violated = FALSE /\ eof_seen = FALSE
    /\ wire = <<>>
    /\ back = (IF SenderRole = "server" THEN <<>> ELSE <<Msg("CONFIRMATION", 0, 0)>>)
    /\ written = 0 /\ sent = 0 /\ received = 0
    /\ consumed = 0 /\ granted = 0 /\ adjusted = 0

--------------------------------------------------------------------------------
(* The sender *)

\* The most bytes one message of drain_output may carry (the window aside).
ChunkLimit == Min2(AtLeast1(RemoteMaxPacket), AtLeast1(MaxChunk))

\* Every way to cut the n bytes from position p into messages.
Chunkings(p, n) ==
    {c \in UNION {[1..k -> [type : {"DATA"}, off : p..p+n-1, len : 1..ChunkLimit]] :
                  k \in 0..n} : Chain(c, p, p + n)}

\* Fault: the last message of a drain may overrun the window.
Drainable_whole(q, w) == IF w = 0 THEN 0 ELSE Min2(q, w + 1)

\* How much drain_output sends of q queued bytes under the window w.
Drainable(q, w) == Min2(q, w)

\* Fault: the end mark does not wait for the queue to drain.
EndDue_early(q, n, want) == want /\ ~sent_end

\* The end mark follows once nothing is queued any more.
EndDue(q, n, want) == q = n /\ want /\ ~sent_end

\* The server ends with exit-status, EOF and CLOSE, the client with EOF.
EndMessages(p) ==
    IF SenderRole = "server"
    THEN <<Msg("EXIT_STATUS", p, 0), Msg("EOF", p, 0), Msg("CLOSE", p, 0)>>
    ELSE <<Msg("EOF", p, 0)>>

\* flush_channel with q bytes queued, window w, and the end requested or not.
\* The chaff burst after data carries nothing and is left to TransportPair.
flush_channel(q, w, want) ==
    LET n   == Drainable(q, w)
        end == EndDue(q, n, want)
    IN  /\ out' = q - n
        /\ remote_window' = w - n
        /\ sent' = sent + n
        /\ sent_end' = (sent_end \/ end)
        /\ \E c \in Chunkings(sent, n) :
               wire' = wire \o (IF end THEN c \o EndMessages(sent + n) ELSE c)

\* channel_stdout, channel_stderr, write_stdin.  The application writes nothing
\* after it has declared the end.
Write(n) ==
    /\ snd_open /\ ~want_end
    /\ written + n <= MaxWritten
    /\ written' = written + n
    /\ flush_channel(out + n, remote_window, want_end)
    /\ UNCHANGED <<snd_open, remote_set, want_end, rcvVars, back,
                   received, consumed, granted, adjusted>>

\* channel_exit, send_eof
End ==
    /\ snd_open /\ ~want_end
    /\ want_end' = TRUE
    /\ flush_channel(out, remote_window, TRUE)
    /\ UNCHANGED <<snd_open, remote_set, rcvVars, back,
                   written, received, consumed, granted, adjusted>>

handle_open_confirmation ==
    /\ back # <<>> /\ back[1].type = "CONFIRMATION"
    /\ back' = Tail(back)
    /\ remote_set' = TRUE
    /\ flush_channel(out, DEFAULT_WINDOW, want_end)
    /\ UNCHANGED <<snd_open, want_end, rcvVars, written, received, consumed,
                   granted, adjusted>>

\* Fault: an adjust replaces the window.
AddWindow_set(w, n) == n

\* add_remote_window: u32 saturating_add
AddWindow(w, n) == Min2(w + n, U32Max)

handle_window_adjust ==
    /\ back # <<>> /\ back[1].type = "WINDOW_ADJUST"
    /\ back' = Tail(back)
    /\ adjusted' = adjusted + back[1].len
    /\ IF snd_open
       THEN flush_channel(out, AddWindow(remote_window, back[1].len), want_end)
       ELSE UNCHANGED <<out, remote_window, sent, sent_end, wire>>
    /\ UNCHANGED <<snd_open, remote_set, want_end, rcvVars, written, received,
                   consumed, granted>>

\* The sender's handle_channel_close: answer with CLOSE unless it has sent one,
\* drop the channel and whatever it still had queued.
SenderClose ==
    /\ back # <<>> /\ back[1].type = "CLOSE"
    /\ back' = Tail(back)
    /\ wire' = (IF snd_open /\ ~(SenderRole = "server" /\ sent_end)
                THEN Append(wire, Msg("CLOSE", sent, 0)) ELSE wire)
    /\ snd_open' = FALSE
    /\ UNCHANGED <<remote_set, remote_window, out, want_end, sent_end, rcvVars, totals>>

--------------------------------------------------------------------------------
(* The receiver *)

\* consume_incoming: is the message within the window we granted?
Fits(len) == len <= local_window

\* Fault: the bytes are credited when they arrive and when they are consumed.
Acked_twice(w, len) == Min2(unacked + 2 * len, DEFAULT_WINDOW - w)

\* What is outstanding bounds what can be acknowledged.
Acked(w, len) == Min2(unacked + len, DEFAULT_WINDOW - w)

\* Fault: a grant waits for more than a whole window.
Grants_batched(w, u) == u > DEFAULT_WINDOW

\* Half a window, or anything at all once the peer is stalled at a zero window.
Grants(w, u) == u >= DEFAULT_WINDOW \div 2 \/ (w = 0 /\ u > 0)

\* ack_incoming of len bytes with the local window at w; a grant is sent as a
\* WINDOW_ADJUST.
ack_incoming(w, len) ==
    LET u == Acked(w, len)
    IN  IF Grants(w, u)
        THEN /\ local_window' = w + u /\ unacked' = 0
             /\ granted' = granted + u
             /\ back' = Append(back, Msg("WINDOW_ADJUST", granted, u))
        ELSE /\ local_window' = w /\ unacked' = u
             /\ UNCHANGED <<granted, back>>

\* handle_channel_data.  The client acknowledges at once (replenish_window); data
\* for a channel that is gone is not accounted.
handle_channel_data ==
    /\ wire # <<>> /\ wire[1].type = "DATA" /\ ~violated
    /\ wire' = Tail(wire)
    /\ IF ~rcv_open
       THEN UNCHANGED <<violated, local_window, unacked, back, received, consumed, granted>>
       ELSE IF ~Fits(wire[1].len)
       THEN /\ violated' = TRUE
            /\ UNCHANGED <<local_window, unacked, back, received, consumed, granted>>
       ELSE /\ received' = received + wire[1].len
            /\ UNCHANGED violated
            /\ IF SenderRole = "server"
               THEN /\ consumed' = consumed + wire[1].len
                    /\ ack_incoming(local_window - wire[1].len, wire[1].len)
               ELSE /\ local_window' = local_window - wire[1].len
                    /\ UNCHANGED <<unacked, back, consumed, granted>>
    /\ UNCHANGED <<sndVars, rcv_open, sent_close, eof_seen, written, sent, adjusted>>

\* The server's handler has drained n bytes of its stdin.
channel_consumed(n) ==
    /\ SenderRole = "client" /\ rcv_open /\ ~violated
    /\ n <= received - consumed
    /\ consumed' = consumed + n
    /\ ack_incoming(local_window, n)
    /\ UNCHANGED <<sndVars, wire, rcv_open, sent_close, violated, eof_seen,
                   written, sent, received, adjusted>>

\* EOF (which ends the handler's stdin; the client takes no action on it) and
\* exit-status change nothing but what the application has been told.
handle_channel_eof ==
    /\ wire # <<>> /\ wire[1].type \in {"EOF", "EXIT_STATUS"} /\ ~violated
    /\ wire' = Tail(wire)
    /\ eof_seen' = (eof_seen \/ wire[1].type = "EOF")
    /\ UNCHANGED <<sndVars, rcv_open, local_window, unacked, sent_close, violated,
                   back, totals>>

\* The receiver's handle_channel_close.
ReceiverClose ==
    /\ wire # <<>> /\ wire[1].type = "CLOSE" /\ ~violated
    /\ wire' = Tail(wire)
    /\ back' = (IF rcv_open /\ ~sent_close
                THEN Append(back, Msg("CLOSE", granted, 0)) ELSE back)
    /\ sent_close' = (sent_close \/ rcv_open)
    /\ rcv_open' = FALSE
    /\ UNCHANGED <<sndVars, local_window, unacked, violated, eof_seen, totals>>

\* The program behind a receiving server exits and its output has drained: the
\* server sends CLOSE and keeps the channel until the client answers.
ReceiverExit ==
    /\ SenderRole = "client" /\ rcv_open /\ ~sent_close /\ ~violated
    /\ sent_close' = TRUE
    /\ back' = Append(back, Msg("CLOSE", granted, 0))
    /\ UNCHANGED <<sndVars, wire, rcv_open, local_window, unacked, violated,
                   eof_seen, totals>>

SenderReads   == handle_open_confirmation \/ handle_window_adjust \/ SenderClose
ReceiverReads == handle_channel_data \/ handle_channel_eof \/ ReceiverClose
HandlerReads  == \E n \in 1..DEFAULT_WINDOW : channel_consumed(n)

Next ==
    \/ \E n \in 1..MaxWritten : Write(n)
    \/ End
    \/ handle_open_confirmation \/ handle_window_adjust \/ SenderClose
    \/ handle_channel_data \/ handle_channel_eof \/ ReceiverClose
    \/ HandlerReads
    \/ ReceiverExit

Spec == Init /\ [][Next]_vars

\* Both drivers keep reading their sockets, and the handler keeps reading its
\* stdin as long as it runs.
Fairness == WF_vars(SenderReads) /\ WF_vars(ReceiverReads) /\ WF_vars(HandlerReads)

FairSpec == Spec /\ Fairness

--------------------------------------------------------------------------------
TypeOK ==
    /\ snd_open \in BOOLEAN /\ remote_set \in BOOLEAN
    /\ remote_window \in 0..U32Max /\ out \in Nat
    /\ want_end \in BOOLEAN /\ sent_end \in BOOLEAN
    /\ rcv_open \in BOOLEAN /\ local_window \in 0..DEFAULT_WINDOW
    /\ unacked \in 0..DEFAULT_WINDOW
    /\ sent_close \in BOOLEAN /\ violated \in BOOLEAN /\ eof_seen \in BOOLEAN
    /\ wire \in Seq(DataMsg) /\ back \in Seq(BackMsg)
    /\ written \in 0..MaxWritten /\ sent \in Nat /\ received \in Nat
    /\ consumed \in Nat /\ granted \in Nat /\ adjusted \in Nat

\* The receiver never finds that its peer overran the window (consume_incoming
\* returning false and the disconnect that follows): the batched, clamped grants
\* and the credit the sender keeps cannot drift apart, whatever is in transit.
NoWindowViolation == ~violated

\* At most one window of data is anywhere between the sender's queue and the
\* application's hands (the backpressure consume_incoming documents).
Backpressure == sent - consumed <= DEFAULT_WINDOW

\* The end mark never overtakes data that waits for window, and the client's
\* side of an output channel is closed only when it has received everything
\* (flush_channel, request_eof, channel_exit).
EndAfterData ==
    /\ eof_seen => received = written
    /\ ~rcv_open /\ SenderRole = "server" => received = written

\* This direction of the channel implements a bounded byte stream.
Stream == INSTANCE ByteStream WITH
    Capacity <- DEFAULT_WINDOW,
    launched <- sent,
    ended    <- want_end,
    seen     <- eof_seen

ImplementsStream == Stream!Spec

\* Whatever is written is eventually received, unless the receiver closes: the
\* batching of grants never leaves the sender waiting for window (ack_incoming).
AllDelivered ==
    \A n \in 1..MaxWritten : written = n ~> (received >= n \/ sent_close)

\* A requested end eventually reaches the receiver.
EndDelivered == want_end ~> (eof_seen \/ sent_close)

--------------------------------------------------------------------------------
(* The inductive invariant behind the safety properties. *)

\* Each side's window is what its own grants and its peer's messages imply.
WindowInv ==
    /\ local_window = DEFAULT_WINDOW + granted - received
    /\ snd_open /\ remote_set => remote_window = DEFAULT_WINDOW + adjusted - sent
    /\ sent <= DEFAULT_WINDOW + adjusted
    /\ granted + unacked = consumed
    /\ adjusted <= granted /\ consumed <= received /\ received <= sent
    /\ sent + out = written

\* The messages in transit are the difference between the two sides' totals.
TransitInv ==
    /\ rcv_open => Chain(wire, received, sent)
    /\ Chain(back, adjusted, granted)

\* Before the confirmation the sender has no window.
OpenInv ==
    /\ ~remote_set =>
          /\ snd_open /\ remote_window = 0 /\ sent = 0 /\ adjusted = 0
          /\ back # <<>> /\ back[1].type = "CONFIRMATION"
    /\ \A i \in 1..Len(back) :
          back[i].type = "CONFIRMATION" => i = 1 /\ ~remote_set

\* The sender will write nothing more.
Finished == IF SenderRole = "server" THEN sent_end ELSE ~snd_open

\* The end mark is behind all data, CLOSE behind everything.
EndInv ==
    /\ sent_end => want_end /\ out = 0
    /\ \A i \in 1..Len(wire) : wire[i].type = "EOF" => sent_end
    /\ eof_seen => sent_end /\ received = sent
    /\ \A i \in 1..Len(wire) : wire[i].type = "EOF" => wire[i].off = sent
    /\ \A i \in 1..Len(wire) : wire[i].type = "CLOSE" => i = Len(wire) /\ Finished
    /\ ~rcv_open => wire = <<>> /\ Finished /\ received = sent
    /\ SenderRole = "server" =>
          /\ ~snd_open \/ sent_close => sent_end
          /\ \A i \in 1..Len(back) : back[i].type = "CLOSE" => sent_end

\* Checked by TLC and proved inductive: it implies the three safety properties.
FlowInv ==
    TypeOK /\ WindowInv /\ TransitInv /\ OpenInv /\ EndInv /\ NoWindowViolation
================================================================================
