----------------------------- MODULE ClientSession -----------------------------
(***************************************************************************)
(* The client's session layer (crates/ssh-transport/src/client.rs, struct  *)
(* ClientConnection): host-key decision, authentication attempts, and the  *)
(* session channel with the requests whose replies it waits for.  The      *)
(* conventions are those of ServerSession.  Events for the application are *)
(* collected in told, with the number of the channel they concern.         *)
(***************************************************************************)
EXTENDS Integers, Sequences, ServerSession

NoClientChannel == [open |-> FALSE, id |-> 0, ready |-> FALSE, sent_close |-> FALSE,
                    sent_eof |-> FALSE, want_eof |-> FALSE]

\* attempts are the credentials ClientAuthHandler::next_auth will yield; ready is
\* what the application knows from ChannelReady.
NewClient(attempts) ==
    [state |-> "Handshaking", host_rejected |-> FALSE, channel |-> NoClientChannel,
     pending |-> "none", want_pty |-> NoPty, reply_queue |-> <<>>, attempts |-> attempts,
     opens |-> 0, closing |-> FALSE, out |-> <<>>, told |-> {}]

tell(c, kind, id) == [c EXCEPT !.told = @ \cup {<<kind, id>>}]

ChannelRequest(req, size, want, id) ==
    Msg("CHANNEL_REQUEST", [req |-> req, size |-> size], want, id)

--------------------------------------------------------------------------------
(* Calls of the application *)

open_session(c, request) ==
    LET id == c.opens + 1
    IN  send_packet([c EXCEPT !.channel = [NoClientChannel EXCEPT !.open = TRUE, !.id = id],
                              !.pending = request, !.opens = id],
                    Msg("CHANNEL_OPEN", "session", FALSE, id))

request_pty(c, size) == [c EXCEPT !.want_pty = size]

client_window_change(c, size) ==
    IF c.channel.open
    THEN send_packet(c, ChannelRequest("window-change", size, FALSE, c.channel.id))
    ELSE c

\* Fault: EOF waits for a window that may never be announced.
flush_channel_never(c) == c

\* With no data queued, flush_channel sends a requested EOF at once.
flush_channel(c) ==
    IF c.channel.open /\ c.channel.want_eof /\ ~c.channel.sent_eof
    THEN [send_packet(c, Msg("CHANNEL_EOF", NoArg, FALSE, c.channel.id)) EXCEPT
             !.channel.sent_eof = TRUE]
    ELSE c

send_eof(c) ==
    flush_channel(IF c.channel.open THEN [c EXCEPT !.channel.want_eof = TRUE] ELSE c)

--------------------------------------------------------------------------------
(* Handshake and authentication *)

verify_host_key(c, trusted) ==
    IF trusted THEN c
    ELSE [disconnect(tell(c, "HostKeyRejected", 0)) EXCEPT
             !.host_rejected = TRUE, !.state = "Done"]

established(c) ==
    IF c.host_rejected THEN c
    ELSE [send_packet(c, Msg("SERVICE_REQUEST", "ssh-userauth", FALSE, 0)) EXCEPT
             !.state = "ExpectServiceAccept"]

try_next_auth(c) ==
    IF c.attempts = <<>> THEN [tell(c, "AuthFailed", 0) EXCEPT !.state = "Done"]
    ELSE send_packet([c EXCEPT !.attempts = Tail(@)],
                     Msg("USERAUTH_REQUEST", Head(c.attempts), FALSE, 0))

--------------------------------------------------------------------------------
(* The session channel *)

\* Fault: the terminal's reply is not awaited.
Awaited_session(c) ==
    IF c.pending = "none" THEN <<>> ELSE <<[kind |-> "Session", id |-> c.channel.id]>>

\* The replies a confirmed channel waits for, in the order the requests go out.
Awaited(c) ==
    (IF c.want_pty = NoPty THEN <<>> ELSE <<[kind |-> "Pty", id |-> c.channel.id]>>)
        \o (IF c.pending = "none" THEN <<>> ELSE <<[kind |-> "Session", id |-> c.channel.id]>>)

handle_open_confirmation(c) ==
    LET id    == c.channel.id
        ready == tell([c EXCEPT !.channel.ready = TRUE], "ChannelReady", id)
        pty   == IF c.want_pty = NoPty THEN ready
                 ELSE send_packet(ready, ChannelRequest("pty-req", c.want_pty, TRUE, id))
        sent  == IF c.pending = "none" THEN pty
                 ELSE send_packet(pty, ChannelRequest(c.pending, NoPty, TRUE, id))
    IN  IF ~c.channel.open THEN c
        ELSE flush_channel([sent EXCEPT !.want_pty = NoPty, !.pending = "none",
                                        !.reply_queue = @ \o Awaited(c)])

handle_open_failure(c) ==
    tell([c EXCEPT !.channel = NoClientChannel, !.reply_queue = <<>>],
         "ChannelOpenFailure", c.channel.id)

\* CLOSE from the server, and the second half of a refused request.
handle_close(c) ==
    LET t == IF c.channel.open /\ ~c.channel.sent_close
             THEN send_packet(c, Msg("CHANNEL_CLOSE", NoArg, FALSE, c.channel.id)) ELSE c
    IN  tell([t EXCEPT !.channel = NoClientChannel, !.reply_queue = <<>>],
             "ChannelClosed", c.channel.id)

handle_request_failure(c, id) == handle_close(tell(c, "RequestFailed", id))

Popped(c) == [c EXCEPT !.reply_queue = IF @ = <<>> THEN @ ELSE Tail(@)]

handle_success(c) ==
    IF c.reply_queue # <<>> /\ Head(c.reply_queue).kind = "Pty"
    THEN tell(Popped(c), "PtyGranted", Head(c.reply_queue).id)
    ELSE Popped(c)

handle_failure(c) ==
    IF c.reply_queue # <<>> /\ Head(c.reply_queue).kind = "Pty"
    THEN tell(Popped(c), "PtyRefused", Head(c.reply_queue).id)
    ELSE handle_request_failure(Popped(c), c.channel.id)

handle_packet(c, m) ==
    CASE m.type = "SERVICE_ACCEPT" /\ c.state = "ExpectServiceAccept"
                                             -> try_next_auth([c EXCEPT !.state = "Authenticating"])
      [] m.type = "USERAUTH_SUCCESS"         -> tell([c EXCEPT !.state = "Authenticated"], "Authenticated", 0)
      [] m.type = "USERAUTH_FAILURE"         -> try_next_auth(c)
      [] m.type = "CHANNEL_OPEN_CONFIRMATION" -> handle_open_confirmation(c)
      [] m.type = "CHANNEL_OPEN_FAILURE"     -> handle_open_failure(c)
      [] m.type = "CHANNEL_SUCCESS"          -> handle_success(c)
      [] m.type = "CHANNEL_FAILURE"          -> handle_failure(c)
      [] m.type = "EXIT_STATUS"              -> tell(c, "ExitStatus", c.channel.id)
      [] m.type = "CHANNEL_CLOSE"            -> handle_close(c)
      [] m.type = "DISCONNECT"               -> tell(c, "Disconnect", 0)
      [] OTHER                               -> c     \* BANNER, PK_OK, EOF
================================================================================
