----------------------------- MODULE ServerSession -----------------------------
(***************************************************************************)
(* The server's session layer (crates/ssh-transport/src/server.rs, struct  *)
(* ServerConnection) on top of the transport: user authentication with its *)
(* two caps, and the connection protocol of the single session channel.    *)
(* As in Transport, the connection is a record and every method is an      *)
(* operator on it; what it sends is appended to out, what it tells the     *)
(* driver to events.                                                       *)
(*                                                                         *)
(* Channel data and windows are ChannelFlow's: here a channel is what the  *)
(* requests, replies and closes depend on.  A user is left out: the policy *)
(* is in the name of the credential, which is right or wrong.  A terminal  *)
(* size is one number.  The ghost id numbers the channels in the order the *)
(* client opened them; the code gives every one of them the number 0.      *)
(***************************************************************************)
EXTENDS Integers, Sequences

CONSTANTS
    MaxAuthAttempts,   \* max_auth_attempts()
    MaxAuthRequests    \* max_auth_requests()

ASSUME ServerAssumption ==
    MaxAuthAttempts \in Nat \ {0} /\ MaxAuthRequests \in Nat \ {0}

Programs == {"exec", "shell", "subsystem"}

\* A message: its number, what it asks, whether it wants a reply, and the ghost
\* id of the channel it is about.
Msg(type, arg, want, id) == [type |-> type, arg |-> arg, want |-> want, id |-> id]

NoArg == "no argument"

Reply(type) == Msg(type, NoArg, FALSE, 0)

NoPty == 0

NoChannel == [open |-> FALSE, id |-> 0, sent_close |-> FALSE, pty |-> NoPty]

NewServer(allow_pty) ==
    [allow_pty |-> allow_pty, authenticated |-> FALSE, banner_sent |-> FALSE,
     channel |-> NoChannel, pending_reply |-> FALSE, auth_failures |-> 0, auth_requests |-> 0,
     program_started |-> FALSE, closing |-> FALSE, out |-> <<>>, events |-> <<>>]

\* Transport::send_packet: a closing transport writes nothing.
send_packet(s, m) == IF s.closing THEN s ELSE [s EXCEPT !.out = Append(@, m)]

disconnect(s) == [send_packet(s, Reply("DISCONNECT")) EXCEPT !.closing = TRUE]

push_event(s, kind, id, arg) ==
    [s EXCEPT !.events = Append(@, [kind |-> kind, id |-> id, arg |-> arg])]

--------------------------------------------------------------------------------
(* User authentication *)

handle_service_request(s, m) ==
    LET accepted == send_packet(s, Reply("SERVICE_ACCEPT"))
    IN  IF m.arg # "ssh-userauth" THEN disconnect(s)
        ELSE IF s.banner_sent THEN accepted
        ELSE [send_packet(accepted, Reply("USERAUTH_BANNER")) EXCEPT !.banner_sent = TRUE]

send_failure(s) ==
    LET t == [s EXCEPT !.auth_failures = @ + 1]
    IN  IF t.auth_failures >= MaxAuthAttempts
        THEN push_event(disconnect(t), "AuthExhausted", 0, NoArg)
        ELSE send_packet(t, Reply("USERAUTH_FAILURE"))

finish_auth(s, granted) ==
    IF granted
    THEN push_event([send_packet(s, Reply("USERAUTH_SUCCESS")) EXCEPT !.authenticated = TRUE],
                    "Authenticated", 0, NoArg)
    ELSE send_failure(s)

\* The credentials a request may carry: a password or a signature that is right
\* or wrong, a query for a key that is authorized or not, a key blob that does
\* not parse, no credential where the policy wants one or does not, or a method
\* the server does not know.
Credentials == {"none", "none_ok", "unknown", "password_ok", "password_bad", "probe_ok", "probe_bad",
                "key_bad", "signature_ok", "signature_bad"}

\* What AuthRequest::parse finds, and what UserPublicKey::parse_blob, the server's
\* policy and UserPublicKey::verify then make of it.
Method(arg) == CASE arg = "unknown"                         -> "unknown"
                 [] arg \in {"none", "none_ok"}             -> "none"
                 [] arg \in {"password_ok", "password_bad"} -> "password"
                 [] OTHER                                   -> "publickey"
parse_blob(arg)        == arg # "key_bad"
is_authorized_key(arg) == arg # "probe_bad"
allow_none(arg)        == arg = "none_ok"
verify_password(arg)   == arg = "password_ok"
verify(arg)            == arg = "signature_ok"

handle_publickey(s, arg) ==
    IF ~(parse_blob(arg) /\ is_authorized_key(arg)) THEN send_failure(s)
    ELSE IF arg = "probe_ok" THEN send_packet(s, Reply("USERAUTH_PK_OK"))
    ELSE finish_auth(s, verify(arg))

\* Fault: public-key queries are not counted against the cap on requests.
CountRequest_probes(s, m) == IF m.arg = "probe_ok" THEN s ELSE [s EXCEPT !.auth_requests = @ + 1]

\* Requests of every kind count, public-key queries too.
CountRequest(s, m) == [s EXCEPT !.auth_requests = @ + 1]

\* A request that AuthRequest::parse does not accept is an error of the pump, which
\* ends the connection without an answer: every request here is one that parses.
handle_userauth(s, m) ==
    LET t == CountRequest(s, m)
    IN  IF t.auth_requests > MaxAuthRequests
        THEN push_event(disconnect(t), "AuthExhausted", 0, NoArg)
        ELSE CASE Method(m.arg) = "publickey" -> handle_publickey(t, m.arg)
               [] Method(m.arg) = "password"  -> finish_auth(t, verify_password(m.arg))
               [] Method(m.arg) = "none"      -> finish_auth(t, allow_none(m.arg))
               [] OTHER                       -> finish_auth(t, FALSE)

handle_preauth(s, m) ==
    CASE m.type = "SERVICE_REQUEST"  -> handle_service_request(s, m)
      [] m.type = "USERAUTH_REQUEST" -> handle_userauth(s, m)
      [] OTHER                       -> s

--------------------------------------------------------------------------------
(* The connection protocol *)

\* A channel is granted when it is the only one, a session and takes packets of at
\* least MIN_REMOTE_MAX_PACKET bytes; all three refusals are alike.  The argument
\* "session" stands for a session with a maximum packet that is large enough, any
\* other argument for one of the refused kinds.
handle_channel_open(s, m) ==
    IF m.arg # "session" \/ s.channel.open
    THEN send_packet(s, Reply("CHANNEL_OPEN_FAILURE"))
    ELSE send_packet([s EXCEPT !.channel = [NoChannel EXCEPT !.open = TRUE, !.id = m.id],
                               !.program_started = FALSE],
                     Reply("CHANNEL_OPEN_CONFIRMATION"))

\* The reply to a request that wants one.
ReplyTo(s, m, ok) ==
    IF m.want THEN send_packet(s, Reply(IF ok THEN "CHANNEL_SUCCESS" ELSE "CHANNEL_FAILURE"))
    ELSE s

\* Fault: a channel may run any number of programs.
MayStart_always(s) == TRUE

MayStart(s) == ~s.program_started

\* exec, shell and subsystem: the driver decides, and the reply waits for it.
start_program(s, m) ==
    IF ~MayStart(s) THEN ReplyTo(s, m, FALSE)
    ELSE push_event([s EXCEPT !.pending_reply = m.want, !.program_started = TRUE],
                    "ProgramRequest", s.channel.id, m.arg.req)

pty_req(s, m) ==
    LET granted == s.allow_pty /\ s.channel.open
        t       == IF granted THEN [s EXCEPT !.channel.pty = m.arg.size] ELSE s
    IN  ReplyTo(t, m, granted)

\* Fault: the new size is stored but the driver is not told.
window_change_stored(s, m) ==
    IF s.channel.open /\ s.channel.pty # NoPty THEN [s EXCEPT !.channel.pty = m.arg.size] ELSE s

window_change(s, m) ==
    LET applied == s.channel.open /\ s.channel.pty # NoPty
        t       == IF applied
                   THEN push_event([s EXCEPT !.channel.pty = m.arg.size],
                                   "WindowChange", s.channel.id, m.arg.size)
                   ELSE s
    IN  ReplyTo(t, m, applied)

handle_channel_request(s, m) ==
    CASE m.arg.req \in Programs        -> start_program(s, m)
      [] m.arg.req = "env"             -> ReplyTo(s, m, TRUE)
      [] m.arg.req = "pty-req"         -> pty_req(s, m)
      [] m.arg.req = "window-change"   -> window_change(s, m)
      [] OTHER                         -> ReplyTo(s, m, FALSE)

\* Fault: the reply is lost with the decision.
accept_channel_silent(s) == [s EXCEPT !.pending_reply = FALSE]

\* accept_channel and reject_channel take the deferred reply.
accept_channel(s) ==
    IF s.pending_reply
    THEN send_packet([s EXCEPT !.pending_reply = FALSE], Reply("CHANNEL_SUCCESS"))
    ELSE s

reject_channel(s) ==
    IF s.pending_reply
    THEN send_packet([s EXCEPT !.pending_reply = FALSE], Reply("CHANNEL_FAILURE"))
    ELSE s

handle_channel_eof(s) == push_event(s, "ChannelEof", s.channel.id, NoArg)

handle_channel_close(s) ==
    LET t == IF s.channel.open /\ ~s.channel.sent_close
             THEN send_packet(s, Reply("CHANNEL_CLOSE")) ELSE s
    IN  push_event([t EXCEPT !.channel = NoChannel, !.program_started = FALSE],
                   "ChannelClose", s.channel.id, NoArg)

handle_connection(s, m) ==
    CASE m.type = "CHANNEL_OPEN"    -> handle_channel_open(s, m)
      [] m.type = "CHANNEL_REQUEST" -> handle_channel_request(s, m)
      [] m.type = "CHANNEL_EOF"     -> handle_channel_eof(s)
      [] m.type = "CHANNEL_CLOSE"   -> handle_channel_close(s)
      [] OTHER                      -> s

\* channel_exit with nothing left to flush: exit-status, EOF and CLOSE, once.
channel_exit(s) ==
    IF s.channel.open /\ ~s.channel.sent_close
    THEN [send_packet(send_packet(send_packet(s, Reply("EXIT_STATUS")), Reply("CHANNEL_EOF")),
                      Reply("CHANNEL_CLOSE")) EXCEPT !.channel.sent_close = TRUE]
    ELSE s

\* One turn of the pump: what arrives before authentication never reaches the
\* connection protocol.
pump(s, m) ==
    IF m.type = "DISCONNECT" THEN push_event(s, "Disconnect", 0, NoArg)
    ELSE IF s.authenticated THEN handle_connection(s, m)
    ELSE handle_preauth(s, m)
================================================================================
