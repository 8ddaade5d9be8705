------------------------------ MODULE SessionPair ------------------------------
(***************************************************************************)
(* A ClientConnection and a ServerConnection over an established, ordered  *)
(* transport, each with its application.  The messages a side has sent and *)
(* the other has not handled yet are its out.  The client's application    *)
(* authenticates, opens sessions one after the other, resizes its terminal *)
(* and ends its input; it may also use send_raw_packet, the testing hook.  *)
(* The server's application is the serve loop as the session layer sees    *)
(* it: it takes the events one by one, accepts or rejects programs, and    *)
(* reports their exit.                                                     *)
(***************************************************************************)
EXTENDS Integers, Sequences, SequencesExt, FiniteSets, ClientSession

CONSTANTS
    Attempts,       \* credentials ClientAuthHandler::next_auth may yield
    MaxAttempts,    \* and how many of them (bound)
    Sizes,          \* terminal sizes
    MaxOpens,       \* sessions the client opens (bound)
    MaxRaw,         \* raw packets (bound)
    MaxResizes,     \* window-change requests (bound)
    EarlyCalls,     \* may the application end its input or resize before ChannelReady?
    StrayRequests   \* may raw channel messages be sent while no channel is open?

ASSUME SessionAssumption ==
    /\ Attempts \subseteq Credentials /\ MaxAttempts \in Nat
    /\ Sizes \subseteq Nat \ {NoPty} /\ Sizes # {}
    /\ MaxOpens \in Nat /\ MaxRaw \in Nat /\ MaxResizes \in Nat
    /\ EarlyCalls \in BOOLEAN /\ StrayRequests \in BOOLEAN

VARIABLES
    client, server,
    app,        \* the server's application: the program it runs and what it decided
    term,       \* the size of the client's terminal
    answers,    \* every answer to an authentication request
    trusted,    \* will the client accept the host key?
    raws, resizes

vars == <<client, server, app, term, answers, trusted, raws, resizes>>

NoProgram == [running |-> FALSE, id |-> 0, stdin_open |-> FALSE, size |-> NoPty]

Init ==
    /\ \E attempts \in SeqOf(Attempts, MaxAttempts) : client = NewClient(attempts)
    /\ \E allow \in BOOLEAN : server = NewServer(allow)
    /\ app = [program |-> NoProgram, started |-> <<>>, rejected |-> {}, ptys |-> {}, done |-> FALSE]
    /\ term = (CHOOSE size \in Sizes : TRUE) /\ answers = <<>> /\ trusted \in BOOLEAN
    /\ raws = 0 /\ resizes = 0

--------------------------------------------------------------------------------
(* The client *)

Call(c) == client' = c /\ UNCHANGED <<server, app, answers, trusted>>

\* The key exchange reports the host key, and then that it is complete.
Handshake ==
    /\ client.state = "Handshaking"
    /\ Call(established(verify_host_key(client, trusted)))
    /\ UNCHANGED <<term, raws, resizes>>

\* exec and shell, with or without a terminal: one session at a time, and none
\* after a refused request, whose CLOSE is still to be answered.
Open(request, pty) ==
    /\ client.state = "Authenticated" /\ ~client.channel.open /\ client.opens < MaxOpens
    /\ \A told \in client.told : told[1] # "RequestFailed"
    /\ Call(open_session(IF pty THEN request_pty(client, term) ELSE client, request))
    /\ UNCHANGED <<term, raws, resizes>>

MayCall == client.channel.open /\ (client.channel.ready \/ EarlyCalls)

Resize(size) ==
    /\ MayCall /\ size # term /\ resizes < MaxResizes
    /\ term' = size /\ resizes' = resizes + 1
    /\ Call(client_window_change(client, size))
    /\ UNCHANGED raws

EndInput ==
    /\ MayCall /\ ~client.channel.want_eof
    /\ Call(send_eof(client))
    /\ UNCHANGED <<term, raws, resizes>>

RawRequests(kinds, id) == {ChannelRequest(r, NoPty, FALSE, id) : r \in kinds}

\* Raw packets: while authenticating, a wrong service request, any authentication
\* request and an EOF out of place; on a confirmed session, further requests; and
\* with no channel, before the first session or after one, a program request, an
\* EOF or a CLOSE about none.  They want no reply.
RawPackets ==
    CASE client.state = "Authenticating" ->
             {Msg("SERVICE_REQUEST", "ssh-connection", FALSE, 0), Msg("CHANNEL_EOF", NoArg, FALSE, 0)}
                 \cup {Msg("USERAUTH_REQUEST", cr, FALSE, 0) : cr \in Credentials}
      [] client.state = "Authenticated" /\ client.channel.ready /\ client.channel.open ->
             RawRequests({"exec", "subsystem", "env", "other"}, client.channel.id)
      [] client.state = "Authenticated" /\ ~client.channel.open /\ StrayRequests ->
             RawRequests({"exec", "subsystem"}, 0)
                 \cup {Msg(type, NoArg, FALSE, 0) : type \in {"CHANNEL_EOF", "CHANNEL_CLOSE"}}
      [] OTHER -> {}

send_raw_packet(m) ==
    /\ raws < MaxRaw
    /\ raws' = raws + 1
    /\ Call(send_packet(client, m))
    /\ UNCHANGED <<term, resizes>>

client_on_input ==
    /\ server.out # <<>>
    /\ client' = handle_packet(client, Head(server.out))
    /\ server' = [server EXCEPT !.out = Tail(@)]
    /\ UNCHANGED <<app, term, answers, trusted, raws, resizes>>

--------------------------------------------------------------------------------
(* The server *)

AuthReplies == {"USERAUTH_SUCCESS", "USERAUTH_FAILURE", "USERAUTH_PK_OK"}

\* The answer to an authentication request: its handler sends one message.
Answered(t) ==
    IF Len(t.out) > Len(server.out) /\ Last(t.out).type \in AuthReplies
    THEN <<Last(t.out).type>> ELSE <<>>

server_on_input ==
    /\ client.out # <<>> /\ ~app.done
    /\ LET t == pump(server, Head(client.out))
       IN  /\ server' = t
           /\ answers' = answers \o Answered(t)
           /\ app' = [app EXCEPT !.ptys = @ \cup
                          (IF t.channel.pty # NoPty THEN {t.channel.id} ELSE {})]
    /\ client' = [client EXCEPT !.out = Tail(@)]
    /\ UNCHANGED <<term, trusted, raws, resizes>>

--------------------------------------------------------------------------------
(* The server's application *)

poll_event(kinds) ==
    /\ ~app.done /\ server.events # <<>> /\ Head(server.events).kind \in kinds
    /\ UNCHANGED <<client, term, answers, trusted, raws, resizes>>

Polled == [server EXCEPT !.events = Tail(@)]

event == Head(server.events)

\* A handler is registered: it is accepted and spawned on the channel's terminal.
Accept ==
    /\ poll_event({"ProgramRequest"})
    /\ server' = accept_channel(Polled)
    /\ app' = [app EXCEPT
          !.program = [running |-> TRUE, id |-> event.id, stdin_open |-> TRUE,
                       size |-> server.channel.pty],
          !.started = Append(@, event.id)]

Reject ==
    /\ poll_event({"ProgramRequest"})
    /\ server' = reject_channel(Polled)
    /\ app' = [app EXCEPT !.rejected = @ \cup {event.id}]

WindowChange ==
    /\ poll_event({"WindowChange"})
    /\ server' = Polled
    /\ app' = IF app.program.running THEN [app EXCEPT !.program.size = event.arg] ELSE app

ChannelEof ==
    /\ poll_event({"ChannelEof"})
    /\ server' = Polled
    /\ app' = [app EXCEPT !.program.stdin_open = FALSE]

ChannelClose ==
    /\ poll_event({"ChannelClose"})
    /\ server' = Polled
    /\ app' = [app EXCEPT !.program = NoProgram]

Authenticated ==
    /\ poll_event({"Authenticated"})
    /\ server' = Polled
    /\ app' = app

\* AuthExhausted and Disconnect end the connection.
Finish ==
    /\ poll_event({"AuthExhausted", "Disconnect"})
    /\ server' = Polled
    /\ app' = [app EXCEPT !.done = TRUE, !.program = NoProgram]

\* The program returns and its exit status is reported.
Exit ==
    /\ app.program.running
    /\ server' = channel_exit(server)
    /\ app' = [app EXCEPT !.program.running = FALSE]
    /\ UNCHANGED <<client, term, answers, trusted, raws, resizes>>

Dispatch == Accept \/ Reject \/ WindowChange \/ ChannelEof \/ ChannelClose \/ Authenticated \/ Finish

Next ==
    \/ Handshake
    \/ \E request \in {"exec", "shell"}, pty \in BOOLEAN : Open(request, pty)
    \/ \E size \in Sizes : Resize(size)
    \/ EndInput
    \/ \E m \in RawPackets : send_raw_packet(m)
    \/ client_on_input
    \/ server_on_input
    \/ Accept
    \/ Reject
    \/ WindowChange
    \/ ChannelEof
    \/ ChannelClose
    \/ Authenticated
    \/ Finish
    \/ Exit

Spec == Init /\ [][Next]_vars

\* Both ends go on reading and the server's application takes its events.  No
\* program is assumed to exit.
FairSpec ==
    /\ Spec
    /\ WF_vars(client_on_input) /\ WF_vars(server_on_input) /\ WF_vars(Dispatch)

--------------------------------------------------------------------------------
(* Properties *)

\* However requests of all kinds are mixed, the server answers at most
\* max_auth_requests of them, and fewer failures than max_auth_attempts; a client
\* that believes it is authenticated has the server's one success behind it
\* (handle_userauth, send_failure, finish_auth).
AuthWithinCaps ==
    LET count(type) == Cardinality({i \in DOMAIN answers : answers[i] = type})
    IN  /\ Len(answers) <= MaxAuthRequests
        /\ count("USERAUTH_FAILURE") < MaxAuthAttempts
        /\ count("USERAUTH_SUCCESS") <= 1
        /\ client.state = "Authenticated" => Last(answers) = "USERAUTH_SUCCESS"

\* The driver has dispatched a program request about no channel.  A client that
\* makes one spoils its own replies: pending_reply is one flag for all requests.
Strayed == 0 \in app.rejected \/ \E i \in DOMAIN app.started : app.started[i] = 0

\* Replies carry no request id: what the client tells its application of a
\* terminal or a program is what the server decided for that very channel, unless
\* the client has asked for a program about no channel (reply_queue, pending_reply).
RepliesAttributed ==
    ~Strayed => \A told \in client.told :
        /\ told[1] = "PtyGranted" => told[2] \in app.ptys
        /\ told[1] = "PtyRefused" => told[2] \notin app.ptys
        /\ told[1] = "RequestFailed" => told[2] \in app.rejected

\* Whatever further requests arrive, on a session or about no channel at all, and
\* however channels are opened and closed in between, the driver starts at most
\* one program on each channel, and a program that is on a channel is on one the
\* client opened; 0 is the program of a request about no channel
\* (handle_channel_request, program_started).
OneProgramPerChannel ==
    \A i \in DOMAIN app.started :
        /\ app.started[i] \in 0..client.opens
        /\ app.started[i] # 0 => \A j \in DOMAIN app.started : app.started[j] = app.started[i] => j = i

\* Once the requests and the events have been handled, the program on a granted
\* terminal has the size of the client's terminal, whether it changed before or
\* after the program started (pty-req, window-change, channel_pty).
ResizeReachesProgram ==
    /\ app.program.running /\ app.program.id = client.channel.id
    /\ app.program.id \in app.ptys
    /\ client.out = <<>> /\ server.events = <<>>
    => app.program.size = term

\* Every session the client opens and every request it makes on it is eventually
\* decided: no reply is lost and none is waited for in vain, unless the client has
\* asked for a program about no channel (pending_reply).
RequestsResolve ==
    client.pending # "none" \/ client.reply_queue # <<>>
        ~> Strayed \/ (client.pending = "none" /\ client.reply_queue = <<>>)

\* A program whose client has ended its input sees the end of it, unless it has
\* gone before (send_eof, ChannelEof).
EofReachesProgram ==
    client.channel.want_eof /\ app.program.running /\ app.program.id = client.channel.id
        ~> ~app.program.stdin_open \/ ~app.program.running
================================================================================
