----------------------------- MODULE SessionProofs -----------------------------
(***************************************************************************)
(* Theorems about the session layer: a client and a server connection with *)
(* their applications, for every pair of caps, every script of credentials *)
(* and any number of sessions, raw packets and resizes.                    *)
(***************************************************************************)
EXTENDS SessionPair, FiniteSetTheorems, SequenceTheorems, TLAPS

MsgTypes ==
    {"SERVICE_REQUEST", "SERVICE_ACCEPT", "DISCONNECT",
     "USERAUTH_REQUEST", "USERAUTH_BANNER", "USERAUTH_FAILURE", "USERAUTH_SUCCESS", "USERAUTH_PK_OK",
     "CHANNEL_OPEN", "CHANNEL_OPEN_FAILURE", "CHANNEL_OPEN_CONFIRMATION",
     "CHANNEL_REQUEST", "CHANNEL_SUCCESS", "CHANNEL_FAILURE",
     "CHANNEL_EOF", "CHANNEL_CLOSE", "EXIT_STATUS"}

Requests == {"exec", "shell", "subsystem", "env", "pty-req", "window-change", "other"}
Request == [req : Requests, size : Nat]
Words == Credentials \cup {NoArg, "session", "ssh-userauth", "ssh-connection"}
Message == [type : MsgTypes, arg : Words \cup Request, want : BOOLEAN, id : Nat]

\* A message with the argument its number calls for.
WellFormed(m) == m.type = "CHANNEL_REQUEST" => m.arg \in Request

EventKinds == {"Authenticated", "AuthExhausted", "Disconnect", "ProgramRequest", "WindowChange",
               "ChannelEof", "ChannelClose"}
EventArgs == Requests \cup {NoArg} \cup Nat
Event == [kind : EventKinds, id : Nat, arg : EventArgs]

ServerType ==
    [allow_pty : BOOLEAN, authenticated : BOOLEAN, banner_sent : BOOLEAN,
     channel : [open : BOOLEAN, id : Nat, sent_close : BOOLEAN, pty : Nat],
     pending_reply : BOOLEAN, auth_failures : Nat, auth_requests : Nat,
     program_started : BOOLEAN, closing : BOOLEAN, out : Seq(Message), events : Seq(Event)]

States == {"Handshaking", "ExpectServiceAccept", "Authenticating", "Authenticated", "Done"}
Told == {"HostKeyRejected", "Authenticated", "AuthFailed", "ChannelReady", "ChannelOpenFailure",
         "ChannelClosed", "RequestFailed", "PtyGranted", "PtyRefused", "ExitStatus", "Disconnect"}

ClientChannel == [open : BOOLEAN, id : Nat, ready : BOOLEAN, sent_close : BOOLEAN,
                  sent_eof : BOOLEAN, want_eof : BOOLEAN]

ClientType ==
    [state : States, host_rejected : BOOLEAN, channel : ClientChannel,
     pending : {"none", "exec", "shell"}, want_pty : Nat,
     reply_queue : Seq([kind : {"Pty", "Session"}, id : Nat]),
     attempts : Seq(Credentials), opens : Nat, closing : BOOLEAN, out : Seq(Message),
     told : SUBSET (Told \X Nat)]

--------------------------------------------------------------------------------
(* What the server's operators do *)

LEMMA ReplyType ==
    ASSUME NEW ty \in MsgTypes
    PROVE  Reply(ty) \in Message /\ Reply(ty).type = ty
  BY DEF Reply, Msg, Message, Words, NoArg

\* t has sent what s had sent, and then only messages of these types.
Grown(s, t, types) ==
    /\ Len(t.out) >= Len(s.out)
    /\ \A i \in 1..Len(t.out) : IF i <= Len(s.out) THEN t.out[i] = s.out[i]
                                ELSE t.out[i].type \in types

\* The server's books, but for what it has sent and told.
SameBooks(s, t) ==
    /\ t.allow_pty = s.allow_pty /\ t.authenticated = s.authenticated
    /\ t.channel = s.channel /\ t.pending_reply = s.pending_reply
    /\ t.auth_failures = s.auth_failures /\ t.auth_requests = s.auth_requests
    /\ t.program_started = s.program_started

LEMMA ServerSends ==
    ASSUME NEW s \in ServerType, NEW m \in Message, NEW t, t = send_packet(s, m)
    PROVE  /\ t \in ServerType /\ SameBooks(s, t)
           /\ t.closing = s.closing /\ t.banner_sent = s.banner_sent /\ t.events = s.events
           /\ t.out = IF s.closing THEN s.out ELSE Append(s.out, m)
           /\ Grown(s, t, {m.type})
<1>1. CASE s.closing
  <2>1. t = s
    BY <1>1 DEF send_packet
  <2>2. Grown(s, s, {m.type})
    BY DEF Grown, ServerType
  <2> QED
    BY <1>1, <2>1, <2>2 DEF SameBooks
<1>2. CASE ~s.closing
  <2> DEFINE o == Append(s.out, m)
  <2>1. o \in Seq(Message) /\ Len(o) = Len(s.out) + 1
        /\ \A i \in 1..Len(o) : o[i] = IF i <= Len(s.out) THEN s.out[i] ELSE m
    BY DEF ServerType
  <2> HIDE DEF o
  <2>2. t = [s EXCEPT !.out = o]
    BY <1>2 DEF send_packet, o
  <2>3. /\ t \in ServerType /\ SameBooks(s, t)
        /\ t.closing = s.closing /\ t.banner_sent = s.banner_sent /\ t.events = s.events
        /\ t.out = o
    BY <2>1, <2>2 DEF ServerType, SameBooks
  <2>4. Grown(s, t, {m.type})
    BY <2>1, <2>3 DEF Grown, ServerType
  <2> QED
    BY <1>2, <2>3, <2>4 DEF o
<1> QED
  BY <1>1, <1>2 DEF ServerType

News(kind, id, arg) == [kind |-> kind, id |-> id, arg |-> arg]

\* The driver is told one thing more.
Heard(s, t, kind, id, arg) == t.events = Append(s.events, News(kind, id, arg))

LEMMA NewsType ==
    ASSUME NEW kind \in EventKinds, NEW id \in Nat, NEW arg \in EventArgs
    PROVE  /\ News(kind, id, arg) \in Event
           /\ News(kind, id, arg).kind = kind /\ News(kind, id, arg).id = id
  BY DEF Event, News

LEMMA ServerTells ==
    ASSUME NEW s \in ServerType, NEW kind \in EventKinds, NEW id \in Nat,
           NEW arg \in EventArgs,
           NEW t, t = push_event(s, kind, id, arg)
    PROVE  /\ t \in ServerType /\ SameBooks(s, t)
           /\ t.closing = s.closing /\ t.banner_sent = s.banner_sent /\ t.out = s.out
           /\ Heard(s, t, kind, id, arg)
<1> DEFINE e == News(kind, id, arg)
           q == Append(s.events, e)
<1>1. e \in Event
  BY NewsType
<1> HIDE DEF e
<1>4. s.events \in Seq(Event)
  BY DEF ServerType
<1>5. q \in Seq(Event)
  BY <1>1, <1>4
<1> HIDE DEF q
<1>2. t = [s EXCEPT !.events = q]
  BY DEF push_event, e, q, News
<1>3. /\ t \in ServerType /\ SameBooks(s, t)
      /\ t.closing = s.closing /\ t.banner_sent = s.banner_sent /\ t.out = s.out
      /\ t.events = q
  BY <1>5, <1>2 DEF ServerType, SameBooks
<1> QED
  BY <1>3 DEF q, e, Heard

LEMMA ServerDisconnects ==
    ASSUME NEW s \in ServerType, NEW t, t = disconnect(s)
    PROVE  /\ t \in ServerType /\ SameBooks(s, t)
           /\ t.closing /\ t.banner_sent = s.banner_sent /\ t.events = s.events
           /\ Grown(s, t, {"DISCONNECT"})
<1> DEFINE m == Reply("DISCONNECT")
           u == send_packet(s, m)
<1>1. m \in Message /\ m.type = "DISCONNECT"
  BY ReplyType DEF MsgTypes
<1> HIDE DEF m
<1>2. /\ u \in ServerType /\ SameBooks(s, u)
      /\ u.banner_sent = s.banner_sent /\ u.events = s.events
      /\ Grown(s, u, {"DISCONNECT"})
  BY <1>1, ServerSends
<1>3. t = [u EXCEPT !.closing = TRUE]
  BY DEF disconnect, m
<1> HIDE DEF u
<1>4. t \in ServerType /\ t.closing /\ t.out = u.out /\ t.events = u.events
      /\ t.banner_sent = u.banner_sent /\ SameBooks(u, t)
  BY <1>2, <1>3 DEF ServerType, SameBooks
<1> QED
  BY <1>2, <1>4 DEF SameBooks, Grown

--------------------------------------------------------------------------------
(* Authentication *)

\* The driver is told at most one thing, and it is not a program's request.
NoNewProgram(s, t) ==
    \/ t.events = s.events
    \/ \E e \in Event : e.kind # "ProgramRequest" /\ t.events = Append(s.events, e)

\* What authentication leaves alone.
ChannelKept(s, t) ==
    /\ t.channel = s.channel /\ t.program_started = s.program_started
    /\ NoNewProgram(s, t)

Unanswered == MsgTypes \ (AuthReplies \cup {"CHANNEL_OPEN_FAILURE"})

\* One request is answered.
Answers(s, t, answer) == ~s.closing /\ t.out = Append(s.out, Reply(answer))

LEMMA GrownMore ==
    ASSUME NEW s, NEW t, NEW A, NEW B, A \subseteq B, Grown(s, t, A)
    PROVE  Grown(s, t, B)
  BY DEF Grown

LEMMA ServerReports ==
    ASSUME NEW s \in ServerType, NEW kind \in EventKinds, kind # "ProgramRequest",
           NEW id \in Nat, NEW arg \in EventArgs,
           NEW t, t = push_event(s, kind, id, arg)
    PROVE  /\ t \in ServerType /\ SameBooks(s, t) /\ NoNewProgram(s, t)
           /\ t.closing = s.closing /\ t.out = s.out
<1>1. /\ t \in ServerType /\ SameBooks(s, t) /\ t.closing = s.closing /\ t.out = s.out
      /\ Heard(s, t, kind, id, arg)
  BY ServerTells
<1>2. News(kind, id, arg) \in Event /\ News(kind, id, arg).kind = kind
  BY NewsType
<1>3. NoNewProgram(s, t)
  BY <1>1, <1>2 DEF NoNewProgram, Heard
<1> QED
  BY <1>1, <1>3

LEMMA Literals ==
    /\ NoArg \in EventArgs /\ Requests \subseteq EventArgs /\ Nat \subseteq EventArgs
    /\ {"Authenticated", "AuthExhausted", "Disconnect", "ProgramRequest", "WindowChange",
        "ChannelEof", "ChannelClose"} \subseteq EventKinds
  BY DEF EventArgs, EventKinds

\* The end of a connection that ran out of attempts.
LEMMA Exhausted ==
    ASSUME NEW s \in ServerType
    PROVE  LET t == push_event(disconnect(s), "AuthExhausted", 0, NoArg)
           IN  /\ t \in ServerType /\ SameBooks(s, t) /\ t.closing
               /\ NoNewProgram(s, t) /\ Grown(s, t, Unanswered)
<1> DEFINE u == disconnect(s)
           t == push_event(u, "AuthExhausted", 0, NoArg)
<1>1. /\ u \in ServerType /\ SameBooks(s, u)
      /\ u.closing /\ u.events = s.events
      /\ Grown(s, u, {"DISCONNECT"})
  BY ServerDisconnects
<1> HIDE DEF u
<1>2. "AuthExhausted" \in EventKinds /\ NoArg \in EventArgs /\ 0 \in Nat
  BY Literals
<1>3. /\ t \in ServerType /\ SameBooks(u, t) /\ NoNewProgram(u, t)
      /\ t.closing = u.closing /\ t.out = u.out
  <2>1. u \in ServerType
    BY <1>1
  <2> QED
    BY <2>1, <1>2, ServerReports
<1> HIDE DEF t
<1>4. NoNewProgram(s, t)
  BY <1>1, <1>3 DEF NoNewProgram
<1>5. Grown(s, t, Unanswered)
  BY <1>1, <1>3 DEF Grown, Unanswered, AuthReplies, MsgTypes
<1>6. /\ t \in ServerType /\ SameBooks(s, t) /\ t.closing
      /\ NoNewProgram(s, t) /\ Grown(s, t, Unanswered)
  BY <1>1, <1>3, <1>4, <1>5 DEF SameBooks
<1> QED
  BY <1>6 DEF t, u

LEMMA FailureSent ==
    ASSUME NEW s \in ServerType, NEW t, t = send_failure(s)
    PROVE  /\ t \in ServerType /\ ChannelKept(s, t)
           /\ t.authenticated = s.authenticated /\ t.auth_requests = s.auth_requests
           /\ t.auth_failures = s.auth_failures + 1
           /\ \/ Grown(s, t, Unanswered)
              \/ t.auth_failures < MaxAuthAttempts /\ Answers(s, t, "USERAUTH_FAILURE")
<1> DEFINE u == [s EXCEPT !.auth_failures = @ + 1]
<1>1. /\ u \in ServerType /\ u.auth_failures = s.auth_failures + 1
      /\ u.authenticated = s.authenticated /\ u.auth_requests = s.auth_requests
      /\ u.channel = s.channel /\ u.program_started = s.program_started
      /\ u.closing = s.closing /\ u.out = s.out /\ u.events = s.events
  <2> DEFINE k == s.auth_failures + 1
  <2>1. k \in Nat /\ u = [s EXCEPT !.auth_failures = k]
    BY DEF ServerType
  <2> HIDE DEF u, k
  <2>2. /\ u \in ServerType /\ u.auth_failures = k
        /\ u.authenticated = s.authenticated /\ u.auth_requests = s.auth_requests
        /\ u.channel = s.channel /\ u.program_started = s.program_started
        /\ u.closing = s.closing /\ u.out = s.out /\ u.events = s.events
    BY <2>1 DEF ServerType
  <2> QED
    BY <2>2 DEF k
<1>2. t = IF u.auth_failures >= MaxAuthAttempts
          THEN push_event(disconnect(u), "AuthExhausted", 0, NoArg)
          ELSE send_packet(u, Reply("USERAUTH_FAILURE"))
  BY DEF send_failure
<1> HIDE DEF u
<1>3. CASE u.auth_failures >= MaxAuthAttempts
  <2>1. /\ t \in ServerType /\ SameBooks(u, t) /\ NoNewProgram(u, t) /\ Grown(u, t, Unanswered)
    BY <1>1, <1>2, <1>3, Exhausted
  <2> QED
    BY <1>1, <2>1 DEF SameBooks, NoNewProgram, Grown, ChannelKept
<1>4. CASE ~(u.auth_failures >= MaxAuthAttempts)
  <2> DEFINE m == Reply("USERAUTH_FAILURE")
  <2>1. m \in Message /\ m.type = "USERAUTH_FAILURE"
    BY ReplyType DEF MsgTypes
  <2>2. t = send_packet(u, m)
    BY <1>2, <1>4
  <2> HIDE DEF m
  <2>3. /\ t \in ServerType /\ SameBooks(u, t) /\ t.events = u.events
        /\ t.out = IF u.closing THEN u.out ELSE Append(u.out, m)
    BY <1>1, <2>1, <2>2, ServerSends
  <2>4. ChannelKept(s, t)
    BY <1>1, <2>3 DEF SameBooks, NoNewProgram, ChannelKept
  <2>5. t.auth_failures < MaxAuthAttempts
    BY <1>1, <1>4, <2>3, ServerAssumption DEF SameBooks, ServerType
  <2>6. CASE s.closing
    <3>1. Grown(s, t, Unanswered)
      BY <1>1, <2>3, <2>6 DEF Grown, ServerType
    <3> QED
      BY <1>1, <2>3, <2>4, <3>1 DEF SameBooks
  <2>7. CASE ~s.closing
    <3>1. Answers(s, t, "USERAUTH_FAILURE")
      BY <1>1, <2>3, <2>7 DEF Answers, m
    <3> QED
      BY <1>1, <2>3, <2>4, <2>5, <3>1 DEF SameBooks
  <2> QED
    BY <2>6, <2>7
<1> QED
  BY <1>3, <1>4

LEMMA AuthFinished ==
    ASSUME NEW s \in ServerType, NEW granted \in BOOLEAN, NEW t, t = finish_auth(s, granted)
    PROVE  /\ t \in ServerType /\ ChannelKept(s, t)
           /\ t.auth_requests = s.auth_requests
           /\ \/ /\ granted /\ t.authenticated /\ t.auth_failures = s.auth_failures
                 /\ t.out = s.out \/ Answers(s, t, "USERAUTH_SUCCESS")
              \/ /\ t.authenticated = s.authenticated
                 /\ t.auth_failures = s.auth_failures + 1
                 /\ \/ Grown(s, t, Unanswered)
                    \/ t.auth_failures < MaxAuthAttempts /\ Answers(s, t, "USERAUTH_FAILURE")
<1>1. CASE ~granted
  <2>1. t = send_failure(s)
    BY <1>1 DEF finish_auth
  <2> QED
    BY <2>1, FailureSent
<1>2. CASE granted
  <2> DEFINE m == Reply("USERAUTH_SUCCESS")
             u == send_packet(s, m)
             v == [u EXCEPT !.authenticated = TRUE]
  <2>1. m \in Message /\ m.type = "USERAUTH_SUCCESS"
    BY ReplyType DEF MsgTypes
  <2>2. t = push_event(v, "Authenticated", 0, NoArg)
    BY <1>2 DEF finish_auth
  <2> HIDE DEF m
  <2>3. /\ u \in ServerType /\ SameBooks(s, u) /\ u.events = s.events
        /\ u.out = IF s.closing THEN s.out ELSE Append(s.out, m)
    BY <2>1, ServerSends
  <2> HIDE DEF u
  <2>4. /\ v \in ServerType /\ v.authenticated /\ v.events = u.events /\ v.out = u.out
        /\ v.channel = u.channel /\ v.program_started = u.program_started
        /\ v.auth_failures = u.auth_failures /\ v.auth_requests = u.auth_requests
    BY <2>3 DEF ServerType
  <2> HIDE DEF v
  <2>5. "Authenticated" \in EventKinds /\ NoArg \in EventArgs /\ 0 \in Nat
    BY Literals
  <2>6. t \in ServerType /\ SameBooks(v, t) /\ NoNewProgram(v, t) /\ t.out = v.out
    BY <2>2, <2>4, <2>5, ServerReports
  <2>7. NoNewProgram(s, t)
    BY <2>3, <2>4, <2>6 DEF NoNewProgram
  <2>8. t.out = s.out \/ Answers(s, t, "USERAUTH_SUCCESS")
    BY <2>3, <2>4, <2>6 DEF Answers, m
  <2> QED
    BY <1>2, <2>3, <2>4, <2>6, <2>7, <2>8 DEF SameBooks, ChannelKept
<1> QED
  BY <1>1, <1>2

LEMMA GrownTwice ==
    ASSUME NEW s, NEW u, NEW t, NEW A, Len(s.out) \in Nat, Len(u.out) \in Nat, Len(t.out) \in Nat,
           Grown(s, u, A), Grown(u, t, A)
    PROVE  Grown(s, t, A)
<1>1. Len(t.out) >= Len(s.out)
  BY DEF Grown
<1>2. ASSUME NEW i \in 1..Len(t.out)
      PROVE  IF i <= Len(s.out) THEN t.out[i] = s.out[i] ELSE t.out[i].type \in A
  <2>1. CASE i <= Len(u.out)
    <3>1. i \in 1..Len(u.out) /\ t.out[i] = u.out[i]
      BY <2>1 DEF Grown
    <3>2. IF i <= Len(s.out) THEN u.out[i] = s.out[i] ELSE u.out[i].type \in A
      BY <3>1 DEF Grown
    <3> QED
      BY <3>1, <3>2
  <2>2. CASE ~(i <= Len(u.out))
    <3>1. ~(i <= Len(s.out)) /\ t.out[i].type \in A
      BY <2>2 DEF Grown
    <3> QED
      BY <3>1
  <2> QED
    BY <2>1, <2>2
<1> QED
  BY <1>1, <1>2 DEF Grown

\* A reply that answers no authentication request.
LEMMA PlainReply ==
    ASSUME NEW s \in ServerType, NEW ty \in Unanswered, NEW t, t = send_packet(s, Reply(ty))
    PROVE  /\ t \in ServerType /\ SameBooks(s, t) /\ t.events = s.events /\ t.closing = s.closing
           /\ t.banner_sent = s.banner_sent
           /\ Grown(s, t, Unanswered)
<1> DEFINE m == Reply(ty)
<1>1. ty \in MsgTypes
  BY DEF Unanswered
<1>2. m \in Message /\ m.type = ty
  BY <1>1, ReplyType
<1> HIDE DEF m
<1>3. t = send_packet(s, m)
  BY DEF m
<1>4. /\ t \in ServerType /\ SameBooks(s, t) /\ t.events = s.events /\ t.closing = s.closing
      /\ t.banner_sent = s.banner_sent /\ Grown(s, t, {m.type})
  BY <1>2, <1>3, ServerSends
<1>5. Grown(s, t, Unanswered)
  <2>1. {m.type} \subseteq Unanswered
    BY <1>2
  <2> QED
    BY <1>4, <2>1, GrownMore
<1> QED
  BY <1>4, <1>5

\* One turn of authentication: at most one answer, and it is counted.
AuthStep(s, t) ==
    /\ t.auth_requests >= s.auth_requests /\ t.auth_failures >= s.auth_failures
    /\ \/ Grown(s, t, Unanswered)
       \/ /\ t.auth_requests = s.auth_requests + 1 /\ t.auth_requests <= MaxAuthRequests
          /\ \/ Answers(s, t, "USERAUTH_PK_OK") /\ ~t.authenticated
             \/ /\ Answers(s, t, "USERAUTH_FAILURE") /\ ~t.authenticated
                /\ t.auth_failures = s.auth_failures + 1 /\ t.auth_failures < MaxAuthAttempts
             \/ Answers(s, t, "USERAUTH_SUCCESS") /\ t.authenticated

LEMMA SameIsStep ==
    ASSUME NEW s \in ServerType, NEW t \in ServerType, SameBooks(s, t), Grown(s, t, Unanswered)
    PROVE  AuthStep(s, t)
  BY DEF SameBooks, AuthStep, ServerType

LEMMA ServiceStep ==
    ASSUME NEW s \in ServerType, NEW m \in Message, NEW t, t = handle_service_request(s, m)
    PROVE  t \in ServerType /\ ChannelKept(s, t) /\ AuthStep(s, t)
<1> DEFINE u == send_packet(s, Reply("SERVICE_ACCEPT"))
           v == send_packet(u, Reply("USERAUTH_BANNER"))
<1>0. {"SERVICE_ACCEPT", "USERAUTH_BANNER", "DISCONNECT"} \subseteq Unanswered
  BY DEF Unanswered, MsgTypes, AuthReplies
<1>1. /\ u \in ServerType /\ SameBooks(s, u) /\ u.events = s.events /\ Grown(s, u, Unanswered)
  BY <1>0, PlainReply
<1>2. CASE m.arg # "ssh-userauth"
  <2>1. t = disconnect(s)
    BY <1>2 DEF handle_service_request
  <2>2. t \in ServerType /\ SameBooks(s, t) /\ t.events = s.events /\ Grown(s, t, {"DISCONNECT"})
    BY <2>1, ServerDisconnects
  <2>3. Grown(s, t, Unanswered)
    <3>1. {"DISCONNECT"} \subseteq Unanswered
      BY <1>0
    <3> QED
      BY <2>2, <3>1, GrownMore
  <2> QED
    BY <2>2, <2>3, SameIsStep DEF SameBooks, ChannelKept, NoNewProgram
<1>3. CASE m.arg = "ssh-userauth" /\ s.banner_sent
  <2>1. t = u
    BY <1>3 DEF handle_service_request
  <2> QED
    BY <1>1, <2>1, SameIsStep DEF SameBooks, ChannelKept, NoNewProgram
<1>4. CASE m.arg = "ssh-userauth" /\ ~s.banner_sent
  <2>1. t = [v EXCEPT !.banner_sent = TRUE]
    BY <1>4 DEF handle_service_request
  <2> HIDE DEF u
  <2>2. v \in ServerType /\ SameBooks(u, v) /\ v.events = u.events /\ Grown(u, v, Unanswered)
    BY <1>0, <1>1, PlainReply
  <2> HIDE DEF v
  <2>3. t \in ServerType /\ SameBooks(v, t) /\ t.out = v.out /\ t.events = v.events
    BY <2>1, <2>2 DEF ServerType, SameBooks
  <2>4. Grown(s, v, Unanswered)
    <3>1. Len(s.out) \in Nat /\ Len(u.out) \in Nat /\ Len(v.out) \in Nat
      <4>1. ASSUME NEW r \in ServerType PROVE Len(r.out) \in Nat
        BY DEF ServerType
      <4> QED
        BY <1>1, <2>2, <4>1
    <3> QED
      BY <1>1, <2>2, <3>1, GrownTwice
  <2>5. Grown(s, t, Unanswered)
    BY <2>3, <2>4 DEF Grown
  <2>6. SameBooks(s, t) /\ t.events = s.events
    BY <1>1, <2>2, <2>3 DEF SameBooks
  <2> QED
    BY <2>3, <2>5, <2>6, SameIsStep DEF SameBooks, ChannelKept, NoNewProgram
<1> QED
  BY <1>2, <1>3, <1>4 DEF ServerType

\* The step from a request that has been counted.
LEMMA CountedStep ==
    ASSUME NEW s \in ServerType, NEW u \in ServerType, NEW t \in ServerType,
           u.auth_requests = s.auth_requests + 1, u.auth_requests <= MaxAuthRequests,
           u.auth_failures = s.auth_failures, u.out = s.out, u.closing = s.closing,
           ~u.authenticated, t.auth_requests = u.auth_requests,
           \/ Grown(u, t, Unanswered) /\ t.auth_failures >= u.auth_failures
           \/ /\ Answers(u, t, "USERAUTH_PK_OK") /\ ~t.authenticated
              /\ t.auth_failures = u.auth_failures
           \/ /\ Answers(u, t, "USERAUTH_FAILURE") /\ ~t.authenticated
              /\ t.auth_failures = u.auth_failures + 1 /\ t.auth_failures < MaxAuthAttempts
           \/ /\ Answers(u, t, "USERAUTH_SUCCESS") /\ t.authenticated
              /\ t.auth_failures = u.auth_failures
    PROVE  AuthStep(s, t)
<1>1. s.auth_failures \in Nat /\ s.auth_requests \in Nat
  BY DEF ServerType
<1>2. CASE Grown(u, t, Unanswered) /\ t.auth_failures >= u.auth_failures
  <2>1. Grown(s, t, Unanswered)
    BY <1>2 DEF Grown
  <2> QED
    BY <1>1, <1>2, <2>1 DEF AuthStep
<1>3. \A a : Answers(u, t, a) => Answers(s, t, a)
  BY DEF Answers
<1> QED
  BY <1>1, <1>2, <1>3 DEF AuthStep

LEMMA UserauthStep ==
    ASSUME NEW s \in ServerType, ~s.authenticated, NEW m \in Message, NEW t, t = handle_userauth(s, m)
    PROVE  t \in ServerType /\ ChannelKept(s, t) /\ AuthStep(s, t)
<1> DEFINE u == CountRequest(s, m)
<1>1. /\ u \in ServerType /\ u.auth_requests = s.auth_requests + 1
      /\ u.auth_failures = s.auth_failures /\ u.out = s.out /\ u.closing = s.closing
      /\ ~u.authenticated /\ u.events = s.events
      /\ u.channel = s.channel /\ u.program_started = s.program_started
      /\ s.auth_failures \in Nat /\ s.auth_requests \in Nat
  BY DEF CountRequest, ServerType
<1>2. t = IF u.auth_requests > MaxAuthRequests
          THEN push_event(disconnect(u), "AuthExhausted", 0, NoArg)
          ELSE CASE Method(m.arg) = "publickey" -> handle_publickey(u, m.arg)
                 [] Method(m.arg) = "password"  -> finish_auth(u, verify_password(m.arg))
                 [] Method(m.arg) = "none"      -> finish_auth(u, allow_none(m.arg))
                 [] OTHER                       -> finish_auth(u, FALSE)
  BY DEF handle_userauth
<1> HIDE DEF u
<1>3. ASSUME ChannelKept(u, t) PROVE ChannelKept(s, t)
  BY <1>1, <1>3 DEF ChannelKept, NoNewProgram
<1>4. CASE u.auth_requests > MaxAuthRequests
  <2>1. t \in ServerType /\ SameBooks(u, t) /\ NoNewProgram(u, t) /\ Grown(u, t, Unanswered)
    BY <1>1, <1>2, <1>4, Exhausted
  <2>2. ChannelKept(s, t)
    BY <1>3, <2>1 DEF ChannelKept, SameBooks
  <2>3. AuthStep(s, t)
    BY <1>1, <2>1 DEF SameBooks, AuthStep, Grown
  <2> QED
    BY <2>1, <2>2, <2>3
<1>5. ASSUME u.auth_requests <= MaxAuthRequests, NEW g \in BOOLEAN, t = finish_auth(u, g)
      PROVE  t \in ServerType /\ ChannelKept(s, t) /\ AuthStep(s, t)
  <2>1. /\ t \in ServerType /\ ChannelKept(u, t) /\ t.auth_requests = u.auth_requests
        /\ \/ /\ t.authenticated /\ t.auth_failures = u.auth_failures
              /\ t.out = u.out \/ Answers(u, t, "USERAUTH_SUCCESS")
           \/ /\ t.authenticated = u.authenticated
              /\ t.auth_failures = u.auth_failures + 1
              /\ \/ Grown(u, t, Unanswered)
                 \/ t.auth_failures < MaxAuthAttempts /\ Answers(u, t, "USERAUTH_FAILURE")
    BY <1>1, <1>5, AuthFinished
  <2>2. t.out = u.out => Grown(u, t, Unanswered)
    BY <1>1 DEF Grown, ServerType
  <2>3. AuthStep(s, t)
    BY <1>1, <1>5, <2>1, <2>2, CountedStep
  <2> QED
    BY <1>3, <2>1, <2>3
<1>6. ASSUME u.auth_requests <= MaxAuthRequests, t = handle_publickey(u, m.arg)
      PROVE  t \in ServerType /\ ChannelKept(s, t) /\ AuthStep(s, t)
  <2>1. CASE t = send_failure(u)
    <3>1. t = finish_auth(u, FALSE)
      BY <2>1 DEF finish_auth
    <3> QED
      BY <1>5, <1>6, <3>1
  <2>2. CASE t = send_packet(u, Reply("USERAUTH_PK_OK"))
    <3> DEFINE r == Reply("USERAUTH_PK_OK")
    <3>1. r \in Message /\ r.type = "USERAUTH_PK_OK"
      BY ReplyType DEF MsgTypes
    <3> HIDE DEF r
    <3>2. /\ t \in ServerType /\ SameBooks(u, t) /\ t.events = u.events
          /\ t.out = IF u.closing THEN u.out ELSE Append(u.out, r)
      <4>1. t = send_packet(u, r)
        BY <2>2 DEF r
      <4> QED
        BY <1>1, <3>1, <4>1, ServerSends, ZenonT(40)
    <3>3. Grown(u, t, Unanswered) \/ Answers(u, t, "USERAUTH_PK_OK")
      <4>1. CASE u.closing
        BY <1>1, <3>2, <4>1 DEF Grown, ServerType
      <4>2. CASE ~u.closing
        BY <3>2, <4>2 DEF Answers, r
      <4> QED
        BY <4>1, <4>2
    <3>4. ~t.authenticated /\ t.auth_requests = u.auth_requests /\ t.auth_failures = u.auth_failures
      BY <1>1, <3>2 DEF SameBooks
    <3>5. AuthStep(s, t)
      BY <1>1, <1>6, <3>2, <3>3, <3>4, CountedStep
    <3>6. ChannelKept(s, t)
      BY <1>3, <3>2 DEF ChannelKept, SameBooks, NoNewProgram
    <3> QED
      BY <3>2, <3>5, <3>6
  <2>3. CASE t = finish_auth(u, verify(m.arg))
    BY <1>5, <1>6, <2>3 DEF verify
  <2> QED
    BY <1>6, <2>1, <2>2, <2>3 DEF handle_publickey
<1>7. MaxAuthRequests \in Nat /\ u.auth_requests \in Nat
  BY <1>1, ServerAssumption
<1>8. CASE ~(u.auth_requests > MaxAuthRequests)
  <2>1. u.auth_requests <= MaxAuthRequests
    BY <1>7, <1>8
  <2>2. \/ t = handle_publickey(u, m.arg)
        \/ t = finish_auth(u, verify_password(m.arg))
        \/ t = finish_auth(u, allow_none(m.arg))
        \/ t = finish_auth(u, FALSE)
    BY <1>2, <1>8
  <2>3. verify_password(m.arg) \in BOOLEAN /\ allow_none(m.arg) \in BOOLEAN
    BY DEF verify_password, allow_none
  <2> QED
    BY <1>5, <1>6, <2>1, <2>2, <2>3
<1> QED
  BY <1>4, <1>8

LEMMA PreauthStep ==
    ASSUME NEW s \in ServerType, ~s.authenticated, NEW m \in Message, NEW t, t = handle_preauth(s, m)
    PROVE  t \in ServerType /\ ChannelKept(s, t) /\ AuthStep(s, t)
<1>1. \/ t = handle_service_request(s, m)
      \/ t = handle_userauth(s, m)
      \/ t = s
  BY DEF handle_preauth
<1>2. CASE t = s
  <2>1. Grown(s, t, Unanswered)
    BY <1>2 DEF Grown, ServerType
  <2> QED
    BY <1>2, <2>1, SameIsStep DEF SameBooks, ChannelKept, NoNewProgram
<1> QED
  BY <1>1, <1>2, ServiceStep, UserauthStep

--------------------------------------------------------------------------------
(* The connection protocol *)

\* What the connection protocol leaves alone.
AuthKept(s, t) ==
    /\ t.authenticated = s.authenticated /\ t.auth_failures = s.auth_failures
    /\ t.auth_requests = s.auth_requests

SameChannel(s, t) == t.channel.open = s.channel.open /\ t.channel.id = s.channel.id

\* The driver is asked to run a program on the channel.
ProgramAsked(s, t) ==
    /\ ~s.program_started /\ t.program_started /\ SameChannel(s, t)
    /\ \E e \in Event : /\ e.kind = "ProgramRequest" /\ e.id = s.channel.id
                        /\ t.events = Append(s.events, e)

Quietly(s, t) == t.program_started = s.program_started /\ NoNewProgram(s, t)

LEMMA ReplyStep ==
    ASSUME NEW s \in ServerType, NEW m \in Message, NEW ok \in BOOLEAN, NEW t, t = ReplyTo(s, m, ok)
    PROVE  t \in ServerType /\ SameBooks(s, t) /\ t.events = s.events /\ Grown(s, t, Unanswered)
<1> DEFINE ty == IF ok THEN "CHANNEL_SUCCESS" ELSE "CHANNEL_FAILURE"
<1>1. ty \in Unanswered
  BY DEF Unanswered, MsgTypes, AuthReplies
<1>2. t = s \/ t = send_packet(s, Reply(ty))
  BY DEF ReplyTo
<1> HIDE DEF ty
<1>3. CASE t = s
  BY <1>3 DEF SameBooks, Grown, ServerType
<1>4. CASE t = send_packet(s, Reply(ty))
  BY <1>1, <1>4, PlainReply
<1> QED
  BY <1>2, <1>3, <1>4

LEMMA OpenStep ==
    ASSUME NEW s \in ServerType, NEW m \in Message, m.arg = "session", ~s.channel.open,
           NEW t, t = handle_channel_open(s, m)
    PROVE  /\ t \in ServerType /\ AuthKept(s, t) /\ Grown(s, t, Unanswered)
           /\ t.channel.open /\ t.channel.id = m.id /\ ~t.program_started /\ t.events = s.events
<1> DEFINE c == [NoChannel EXCEPT !.open = TRUE, !.id = m.id]
           u == [s EXCEPT !.channel = c, !.program_started = FALSE]
<1>1. /\ c \in [open : BOOLEAN, id : Nat, sent_close : BOOLEAN, pty : Nat]
      /\ c.open /\ c.id = m.id
  BY DEF NoChannel, NoPty, Message
<1>2. t = send_packet(u, Reply("CHANNEL_OPEN_CONFIRMATION"))
  BY DEF handle_channel_open
<1> HIDE DEF c
<1>3. /\ u \in ServerType /\ AuthKept(s, u) /\ u.channel = c /\ ~u.program_started
      /\ u.events = s.events /\ u.out = s.out
  BY <1>1 DEF ServerType, AuthKept
<1> HIDE DEF u
<1>4. "CHANNEL_OPEN_CONFIRMATION" \in Unanswered
  BY DEF Unanswered, MsgTypes, AuthReplies
<1>5. t \in ServerType /\ SameBooks(u, t) /\ t.events = u.events /\ Grown(u, t, Unanswered)
  BY <1>2, <1>3, <1>4, PlainReply
<1>6. Grown(s, t, Unanswered)
  BY <1>3, <1>5 DEF Grown
<1> QED
  BY <1>1, <1>3, <1>5, <1>6 DEF SameBooks, AuthKept

LEMMA ProgramStep ==
    ASSUME NEW s \in ServerType, NEW m \in Message, m.arg \in Request,
           NEW t, t = start_program(s, m)
    PROVE  /\ t \in ServerType /\ AuthKept(s, t) /\ Grown(s, t, Unanswered) /\ SameChannel(s, t)
           /\ Quietly(s, t) \/ ProgramAsked(s, t)
<1>1. CASE s.program_started
  <2>1. t = ReplyTo(s, m, FALSE)
    BY <1>1 DEF start_program, MayStart
  <2>2. t \in ServerType /\ SameBooks(s, t) /\ t.events = s.events /\ Grown(s, t, Unanswered)
    BY <2>1, ReplyStep
  <2> QED
    BY <2>2 DEF SameBooks, AuthKept, SameChannel, Quietly, NoNewProgram
<1>2. CASE ~s.program_started
  <2> DEFINE u == [s EXCEPT !.pending_reply = m.want, !.program_started = TRUE]
             id == s.channel.id
             a == m.arg.req
  <2>1. t = push_event(u, "ProgramRequest", id, a)
    BY <1>2 DEF start_program, MayStart
  <2>2. m.want \in BOOLEAN /\ a \in EventArgs /\ id \in Nat /\ "ProgramRequest" \in EventKinds
    BY Literals DEF Message, Request, ServerType
  <2>3. /\ u \in ServerType /\ AuthKept(s, u) /\ u.channel = s.channel /\ u.program_started
        /\ u.events = s.events /\ u.out = s.out
    BY <2>2 DEF ServerType, AuthKept
  <2> HIDE DEF u, id, a
  <2>4. /\ t \in ServerType /\ SameBooks(u, t) /\ t.out = u.out
        /\ Heard(u, t, "ProgramRequest", id, a)
    BY <2>1, <2>2, <2>3, ServerTells
  <2>5. /\ News("ProgramRequest", id, a) \in Event
        /\ News("ProgramRequest", id, a).kind = "ProgramRequest"
        /\ News("ProgramRequest", id, a).id = id
    BY <2>2, NewsType
  <2>6. ProgramAsked(s, t)
    <3>1. t.events = Append(s.events, News("ProgramRequest", id, a))
      BY <2>3, <2>4 DEF Heard
    <3> QED
      BY <1>2, <2>3, <2>4, <2>5, <3>1 DEF ProgramAsked, SameBooks, SameChannel, id
  <2>7. Grown(s, t, Unanswered)
    BY <2>3, <2>4 DEF Grown, ServerType
  <2> QED
    BY <2>3, <2>4, <2>6, <2>7 DEF AuthKept, SameBooks, SameChannel
<1> QED
  BY <1>1, <1>2 DEF ServerType

\* A new size of the channel's terminal.
LEMMA Sized ==
    ASSUME NEW s \in ServerType, NEW size \in Nat, NEW t, t = [s EXCEPT !.channel.pty = size]
    PROVE  /\ t \in ServerType /\ AuthKept(s, t) /\ SameChannel(s, t)
           /\ t.program_started = s.program_started /\ t.events = s.events /\ t.out = s.out
<1> DEFINE c == [s.channel EXCEPT !.pty = size]
           u == [s EXCEPT !.channel = c]
<1>1. /\ c \in [open : BOOLEAN, id : Nat, sent_close : BOOLEAN, pty : Nat]
      /\ c.open = s.channel.open /\ c.id = s.channel.id
  BY DEF ServerType
<1>2. t.channel = c
  BY DEF ServerType
<1>3. DOMAIN t = DOMAIN u /\ \A f \in DOMAIN u : t[f] = u[f]
  BY <1>2 DEF ServerType
<1>4. t = u
  <2>1. t = [f \in DOMAIN t |-> t[f]]
    BY DEF ServerType
  <2>2. u = [f \in DOMAIN u |-> u[f]]
    BY DEF ServerType
  <2> HIDE DEF u
  <2> QED
    BY <1>3, <2>1, <2>2
<1> HIDE DEF c
<1> QED
  BY <1>1, <1>4 DEF ServerType, AuthKept, SameChannel

\* The server has closed its side of the channel.
LEMMA SentClose ==
    ASSUME NEW s \in ServerType, NEW t, t = [s EXCEPT !.channel.sent_close = TRUE]
    PROVE  /\ t \in ServerType /\ AuthKept(s, t) /\ SameChannel(s, t)
           /\ t.program_started = s.program_started /\ t.events = s.events /\ t.out = s.out
<1> DEFINE c == [s.channel EXCEPT !.sent_close = TRUE]
           u == [s EXCEPT !.channel = c]
<1>1. /\ c \in [open : BOOLEAN, id : Nat, sent_close : BOOLEAN, pty : Nat]
      /\ c.open = s.channel.open /\ c.id = s.channel.id
  BY DEF ServerType
<1>2. t.channel = c
  BY DEF ServerType
<1>3. DOMAIN t = DOMAIN u /\ \A f \in DOMAIN u : t[f] = u[f]
  BY <1>2 DEF ServerType
<1>4. t = u
  <2>1. t = [f \in DOMAIN t |-> t[f]]
    BY DEF ServerType
  <2>2. u = [f \in DOMAIN u |-> u[f]]
    BY DEF ServerType
  <2> HIDE DEF u
  <2> QED
    BY <1>3, <2>1, <2>2
<1> HIDE DEF c
<1> QED
  BY <1>1, <1>4 DEF ServerType, AuthKept, SameChannel

LEMMA RequestStep ==
    ASSUME NEW s \in ServerType, NEW m \in Message, m.arg \in Request,
           NEW t, t = handle_channel_request(s, m)
    PROVE  /\ t \in ServerType /\ AuthKept(s, t) /\ Grown(s, t, Unanswered) /\ SameChannel(s, t)
           /\ Quietly(s, t) \/ ProgramAsked(s, t)
<1>0. m.arg.size \in Nat
  BY DEF Request
<1>1. \/ t = start_program(s, m)
      \/ t = ReplyTo(s, m, TRUE) \/ t = ReplyTo(s, m, FALSE)
      \/ t = pty_req(s, m)
      \/ t = window_change(s, m)
  <2> DEFINE r == m.arg.req
  <2>1. CASE r \in Programs
    BY <2>1 DEF handle_channel_request, Programs
  <2>2. CASE r = "env"
    BY <2>2 DEF handle_channel_request, Programs
  <2>3. CASE r = "pty-req"
    BY <2>3 DEF handle_channel_request, Programs
  <2>4. CASE r = "window-change"
    BY <2>4 DEF handle_channel_request, Programs
  <2>5. CASE r \notin Programs \cup {"env", "pty-req", "window-change"}
    BY <2>5 DEF handle_channel_request
  <2> QED
    BY <2>1, <2>2, <2>3, <2>4, <2>5
<1>2. ASSUME NEW u \in ServerType, AuthKept(s, u), SameChannel(s, u), u.out = s.out, Quietly(s, u),
             NEW ok \in BOOLEAN, t = ReplyTo(u, m, ok)
      PROVE  /\ t \in ServerType /\ AuthKept(s, t) /\ Grown(s, t, Unanswered) /\ SameChannel(s, t)
             /\ Quietly(s, t)
  <2>1. t \in ServerType /\ SameBooks(u, t) /\ t.events = u.events /\ Grown(u, t, Unanswered)
    BY <1>2, ReplyStep
  <2>2. Grown(s, t, Unanswered)
    BY <1>2, <2>1 DEF Grown
  <2>3. Quietly(s, t)
    BY <1>2, <2>1 DEF SameBooks, Quietly, NoNewProgram
  <2> QED
    BY <1>2, <2>1, <2>2, <2>3 DEF SameBooks, AuthKept, SameChannel
<1>3. CASE t = ReplyTo(s, m, TRUE) \/ t = ReplyTo(s, m, FALSE)
  <2>1. AuthKept(s, s) /\ SameChannel(s, s) /\ Quietly(s, s)
    BY DEF AuthKept, SameChannel, Quietly, NoNewProgram
  <2> QED
    BY <1>2, <1>3, <2>1
<1>4. CASE t = pty_req(s, m)
  <2> DEFINE g == s.allow_pty /\ s.channel.open
             u == IF g THEN [s EXCEPT !.channel.pty = m.arg.size] ELSE s
  <2>1. t = ReplyTo(u, m, g) /\ g \in BOOLEAN
    BY <1>4 DEF pty_req
  <2>2. u \in ServerType /\ AuthKept(s, u) /\ SameChannel(s, u) /\ u.out = s.out /\ Quietly(s, u)
    <3>1. CASE g
      BY <1>0, <3>1, Sized DEF Quietly, NoNewProgram
    <3>2. CASE ~g
      BY <3>2 DEF AuthKept, SameChannel, Quietly, NoNewProgram
    <3> QED
      BY <3>1, <3>2
  <2> HIDE DEF u, g
  <2> QED
    BY <1>2, <2>1, <2>2
<1>5. CASE t = window_change(s, m)
  <2> DEFINE g == s.channel.open /\ s.channel.pty # NoPty
             v == [s EXCEPT !.channel.pty = m.arg.size]
             u == IF g THEN push_event(v, "WindowChange", s.channel.id, m.arg.size) ELSE s
  <2>1. t = ReplyTo(u, m, g) /\ g \in BOOLEAN
    BY <1>5 DEF window_change
  <2>2. u \in ServerType /\ AuthKept(s, u) /\ SameChannel(s, u) /\ u.out = s.out /\ Quietly(s, u)
    <3>1. CASE g
      <4>1. /\ v \in ServerType /\ AuthKept(s, v) /\ SameChannel(s, v)
            /\ v.program_started = s.program_started /\ v.events = s.events /\ v.out = s.out
        BY <1>0, Sized
      <4>2. u = push_event(v, "WindowChange", s.channel.id, m.arg.size)
        BY <3>1
      <4>3. "WindowChange" \in EventKinds /\ s.channel.id \in Nat /\ m.arg.size \in EventArgs
        BY <1>0, Literals DEF ServerType
      <4> HIDE DEF u, v
      <4>4. u \in ServerType /\ SameBooks(v, u) /\ NoNewProgram(v, u) /\ u.out = v.out
        BY <4>1, <4>2, <4>3, ServerReports
      <4>5. NoNewProgram(s, u)
        BY <4>1, <4>4 DEF NoNewProgram
      <4> QED
        BY <4>1, <4>4, <4>5 DEF SameBooks, AuthKept, SameChannel, Quietly
    <3>2. CASE ~g
      BY <3>2 DEF AuthKept, SameChannel, Quietly, NoNewProgram
    <3> QED
      BY <3>1, <3>2
  <2> HIDE DEF u, g
  <2> QED
    BY <1>2, <2>1, <2>2
<1>6. CASE t = start_program(s, m)
  BY <1>6, ProgramStep
<1> QED
  BY <1>1, <1>3, <1>4, <1>5, <1>6

LEMMA CloseStep ==
    ASSUME NEW s \in ServerType, NEW t, t = handle_channel_close(s)
    PROVE  /\ t \in ServerType /\ AuthKept(s, t) /\ Grown(s, t, Unanswered)
           /\ t.channel = NoChannel /\ NoNewProgram(s, t)
<1> DEFINE u == IF s.channel.open /\ ~s.channel.sent_close
                THEN send_packet(s, Reply("CHANNEL_CLOSE")) ELSE s
           v == [u EXCEPT !.channel = NoChannel, !.program_started = FALSE]
<1>1. t = push_event(v, "ChannelClose", s.channel.id, NoArg)
  BY DEF handle_channel_close
<1>2. "CHANNEL_CLOSE" \in Unanswered
  BY DEF Unanswered, MsgTypes, AuthReplies
<1>3. u \in ServerType /\ SameBooks(s, u) /\ u.events = s.events /\ Grown(s, u, Unanswered)
  <2>1. CASE s.channel.open /\ ~s.channel.sent_close
    BY <1>2, <2>1, PlainReply
  <2>2. CASE ~(s.channel.open /\ ~s.channel.sent_close)
    BY <2>2 DEF SameBooks, Grown, ServerType
  <2> QED
    BY <2>1, <2>2
<1> HIDE DEF u
<1>4. NoChannel \in [open : BOOLEAN, id : Nat, sent_close : BOOLEAN, pty : Nat]
  BY DEF NoChannel, NoPty
<1>5. /\ v \in ServerType /\ AuthKept(u, v) /\ v.channel = NoChannel
      /\ v.events = u.events /\ v.out = u.out
  BY <1>3, <1>4 DEF ServerType, AuthKept
<1> HIDE DEF v
<1>6. "ChannelClose" \in EventKinds /\ s.channel.id \in Nat /\ NoArg \in EventArgs
  BY Literals DEF ServerType
<1>7. t \in ServerType /\ SameBooks(v, t) /\ NoNewProgram(v, t) /\ t.out = v.out
  BY <1>1, <1>5, <1>6, ServerReports
<1>8. Grown(s, t, Unanswered)
  BY <1>3, <1>5, <1>7 DEF Grown
<1>9. NoNewProgram(s, t)
  BY <1>3, <1>5, <1>7 DEF NoNewProgram
<1> QED
  BY <1>3, <1>5, <1>7, <1>8, <1>9 DEF SameBooks, AuthKept

\* CHANNEL_EOF, DISCONNECT, and what the server ignores.
LEMMA QuietStep ==
    ASSUME NEW s \in ServerType, NEW t,
           t = s \/ t = handle_channel_eof(s) \/ t = push_event(s, "Disconnect", 0, NoArg)
    PROVE  t \in ServerType /\ SameBooks(s, t) /\ NoNewProgram(s, t) /\ t.out = s.out
<1>1. CASE t = s
  BY <1>1 DEF SameBooks, NoNewProgram
<1>2. ASSUME NEW kind \in {"ChannelEof", "Disconnect"}, NEW id \in Nat, t = push_event(s, kind, id, NoArg)
      PROVE  t \in ServerType /\ SameBooks(s, t) /\ NoNewProgram(s, t) /\ t.out = s.out
  <2>1. kind \in EventKinds /\ kind # "ProgramRequest" /\ NoArg \in EventArgs
    BY Literals
  <2> QED
    BY <1>2, <2>1, ServerReports
<1>3. s.channel.id \in Nat
  BY DEF ServerType
<1> QED
  BY <1>1, <1>2, <1>3 DEF handle_channel_eof

\* What arrives once the client is authenticated.
LEMMA ConnectionStep ==
    ASSUME NEW s \in ServerType, NEW m \in Message, WellFormed(m),
           m.type = "CHANNEL_OPEN" => m.arg = "session" /\ ~s.channel.open,
           NEW t, t = handle_connection(s, m)
    PROVE  /\ t \in ServerType /\ AuthKept(s, t) /\ Grown(s, t, Unanswered)
           /\ \/ /\ m.type = "CHANNEL_OPEN" /\ t.channel.open /\ t.channel.id = m.id
                 /\ ~t.program_started /\ t.events = s.events
              \/ /\ m.type = "CHANNEL_REQUEST" /\ SameChannel(s, t)
                 /\ Quietly(s, t) \/ ProgramAsked(s, t)
              \/ /\ m.type = "CHANNEL_CLOSE" /\ ~t.channel.open /\ t.channel.id = 0
                 /\ NoNewProgram(s, t)
              \/ /\ m.type \notin {"CHANNEL_OPEN", "CHANNEL_REQUEST", "CHANNEL_CLOSE"}
                 /\ SameChannel(s, t) /\ Quietly(s, t)
<1>1. CASE m.type = "CHANNEL_OPEN"
  <2>1. t = handle_channel_open(s, m)
    BY <1>1 DEF handle_connection
  <2> QED
    BY <1>1, <2>1, OpenStep
<1>2. CASE m.type = "CHANNEL_REQUEST"
  <2>1. t = handle_channel_request(s, m) /\ m.arg \in Request
    BY <1>2 DEF handle_connection, WellFormed
  <2> QED
    BY <1>2, <2>1, RequestStep
<1>3. CASE m.type = "CHANNEL_CLOSE"
  <2>1. t = handle_channel_close(s)
    BY <1>3 DEF handle_connection
  <2>2. ~NoChannel.open /\ NoChannel.id = 0
    BY DEF NoChannel
  <2> QED
    BY <1>3, <2>1, <2>2, CloseStep
<1>4. CASE m.type \notin {"CHANNEL_OPEN", "CHANNEL_REQUEST", "CHANNEL_CLOSE"}
  <2>1. t = s \/ t = handle_channel_eof(s)
    BY <1>4 DEF handle_connection
  <2>2. t \in ServerType /\ SameBooks(s, t) /\ NoNewProgram(s, t) /\ t.out = s.out
    BY <2>1, QuietStep
  <2>3. Grown(s, t, Unanswered)
    BY <2>2 DEF Grown, ServerType
  <2> QED
    BY <1>4, <2>2, <2>3 DEF SameBooks, AuthKept, SameChannel, Quietly
<1> QED
  BY <1>1, <1>2, <1>3, <1>4

\* The server's application makes the server send, and nothing else: the
\* deferred reply is taken, the channel is closed on this side.
LEMMA ReplyTaken ==
    ASSUME NEW s \in ServerType, NEW t, t = accept_channel(s) \/ t = reject_channel(s)
    PROVE  /\ t \in ServerType /\ AuthKept(s, t) /\ Grown(s, t, Unanswered)
           /\ SameChannel(s, t) /\ t.program_started = s.program_started /\ t.events = s.events
<1> DEFINE u == [s EXCEPT !.pending_reply = FALSE]
<1>1. /\ u \in ServerType /\ AuthKept(s, u) /\ SameChannel(s, u)
      /\ u.program_started = s.program_started /\ u.events = s.events /\ u.out = s.out
  BY DEF ServerType, AuthKept, SameChannel
<1>2. /\ {"CHANNEL_SUCCESS", "CHANNEL_FAILURE"} \subseteq Unanswered
  BY DEF Unanswered, MsgTypes, AuthReplies
<1>3. \/ t = s
      \/ \E ty \in {"CHANNEL_SUCCESS", "CHANNEL_FAILURE"} : t = send_packet(u, Reply(ty))
  BY DEF accept_channel, reject_channel
<1> HIDE DEF u
<1>4. CASE t = s
  BY <1>4 DEF AuthKept, SameChannel, Grown, ServerType
<1>5. ASSUME NEW ty \in {"CHANNEL_SUCCESS", "CHANNEL_FAILURE"}, t = send_packet(u, Reply(ty))
      PROVE  /\ t \in ServerType /\ AuthKept(s, t) /\ Grown(s, t, Unanswered)
             /\ SameChannel(s, t) /\ t.program_started = s.program_started /\ t.events = s.events
  <2>1. ty \in Unanswered
    BY <1>2
  <2>2. t \in ServerType /\ SameBooks(u, t) /\ t.events = u.events /\ Grown(u, t, Unanswered)
    BY <1>1, <1>5, <2>1, PlainReply
  <2>3. Grown(s, t, Unanswered)
    BY <1>1, <2>2 DEF Grown
  <2> QED
    BY <1>1, <2>2, <2>3 DEF SameBooks, AuthKept, SameChannel
<1> QED
  BY <1>3, <1>4, <1>5

LEMMA ExitStep ==
    ASSUME NEW s \in ServerType, NEW t, t = channel_exit(s)
    PROVE  /\ t \in ServerType /\ AuthKept(s, t) /\ Grown(s, t, Unanswered)
           /\ SameChannel(s, t) /\ t.program_started = s.program_started /\ t.events = s.events
           /\ ~s.channel.open => t = s
<1>1. CASE ~(s.channel.open /\ ~s.channel.sent_close)
  <2>1. t = s
    BY <1>1 DEF channel_exit
  <2> QED
    BY <2>1 DEF AuthKept, SameChannel, Grown, ServerType
<1>2. CASE s.channel.open /\ ~s.channel.sent_close
  <2> DEFINE u == send_packet(s, Reply("EXIT_STATUS"))
             v == send_packet(u, Reply("CHANNEL_EOF"))
             w == send_packet(v, Reply("CHANNEL_CLOSE"))
  <2>1. {"EXIT_STATUS", "CHANNEL_EOF", "CHANNEL_CLOSE"} \subseteq Unanswered
    BY DEF Unanswered, MsgTypes, AuthReplies
  <2>2. t = [w EXCEPT !.channel.sent_close = TRUE]
    BY <1>2 DEF channel_exit
  <2>3. u \in ServerType /\ SameBooks(s, u) /\ u.events = s.events /\ Grown(s, u, Unanswered)
    BY <2>1, PlainReply
  <2> HIDE DEF u
  <2>4. v \in ServerType /\ SameBooks(u, v) /\ v.events = u.events /\ Grown(u, v, Unanswered)
    BY <2>1, <2>3, PlainReply
  <2> HIDE DEF v
  <2>5. w \in ServerType /\ SameBooks(v, w) /\ w.events = v.events /\ Grown(v, w, Unanswered)
    BY <2>1, <2>4, PlainReply
  <2> HIDE DEF w
  <2>6. t \in ServerType /\ AuthKept(w, t) /\ SameChannel(w, t) /\ t.out = w.out
        /\ t.program_started = w.program_started /\ t.events = w.events
    BY <2>2, <2>5, SentClose
  <2>7. Grown(s, w, Unanswered)
    <3>1. Len(s.out) \in Nat /\ Len(u.out) \in Nat /\ Len(v.out) \in Nat /\ Len(w.out) \in Nat
      <4>1. ASSUME NEW r \in ServerType PROVE Len(r.out) \in Nat
        BY DEF ServerType
      <4> QED
        BY <2>3, <2>4, <2>5, <4>1
    <3>2. Grown(s, v, Unanswered)
      BY <2>3, <2>4, <3>1, GrownTwice
    <3> QED
      BY <2>5, <3>1, <3>2, GrownTwice
  <2>8. Grown(s, t, Unanswered)
    BY <2>6, <2>7 DEF Grown
  <2> QED
    BY <1>2, <2>3, <2>4, <2>5, <2>6, <2>8 DEF SameBooks, AuthKept, SameChannel
<1> QED
  BY <1>1, <1>2

--------------------------------------------------------------------------------
(* What the client's operators do *)

\* A message that neither opens nor closes a channel of the client; a request is about
\* the open one, or about none.
Ordinary(c, m) ==
    /\ m.type # "CHANNEL_OPEN"
    /\ m.type = "CHANNEL_CLOSE" => m.id = 0
    /\ m.type = "CHANNEL_REQUEST" => /\ m.arg \in Request
                                     /\ m.id = 0 \/ (c.channel.open /\ m.id = c.channel.id)

\* d still has the channel of c, and has sent ordinary messages only.
Continues(c, d) ==
    /\ d.channel.open = c.channel.open /\ d.channel.id = c.channel.id
    /\ d.channel.sent_close = c.channel.sent_close
    /\ d.opens = c.opens /\ d.closing = c.closing
    /\ Len(d.out) >= Len(c.out)
    /\ \A i \in 1..Len(d.out) : IF i <= Len(c.out) THEN d.out[i] = c.out[i]
                                ELSE Ordinary(c, d.out[i])

\* Everything but the channel and what was sent and told.
SameDesk(c, d) ==
    /\ d.state = c.state /\ d.host_rejected = c.host_rejected /\ d.pending = c.pending
    /\ d.want_pty = c.want_pty /\ d.reply_queue = c.reply_queue /\ d.attempts = c.attempts
    /\ d.opens = c.opens /\ d.closing = c.closing

LEMMA ContinuesTwice ==
    ASSUME NEW c \in ClientType, NEW d \in ClientType, NEW e \in ClientType,
           Continues(c, d), Continues(d, e)
    PROVE  Continues(c, e)
<1>1. Len(c.out) \in Nat /\ Len(d.out) \in Nat /\ Len(e.out) \in Nat
  <2>1. ASSUME NEW r \in ClientType PROVE Len(r.out) \in Nat
    BY DEF ClientType
  <2> QED
    BY <2>1
<1>2. ASSUME NEW i \in 1..Len(e.out)
      PROVE  IF i <= Len(c.out) THEN e.out[i] = c.out[i] ELSE Ordinary(c, e.out[i])
  <2>1. CASE i <= Len(d.out)
    <3>1. i \in 1..Len(d.out) /\ e.out[i] = d.out[i]
      BY <1>1, <2>1 DEF Continues
    <3>2. IF i <= Len(c.out) THEN d.out[i] = c.out[i] ELSE Ordinary(c, d.out[i])
      BY <3>1 DEF Continues
    <3> QED
      BY <3>1, <3>2
  <2>2. CASE ~(i <= Len(d.out))
    <3>1. ~(i <= Len(c.out)) /\ Ordinary(d, e.out[i])
      BY <1>1, <2>2 DEF Continues
    <3>2. Ordinary(c, e.out[i])
      BY <3>1 DEF Ordinary, Continues
    <3> QED
      BY <3>1, <3>2
  <2> QED
    BY <2>1, <2>2
<1>3. Len(e.out) >= Len(c.out)
  BY <1>1 DEF Continues
<1> QED
  BY <1>2, <1>3 DEF Continues

LEMMA ContinuesSame ==
    ASSUME NEW c \in ClientType, NEW d,
           d.channel.open = c.channel.open, d.channel.id = c.channel.id,
           d.channel.sent_close = c.channel.sent_close,
           d.opens = c.opens, d.closing = c.closing, d.out = c.out
    PROVE  Continues(c, d)
  BY DEF Continues, ClientType

LEMMA ClientSends ==
    ASSUME NEW c \in ClientType, NEW m \in Message, NEW d, d = send_packet(c, m)
    PROVE  /\ d \in ClientType /\ SameDesk(c, d) /\ d.channel = c.channel /\ d.told = c.told
           /\ d.out = IF c.closing THEN c.out ELSE Append(c.out, m)
           /\ Ordinary(c, m) => Continues(c, d)
<1>1. CASE c.closing
  <2>1. d = c
    BY <1>1 DEF send_packet
  <2> QED
    BY <1>1, <2>1, ContinuesSame DEF SameDesk
<1>2. CASE ~c.closing
  <2> DEFINE o == Append(c.out, m)
  <2>1. o \in Seq(Message) /\ Len(o) = Len(c.out) + 1
        /\ \A i \in 1..Len(o) : o[i] = IF i <= Len(c.out) THEN c.out[i] ELSE m
    BY DEF ClientType
  <2>0. Len(c.out) \in Nat
    BY DEF ClientType
  <2> HIDE DEF o
  <2>2. d = [c EXCEPT !.out = o]
    BY <1>2 DEF send_packet, o
  <2>3. /\ d \in ClientType /\ SameDesk(c, d) /\ d.channel = c.channel /\ d.told = c.told
        /\ d.out = o
    BY <2>1, <2>2 DEF ClientType, SameDesk
  <2>4. Ordinary(c, m) => Continues(c, d)
    BY <2>0, <2>1, <2>3 DEF Continues, SameDesk
  <2> QED
    BY <1>2, <2>3, <2>4 DEF o
<1> QED
  BY <1>1, <1>2 DEF ClientType

LEMMA ClientTells ==
    ASSUME NEW c \in ClientType, NEW kind \in Told, NEW id \in Nat, NEW d, d = tell(c, kind, id)
    PROVE  /\ d \in ClientType /\ SameDesk(c, d) /\ d.channel = c.channel /\ d.out = c.out
           /\ Continues(c, d)
<1> DEFINE e == <<kind, id>>
           n == c.told \cup {e}
<1>1. e \in Told \X Nat
  OBVIOUS
<1> HIDE DEF e
<1>2. n \in SUBSET (Told \X Nat)
  BY <1>1 DEF ClientType
<1> HIDE DEF n
<1>3. d = [c EXCEPT !.told = n]
  BY DEF tell, n, e
<1>4. d \in ClientType /\ SameDesk(c, d) /\ d.channel = c.channel /\ d.out = c.out
  BY <1>2, <1>3 DEF ClientType, SameDesk
<1> QED
  BY <1>4, ContinuesSame DEF SameDesk

\* One field of the client's channel changes.
LEMMA ChannelSet ==
    ASSUME NEW c \in ClientType, NEW ch \in ClientChannel,
           ch.open = c.channel.open, ch.id = c.channel.id, ch.sent_close = c.channel.sent_close,
           NEW d, d = [c EXCEPT !.channel = ch]
    PROVE  d \in ClientType /\ SameDesk(c, d) /\ d.channel = ch /\ d.out = c.out /\ Continues(c, d)
<1>1. d \in ClientType /\ SameDesk(c, d) /\ d.channel = ch /\ d.out = c.out
  BY DEF ClientType, SameDesk
<1> QED
  BY <1>1, ContinuesSame DEF SameDesk

LEMMA ChannelMarked ==
    ASSUME NEW c \in ClientType, NEW d,
           \/ d = [c EXCEPT !.channel.ready = TRUE]
           \/ d = [c EXCEPT !.channel.sent_eof = TRUE]
           \/ d = [c EXCEPT !.channel.want_eof = TRUE]
    PROVE  d \in ClientType /\ SameDesk(c, d) /\ d.out = c.out /\ Continues(c, d)
<1>0. c.channel \in ClientChannel
  BY DEF ClientType
<1>1. ASSUME NEW ch \in ClientChannel,
             ch.open = c.channel.open, ch.id = c.channel.id, ch.sent_close = c.channel.sent_close,
             d.channel = ch, d = [f \in DOMAIN c |-> IF f = "channel" THEN ch ELSE c[f]]
      PROVE  d \in ClientType /\ SameDesk(c, d) /\ d.out = c.out /\ Continues(c, d)
  <2>1. d = [c EXCEPT !.channel = ch]
    BY <1>1 DEF ClientType
  <2> QED
    BY <1>1, <2>1, ChannelSet
<1>2. CASE d = [c EXCEPT !.channel.ready = TRUE]
  <2> DEFINE ch == [c.channel EXCEPT !.ready = TRUE]
  <2>1. /\ ch \in ClientChannel
        /\ ch.open = c.channel.open /\ ch.id = c.channel.id /\ ch.sent_close = c.channel.sent_close
    BY <1>0 DEF ClientChannel
  <2>2. d.channel = ch /\ d = [f \in DOMAIN c |-> IF f = "channel" THEN ch ELSE c[f]]
    BY <1>2 DEF ClientType
  <2> HIDE DEF ch
  <2> QED
    BY <1>1, <2>1, <2>2
<1>3. CASE d = [c EXCEPT !.channel.sent_eof = TRUE]
  <2> DEFINE ch == [c.channel EXCEPT !.sent_eof = TRUE]
  <2>1. /\ ch \in ClientChannel
        /\ ch.open = c.channel.open /\ ch.id = c.channel.id /\ ch.sent_close = c.channel.sent_close
    BY <1>0 DEF ClientChannel
  <2>2. d.channel = ch /\ d = [f \in DOMAIN c |-> IF f = "channel" THEN ch ELSE c[f]]
    BY <1>3 DEF ClientType
  <2> HIDE DEF ch
  <2> QED
    BY <1>1, <2>1, <2>2
<1>4. CASE d = [c EXCEPT !.channel.want_eof = TRUE]
  <2> DEFINE ch == [c.channel EXCEPT !.want_eof = TRUE]
  <2>1. /\ ch \in ClientChannel
        /\ ch.open = c.channel.open /\ ch.id = c.channel.id /\ ch.sent_close = c.channel.sent_close
    BY <1>0 DEF ClientChannel
  <2>2. d.channel = ch /\ d = [f \in DOMAIN c |-> IF f = "channel" THEN ch ELSE c[f]]
    BY <1>4 DEF ClientType
  <2> HIDE DEF ch
  <2> QED
    BY <1>1, <2>1, <2>2
<1> QED
  BY <1>2, <1>3, <1>4

\* A request that wants a reply, and one that does not.
Asking(r, size, id) == ChannelRequest(r, size, TRUE, id)
Saying(r, size, id) == ChannelRequest(r, size, FALSE, id)

LEMMA RequestType ==
    ASSUME NEW r \in Requests, NEW size \in Nat, NEW id \in Nat,
           NEW m, m = Asking(r, size, id) \/ m = Saying(r, size, id)
    PROVE  m \in Message /\ m.type = "CHANNEL_REQUEST" /\ m.arg \in Request /\ m.id = id
<1> DEFINE a == [req |-> r, size |-> size]
<1>1. a \in Request
  BY DEF Request
<1>2. "CHANNEL_REQUEST" \in MsgTypes
  BY DEF MsgTypes
<1>3. CASE m = Asking(r, size, id)
  <2>1. m = [type |-> "CHANNEL_REQUEST", arg |-> a, want |-> TRUE, id |-> id]
    BY <1>3 DEF Asking, ChannelRequest, Msg
  <2> HIDE DEF a
  <2> QED
    BY <1>1, <1>2, <2>1 DEF Message
<1>4. CASE m = Saying(r, size, id)
  <2>1. m = [type |-> "CHANNEL_REQUEST", arg |-> a, want |-> FALSE, id |-> id]
    BY <1>4 DEF Saying, ChannelRequest, Msg
  <2> HIDE DEF a
  <2> QED
    BY <1>1, <1>2, <2>1 DEF Message
<1> QED
  BY <1>3, <1>4

\* A request about the client's own channel.
LEMMA RequestSent ==
    ASSUME NEW c \in ClientType, c.channel.open, NEW r \in Requests, NEW size \in Nat,
           NEW m, m = Asking(r, size, c.channel.id) \/ m = Saying(r, size, c.channel.id),
           NEW d, d = send_packet(c, m)
    PROVE  d \in ClientType /\ SameDesk(c, d) /\ d.channel = c.channel /\ Continues(c, d)
<1>1. c.channel.id \in Nat
  BY DEF ClientType, ClientChannel
<1>2. m \in Message /\ Ordinary(c, m)
  BY <1>1, RequestType DEF Ordinary
<1> QED
  BY <1>2, ClientSends

\* Messages about no channel, and the end of the input.
Note(ty, a, id) == Msg(ty, a, FALSE, id)

LEMMA PlainSent ==
    ASSUME NEW c \in ClientType,
           NEW ty \in {"SERVICE_REQUEST", "USERAUTH_REQUEST", "CHANNEL_EOF", "DISCONNECT"},
           NEW a \in Words, NEW id \in Nat,
           NEW d, d = send_packet(c, Note(ty, a, id))
    PROVE  /\ d \in ClientType /\ SameDesk(c, d) /\ d.channel = c.channel /\ Continues(c, d)
           /\ d.out = IF c.closing THEN c.out ELSE Append(c.out, Note(ty, a, id))
<1> DEFINE m == Note(ty, a, id)
<1>1. ty \in MsgTypes
  BY DEF MsgTypes
<1>2. m \in Message /\ m.type = ty
  BY <1>1 DEF Note, Msg, Message
<1> HIDE DEF m
<1>3. Ordinary(c, m)
  BY <1>2 DEF Ordinary
<1>5. d = send_packet(c, m)
  BY DEF m
<1>4. /\ d \in ClientType /\ SameDesk(c, d) /\ d.channel = c.channel /\ Continues(c, d)
      /\ d.out = IF c.closing THEN c.out ELSE Append(c.out, m)
  BY <1>2, <1>3, <1>5, ClientSends
<1> QED
  BY <1>4 DEF m

LEMMA EofFlushed ==
    ASSUME NEW c \in ClientType, NEW d, d = flush_channel(c)
    PROVE  d \in ClientType /\ d.state = c.state /\ Continues(c, d)
<1>1. CASE ~(c.channel.open /\ c.channel.want_eof /\ ~c.channel.sent_eof)
  <2>1. d = c
    BY <1>1 DEF flush_channel
  <2> QED
    BY <2>1, ContinuesSame
<1>2. CASE c.channel.open /\ c.channel.want_eof /\ ~c.channel.sent_eof
  <2> DEFINE e == send_packet(c, Note("CHANNEL_EOF", NoArg, c.channel.id))
  <2>1. d = [e EXCEPT !.channel.sent_eof = TRUE]
    BY <1>2 DEF flush_channel, Note
  <2>2. c.channel.id \in Nat /\ NoArg \in Words
    BY DEF ClientType, ClientChannel, Words
  <2>3. e \in ClientType /\ SameDesk(c, e) /\ Continues(c, e)
    BY <2>2, PlainSent
  <2> HIDE DEF e
  <2>4. d \in ClientType /\ SameDesk(e, d) /\ Continues(e, d)
    BY <2>1, <2>3, ChannelMarked
  <2> QED
    BY <2>3, <2>4, ContinuesTwice DEF SameDesk
<1> QED
  BY <1>1, <1>2

LEMMA InputEnded ==
    ASSUME NEW c \in ClientType, NEW d, d = send_eof(c)
    PROVE  d \in ClientType /\ d.state = c.state /\ Continues(c, d)
<1> DEFINE e == IF c.channel.open THEN [c EXCEPT !.channel.want_eof = TRUE] ELSE c
<1>1. d = flush_channel(e)
  BY DEF send_eof
<1>2. e \in ClientType /\ SameDesk(c, e) /\ Continues(c, e)
  <2>1. CASE c.channel.open
    BY <2>1, ChannelMarked
  <2>2. CASE ~c.channel.open
    BY <2>2, ContinuesSame DEF SameDesk
  <2> QED
    BY <2>1, <2>2
<1> HIDE DEF e
<1>3. d \in ClientType /\ d.state = e.state /\ Continues(e, d)
  BY <1>1, <1>2, EofFlushed
<1> QED
  BY <1>2, <1>3, ContinuesTwice DEF SameDesk

LEMMA NextAuthTried ==
    ASSUME NEW c \in ClientType, NEW d, d = try_next_auth(c)
    PROVE  d \in ClientType /\ d.state \in {c.state, "Done"} /\ Continues(c, d)
<1>1. CASE c.attempts = <<>>
  <2> DEFINE e == tell(c, "AuthFailed", 0)
  <2>1. d = [e EXCEPT !.state = "Done"]
    BY <1>1 DEF try_next_auth
  <2>2. e \in ClientType /\ SameDesk(c, e) /\ e.channel = c.channel /\ e.out = c.out /\ Continues(c, e)
    <3>1. "AuthFailed" \in Told /\ 0 \in Nat
      BY DEF Told
    <3> QED
      BY <3>1, ClientTells
  <2> HIDE DEF e
  <2>3. /\ d \in ClientType /\ d.state = "Done" /\ d.channel = e.channel /\ d.out = e.out
        /\ d.opens = e.opens /\ d.closing = e.closing
    BY <2>1, <2>2 DEF ClientType, States
  <2>4. Continues(e, d)
    BY <2>2, <2>3, ContinuesSame
  <2> QED
    BY <2>2, <2>3, <2>4, ContinuesTwice
<1>2. CASE c.attempts # <<>>
  <2> DEFINE q == Tail(c.attempts)
             e == [c EXCEPT !.attempts = q]
             a == Head(c.attempts)
  <2>1. d = send_packet(e, Note("USERAUTH_REQUEST", a, 0))
    BY <1>2 DEF try_next_auth, Note
  <2>2. q \in Seq(Credentials) /\ a \in Words
    <3>1. c.attempts \in Seq(Credentials)
      BY DEF ClientType
    <3> QED
      BY <1>2, <3>1 DEF Words
  <2> HIDE DEF q, a
  <2>3. /\ e \in ClientType /\ e.state = c.state /\ e.channel = c.channel /\ e.out = c.out
        /\ e.opens = c.opens /\ e.closing = c.closing
    BY <2>2 DEF ClientType
  <2>4. Continues(c, e)
    BY <2>3, ContinuesSame
  <2> HIDE DEF e
  <2>5. d \in ClientType /\ SameDesk(e, d) /\ Continues(e, d)
    BY <2>1, <2>2, <2>3, PlainSent
  <2> QED
    BY <2>3, <2>4, <2>5, ContinuesTwice DEF SameDesk
<1> QED
  BY <1>1, <1>2

Awaitable == [kind : {"Pty", "Session"}, id : Nat]

LEMMA AwaitedType ==
    ASSUME NEW c \in ClientType
    PROVE  Awaited(c) \in Seq(Awaitable)
<1>1. c.channel.id \in Nat
  BY DEF ClientType, ClientChannel
<1>2. ASSUME NEW k \in {"Pty", "Session"}
      PROVE  <<[kind |-> k, id |-> c.channel.id]>> \in Seq(Awaitable)
  BY <1>1 DEF Awaitable
<1>3. <<>> \in Seq(Awaitable)
  OBVIOUS
<1>4. /\ (IF c.want_pty = NoPty THEN <<>> ELSE <<[kind |-> "Pty", id |-> c.channel.id]>>) \in Seq(Awaitable)
      /\ (IF c.pending = "none" THEN <<>> ELSE <<[kind |-> "Session", id |-> c.channel.id]>>) \in Seq(Awaitable)
  BY <1>2, <1>3
<1> QED
  BY <1>4 DEF Awaited

LEMMA OpenConfirmed ==
    ASSUME NEW c \in ClientType, NEW d, d = handle_open_confirmation(c)
    PROVE  d \in ClientType /\ d.state = c.state /\ Continues(c, d)
<1>1. CASE ~c.channel.open
  <2>1. d = c
    BY <1>1 DEF handle_open_confirmation
  <2> QED
    BY <2>1, ContinuesSame
<1>2. CASE c.channel.open
  <2> DEFINE id == c.channel.id
             a == [c EXCEPT !.channel.ready = TRUE]
             r == tell(a, "ChannelReady", id)
             p == IF c.want_pty = NoPty THEN r
                  ELSE send_packet(r, ChannelRequest("pty-req", c.want_pty, TRUE, id))
             n == IF c.pending = "none" THEN p
                  ELSE send_packet(p, ChannelRequest(c.pending, NoPty, TRUE, id))
             e == [n EXCEPT !.want_pty = NoPty, !.pending = "none", !.reply_queue = @ \o Awaited(c)]
  <2>1. d = flush_channel(e)
    BY <1>2 DEF handle_open_confirmation
  <2>2. a \in ClientType /\ SameDesk(c, a) /\ Continues(c, a)
    BY ChannelMarked
  <2> HIDE DEF a
  <2>3. r \in ClientType /\ SameDesk(a, r) /\ Continues(a, r)
    <3>1. "ChannelReady" \in Told /\ id \in Nat
      BY DEF Told, ClientType, ClientChannel
    <3> QED
      BY <2>2, <3>1, ClientTells
  <2> HIDE DEF r
  <2>4. r.channel.open /\ r.channel.id = id /\ Continues(c, r) /\ SameDesk(c, r)
    BY <1>2, <2>2, <2>3, ContinuesTwice, ZenonT(40) DEF Continues, SameDesk
  <2>5. p \in ClientType /\ SameDesk(r, p) /\ p.channel = r.channel /\ Continues(r, p)
    <3>1. CASE c.want_pty = NoPty
      BY <2>3, <3>1, ContinuesSame DEF SameDesk
    <3>2. CASE c.want_pty # NoPty
      <4>1. "pty-req" \in Requests /\ c.want_pty \in Nat
        BY DEF Requests, ClientType
      <4>2. p = send_packet(r, Asking("pty-req", c.want_pty, r.channel.id))
        BY <2>4, <3>2 DEF Asking
      <4> HIDE DEF p
      <4> QED
        BY <2>3, <2>4, <4>1, <4>2, RequestSent
    <3> QED
      BY <3>1, <3>2
  <2> HIDE DEF p
  <2>6. n \in ClientType /\ SameDesk(p, n) /\ n.channel = p.channel /\ Continues(p, n)
    <3>1. CASE c.pending = "none"
      BY <2>5, <3>1, ContinuesSame DEF SameDesk
    <3>2. CASE c.pending # "none"
      <4>1. c.pending \in Requests /\ NoPty \in Nat
        BY <3>2 DEF Requests, ClientType, NoPty
      <4>2. n = send_packet(p, Asking(c.pending, NoPty, p.channel.id))
        BY <2>4, <2>5, <3>2 DEF Asking
      <4> HIDE DEF n
      <4>3. p.channel.open
        BY <2>4, <2>5
      <4> QED
        BY <2>5, <4>1, <4>2, <4>3, RequestSent
    <3> QED
      BY <3>1, <3>2
  <2> HIDE DEF n
  <2>7. /\ e \in ClientType /\ e.state = n.state /\ e.channel = n.channel /\ e.out = n.out
        /\ e.opens = n.opens /\ e.closing = n.closing
    <3>1. Awaited(c) \in Seq(Awaitable) /\ n.reply_queue \in Seq(Awaitable)
      BY <2>6, AwaitedType DEF ClientType, Awaitable
    <3> DEFINE q == n.reply_queue \o Awaited(c)
    <3>2. q \in Seq(Awaitable)
      BY <3>1
    <3>3. e = [n EXCEPT !.want_pty = NoPty, !.pending = "none", !.reply_queue = q]
      OBVIOUS
    <3> HIDE DEF q, e
    <3> QED
      BY <2>6, <3>2, <3>3 DEF ClientType, Awaitable, NoPty
  <2> HIDE DEF e
  <2>8. Continues(n, e)
    BY <2>6, <2>7, ContinuesSame
  <2>9. d \in ClientType /\ d.state = e.state /\ Continues(e, d)
    BY <2>1, <2>7, EofFlushed
  <2>10. Continues(c, p)
    BY <2>3, <2>4, <2>5, ContinuesTwice
  <2>11. Continues(c, n)
    BY <2>5, <2>6, <2>10, ContinuesTwice
  <2>12. Continues(c, e)
    BY <2>6, <2>7, <2>8, <2>11, ContinuesTwice
  <2> QED
    BY <2>4, <2>5, <2>6, <2>7, <2>9, <2>12, ContinuesTwice DEF SameDesk
<1> QED
  BY <1>1, <1>2

CloseOf(id) == Msg("CHANNEL_CLOSE", NoArg, FALSE, id)
OpenOf(id) == Msg("CHANNEL_OPEN", "session", FALSE, id)

LEMMA EndsType ==
    ASSUME NEW id \in Nat
    PROVE  /\ CloseOf(id) \in Message /\ CloseOf(id).type = "CHANNEL_CLOSE" /\ CloseOf(id).id = id
           /\ OpenOf(id) \in Message /\ OpenOf(id).type = "CHANNEL_OPEN" /\ OpenOf(id).id = id
           /\ OpenOf(id).arg = "session"
  BY DEF CloseOf, OpenOf, Msg, Message, MsgTypes, Words

\* The client's channel is gone, and the server is told so.
Closes(c, d) ==
    /\ ~d.channel.open /\ ~d.channel.sent_close
    /\ d.opens = c.opens /\ d.closing = c.closing
    /\ IF c.channel.open /\ ~c.channel.sent_close /\ ~c.closing
       THEN d.out = Append(c.out, CloseOf(c.channel.id))
       ELSE d.out = c.out

LEMMA ChannelDropped ==
    ASSUME NEW c \in ClientType,
           NEW d, d = [c EXCEPT !.channel = NoClientChannel, !.reply_queue = <<>>]
    PROVE  /\ d \in ClientType /\ ~d.channel.open /\ ~d.channel.sent_close
           /\ d.state = c.state /\ d.opens = c.opens /\ d.closing = c.closing /\ d.out = c.out
<1>1. NoClientChannel \in ClientChannel /\ ~NoClientChannel.open /\ ~NoClientChannel.sent_close
  BY DEF NoClientChannel, ClientChannel
<1>2. <<>> \in Seq([kind : {"Pty", "Session"}, id : Nat])
  OBVIOUS
<1> QED
  BY <1>1, <1>2 DEF ClientType

LEMMA ChannelClosed ==
    ASSUME NEW c \in ClientType, NEW d, d = handle_close(c)
    PROVE  d \in ClientType /\ d.state = c.state /\ Closes(c, d)
<1> DEFINE t == IF c.channel.open /\ ~c.channel.sent_close
                THEN send_packet(c, CloseOf(c.channel.id)) ELSE c
           e == [t EXCEPT !.channel = NoClientChannel, !.reply_queue = <<>>]
<1>1. d = tell(e, "ChannelClosed", c.channel.id)
  BY DEF handle_close, CloseOf
<1>2. "ChannelClosed" \in Told /\ c.channel.id \in Nat
  BY DEF Told, ClientType, ClientChannel
<1>3. /\ t \in ClientType /\ SameDesk(c, t)
      /\ IF c.channel.open /\ ~c.channel.sent_close /\ ~c.closing
         THEN t.out = Append(c.out, CloseOf(c.channel.id))
         ELSE t.out = c.out
  <2>1. CloseOf(c.channel.id) \in Message
    BY <1>2, EndsType
  <2>2. CASE c.channel.open /\ ~c.channel.sent_close
    BY <2>1, <2>2, ClientSends
  <2>3. CASE ~(c.channel.open /\ ~c.channel.sent_close)
    BY <2>3 DEF SameDesk
  <2> QED
    BY <2>2, <2>3
<1> HIDE DEF t
<1>4. /\ e \in ClientType /\ ~e.channel.open /\ ~e.channel.sent_close
      /\ e.state = t.state /\ e.opens = t.opens /\ e.closing = t.closing /\ e.out = t.out
  BY <1>3, ChannelDropped
<1> HIDE DEF e
<1>5. d \in ClientType /\ SameDesk(e, d) /\ d.channel = e.channel /\ d.out = e.out
  BY <1>1, <1>2, <1>4, ClientTells
<1> QED
  BY <1>3, <1>4, <1>5 DEF SameDesk, Closes

LEMMA ReplyPopped ==
    ASSUME NEW c \in ClientType, NEW d, d = Popped(c)
    PROVE  /\ d \in ClientType /\ d.state = c.state /\ d.channel = c.channel /\ d.out = c.out
           /\ d.opens = c.opens /\ d.closing = c.closing /\ Continues(c, d)
<1> DEFINE q == IF c.reply_queue = <<>> THEN c.reply_queue ELSE Tail(c.reply_queue)
<1>1. c.reply_queue \in Seq([kind : {"Pty", "Session"}, id : Nat])
  BY DEF ClientType
<1>2. q \in Seq([kind : {"Pty", "Session"}, id : Nat])
  BY <1>1
<1>3. d = [c EXCEPT !.reply_queue = q]
  BY DEF Popped
<1> HIDE DEF q
<1>4. /\ d \in ClientType /\ d.state = c.state /\ d.channel = c.channel /\ d.out = c.out
      /\ d.opens = c.opens /\ d.closing = c.closing
  BY <1>2, <1>3 DEF ClientType
<1> QED
  BY <1>4, ContinuesSame

LEMMA RequestAnswered ==
    ASSUME NEW c \in ClientType, NEW d, d = handle_success(c) \/ d = handle_failure(c)
    PROVE  d \in ClientType /\ d.state = c.state /\ (Continues(c, d) \/ Closes(c, d))
<1> DEFINE p == Popped(c)
           id == Head(c.reply_queue).id
<1>1. /\ p \in ClientType /\ p.state = c.state /\ p.channel = c.channel /\ p.out = c.out
      /\ p.opens = c.opens /\ p.closing = c.closing /\ Continues(c, p)
  BY ReplyPopped
<1>2. c.channel.id \in Nat /\ {"PtyGranted", "PtyRefused", "RequestFailed"} \subseteq Told
  BY DEF Told, ClientType, ClientChannel
<1>3. \/ d = p
      \/ c.reply_queue # <<>> /\ (d = tell(p, "PtyGranted", id) \/ d = tell(p, "PtyRefused", id))
      \/ d = handle_close(tell(p, "RequestFailed", c.channel.id))
  BY DEF handle_success, handle_failure, handle_request_failure
<1> HIDE DEF p
<1>4. CASE c.reply_queue # <<>> /\ (d = tell(p, "PtyGranted", id) \/ d = tell(p, "PtyRefused", id))
  <2>1. c.reply_queue \in Seq([kind : {"Pty", "Session"}, id : Nat])
    BY DEF ClientType
  <2>2. id \in Nat
    <3>0. c.reply_queue # <<>>
      BY <1>4
    <3>1. Head(c.reply_queue) \in [kind : {"Pty", "Session"}, id : Nat]
      BY <3>0, <2>1, HeadTailProperties
    <3> QED
      BY <3>1
  <2> HIDE DEF id
  <2>3. d \in ClientType /\ SameDesk(p, d) /\ Continues(p, d)
    BY <1>1, <1>2, <1>4, <2>2, ClientTells
  <2> QED
    BY <1>1, <2>3, ContinuesTwice DEF SameDesk
<1>5. CASE d = handle_close(tell(p, "RequestFailed", c.channel.id))
  <2> DEFINE e == tell(p, "RequestFailed", c.channel.id)
  <2>1. e \in ClientType /\ SameDesk(p, e) /\ e.channel = p.channel /\ e.out = p.out
    <3>1. "RequestFailed" \in Told /\ c.channel.id \in Nat /\ p \in ClientType
      BY <1>1, <1>2
    <3> QED
      BY <3>1, ClientTells
  <2>2. d = handle_close(e)
    BY <1>5
  <2> HIDE DEF e
  <2>3. d \in ClientType /\ d.state = e.state /\ Closes(e, d)
    BY <2>1, <2>2, ChannelClosed
  <2> QED
    BY <1>1, <2>1, <2>3 DEF SameDesk, Closes
<1> QED
  BY <1>1, <1>3, <1>4, <1>5

LEMMA ClientHandles ==
    ASSUME NEW c \in ClientType, NEW m \in Message, m.type # "CHANNEL_OPEN_FAILURE",
           NEW d, d = handle_packet(c, m)
    PROVE  /\ d \in ClientType /\ (Continues(c, d) \/ Closes(c, d))
           /\ \/ d.state \in {c.state, "Authenticating", "Done"}
              \/ d.state = "Authenticated" /\ m.type = "USERAUTH_SUCCESS"
<1> USE DEF handle_packet
<1>1. CASE m.type = "SERVICE_ACCEPT" /\ c.state = "ExpectServiceAccept"
  <2> DEFINE e == [c EXCEPT !.state = "Authenticating"]
  <2>1. d = try_next_auth(e)
    BY <1>1
  <2>2. /\ e \in ClientType /\ e.state = "Authenticating" /\ e.channel = c.channel /\ e.out = c.out
        /\ e.opens = c.opens /\ e.closing = c.closing
    BY DEF ClientType, States
  <2> HIDE DEF e
  <2>3. Continues(c, e)
    BY <2>2, ContinuesSame
  <2>4. d \in ClientType /\ d.state \in {e.state, "Done"} /\ Continues(e, d)
    BY <2>1, <2>2, NextAuthTried
  <2> QED
    BY <2>2, <2>3, <2>4, ContinuesTwice
<1>2. CASE m.type = "USERAUTH_SUCCESS"
  <2> DEFINE e == [c EXCEPT !.state = "Authenticated"]
  <2>1. d = tell(e, "Authenticated", 0)
    BY <1>2
  <2>2. /\ e \in ClientType /\ e.state = "Authenticated" /\ e.channel = c.channel /\ e.out = c.out
        /\ e.opens = c.opens /\ e.closing = c.closing
    BY DEF ClientType, States
  <2> HIDE DEF e
  <2>3. Continues(c, e)
    BY <2>2, ContinuesSame
  <2>4. "Authenticated" \in Told /\ 0 \in Nat
    BY DEF Told
  <2>5. d \in ClientType /\ SameDesk(e, d) /\ Continues(e, d)
    BY <2>1, <2>2, <2>4, ClientTells
  <2> QED
    BY <1>2, <2>2, <2>3, <2>5, ContinuesTwice DEF SameDesk
<1>3. CASE m.type = "USERAUTH_FAILURE"
  BY <1>3, NextAuthTried
<1>4. CASE m.type = "CHANNEL_OPEN_CONFIRMATION"
  BY <1>4, OpenConfirmed
<1>5. CASE m.type \in {"CHANNEL_SUCCESS", "CHANNEL_FAILURE"}
  <2>1. d = handle_success(c) \/ d = handle_failure(c)
    BY <1>5
  <2> QED
    BY <2>1, RequestAnswered
<1>6. CASE m.type \in {"EXIT_STATUS", "DISCONNECT"}
  <2>1. d = tell(c, "ExitStatus", c.channel.id) \/ d = tell(c, "Disconnect", 0)
    BY <1>6
  <2>2. {"ExitStatus", "Disconnect"} \subseteq Told /\ c.channel.id \in Nat
    BY DEF Told, ClientType, ClientChannel
  <2> QED
    BY <2>1, <2>2, ClientTells DEF SameDesk
<1>7. CASE m.type = "CHANNEL_CLOSE"
  BY <1>7, ChannelClosed
<1>8. CASE m.type \in MsgTypes \ {"USERAUTH_SUCCESS", "USERAUTH_FAILURE",
               "CHANNEL_OPEN_CONFIRMATION", "CHANNEL_OPEN_FAILURE", "CHANNEL_SUCCESS",
               "CHANNEL_FAILURE", "EXIT_STATUS", "DISCONNECT", "CHANNEL_CLOSE"}
            /\ ~(m.type = "SERVICE_ACCEPT" /\ c.state = "ExpectServiceAccept")
  <2>1. d = c
    BY <1>8
  <2> QED
    BY <2>1, ContinuesSame
<1>9. m.type \in MsgTypes
  BY DEF Message
<1> QED
  BY <1>1, <1>2, <1>3, <1>4, <1>5, <1>6, <1>7, <1>8, <1>9

LEMMA SessionOpened ==
    ASSUME NEW c \in ClientType, NEW request \in {"exec", "shell"}, ~c.closing,
           NEW d, d = open_session(c, request)
    PROVE  /\ d \in ClientType /\ d.state = c.state /\ ~d.closing
           /\ d.channel.open /\ d.channel.id = c.opens + 1 /\ ~d.channel.sent_close
           /\ d.opens = c.opens + 1 /\ d.out = Append(c.out, OpenOf(c.opens + 1))
<1> DEFINE id == c.opens + 1
           ch == [NoClientChannel EXCEPT !.open = TRUE, !.id = id]
           e == [c EXCEPT !.channel = ch, !.pending = request, !.opens = id]
<1>1. id \in Nat
  BY DEF ClientType
<1>2. d = send_packet(e, OpenOf(id))
  BY DEF open_session, OpenOf
<1> HIDE DEF id
<1>3. ch \in ClientChannel /\ ch.open /\ ch.id = id /\ ~ch.sent_close
  BY <1>1 DEF NoClientChannel, ClientChannel
<1> HIDE DEF ch
<1>4. /\ e \in ClientType /\ e.state = c.state /\ ~e.closing /\ e.channel = ch /\ e.opens = id
      /\ e.out = c.out
  BY <1>1, <1>3 DEF ClientType
<1> HIDE DEF e
<1>5. OpenOf(id) \in Message
  BY <1>1, EndsType
<1>6. d \in ClientType /\ SameDesk(e, d) /\ d.channel = e.channel /\ d.out = Append(e.out, OpenOf(id))
  BY <1>2, <1>4, <1>5, ClientSends
<1> QED
  BY <1>3, <1>4, <1>6 DEF SameDesk, id

LEMMA ClientDisconnects ==
    ASSUME NEW c \in ClientType, c.out = <<>>, NEW d, d = disconnect(c)
    PROVE  /\ d \in ClientType /\ d.closing /\ d.channel = c.channel /\ d.opens = c.opens
           /\ \A i \in 1..Len(d.out) : d.out[i].type = "DISCONNECT"
<1> DEFINE m == Reply("DISCONNECT")
           g == send_packet(c, m)
<1>1. m \in Message /\ m.type = "DISCONNECT"
  BY ReplyType DEF MsgTypes
<1>2. d = [g EXCEPT !.closing = TRUE]
  BY DEF disconnect
<1> HIDE DEF m
<1>3. /\ g \in ClientType /\ SameDesk(c, g) /\ g.channel = c.channel
      /\ g.out = IF c.closing THEN c.out ELSE Append(c.out, m)
  BY <1>1, ClientSends
<1> HIDE DEF g
<1>4. \A i \in 1..Len(g.out) : g.out[i].type = "DISCONNECT"
  BY <1>1, <1>3
<1>5. d \in ClientType /\ d.closing /\ d.channel = g.channel /\ d.opens = g.opens /\ d.out = g.out
  BY <1>2, <1>3 DEF ClientType
<1> QED
  BY <1>3, <1>4, <1>5 DEF SameDesk

\* The end of the handshake: the service is asked for, or the client gives up.
LEMMA HandshakeEnds ==
    ASSUME NEW c \in ClientType, c.out = <<>>, NEW trust \in BOOLEAN,
           NEW d, d = established(verify_host_key(c, trust))
    PROVE  /\ d \in ClientType /\ d.channel = c.channel /\ d.opens = c.opens
           /\ \/ d = c
              \/ d.state = "ExpectServiceAccept" /\ Continues(c, d)
              \/ /\ d.state \in {"Done", "ExpectServiceAccept"} /\ d.closing
                 /\ \A i \in 1..Len(d.out) : d.out[i].type = "DISCONNECT"
<1> DEFINE v == verify_host_key(c, trust)
           sr == Note("SERVICE_REQUEST", "ssh-userauth", 0)
<1>1. ASSUME NEW e \in ClientType, NEW f, f = established(e)
      PROVE  \/ f = e
             \/ /\ f \in ClientType /\ f.state = "ExpectServiceAccept" /\ f.channel = e.channel
                /\ Continues(e, f) /\ f.opens = e.opens /\ f.closing = e.closing
                /\ e.closing => f.out = e.out
  <2> DEFINE g == send_packet(e, sr)
  <2>1. f = e \/ f = [g EXCEPT !.state = "ExpectServiceAccept"]
    BY <1>1 DEF established, Note
  <2>2. "ssh-userauth" \in Words /\ 0 \in Nat
    BY DEF Words
  <2>3. /\ g \in ClientType /\ SameDesk(e, g) /\ g.channel = e.channel /\ Continues(e, g)
        /\ g.out = IF e.closing THEN e.out ELSE Append(e.out, sr)
    BY <2>2, PlainSent
  <2> HIDE DEF g
  <2>4. CASE f = [g EXCEPT !.state = "ExpectServiceAccept"]
    <3>1. /\ f \in ClientType /\ f.state = "ExpectServiceAccept" /\ f.channel = g.channel
          /\ f.out = g.out /\ f.opens = g.opens /\ f.closing = g.closing
      BY <2>3, <2>4 DEF ClientType, States
    <3>2. Continues(g, f)
      BY <2>3, <3>1, ContinuesSame
    <3> QED
      BY <2>3, <3>1, <3>2, ContinuesTwice DEF SameDesk
  <2> QED
    BY <2>1, <2>4
<1>2. CASE trust
  <2>1. v = c
    BY <1>2 DEF verify_host_key
  <2>2. Continues(c, c)
    BY ContinuesSame
  <2> QED
    BY <1>1, <2>1, <2>2
<1>3. CASE ~trust
  <2> DEFINE e == tell(c, "HostKeyRejected", 0)
             h == disconnect(e)
  <2>1. v = [h EXCEPT !.host_rejected = TRUE, !.state = "Done"]
    BY <1>3 DEF verify_host_key
  <2>2. e \in ClientType /\ SameDesk(c, e) /\ e.channel = c.channel /\ e.out = c.out
    <3>1. "HostKeyRejected" \in Told /\ 0 \in Nat
      BY DEF Told
    <3> QED
      BY <3>1, ClientTells
  <2> HIDE DEF e
  <2>3. /\ h \in ClientType /\ h.closing /\ h.channel = e.channel /\ h.opens = e.opens
        /\ \A i \in 1..Len(h.out) : h.out[i].type = "DISCONNECT"
    BY <2>2, ClientDisconnects
  <2> HIDE DEF h
  <2>4. \A i \in 1..Len(h.out) : h.out[i].type = "DISCONNECT"
    BY <2>3
  <2>5. /\ v \in ClientType /\ v.state = "Done" /\ v.closing /\ v.out = h.out
        /\ v.channel = h.channel /\ v.opens = h.opens
    BY <2>1, <2>3 DEF ClientType, States
  <2> HIDE DEF v
  <2>6. \/ d = v
        \/ /\ d \in ClientType /\ d.state = "ExpectServiceAccept" /\ d.channel = v.channel
           /\ d.opens = v.opens /\ d.closing = v.closing /\ d.out = v.out
    BY <1>1, <2>5 DEF v
  <2> QED
    BY <2>2, <2>3, <2>4, <2>5, <2>6, ZenonT(40) DEF SameDesk
<1> QED
  BY <1>2, <1>3

--------------------------------------------------------------------------------
(* What is on its way to the server *)

\* A request, an open or a close about a channel; one with the number 0 is about none.
Chan(m) == m.type \in {"CHANNEL_OPEN", "CHANNEL_REQUEST", "CHANNEL_CLOSE"} /\ m.id # 0

\* A channel is opened, or closed, by a message on its way.
Opened(o, k) == \E i \in 1..Len(o) : o[i].type = "CHANNEL_OPEN" /\ o[i].id = k
Closed(o, k) == \E i \in 1..Len(o) : Chan(o[i]) /\ o[i].type = "CHANNEL_CLOSE" /\ o[i].id = k

Held(channel) == IF channel.open THEN {channel.id} ELSE {}

\* The server has the channel, or is about to.
Live(o, S, k) == k \in S \/ Opened(o, k)

\* Messages are about channels the client opened.
Known(o, n) ==
    \A i \in 1..Len(o) :
        /\ Chan(o[i]) => o[i].id \in 1..n
        /\ o[i].type = "CHANNEL_OPEN" => o[i].arg = "session" /\ o[i].id # 0
        /\ o[i].type = "CHANNEL_REQUEST" => o[i].arg \in Request

\* Channel by channel: its OPEN comes first and its CLOSE last.
Ordered(o) ==
    \A i, j \in 1..Len(o) : i < j /\ Chan(o[i]) /\ Chan(o[j]) =>
        /\ o[i].id <= o[j].id
        /\ o[i].type = "CHANNEL_CLOSE" \/ o[j].type = "CHANNEL_OPEN" => o[i].id < o[j].id

\* The server loses every channel that the client no longer has.
Closing(o, C, S) == \A k \in Nat : Live(o, S, k) => k \in C \/ Closed(o, k)

\* The client's channel is the last it opened, and is not being closed.
Latest(o, n, C) == \A k \in C : k = n /\ k \in 1..n /\ ~Closed(o, k)

\* The server's channel is older than those still to be opened.
Behind(o, n, S) ==
    \A k \in S : k \in 1..n /\ \A i \in 1..Len(o) : Chan(o[i]) =>
        k <= o[i].id /\ (o[i].type = "CHANNEL_OPEN" => k < o[i].id)

\* The client opened n channels and has those of C, the server has those of S.
Wire(o, n, C, S) ==
    /\ Known(o, n) /\ Ordered(o) /\ Closing(o, C, S) /\ Latest(o, n, C) /\ Behind(o, n, S)

\* What one may add to the messages on their way.
MayFollow(m, C) ==
    /\ m.type # "CHANNEL_OPEN"
    /\ m.type = "CHANNEL_REQUEST" => m.arg \in Request
    /\ Chan(m) => m.type = "CHANNEL_REQUEST" /\ m.id \in C

LEMMA WireGrows ==
    ASSUME NEW o \in Seq(Message), NEW p \in Seq(Message), NEW n \in Nat,
           NEW C \in SUBSET Nat, NEW S \in SUBSET Nat, Wire(o, n, C, S),
           Len(p) >= Len(o),
           \A i \in 1..Len(p) : IF i <= Len(o) THEN p[i] = o[i] ELSE MayFollow(p[i], C)
    PROVE  Wire(p, n, C, S)
<1> USE DEF Wire
<1>0. Len(o) \in Nat /\ Len(p) \in Nat
  OBVIOUS
<1>1. \A i \in 1..Len(o) : i \in 1..Len(p) /\ p[i] = o[i]
  BY <1>0
<1>2. \A k \in Nat : (Opened(o, k) => Opened(p, k)) /\ (Closed(o, k) => Closed(p, k))
  BY <1>1 DEF Opened, Closed
<1>3. \A k \in Nat : (Opened(p, k) => Opened(o, k)) /\ (Closed(p, k) => Closed(o, k))
  <2>1. \A i \in 1..Len(p) :
            p[i].type = "CHANNEL_OPEN" \/ (Chan(p[i]) /\ p[i].type = "CHANNEL_CLOSE") =>
                i \in 1..Len(o) /\ p[i] = o[i]
    BY <1>0 DEF MayFollow
  <2> QED
    BY <2>1 DEF Opened, Closed
<1>4. \A k \in Nat : Live(p, S, k) <=> Live(o, S, k)
  BY <1>2, <1>3 DEF Live
<1>5. \A k \in C : k = n /\ k \in 1..n
  BY DEF Latest
<1>6. Known(p, n)
  <2>1. ASSUME NEW i \in 1..Len(p)
        PROVE  /\ Chan(p[i]) => p[i].id \in 1..n
               /\ p[i].type = "CHANNEL_OPEN" => p[i].arg = "session" /\ p[i].id # 0
               /\ p[i].type = "CHANNEL_REQUEST" => p[i].arg \in Request
    <3>1. CASE i <= Len(o)
      BY <1>0, <3>1 DEF Known
    <3>2. CASE ~(i <= Len(o))
      BY <1>5, <3>2 DEF MayFollow
    <3> QED
      BY <3>1, <3>2
  <2> QED
    BY <2>1 DEF Known
<1>7. Ordered(p)
  <2>1. ASSUME NEW i \in 1..Len(p), NEW j \in 1..Len(p), i < j, Chan(p[i]), Chan(p[j])
        PROVE  /\ p[i].id <= p[j].id
               /\ p[i].type = "CHANNEL_CLOSE" \/ p[j].type = "CHANNEL_OPEN" => p[i].id < p[j].id
    <3>1. CASE j <= Len(o)
      <4>1. i \in 1..Len(o) /\ j \in 1..Len(o) /\ p[i] = o[i] /\ p[j] = o[j]
        BY <1>0, <2>1, <3>1
      <4> QED
        BY <2>1, <4>1 DEF Ordered
    <3>2. CASE ~(j <= Len(o))
      <4>1. p[j].type = "CHANNEL_REQUEST" /\ p[j].id \in C /\ p[j].id = n
        BY <1>5, <2>1, <3>2 DEF MayFollow
      <4>2. p[i].id \in 1..n
        BY <1>6, <2>1 DEF Known
      <4>3. p[i].type = "CHANNEL_CLOSE" => p[i].id # n
        <5>1. SUFFICES ASSUME p[i].type = "CHANNEL_CLOSE", p[i].id = n PROVE FALSE
          OBVIOUS
        <5>2. Closed(p, n)
          BY <2>1, <5>1 DEF Closed
        <5> QED
          BY <1>3, <4>1, <5>2 DEF Latest
      <4> QED
        BY <4>1, <4>2, <4>3
    <3> QED
      BY <3>1, <3>2
  <2> QED
    BY <2>1 DEF Ordered
<1>9. Closing(p, C, S)
  BY <1>2, <1>4 DEF Closing
<1>10. Latest(p, n, C)
  BY <1>3, <1>5 DEF Latest
<1>11. Behind(p, n, S)
  <2>1. ASSUME NEW k \in S, NEW i \in 1..Len(p), Chan(p[i])
        PROVE  k \in 1..n /\ k <= p[i].id /\ (p[i].type = "CHANNEL_OPEN" => k < p[i].id)
    <3>0. k \in 1..n
      BY DEF Behind
    <3>1. CASE i <= Len(o)
      <4>1. i \in 1..Len(o) /\ p[i] = o[i]
        BY <1>0, <3>1
      <4> QED
        BY <2>1, <4>1 DEF Behind
    <3>2. CASE ~(i <= Len(o))
      <4>1. p[i].type = "CHANNEL_REQUEST" /\ p[i].id = n
        BY <1>5, <2>1, <3>2 DEF MayFollow
      <4> QED
        BY <3>0, <4>1
    <3> QED
      BY <3>1, <3>2
  <2>2. \A k \in S : k \in 1..n
    BY DEF Behind
  <2> QED
    BY <2>1, <2>2 DEF Behind
<1> QED
  BY <1>6, <1>7, <1>9, <1>10, <1>11

\* The sequence with one message more.
Longer(o, p, m) ==
    /\ Len(p) = Len(o) + 1 /\ p[Len(p)] = m
    /\ \A i \in 1..Len(o) : p[i] = o[i]

LEMMA WireCloses ==
    ASSUME NEW o \in Seq(Message), NEW p \in Seq(Message), NEW n \in Nat, NEW S \in SUBSET Nat,
           Wire(o, n, {n}, S),
           NEW m \in Message, m.type = "CHANNEL_CLOSE", m.id = n, Longer(o, p, m)
    PROVE  Wire(p, n, {}, S)
<1> USE DEF Wire
<1>0. Len(o) \in Nat /\ Len(p) \in Nat /\ Len(p) = Len(o) + 1 /\ p[Len(p)] = m
  BY DEF Longer
<1>1. \A i \in 1..Len(p) : IF i = Len(p) THEN p[i] = m ELSE i \in 1..Len(o) /\ p[i] = o[i]
  BY <1>0 DEF Longer
<1>2. \A i \in 1..Len(o) : i \in 1..Len(p) /\ i # Len(p) /\ p[i] = o[i]
  BY <1>0 DEF Longer
<1>3. ~Closed(o, n) /\ n \in 1..n
  BY DEF Latest
<1>4. Chan(m)
  BY <1>3 DEF Chan
<1>5. \A k \in Nat : Opened(p, k) <=> Opened(o, k)
  BY <1>1, <1>2 DEF Opened
<1>6. \A k \in Nat : Closed(p, k) <=> k = n \/ Closed(o, k)
  <2>1. Closed(p, n)
    BY <1>0, <1>4 DEF Closed
  <2>2. ASSUME NEW k \in Nat, Closed(p, k) PROVE k = n \/ Closed(o, k)
    BY <1>1, <2>2 DEF Closed
  <2>3. ASSUME NEW k \in Nat, Closed(o, k) PROVE Closed(p, k)
    BY <1>2, <2>3 DEF Closed
  <2> QED
    BY <2>1, <2>2, <2>3
<1>7. \A k \in Nat : Live(p, S, k) <=> Live(o, S, k)
  BY <1>5 DEF Live
<1>8. Known(p, n)
  BY <1>1, <1>3 DEF Known
<1>9. Ordered(p)
  <2>1. ASSUME NEW i \in 1..Len(p), NEW j \in 1..Len(p), i < j, Chan(p[i]), Chan(p[j])
        PROVE  /\ p[i].id <= p[j].id
               /\ p[i].type = "CHANNEL_CLOSE" \/ p[j].type = "CHANNEL_OPEN" => p[i].id < p[j].id
    <3>1. i \in 1..Len(o) /\ p[i] = o[i]
      BY <1>0, <1>1, <2>1
    <3>2. CASE j = Len(p)
      <4>1. p[j] = m /\ o[i].id \in 1..n
        BY <1>0, <2>1, <3>1, <3>2 DEF Known
      <4>2. o[i].type = "CHANNEL_CLOSE" => o[i].id # n
        BY <1>3, <2>1, <3>1 DEF Closed
      <4> QED
        BY <3>1, <4>1, <4>2
    <3>3. CASE j # Len(p)
      <4>1. j \in 1..Len(o) /\ p[j] = o[j]
        BY <1>1, <3>3
      <4> QED
        BY <2>1, <3>1, <4>1 DEF Ordered
    <3> QED
      BY <3>2, <3>3
  <2> QED
    BY <2>1 DEF Ordered
<1>11. Closing(p, {}, S)
  BY <1>6, <1>7 DEF Closing
<1>12. Latest(p, n, {})
  BY DEF Latest
<1>13. Behind(p, n, S)
  <2>1. ASSUME NEW k \in S, NEW i \in 1..Len(p), Chan(p[i])
        PROVE  k <= p[i].id /\ (p[i].type = "CHANNEL_OPEN" => k < p[i].id)
    <3>1. CASE i = Len(p)
      BY <1>0, <3>1 DEF Behind
    <3>2. CASE i # Len(p)
      <4>1. i \in 1..Len(o) /\ p[i] = o[i]
        BY <1>1, <3>2
      <4> QED
        BY <2>1, <4>1 DEF Behind
    <3> QED
      BY <3>1, <3>2
  <2>2. \A k \in S : k \in 1..n
    BY DEF Behind
  <2> QED
    BY <2>1, <2>2 DEF Behind
<1> QED
  BY <1>8, <1>9, <1>11, <1>12, <1>13

LEMMA WireOpens ==
    ASSUME NEW o \in Seq(Message), NEW p \in Seq(Message), NEW n \in Nat, NEW S \in SUBSET Nat,
           Wire(o, n, {}, S),
           NEW m \in Message, m.type = "CHANNEL_OPEN", m.arg = "session", m.id = n + 1,
           Longer(o, p, m)
    PROVE  Wire(p, n + 1, {n + 1}, S)
<1> USE DEF Wire
<1>0. Len(o) \in Nat /\ Len(p) \in Nat /\ Len(p) = Len(o) + 1 /\ p[Len(p)] = m
  BY DEF Longer
<1>1. \A i \in 1..Len(p) : IF i = Len(p) THEN p[i] = m ELSE i \in 1..Len(o) /\ p[i] = o[i]
  BY <1>0 DEF Longer
<1>2. \A i \in 1..Len(o) : i \in 1..Len(p) /\ i # Len(p) /\ p[i] = o[i]
  BY <1>0 DEF Longer
<1>3. \A i \in 1..Len(o) : Chan(o[i]) => o[i].id \in 1..n /\ o[i].id < n + 1
  BY DEF Known
<1>4. \A k \in Nat : Opened(p, k) <=> k = n + 1 \/ Opened(o, k)
  <2>1. Opened(p, n + 1)
    BY <1>0 DEF Opened
  <2>2. ASSUME NEW k \in Nat, Opened(p, k) PROVE k = n + 1 \/ Opened(o, k)
    BY <1>1, <2>2 DEF Opened
  <2>3. ASSUME NEW k \in Nat, Opened(o, k) PROVE Opened(p, k)
    BY <1>2, <2>3 DEF Opened
  <2> QED
    BY <2>1, <2>2, <2>3
<1>5. \A k \in Nat : Closed(p, k) <=> Closed(o, k)
  BY <1>1, <1>2 DEF Closed
<1>6. \A k \in Nat : Live(p, S, k) <=> k = n + 1 \/ Live(o, S, k)
  BY <1>4 DEF Live
<1>7. Known(p, n + 1)
  <2>1. ASSUME NEW i \in 1..Len(p)
        PROVE  /\ Chan(p[i]) => p[i].id \in 1..(n + 1)
               /\ p[i].type = "CHANNEL_OPEN" => p[i].arg = "session" /\ p[i].id # 0
               /\ p[i].type = "CHANNEL_REQUEST" => p[i].arg \in Request
    <3>1. CASE i = Len(p)
      BY <1>0, <3>1
    <3>2. CASE i # Len(p)
      BY <1>1, <1>3, <3>2 DEF Known
    <3> QED
      BY <3>1, <3>2
  <2> QED
    BY <2>1 DEF Known
<1>8. Ordered(p)
  <2>1. ASSUME NEW i \in 1..Len(p), NEW j \in 1..Len(p), i < j, Chan(p[i]), Chan(p[j])
        PROVE  /\ p[i].id <= p[j].id
               /\ p[i].type = "CHANNEL_CLOSE" \/ p[j].type = "CHANNEL_OPEN" => p[i].id < p[j].id
    <3>1. i \in 1..Len(o) /\ p[i] = o[i]
      BY <1>0, <1>1, <2>1
    <3>2. CASE j = Len(p)
      BY <1>0, <1>3, <2>1, <3>1, <3>2
    <3>3. CASE j # Len(p)
      <4>1. j \in 1..Len(o) /\ p[j] = o[j]
        BY <1>1, <3>3
      <4> QED
        BY <2>1, <3>1, <4>1 DEF Ordered
    <3> QED
      BY <3>2, <3>3
  <2> QED
    BY <2>1 DEF Ordered
<1>10. Closing(p, {n + 1}, S)
  BY <1>5, <1>6 DEF Closing
<1>11. Latest(p, n + 1, {n + 1})
  <2>1. ~Closed(o, n + 1)
    BY <1>3 DEF Closed
  <2> QED
    BY <1>5, <2>1 DEF Latest
<1>12. Behind(p, n + 1, S)
  <2>1. ASSUME NEW k \in S, NEW i \in 1..Len(p), Chan(p[i])
        PROVE  k <= p[i].id /\ (p[i].type = "CHANNEL_OPEN" => k < p[i].id)
    <3>0. k \in 1..n
      BY DEF Behind
    <3>1. CASE i = Len(p)
      BY <1>0, <3>0, <3>1
    <3>2. CASE i # Len(p)
      <4>1. i \in 1..Len(o) /\ p[i] = o[i]
        BY <1>1, <3>2
      <4> QED
        BY <2>1, <4>1 DEF Behind
    <3> QED
      BY <3>1, <3>2
  <2>2. ASSUME NEW k \in S PROVE k \in 1..(n + 1)
    <3>1. k \in 1..n
      BY DEF Behind
    <3> QED
      BY <3>1
  <2> QED
    BY <2>1, <2>2 DEF Behind
<1> QED
  BY <1>7, <1>8, <1>10, <1>11, <1>12

\* The sequence without its first message.
Shorter(o, p) ==
    /\ Len(o) >= 1 /\ Len(p) = Len(o) - 1
    /\ \A i \in 1..Len(p) : p[i] = o[i + 1]

LEMMA ShorterParts ==
    ASSUME NEW o \in Seq(Message), NEW p \in Seq(Message), Shorter(o, p)
    PROVE  /\ Len(o) \in Nat /\ Len(p) \in Nat /\ 1 \in 1..Len(o) /\ o[1] \in Message
           /\ o[1].id \in Nat
           /\ \A i \in 1..Len(p) : i + 1 \in 1..Len(o) /\ 1 < i + 1 /\ p[i] = o[i + 1]
           /\ \A i \in 1..Len(o) : i = 1 \/ (i - 1 \in 1..Len(p) /\ o[i] = p[i - 1])
<1>1. Len(o) \in Nat /\ Len(p) \in Nat /\ 1 \in 1..Len(o) /\ o[1] \in Message
  BY DEF Shorter
<1>2. o[1].id \in Nat
  BY <1>1 DEF Message
<1> QED
  BY <1>1, <1>2 DEF Shorter

\* What the server takes was ordered before what stays.
LEMMA OrderKept ==
    ASSUME NEW o \in Seq(Message), NEW p \in Seq(Message), NEW n \in Nat, Shorter(o, p),
           Known(o, n), Ordered(o)
    PROVE  Known(p, n) /\ Ordered(p)
<1>1. /\ Len(o) \in Nat /\ Len(p) \in Nat
      /\ \A i \in 1..Len(p) : i + 1 \in 1..Len(o) /\ p[i] = o[i + 1]
  BY ShorterParts
<1>2. Known(p, n)
  BY <1>1 DEF Known
<1>3. ASSUME NEW i \in 1..Len(p), NEW j \in 1..Len(p), i < j, Chan(p[i]), Chan(p[j])
      PROVE  /\ p[i].id <= p[j].id
             /\ p[i].type = "CHANNEL_CLOSE" \/ p[j].type = "CHANNEL_OPEN" => p[i].id < p[j].id
  <2> DEFINE x == i + 1
             y == j + 1
  <2>1. x \in 1..Len(o) /\ y \in 1..Len(o) /\ x < y /\ p[i] = o[x] /\ p[j] = o[y]
    BY <1>1, <1>3
  <2> HIDE DEF x, y
  <2> QED
    BY <1>3, <2>1 DEF Ordered
<1> QED
  BY <1>2, <1>3 DEF Ordered

LEMMA WireTakesOther ==
    ASSUME NEW o \in Seq(Message), NEW p \in Seq(Message), NEW n \in Nat,
           NEW C \in SUBSET Nat, NEW S \in SUBSET Nat, Wire(o, n, C, S), Shorter(o, p),
           o[1].type \notin {"CHANNEL_OPEN", "CHANNEL_CLOSE"}
    PROVE  Wire(p, n, C, S)
<1> USE DEF Wire
<1>1. /\ Len(o) \in Nat /\ Len(p) \in Nat /\ 1 \in 1..Len(o) /\ o[1].id \in Nat
      /\ \A i \in 1..Len(p) : i + 1 \in 1..Len(o) /\ 1 < i + 1 /\ p[i] = o[i + 1]
      /\ \A i \in 1..Len(o) : i = 1 \/ (i - 1 \in 1..Len(p) /\ o[i] = p[i - 1])
  BY ShorterParts
<1>2. Known(p, n) /\ Ordered(p)
  BY OrderKept
<1>3. \A k \in Nat : (Opened(p, k) <=> Opened(o, k)) /\ (Closed(p, k) <=> Closed(o, k))
  <2>1. ASSUME NEW k \in Nat PROVE (Opened(p, k) => Opened(o, k)) /\ (Closed(p, k) => Closed(o, k))
    BY <1>1 DEF Opened, Closed
  <2>2. ASSUME NEW k \in Nat PROVE (Opened(o, k) => Opened(p, k)) /\ (Closed(o, k) => Closed(p, k))
    BY <1>1 DEF Opened, Closed
  <2> QED
    BY <2>1, <2>2
<1>4. \A k \in Nat : Live(p, S, k) <=> Live(o, S, k)
  BY <1>3 DEF Live
<1>6. Closing(p, C, S) /\ Latest(p, n, C)
  BY <1>3, <1>4 DEF Closing, Latest
<1>7. Behind(p, n, S)
  BY <1>1 DEF Behind
<1> QED
  BY <1>2, <1>6, <1>7

LEMMA WireTakesOpen ==
    ASSUME NEW o \in Seq(Message), NEW p \in Seq(Message), NEW n \in Nat,
           NEW C \in SUBSET Nat, NEW S \in SUBSET Nat, Wire(o, n, C, S), Shorter(o, p),
           o[1].type = "CHANNEL_OPEN"
    PROVE  S = {} /\ o[1].arg = "session" /\ o[1].id # 0 /\ Wire(p, n, C, {o[1].id})
<1> USE DEF Wire
<1> DEFINE id == o[1].id
<1>1. /\ Len(o) \in Nat /\ Len(p) \in Nat /\ 1 \in 1..Len(o) /\ id \in Nat
      /\ \A i \in 1..Len(p) : i + 1 \in 1..Len(o) /\ 1 < i + 1 /\ p[i] = o[i + 1]
      /\ \A i \in 1..Len(o) : i = 1 \/ (i - 1 \in 1..Len(p) /\ o[i] = p[i - 1])
  BY ShorterParts
<1>2. Known(p, n) /\ Ordered(p)
  BY OrderKept
<1>3. Chan(o[1]) /\ id \in 1..n /\ o[1].arg = "session"
  BY <1>1 DEF Known, Chan
<1>4. \A i \in 1..Len(o) : i # 1 /\ Chan(o[i]) =>
          id <= o[i].id /\ (o[i].type = "CHANNEL_OPEN" => id < o[i].id)
  <2>1. ASSUME NEW i \in 1..Len(o), i # 1, Chan(o[i])
        PROVE  id <= o[i].id /\ (o[i].type = "CHANNEL_OPEN" => id < o[i].id)
    BY <1>1, <1>3, <2>1 DEF Ordered
  <2> QED
    BY <2>1
<1>5. S = {}
  <2>1. SUFFICES ASSUME NEW j \in S PROVE FALSE
    OBVIOUS
  <2>2. j \in 1..n /\ j < id
    BY <1>1, <1>3, <2>1 DEF Behind
  <2>3. j \in C \/ Closed(o, j)
    BY <2>1 DEF Closing, Live
  <2>4. j \notin C
    BY <1>3, <2>2 DEF Latest
  <2>5. PICK i \in 1..Len(o) : Chan(o[i]) /\ o[i].type = "CHANNEL_CLOSE" /\ o[i].id = j
    BY <2>3, <2>4 DEF Closed
  <2>6. i # 1
    BY <2>5
  <2>7. id <= j
    BY <1>4, <2>5, <2>6
  <2> QED
    BY <1>1, <2>2, <2>7
<1>6. \A k \in Nat : Closed(p, k) <=> Closed(o, k)
  <2>1. ASSUME NEW k \in Nat, Closed(p, k) PROVE Closed(o, k)
    BY <1>1, <2>1 DEF Closed
  <2>2. ASSUME NEW k \in Nat, Closed(o, k) PROVE Closed(p, k)
    BY <1>1, <2>2 DEF Closed
  <2> QED
    BY <2>1, <2>2
<1>7. \A k \in Nat : Live(p, {id}, k) <=> Live(o, S, k)
  <2>1. ASSUME NEW k \in Nat, Live(p, {id}, k) PROVE Live(o, S, k)
    BY <1>1, <2>1 DEF Live, Opened
  <2>2. ASSUME NEW k \in Nat, Live(o, S, k) PROVE Live(p, {id}, k)
    BY <1>1, <1>5, <2>2 DEF Live, Opened
  <2> QED
    BY <2>1, <2>2
<1>9. Closing(p, C, {id}) /\ Latest(p, n, C)
  BY <1>6, <1>7 DEF Closing, Latest
<1>10. Behind(p, n, {id})
  <2>1. ASSUME NEW i \in 1..Len(p), Chan(p[i])
        PROVE  id <= p[i].id /\ (p[i].type = "CHANNEL_OPEN" => id < p[i].id)
    <3> DEFINE x == i + 1
    <3>1. x \in 1..Len(o) /\ x # 1 /\ p[i] = o[x]
      BY <1>1
    <3> HIDE DEF x
    <3> QED
      BY <1>4, <2>1, <3>1
  <2> QED
    BY <1>3, <2>1 DEF Behind
<1>11. id # 0
  BY <1>3
<1> QED
  BY <1>11, <1>2, <1>3, <1>5, <1>9, <1>10

LEMMA WireTakesClose ==
    ASSUME NEW o \in Seq(Message), NEW p \in Seq(Message), NEW n \in Nat,
           NEW C \in SUBSET Nat, NEW j \in Nat, NEW S \in SUBSET {j},
           Wire(o, n, C, S), Shorter(o, p), o[1].type = "CHANNEL_CLOSE"
    PROVE  Wire(p, n, C, {})
<1> USE DEF Wire
<1> DEFINE id == o[1].id
<1>1. /\ Len(o) \in Nat /\ Len(p) \in Nat /\ 1 \in 1..Len(o) /\ id \in Nat
      /\ \A i \in 1..Len(p) : i + 1 \in 1..Len(o) /\ 1 < i + 1 /\ p[i] = o[i + 1]
      /\ \A i \in 1..Len(o) : i = 1 \/ (i - 1 \in 1..Len(p) /\ o[i] = p[i - 1])
  BY ShorterParts
<1>2. Known(p, n) /\ Ordered(p)
  BY OrderKept
<1>3. \A i \in 1..Len(o) : i # 1 /\ Chan(o[1]) /\ Chan(o[i]) => id < o[i].id
  <2>1. ASSUME NEW i \in 1..Len(o), i # 1, Chan(o[1]), Chan(o[i]) PROVE id < o[i].id
    BY <1>1, <2>1 DEF Ordered
  <2> QED
    BY <2>1
<1>4. Closing(p, C, {})
  <2>1. ASSUME NEW k \in Nat, Live(p, {}, k) PROVE k \in C \/ Closed(p, k)
    <3>1. PICK h \in 1..Len(p) : p[h].type = "CHANNEL_OPEN" /\ p[h].id = k
      BY <2>1 DEF Live, Opened
    <3> DEFINE x == h + 1
    <3>2. x \in 1..Len(o) /\ x # 1 /\ o[x] = p[h]
      BY <1>1
    <3> HIDE DEF x
    <3>3. Chan(o[x]) /\ Opened(o, k)
      BY <3>1, <3>2 DEF Known, Chan, Opened
    <3>4. k \in C \/ Closed(o, k)
      BY <3>3 DEF Closing, Live
    <3>5. ASSUME NEW i \in 1..Len(o), Chan(o[i]), o[i].type = "CHANNEL_CLOSE", o[i].id = k
          PROVE  Closed(p, k)
      <4>1. i # 1
        BY <1>1, <1>3, <3>1, <3>2, <3>3, <3>5
      <4> QED
        BY <1>1, <3>5, <4>1 DEF Closed
    <3> QED
      BY <3>4, <3>5 DEF Closed
  <2> QED
    BY <2>1 DEF Closing
<1>5. Latest(p, n, C)
  <2>1. \A k \in Nat : Closed(p, k) => Closed(o, k)
    BY <1>1 DEF Closed
  <2> QED
    BY <2>1 DEF Latest
<1>6. Behind(p, n, {})
  BY DEF Behind
<1> QED
  BY <1>2, <1>4, <1>5, <1>6

--------------------------------------------------------------------------------
(* The programs that were asked for *)

\* A program was asked for on channel k: the driver will hear of it, or has started it.
Requested(q, a, k) ==
    \/ \E i \in 1..Len(q) : q[i].kind = "ProgramRequest" /\ q[i].id = k
    \/ \E i \in 1..Len(a) : a[i] = k

\* A channel that has not asked for a program yet.
Fresh(s) == IF s.channel.open /\ ~s.program_started THEN {s.channel.id} ELSE {}

\* No channel appears twice among the programs started and those asked for; a program
\* on no channel has the number 0.
Once(q, a) ==
    /\ \A i, j \in 1..Len(a) : a[i] = a[j] /\ a[i] # 0 => i = j
    /\ \A i, j \in 1..Len(q) : q[i].kind = "ProgramRequest" /\ q[j].kind = "ProgramRequest"
                               /\ q[i].id = q[j].id /\ q[i].id # 0 => i = j
    /\ \A i \in 1..Len(q), j \in 1..Len(a) :
           q[i].kind = "ProgramRequest" /\ q[i].id # 0 => q[i].id # a[j]

\* A program was asked for on a channel that is no longer to be opened.
Past(o, n, q, a) ==
    \A k \in Nat : Requested(q, a, k) /\ k # 0 =>
        k \in 1..n /\ \A i \in 1..Len(o) : o[i].type = "CHANNEL_OPEN" => k < o[i].id

\* The programs of the channels: F has asked for none.
Programmed(o, n, F, q, a) ==
    /\ Once(q, a) /\ Past(o, n, q, a) /\ \A k \in F : ~Requested(q, a, k)

LEMMA ProgramsKept ==
    ASSUME NEW o \in Seq(Message), NEW p \in Seq(Message), NEW n \in Nat, NEW l \in Nat, l >= n,
           NEW F, NEW G, G \subseteq F, NEW q, NEW a, Programmed(o, n, F, q, a),
           \A i \in 1..Len(p) : p[i].type = "CHANNEL_OPEN" =>
               p[i].id > n \/ \E j \in 1..Len(o) : p[i] = o[j]
    PROVE  Programmed(p, l, G, q, a)
<1>1. ASSUME NEW k \in Nat, Requested(q, a, k), k # 0
      PROVE  k \in 1..l /\ \A i \in 1..Len(p) : p[i].type = "CHANNEL_OPEN" => k < p[i].id
  <2>1. k \in 1..n /\ \A i \in 1..Len(o) : o[i].type = "CHANNEL_OPEN" => k < o[i].id
    BY <1>1 DEF Programmed, Past
  <2>2. ASSUME NEW i \in 1..Len(p), p[i].type = "CHANNEL_OPEN" PROVE k < p[i].id
    <3>1. CASE p[i].id > n
      <4>1. p[i] \in Message
        OBVIOUS
      <4>2. p[i].id \in Nat
        BY <4>1 DEF Message
      <4> QED
        BY <2>1, <3>1, <4>2
    <3>2. CASE \E j \in 1..Len(o) : p[i] = o[j]
      BY <2>1, <2>2, <3>2
    <3> QED
      BY <2>2, <3>1, <3>2
  <2> QED
    BY <2>1, <2>2
<1> QED
  BY <1>1 DEF Programmed, Past

\* A channel just opened has asked for nothing.
LEMMA ProgramsOpened ==
    ASSUME NEW o \in Seq(Message), NEW n \in Nat, NEW F, NEW q, NEW a, Programmed(o, n, F, q, a),
           NEW i \in 1..Len(o), o[i].type = "CHANNEL_OPEN", o[i].id # 0
    PROVE  Programmed(o, n, {o[i].id}, q, a)
<1>1. o[i] \in Message
  OBVIOUS
<1>2. o[i].id \in Nat
  BY <1>1 DEF Message
<1>3. ~Requested(q, a, o[i].id)
  BY <1>2 DEF Programmed, Past
<1> QED
  BY <1>3 DEF Programmed

\* The driver hears of something else.
LEMMA ProgramsHeard ==
    ASSUME NEW o, NEW n, NEW F \in SUBSET Nat, NEW q \in Seq(Event), NEW a, Programmed(o, n, F, q, a),
           NEW e \in Event, e.kind # "ProgramRequest"
    PROVE  Programmed(o, n, F, Append(q, e), a)
<1> DEFINE r == Append(q, e)
<1>1. /\ Len(q) \in Nat /\ Len(r) = Len(q) + 1
      /\ \A i \in 1..Len(r) : IF i <= Len(q) THEN i \in 1..Len(q) /\ r[i] = q[i] ELSE r[i] = e
  OBVIOUS
<1> HIDE DEF r
<1>2. \A i \in 1..Len(r) : r[i].kind = "ProgramRequest" => i \in 1..Len(q) /\ r[i] = q[i]
  BY <1>1
<1>3. \A k \in Nat : Requested(r, a, k) => Requested(q, a, k)
  BY <1>2 DEF Requested
<1>4. Once(r, a)
  BY <1>2 DEF Programmed, Once
<1> QED
  BY <1>3, <1>4 DEF Programmed, Past, r

\* The driver is asked to run a program.
LEMMA ProgramsAsked ==
    ASSUME NEW o, NEW n \in Nat, NEW F \in SUBSET Nat, NEW q \in Seq(Event), NEW a \in Seq(Nat),
           Programmed(o, n, F, q, a),
           NEW e \in Event, e.kind = "ProgramRequest", e.id \in F, e.id \in 1..n,
           \A i \in 1..Len(o) : o[i].type = "CHANNEL_OPEN" => e.id < o[i].id
    PROVE  Programmed(o, n, {}, Append(q, e), a)
<1> DEFINE r == Append(q, e)
<1>1. /\ Len(q) \in Nat /\ Len(r) = Len(q) + 1
      /\ \A i \in 1..Len(r) : IF i <= Len(q) THEN i \in 1..Len(q) /\ r[i] = q[i]
                              ELSE i = Len(r) /\ r[i] = e
  OBVIOUS
<1> HIDE DEF r
<1>2. ~Requested(q, a, e.id)
  BY DEF Programmed
<1>3. \A k \in Nat : Requested(r, a, k) => k = e.id \/ Requested(q, a, k)
  BY <1>1 DEF Requested
<1>4. Past(o, n, r, a)
  BY <1>3 DEF Programmed, Past
<1>5. Once(r, a)
  <2>1. ASSUME NEW i \in 1..Len(r), NEW j \in 1..Len(r),
               r[i].kind = "ProgramRequest", r[j].kind = "ProgramRequest", r[i].id = r[j].id,
               r[i].id # 0
        PROVE  i = j
    <3>1. CASE i <= Len(q) /\ j <= Len(q)
      BY <1>1, <2>1, <3>1 DEF Programmed, Once
    <3>2. CASE ~(i <= Len(q)) /\ ~(j <= Len(q))
      BY <1>1, <3>2
    <3>3. CASE i <= Len(q) /\ ~(j <= Len(q))
      BY <1>1, <1>2, <2>1, <3>3 DEF Requested
    <3>4. CASE ~(i <= Len(q)) /\ j <= Len(q)
      BY <1>1, <1>2, <2>1, <3>4 DEF Requested
    <3> QED
      BY <3>1, <3>2, <3>3, <3>4
  <2>2. ASSUME NEW i \in 1..Len(r), NEW j \in 1..Len(a), r[i].kind = "ProgramRequest", r[i].id # 0
        PROVE  r[i].id # a[j]
    <3>1. CASE i <= Len(q)
      BY <1>1, <2>2, <3>1 DEF Programmed, Once
    <3>2. CASE ~(i <= Len(q))
      BY <1>1, <1>2, <3>2 DEF Requested
    <3> QED
      BY <3>1, <3>2
  <2> QED
    BY <2>1, <2>2 DEF Programmed, Once
<1> QED
  BY <1>4, <1>5 DEF Programmed, r

\* The driver is asked to run a program on no channel.
LEMMA ProgramsStray ==
    ASSUME NEW o, NEW n \in Nat, NEW F \in SUBSET Nat, NEW q \in Seq(Event), NEW a \in Seq(Nat),
           Programmed(o, n, F, q, a), NEW e \in Event, e.kind = "ProgramRequest", e.id = 0
    PROVE  Programmed(o, n, {}, Append(q, e), a)
<1> DEFINE r == Append(q, e)
<1>1. /\ Len(q) \in Nat /\ Len(r) = Len(q) + 1
      /\ \A i \in 1..Len(r) : IF i <= Len(q) THEN i \in 1..Len(q) /\ r[i] = q[i] ELSE r[i] = e
  OBVIOUS
<1> HIDE DEF r
<1>2. \A i \in 1..Len(r) : r[i].id # 0 => i \in 1..Len(q) /\ r[i] = q[i]
  BY <1>1
<1>3. \A k \in Nat : Requested(r, a, k) /\ k # 0 => Requested(q, a, k)
  BY <1>2 DEF Requested
<1>4. Once(r, a)
  <2>0. Once(q, a)
    BY DEF Programmed
  <2>1. ASSUME NEW i \in 1..Len(r), NEW j \in 1..Len(r),
               r[i].kind = "ProgramRequest", r[j].kind = "ProgramRequest", r[i].id = r[j].id,
               r[i].id # 0
        PROVE  i = j
    <3>1. i \in 1..Len(q) /\ r[i] = q[i] /\ j \in 1..Len(q) /\ r[j] = q[j]
      BY <1>2, <2>1
    <3> QED
      BY <2>0, <2>1, <3>1 DEF Once
  <2>2. ASSUME NEW i \in 1..Len(r), NEW j \in 1..Len(a), r[i].kind = "ProgramRequest", r[i].id # 0
        PROVE  r[i].id # a[j]
    BY <1>2, <2>0, <2>2 DEF Once
  <2> QED
    BY <2>0, <2>1, <2>2 DEF Once
<1> QED
  BY <1>3, <1>4 DEF Programmed, Past, r

LEMMA TailParts ==
    ASSUME NEW T, NEW q \in Seq(T), q # <<>>
    PROVE  /\ Len(q) \in Nat /\ 1 \in 1..Len(q) /\ Head(q) = q[1] /\ q[1] \in T
           /\ Tail(q) \in Seq(T) /\ Len(Tail(q)) = Len(q) - 1
           /\ \A i \in 1..Len(Tail(q)) : i + 1 \in 1..Len(q) /\ Tail(q)[i] = q[i + 1]
  OBVIOUS

\* The driver takes an event.
LEMMA ProgramsTaken ==
    ASSUME NEW o, NEW n, NEW F \in SUBSET Nat, NEW q \in Seq(Event), q # <<>>, NEW a,
           Programmed(o, n, F, q, a)
    PROVE  Programmed(o, n, F, Tail(q), a)
<1> DEFINE r == Tail(q)
<1>1. /\ Len(q) \in Nat /\ Len(r) = Len(q) - 1
      /\ \A i \in 1..Len(r) : i + 1 \in 1..Len(q) /\ r[i] = q[i + 1]
  BY TailParts
<1> HIDE DEF r
<1>2. \A k \in Nat : Requested(r, a, k) => Requested(q, a, k)
  BY <1>1 DEF Requested
<1>3. Once(r, a)
  <2>1. ASSUME NEW i \in 1..Len(r), NEW j \in 1..Len(r),
               r[i].kind = "ProgramRequest", r[j].kind = "ProgramRequest", r[i].id = r[j].id,
               r[i].id # 0
        PROVE  i = j
    <3> DEFINE x == i + 1
               y == j + 1
    <3>1. x \in 1..Len(q) /\ y \in 1..Len(q) /\ r[i] = q[x] /\ r[j] = q[y]
      BY <1>1
    <3>2. x = y => i = j
      BY <1>1
    <3> HIDE DEF x, y
    <3> QED
      BY <2>1, <3>1, <3>2 DEF Programmed, Once
  <2>2. ASSUME NEW i \in 1..Len(r), NEW j \in 1..Len(a), r[i].kind = "ProgramRequest", r[i].id # 0
        PROVE  r[i].id # a[j]
    BY <1>1, <2>2 DEF Programmed, Once
  <2> QED
    BY <2>1, <2>2 DEF Programmed, Once
<1> QED
  BY <1>2, <1>3 DEF Programmed, Past, r

\* It takes a request and starts the program.
LEMMA ProgramsStarted ==
    ASSUME NEW o, NEW n, NEW F \in SUBSET Nat, NEW q \in Seq(Event), q # <<>>, NEW a \in Seq(Nat),
           Programmed(o, n, F, q, a), Head(q).kind = "ProgramRequest"
    PROVE  Programmed(o, n, F, Tail(q), Append(a, Head(q).id))
<1> DEFINE r == Tail(q)
           k == Head(q).id
           b == Append(a, k)
<1>1. /\ Len(q) \in Nat /\ 1 \in 1..Len(q) /\ Head(q) = q[1] /\ q[1] \in Event
      /\ Len(r) = Len(q) - 1
      /\ \A i \in 1..Len(r) : i + 1 \in 1..Len(q) /\ r[i] = q[i + 1]
  BY TailParts
<1>2. k \in Nat /\ k = q[1].id /\ q[1].kind = "ProgramRequest"
  BY <1>1 DEF Event
<1> HIDE DEF r, k
<1>3. /\ Len(a) \in Nat /\ Len(b) = Len(a) + 1
      /\ \A i \in 1..Len(b) : IF i <= Len(a) THEN i \in 1..Len(a) /\ b[i] = a[i]
                              ELSE i = Len(b) /\ b[i] = k
  BY <1>2
<1> HIDE DEF b
<1>4. \A l \in Nat : Requested(r, b, l) => Requested(q, a, l)
  <2>1. ASSUME NEW l \in Nat, NEW i \in 1..Len(r), r[i].kind = "ProgramRequest", r[i].id = l
        PROVE  Requested(q, a, l)
    BY <1>1, <2>1 DEF Requested
  <2>2. ASSUME NEW l \in Nat, NEW i \in 1..Len(b), b[i] = l
        PROVE  Requested(q, a, l)
    BY <1>1, <1>2, <1>3, <2>2 DEF Requested
  <2> QED
    BY <2>1, <2>2 DEF Requested
<1>5. Once(r, b)
  <2>0. Once(q, a)
    BY DEF Programmed
  <2>1. ASSUME NEW i \in 1..Len(r), NEW j \in 1..Len(r),
               r[i].kind = "ProgramRequest", r[j].kind = "ProgramRequest", r[i].id = r[j].id,
               r[i].id # 0
        PROVE  i = j
    <3> DEFINE x == i + 1
               y == j + 1
    <3>1. x \in 1..Len(q) /\ y \in 1..Len(q) /\ r[i] = q[x] /\ r[j] = q[y]
      BY <1>1
    <3>2. x = y => i = j
      BY <1>1
    <3> HIDE DEF x, y
    <3> QED
      BY <2>0, <2>1, <3>1, <3>2 DEF Once
  <2>2. ASSUME NEW i \in 1..Len(r), NEW j \in 1..Len(b), r[i].kind = "ProgramRequest", r[i].id # 0
        PROVE  r[i].id # b[j]
    <3> DEFINE x == i + 1
    <3>1. x \in 1..Len(q) /\ x # 1 /\ r[i] = q[x]
      BY <1>1
    <3> HIDE DEF x
    <3>2. CASE j <= Len(a)
      BY <1>3, <2>0, <2>2, <3>1, <3>2 DEF Once
    <3>3. CASE ~(j <= Len(a))
      <4>1. b[j] = q[1].id
        BY <1>2, <1>3, <3>3
      <4> QED
        BY <1>1, <1>2, <2>0, <2>2, <3>1, <4>1 DEF Once
    <3> QED
      BY <3>2, <3>3
  <2>3. ASSUME NEW i \in 1..Len(b), NEW j \in 1..Len(b), b[i] = b[j], b[i] # 0
        PROVE  i = j
    <3>1. k # 0 => \A x \in 1..Len(a) : a[x] # k
      BY <1>1, <1>2, <2>0 DEF Once
    <3>2. CASE i <= Len(a) /\ j <= Len(a)
      BY <1>3, <2>0, <2>3, <3>2 DEF Once
    <3>3. CASE ~(i <= Len(a) /\ j <= Len(a))
      BY <1>3, <2>3, <3>1, <3>3
    <3> QED
      BY <3>2, <3>3
  <2> QED
    BY <2>1, <2>2, <2>3 DEF Once
<1> QED
  BY <1>4, <1>5 DEF Programmed, Past, r, b, k

--------------------------------------------------------------------------------
(* Both together, as the steps of either side change them *)

Sound(c, s, a) ==
    /\ Wire(c.out, c.opens, Held(c.channel), Held(s.channel))
    /\ Programmed(c.out, c.opens, Fresh(s), s.events, a)
    /\ s.channel.open \/ s.channel.id = 0

LEMMA ClientParts ==
    ASSUME NEW c \in ClientType
    PROVE  /\ c.out \in Seq(Message) /\ Len(c.out) \in Nat /\ c.opens \in Nat
           /\ c.channel.id \in Nat /\ Held(c.channel) \in SUBSET Nat
<1>1. c.out \in Seq(Message) /\ c.opens \in Nat /\ c.channel \in ClientChannel
  BY DEF ClientType
<1>2. c.channel.id \in Nat
  BY <1>1 DEF ClientChannel
<1>3. Held(c.channel) \in SUBSET Nat
  BY <1>2 DEF Held
<1>4. Len(c.out) \in Nat
  BY <1>1
<1> QED
  BY <1>1, <1>2, <1>3, <1>4

LEMMA ServerParts ==
    ASSUME NEW s \in ServerType
    PROVE  /\ s.out \in Seq(Message) /\ Len(s.out) \in Nat /\ s.events \in Seq(Event)
           /\ s.channel.id \in Nat /\ Held(s.channel) \in SUBSET {s.channel.id}
           /\ Held(s.channel) \in SUBSET Nat /\ Fresh(s) \in SUBSET Nat
           /\ Fresh(s) \subseteq Held(s.channel)
<1>1. s.out \in Seq(Message) /\ s.events \in Seq(Event) /\ s.channel.id \in Nat
  BY DEF ServerType
<1>2. Held(s.channel) \in SUBSET {s.channel.id} /\ Held(s.channel) \in SUBSET Nat
  BY <1>1 DEF Held
<1>3. Fresh(s) \in SUBSET Nat /\ Fresh(s) \subseteq Held(s.channel)
  BY <1>1 DEF Fresh, Held
<1>4. Len(s.out) \in Nat
  BY <1>1
<1> QED
  BY <1>1, <1>2, <1>3, <1>4

LEMMA SoundGrows ==
    ASSUME NEW c \in ClientType, NEW d \in ClientType, NEW s \in ServerType, NEW a,
           Sound(c, s, a), d.opens = c.opens, Held(d.channel) = Held(c.channel),
           Len(d.out) >= Len(c.out),
           \A i \in 1..Len(d.out) : IF i <= Len(c.out) THEN d.out[i] = c.out[i]
                                     ELSE MayFollow(d.out[i], Held(c.channel))
    PROVE  Sound(d, s, a)
<1>1. /\ c.out \in Seq(Message) /\ Len(c.out) \in Nat /\ c.opens \in Nat
      /\ Held(c.channel) \in SUBSET Nat
  BY ClientParts
<1>2. d.out \in Seq(Message) /\ Len(d.out) \in Nat
  BY ClientParts
<1>3. Held(s.channel) \in SUBSET Nat
  BY ServerParts
<1>6. Wire(d.out, c.opens, Held(c.channel), Held(s.channel))
  BY <1>1, <1>2, <1>3, WireGrows DEF Sound
<1>7. \A i \in 1..Len(d.out) : d.out[i].type = "CHANNEL_OPEN" =>
          d.out[i].id > c.opens \/ \E j \in 1..Len(c.out) : d.out[i] = c.out[j]
  BY <1>1, <1>2 DEF MayFollow, Chan
<1>8. c.opens >= c.opens /\ Fresh(s) \subseteq Fresh(s)
  BY <1>1
<1>9. Programmed(d.out, c.opens, Fresh(s), s.events, a)
  BY <1>1, <1>2, <1>7, <1>8, ProgramsKept DEF Sound
<1> QED
  BY <1>6, <1>9 DEF Sound

LEMMA SoundContinues ==
    ASSUME NEW c \in ClientType, NEW d \in ClientType, NEW s \in ServerType, NEW a,
           Sound(c, s, a), Continues(c, d)
    PROVE  Sound(d, s, a)
<1>1. d.opens = c.opens /\ Held(d.channel) = Held(c.channel) /\ Len(d.out) >= Len(c.out)
  BY DEF Continues, Held
<1>2. \A i \in 1..Len(d.out) : IF i <= Len(c.out) THEN d.out[i] = c.out[i]
                               ELSE MayFollow(d.out[i], Held(c.channel))
  BY DEF Continues, Ordinary, MayFollow, Chan, Held
<1> QED
  BY <1>1, <1>2, SoundGrows

Extended(o, m) == Append(o, m)

OldOr(o, p, m) == \A i \in 1..Len(p) : p[i] = m \/ \E j \in 1..Len(o) : p[i] = o[j]

LEMMA OneLonger ==
    ASSUME NEW o \in Seq(Message), NEW m \in Message, NEW p, p = Extended(o, m)
    PROVE  /\ p \in Seq(Message) /\ Longer(o, p, m)
           /\ OldOr(o, p, m)
<1>1. p \in Seq(Message) /\ Longer(o, p, m)
  BY DEF Longer, Extended
<1>2. Len(o) \in Nat
  OBVIOUS
<1>3. \A i \in 1..Len(p) : i = Len(p) \/ i \in 1..Len(o)
  BY <1>1, <1>2 DEF Longer
<1> QED
  BY <1>1, <1>3 DEF Longer, OldOr

LEMMA SoundCloses ==
    ASSUME NEW c \in ClientType, NEW d \in ClientType, NEW s \in ServerType, NEW a,
           Sound(c, s, a), Closes(c, d), ~c.closing, ~c.channel.sent_close
    PROVE  Sound(d, s, a)
<1>1. /\ c.out \in Seq(Message) /\ c.opens \in Nat /\ c.channel.id \in Nat
      /\ Held(c.channel) \in SUBSET Nat
  BY ClientParts
<1>2. Held(s.channel) \in SUBSET Nat
  BY ServerParts
<1>3. Held(d.channel) = {} /\ d.opens = c.opens
  BY DEF Closes, Held
<1>4. CASE ~c.channel.open
  <2>1. d.out = c.out /\ Held(c.channel) = {}
    BY <1>4 DEF Closes, Held
  <2> QED
    BY <1>3, <2>1 DEF Sound
<1>5. CASE c.channel.open
  <2> DEFINE m == CloseOf(c.channel.id)
  <2>1. d.out = Extended(c.out, m)
    BY <1>5 DEF Closes, Extended
  <2>2. m \in Message /\ m.type = "CHANNEL_CLOSE" /\ m.id = c.channel.id
    BY <1>1, EndsType
  <2> HIDE DEF m
  <2>3. Held(c.channel) = {c.channel.id}
    BY <1>5 DEF Held
  <2>4. c.channel.id = c.opens
    <3>1. Latest(c.out, c.opens, Held(c.channel))
      BY DEF Sound, Wire
    <3> QED
      BY <2>3, <3>1 DEF Latest
  <2>5. /\ d.out \in Seq(Message) /\ Longer(c.out, d.out, m)
        /\ OldOr(c.out, d.out, m)
    BY <1>1, <2>1, <2>2, OneLonger
  <2>6. Wire(d.out, c.opens, {}, Held(s.channel))
    <3>1. Wire(c.out, c.opens, {c.opens}, Held(s.channel))
      BY <2>3, <2>4 DEF Sound
    <3> QED
      BY <1>1, <1>2, <2>2, <2>4, <2>5, <3>1, WireCloses
  <2>7. Programmed(d.out, c.opens, Fresh(s), s.events, a)
    <3>1. \A i \in 1..Len(d.out) : d.out[i].type = "CHANNEL_OPEN" =>
              d.out[i].id > c.opens \/ \E j \in 1..Len(c.out) : d.out[i] = c.out[j]
      BY <2>2, <2>5 DEF OldOr
    <3>2. c.opens >= c.opens /\ Fresh(s) \subseteq Fresh(s)
      BY <1>1
    <3> QED
      BY <1>1, <2>5, <3>1, <3>2, ProgramsKept DEF Sound
  <2> QED
    BY <1>3, <2>6, <2>7 DEF Sound
<1>6. c.channel.open \in BOOLEAN
  BY DEF ClientType, ClientChannel
<1> QED
  BY <1>4, <1>5, <1>6

LEMMA SoundOpens ==
    ASSUME NEW c \in ClientType, NEW d \in ClientType, NEW s \in ServerType, NEW a,
           Sound(c, s, a), ~c.channel.open,
           d.channel.open, d.channel.id = c.opens + 1, d.opens = c.opens + 1,
           d.out = Append(c.out, OpenOf(c.opens + 1))
    PROVE  Sound(d, s, a)
<1>1. c.out \in Seq(Message) /\ c.opens \in Nat /\ c.opens + 1 \in Nat
  BY ClientParts
<1>2. Held(s.channel) \in SUBSET Nat
  BY ServerParts
<1>3. Held(c.channel) = {} /\ Held(d.channel) = {c.opens + 1}
  BY DEF Held
<1> DEFINE m == OpenOf(c.opens + 1)
<1>4. m \in Message /\ m.type = "CHANNEL_OPEN" /\ m.arg = "session" /\ m.id = c.opens + 1
  BY <1>1, EndsType
<1>5. d.out = Extended(c.out, m)
  BY DEF Extended
<1> HIDE DEF m
<1>6. /\ d.out \in Seq(Message) /\ Longer(c.out, d.out, m)
      /\ OldOr(c.out, d.out, m)
  BY <1>1, <1>4, <1>5, OneLonger
<1>7. Wire(d.out, c.opens + 1, {c.opens + 1}, Held(s.channel))
  <2>1. Wire(c.out, c.opens, {}, Held(s.channel))
    BY <1>3 DEF Sound
  <2> QED
    BY <1>1, <1>2, <1>4, <1>6, <2>1, WireOpens
<1>8. Programmed(d.out, c.opens + 1, Fresh(s), s.events, a)
  <2>1. \A i \in 1..Len(d.out) : d.out[i].type = "CHANNEL_OPEN" =>
            d.out[i].id > c.opens \/ \E j \in 1..Len(c.out) : d.out[i] = c.out[j]
    <3>1. m.id > c.opens
      BY <1>1, <1>4
    <3> QED
      BY <1>6, <3>1 DEF OldOr
  <2> DEFINE l == c.opens + 1
  <2>2. l \in Nat /\ l >= c.opens /\ Fresh(s) \subseteq Fresh(s)
    BY <1>1
  <2> HIDE DEF l
  <2>3. Programmed(c.out, c.opens, Fresh(s), s.events, a)
    BY DEF Sound
  <2>4. Programmed(d.out, l, Fresh(s), s.events, a)
    BY <1>1, <1>6, <2>1, <2>2, <2>3, ProgramsKept, ZenonT(40)
  <2> QED
    BY <2>4 DEF l
<1> QED
  BY <1>3, <1>7, <1>8 DEF Sound

\* The server's own steps: nothing is taken from the wire.
LEMMA SoundServer ==
    ASSUME NEW c, NEW s \in ServerType, NEW t \in ServerType, NEW a, Sound(c, s, a),
           SameChannel(s, t), t.program_started = s.program_started, t.events = s.events
    PROVE  Sound(c, t, a)
<1>1. Held(t.channel) = Held(s.channel) /\ Fresh(t) = Fresh(s)
  BY DEF SameChannel, Held, Fresh
<1> QED
  BY <1>1 DEF Sound, SameChannel

\* The driver hears of nothing that is a program.
LEMMA HeardQuietly ==
    ASSUME NEW o, NEW n, NEW F \in SUBSET Nat, NEW s \in ServerType, NEW t \in ServerType, NEW a,
           Programmed(o, n, F, s.events, a), NoNewProgram(s, t)
    PROVE  Programmed(o, n, F, t.events, a)
<1>1. s.events \in Seq(Event)
  BY ServerParts
<1>2. CASE t.events = s.events
  BY <1>2
<1>3. ASSUME NEW e \in Event, e.kind # "ProgramRequest", t.events = Append(s.events, e)
      PROVE  Programmed(o, n, F, t.events, a)
  <2>1. Programmed(o, n, F, Append(s.events, e), a)
    BY <1>1, <1>3, ProgramsHeard
  <2> QED
    BY <1>3, <2>1
<1> QED
  BY <1>2, <1>3 DEF NoNewProgram

\* What one turn of the server did to its channel and its events.
ServerTurn(s, m, t) ==
    \/ /\ m.type = "CHANNEL_OPEN" /\ t.channel.open /\ t.channel.id = m.id
       /\ ~t.program_started /\ t.events = s.events
    \/ /\ m.type = "CHANNEL_REQUEST" /\ SameChannel(s, t)
       /\ Quietly(s, t) \/ (ProgramAsked(s, t) /\ s.authenticated)
    \/ /\ m.type = "CHANNEL_CLOSE" /\ ~t.channel.open /\ t.channel.id = 0 /\ NoNewProgram(s, t)
    \/ /\ m.type \notin {"CHANNEL_OPEN", "CHANNEL_REQUEST", "CHANNEL_CLOSE"}
       /\ SameChannel(s, t) /\ Quietly(s, t)

LEMMA SoundTakes ==
    ASSUME NEW c \in ClientType, NEW d \in ClientType, NEW s \in ServerType, NEW t \in ServerType,
           NEW a \in Seq(Nat), Sound(c, s, a), Shorter(c.out, d.out),
           d.opens = c.opens, d.channel = c.channel, ServerTurn(s, c.out[1], t)
    PROVE  Sound(d, t, a)
<1> DEFINE o == c.out
           p == d.out
           n == c.opens
           C == Held(c.channel)
           S == Held(s.channel)
           F == Fresh(s)
           q == s.events
<1>1. /\ o \in Seq(Message) /\ p \in Seq(Message) /\ n \in Nat /\ C \in SUBSET Nat
      /\ Shorter(o, p) /\ Held(d.channel) = C /\ d.opens = n
  BY ClientParts
<1>2. /\ q \in Seq(Event) /\ S \in SUBSET Nat /\ S \in SUBSET {s.channel.id} /\ s.channel.id \in Nat
      /\ F \in SUBSET Nat /\ F \subseteq S
  BY ServerParts
<1>3. Wire(o, n, C, S) /\ Programmed(o, n, F, q, a)
  BY DEF Sound
<1>4. /\ 1 \in 1..Len(o) /\ o[1].id \in Nat
      /\ \A i \in 1..Len(p) : i + 1 \in 1..Len(o) /\ p[i] = o[i + 1]
  BY <1>1, ShorterParts
<1>5. ASSUME NEW G, Programmed(o, n, G, q, a) PROVE Programmed(p, n, G, q, a)
  <2>1. \A i \in 1..Len(p) : p[i].type = "CHANNEL_OPEN" =>
            p[i].id > n \/ \E j \in 1..Len(o) : p[i] = o[j]
    BY <1>4
  <2>2. n >= n /\ G \subseteq G
    BY <1>1
  <2> QED
    BY <1>1, <1>5, <2>1, <2>2, ProgramsKept
<1>6. SUFFICES /\ Wire(p, n, C, Held(t.channel))
               /\ Programmed(p, n, Fresh(t), t.events, a)
               /\ t.channel.open \/ t.channel.id = 0
  BY <1>1 DEF Sound
<1> HIDE DEF o, p, n, C, S, F, q
<1>7. CASE o[1].type = "CHANNEL_OPEN"
  <2>1. t.channel.open /\ t.channel.id = o[1].id /\ ~t.program_started /\ t.events = q
    BY <1>7 DEF ServerTurn, o, q
  <2>2. Held(t.channel) = {o[1].id} /\ Fresh(t) = {o[1].id}
    BY <2>1 DEF Held, Fresh
  <2>3. Wire(p, n, C, {o[1].id}) /\ o[1].id # 0
    BY <1>1, <1>2, <1>3, <1>7, WireTakesOpen
  <2>4. Programmed(o, n, {o[1].id}, q, a)
    BY <1>1, <1>3, <1>4, <1>7, <2>3, ProgramsOpened
  <2>5. Programmed(p, n, {o[1].id}, q, a)
    BY <1>5, <2>4
  <2> QED
    BY <2>1, <2>2, <2>3, <2>5
<1>8. CASE o[1].type = "CHANNEL_CLOSE"
  <2>1. ~t.channel.open /\ t.channel.id = 0 /\ NoNewProgram(s, t)
    BY <1>8 DEF ServerTurn, o
  <2>2. Held(t.channel) = {} /\ Fresh(t) = {}
    BY <2>1 DEF Held, Fresh
  <2>3. Wire(p, n, C, {})
    BY <1>1, <1>2, <1>3, <1>8, WireTakesClose
  <2>4. Programmed(o, n, {}, q, a)
    BY <1>3 DEF Programmed
  <2>5. Programmed(p, n, {}, q, a)
    BY <1>5, <2>4
  <2>6. Programmed(p, n, {}, t.events, a)
    BY <2>1, <2>5, HeardQuietly DEF q
  <2> QED
    BY <2>1, <2>2, <2>3, <2>6
<1>9. CASE o[1].type \notin {"CHANNEL_OPEN", "CHANNEL_CLOSE"}
  <2>1. SameChannel(s, t) /\ Held(t.channel) = S
    BY <1>9 DEF ServerTurn, o, SameChannel, Held, S
  <2>0. t.channel.open \/ t.channel.id = 0
    BY <2>1 DEF SameChannel, Sound
  <2>2. Wire(p, n, C, S)
    BY <1>1, <1>2, <1>3, <1>9, WireTakesOther
  <2>3. Programmed(p, n, F, q, a)
    BY <1>3, <1>5
  <2>4. CASE Quietly(s, t)
    <3>1. Fresh(t) = F
      BY <2>1, <2>4 DEF Quietly, Fresh, F, SameChannel
    <3>2. Programmed(p, n, F, t.events, a)
      BY <1>2, <2>3, <2>4, HeardQuietly DEF q, Quietly
    <3> QED
      BY <2>0, <2>1, <2>2, <3>1, <3>2
  <2>5. CASE ~Quietly(s, t)
    <3>1. ProgramAsked(s, t) /\ o[1].type = "CHANNEL_REQUEST"
      BY <1>9, <2>5 DEF ServerTurn, o
    <3>2. PICK e \in Event : /\ e.kind = "ProgramRequest" /\ e.id = s.channel.id
                             /\ t.events = Append(q, e)
      BY <3>1 DEF ProgramAsked, q
    <3>3. Fresh(t) = {} /\ ~s.program_started
      BY <3>1 DEF ProgramAsked, Fresh
    <3>4. Programmed(p, n, {}, Append(q, e), a)
      <4>1. CASE s.channel.open
        <5>1. s.channel.id \in S /\ e.id \in F
          BY <3>2, <3>3, <4>1 DEF S, Held, F, Fresh
        <5>2. e.id \in 1..n /\ \A i \in 1..Len(p) : p[i].type = "CHANNEL_OPEN" => e.id < p[i].id
          BY <2>2, <3>2, <5>1 DEF Wire, Behind, Known, Chan
        <5> QED
          BY <1>1, <1>2, <2>3, <3>2, <5>1, <5>2, ProgramsAsked
      <4>2. CASE ~s.channel.open
        <5>1. e.id = 0
          BY <3>2, <4>2 DEF Sound
        <5> QED
          BY <1>1, <1>2, <2>3, <3>2, <5>1, ProgramsStray
      <4> QED
        BY <4>1, <4>2
    <3> QED
      BY <2>0, <2>1, <2>2, <3>2, <3>3, <3>4
  <2> QED
    BY <2>4, <2>5
<1> QED
  BY <1>7, <1>8, <1>9

--------------------------------------------------------------------------------
(* Authentication and the states of the client *)

\* Only an authenticated client asks for programs.
Asked(s) == (\E i \in 1..Len(s.events) : s.events[i].kind = "ProgramRequest") => s.authenticated

\* The client's states: nothing is sent before the key exchange is over, a client
\* that refused the host key says only so, and a channel is opened once
\* authentication is over.
Life(c, s) ==
    /\ s.authenticated => c.state # "Handshaking" /\ ~c.closing
    /\ Asked(s)
    /\ c.state = "Handshaking" => /\ c.out = <<>> /\ s.out = <<>> /\ c.opens = 0
                                  /\ c.channel = NoClientChannel
    /\ c.closing => /\ s.out = <<>> /\ c.opens = 0 /\ c.channel = NoClientChannel
                    /\ c.state \in {"Done", "ExpectServiceAccept"}
                    /\ \A i \in 1..Len(c.out) : c.out[i].type = "DISCONNECT"
    /\ c.opens # 0 => s.authenticated
    /\ \A i \in 1..Len(s.out) : s.out[i].type # "CHANNEL_OPEN_FAILURE"
    /\ ~c.channel.sent_close

\* A client that knows of its success, or will, has it as the last answer.
Succeeded(c, s, a) ==
    c.state = "Authenticated" \/ (\E i \in 1..Len(s.out) : s.out[i].type = "USERAUTH_SUCCESS") =>
        s.authenticated /\ a # <<>> /\ Last(a) = "USERAUTH_SUCCESS"

Count(a, type) == Cardinality({i \in DOMAIN a : a[i] = type})

\* The answers are counted, and the caps hold.
Capped(s, a) ==
    /\ Len(a) <= s.auth_requests /\ Len(a) <= MaxAuthRequests
    /\ Count(a, "USERAUTH_FAILURE") <= s.auth_failures /\ Count(a, "USERAUTH_FAILURE") < MaxAuthAttempts
    /\ Count(a, "USERAUTH_SUCCESS") <= IF s.authenticated THEN 1 ELSE 0

LEMMA CountedAnswer ==
    ASSUME NEW a \in Seq(AuthReplies), NEW x \in AuthReplies, NEW type
    PROVE  /\ Count(a, type) \in Nat
           /\ Count(Append(a, x), type) = IF x = type THEN Count(a, type) + 1 ELSE Count(a, type)
<1> DEFINE b == Append(a, x)
           I == {i \in DOMAIN a : a[i] = type}
           J == {i \in DOMAIN b : b[i] = type}
           l == Len(a) + 1
<1>1. Len(a) \in Nat /\ DOMAIN a = 1..Len(a)
  OBVIOUS
<1>2. DOMAIN b = 1..l /\ b[l] = x /\ \A i \in 1..Len(a) : b[i] = a[i]
  OBVIOUS
<1>3. IsFiniteSet(I) /\ Cardinality(I) \in Nat
  <2>1. IsFiniteSet(1..Len(a))
    BY <1>1, FS_Interval
  <2>2. I \subseteq 1..Len(a)
    BY <1>1
  <2> QED
    BY <2>1, <2>2, FS_Subset, FS_CardinalityType
<1>4. J = IF x = type THEN I \cup {l} ELSE I
  <2> HIDE DEF b
  <2> QED
    BY <1>1, <1>2
<1>5. l \notin I
  BY <1>1
<1> HIDE DEF I, J, l
<1>6. Cardinality(I \cup {l}) = Cardinality(I) + 1
  BY <1>3, <1>5, FS_AddElement
<1>7. Cardinality(J) = IF x = type THEN Cardinality(I) + 1 ELSE Cardinality(I)
  BY <1>4, <1>6
<1> QED
  BY <1>3, <1>7 DEF Count, I, J

AnsweredBy(s, t) ==
    IF Len(t.out) > Len(s.out) /\ Last(t.out).type \in AuthReplies
    THEN <<Last(t.out).type>> ELSE <<>>

LEMMA NotAnswered ==
    ASSUME NEW s \in ServerType, NEW t \in ServerType, Grown(s, t, Unanswered)
    PROVE  /\ AnsweredBy(s, t) = <<>>
           /\ \A i \in 1..Len(t.out) : t.out[i].type = "USERAUTH_SUCCESS" =>
                  i \in 1..Len(s.out) /\ s.out[i].type = "USERAUTH_SUCCESS"
           /\ \A i \in 1..Len(t.out) : t.out[i].type = "CHANNEL_OPEN_FAILURE" =>
                  i \in 1..Len(s.out) /\ s.out[i].type = "CHANNEL_OPEN_FAILURE"
<1>1. Len(s.out) \in Nat
  BY ServerParts
<1>2. Len(t.out) \in Nat
  BY ServerParts
<1>3. \A i \in 1..Len(t.out) : IF i <= Len(s.out) THEN i \in 1..Len(s.out) /\ t.out[i] = s.out[i]
                               ELSE t.out[i].type \notin AuthReplies \cup {"CHANNEL_OPEN_FAILURE"}
  BY <1>1, <1>2 DEF Grown, Unanswered
<1>4. ASSUME Len(t.out) > Len(s.out) PROVE Last(t.out).type \notin AuthReplies
  BY <1>1, <1>2, <1>3, <1>4 DEF Last
<1> QED
  BY <1>3, <1>4 DEF AnsweredBy, AuthReplies

LEMMA OnceAnswered ==
    ASSUME NEW s \in ServerType, NEW t \in ServerType, NEW x \in AuthReplies, Answers(s, t, x)
    PROVE  /\ AnsweredBy(s, t) = <<x>>
           /\ \A i \in 1..Len(t.out) : t.out[i].type = x \/ (i \in 1..Len(s.out) /\ t.out[i] = s.out[i])
<1> DEFINE m == Reply(x)
<1>1. m.type = x
  BY DEF Reply, Msg
<1>2. t.out = Append(s.out, m) /\ s.out \in Seq(Message)
  BY ServerParts DEF Answers
<1> HIDE DEF m
<1>3. /\ Len(s.out) \in Nat /\ Len(t.out) = Len(s.out) + 1 /\ t.out[Len(t.out)] = m
      /\ \A i \in 1..Len(s.out) : t.out[i] = s.out[i]
  BY <1>2
<1>4. Last(t.out).type = x
  BY <1>1, <1>3 DEF Last
<1>5. Len(t.out) > Len(s.out)
  BY <1>3
<1>6. AnsweredBy(s, t) = <<x>>
  BY <1>4, <1>5 DEF AnsweredBy
<1> QED
  BY <1>1, <1>3, <1>6

\* What a turn of the server leaves of its answers.
AuthTurn(s, t) ==
    \/ ~s.authenticated /\ AuthStep(s, t)
    \/ AuthKept(s, t) /\ Grown(s, t, Unanswered)

LEMMA AuthAdvances ==
    ASSUME NEW c, NEW s \in ServerType, NEW t \in ServerType, NEW a \in Seq(AuthReplies),
           Capped(s, a), Succeeded(c, s, a), AuthTurn(s, t),
           NEW b, b = a \o AnsweredBy(s, t)
    PROVE  b \in Seq(AuthReplies) /\ Capped(t, b) /\ Succeeded(c, t, b)
<1>0. /\ s.auth_requests \in Nat /\ s.auth_failures \in Nat
      /\ t.auth_requests \in Nat /\ t.auth_failures \in Nat
      /\ Len(a) \in Nat /\ MaxAuthRequests \in Nat /\ MaxAuthAttempts \in Nat
  BY ServerAssumption DEF ServerType
<1>1. \A type : Count(a, type) \in Nat
  BY CountedAnswer DEF AuthReplies
<1>2. CASE Grown(s, t, Unanswered)
  <2>1. b = a
    BY <1>2, NotAnswered
  <2>2. t.auth_requests >= s.auth_requests /\ t.auth_failures >= s.auth_failures
    BY <1>0 DEF AuthTurn, AuthStep, AuthKept
  <2>3. s.authenticated => t.authenticated
    BY DEF AuthTurn, AuthKept
  <2>4. Capped(t, b)
    BY <1>0, <1>1, <2>1, <2>2, <2>3 DEF Capped
  <2>5. Succeeded(c, t, b)
    BY <1>2, <2>1, <2>3, NotAnswered DEF Succeeded
  <2> QED
    BY <2>1, <2>4, <2>5
<1>3. CASE ~Grown(s, t, Unanswered)
  <2>1. /\ ~s.authenticated
        /\ t.auth_requests = s.auth_requests + 1 /\ t.auth_requests <= MaxAuthRequests
        /\ t.auth_failures >= s.auth_failures
        /\ \/ Answers(s, t, "USERAUTH_PK_OK") /\ ~t.authenticated
           \/ /\ Answers(s, t, "USERAUTH_FAILURE") /\ ~t.authenticated
              /\ t.auth_failures = s.auth_failures + 1 /\ t.auth_failures < MaxAuthAttempts
           \/ Answers(s, t, "USERAUTH_SUCCESS") /\ t.authenticated
    BY <1>3 DEF AuthTurn, AuthStep
  <2>2. PICK x \in AuthReplies :
            /\ Answers(s, t, x)
            /\ x = "USERAUTH_SUCCESS" <=> t.authenticated
            /\ x = "USERAUTH_FAILURE" => t.auth_failures = s.auth_failures + 1
                                         /\ t.auth_failures < MaxAuthAttempts
    <3>1. {"USERAUTH_PK_OK", "USERAUTH_FAILURE", "USERAUTH_SUCCESS"} \subseteq AuthReplies
      BY DEF AuthReplies
    <3>2. CASE Answers(s, t, "USERAUTH_PK_OK") /\ ~t.authenticated
      BY <3>1, <3>2
    <3>3. CASE /\ Answers(s, t, "USERAUTH_FAILURE") /\ ~t.authenticated
               /\ t.auth_failures = s.auth_failures + 1 /\ t.auth_failures < MaxAuthAttempts
      BY <3>1, <3>3
    <3>4. CASE Answers(s, t, "USERAUTH_SUCCESS") /\ t.authenticated
      BY <3>1, <3>4
    <3> QED
      BY <2>1, <3>2, <3>3, <3>4
  <2>3. AnsweredBy(s, t) = <<x>>
    BY <2>2, OnceAnswered
  <2>4. \A i \in 1..Len(t.out) : t.out[i].type = x \/ (i \in 1..Len(s.out) /\ t.out[i] = s.out[i])
    BY <2>2, OnceAnswered
  <2>5. b = Append(a, x)
    BY <2>3
  <2>6. b \in Seq(AuthReplies) /\ Len(b) = Len(a) + 1 /\ b # <<>> /\ b[Len(b)] = x
    BY <2>5
  <2>7. \A type : Count(b, type) = IF x = type THEN Count(a, type) + 1 ELSE Count(a, type)
    BY <2>5, CountedAnswer
  <2>8. Capped(t, b)
    <3>1. Len(b) <= t.auth_requests /\ Len(b) <= MaxAuthRequests
      BY <1>0, <2>1, <2>6 DEF Capped
    <3>2. /\ Count(b, "USERAUTH_FAILURE") <= t.auth_failures
          /\ Count(b, "USERAUTH_FAILURE") < MaxAuthAttempts
      <4>1. Count(a, "USERAUTH_FAILURE") <= s.auth_failures
            /\ Count(a, "USERAUTH_FAILURE") < MaxAuthAttempts
        BY DEF Capped
      <4>2. CASE x = "USERAUTH_FAILURE"
        BY <1>0, <1>1, <2>2, <2>7, <4>1, <4>2
      <4>3. CASE x # "USERAUTH_FAILURE"
        BY <1>0, <1>1, <2>1, <2>7, <4>1, <4>3
      <4> QED
        BY <4>2, <4>3
    <3>3. Count(b, "USERAUTH_SUCCESS") <= IF t.authenticated THEN 1 ELSE 0
      <4>1. Count(a, "USERAUTH_SUCCESS") <= 0
        BY <2>1 DEF Capped
      <4>2. CASE x = "USERAUTH_SUCCESS"
        BY <1>1, <2>2, <2>7, <4>1, <4>2
      <4>3. CASE x # "USERAUTH_SUCCESS"
        BY <1>1, <2>2, <2>7, <4>1, <4>3
      <4> QED
        BY <4>2, <4>3
    <3> QED
      BY <3>1, <3>2, <3>3 DEF Capped
  <2>9. Succeeded(c, t, b)
    <3>1. c.state # "Authenticated" /\ \A i \in 1..Len(s.out) : s.out[i].type # "USERAUTH_SUCCESS"
      BY <2>1 DEF Succeeded
    <3>2. CASE x = "USERAUTH_SUCCESS"
      BY <2>2, <2>6, <3>2 DEF Succeeded, Last
    <3>3. CASE x # "USERAUTH_SUCCESS"
      BY <2>4, <3>1, <3>3 DEF Succeeded
    <3> QED
      BY <3>2, <3>3
  <2> QED
    BY <2>6, <2>8, <2>9
<1> QED
  BY <1>2, <1>3

\* One turn of the pump.
LEMMA Pumped ==
    ASSUME NEW c \in ClientType, c.out # <<>>, NEW s \in ServerType, NEW a, Sound(c, s, a),
           c.opens # 0 => s.authenticated,
           NEW t, t = pump(s, Head(c.out))
    PROVE  /\ t \in ServerType /\ AuthTurn(s, t) /\ ServerTurn(s, c.out[1], t)
           /\ c.out[1].type = "DISCONNECT" => t.out = s.out /\ t.authenticated = s.authenticated
<1> DEFINE m == c.out[1]
           o == c.out
           n == c.opens
<1>1. /\ o \in Seq(Message) /\ n \in Nat /\ Held(c.channel) \in SUBSET Nat
  BY ClientParts
<1>2. Held(s.channel) \in SUBSET Nat
  BY ServerParts
<1>3. /\ 1 \in 1..Len(o) /\ Head(o) = m /\ m \in Message
      /\ Tail(o) \in Seq(Message) /\ Shorter(o, Tail(o))
  <2>1. /\ Len(o) \in Nat /\ 1 \in 1..Len(o) /\ Head(o) = m /\ m \in Message
        /\ Tail(o) \in Seq(Message) /\ Len(Tail(o)) = Len(o) - 1
        /\ \A i \in 1..Len(Tail(o)) : Tail(o)[i] = o[i + 1]
    BY <1>1, TailParts
  <2> QED
    BY <2>1 DEF Shorter
<1>4. Wire(o, n, Held(c.channel), Held(s.channel))
  BY DEF Sound
<1>5. /\ Chan(m) => m.id \in 1..n
      /\ m.type = "CHANNEL_REQUEST" => m.arg \in Request
  BY <1>3, <1>4 DEF Wire, Known
<1>6. m.type = "CHANNEL_OPEN" => m.arg = "session" /\ ~s.channel.open
  <2>1. SUFFICES ASSUME m.type = "CHANNEL_OPEN" PROVE m.arg = "session" /\ ~s.channel.open
    OBVIOUS
  <2>2. Held(s.channel) = {} /\ m.arg = "session"
    BY <1>1, <1>2, <1>3, <1>4, <2>1, WireTakesOpen
  <2> QED
    BY <2>2 DEF Held
<1>7. t = pump(s, m)
  BY <1>3
<1> HIDE DEF m, o, n
<1>8. CASE m.type = "DISCONNECT"
  <2>1. t = push_event(s, "Disconnect", 0, NoArg)
    BY <1>7, <1>8 DEF pump
  <2>0. \/ t = s \/ t = handle_channel_eof(s) \/ t = push_event(s, "Disconnect", 0, NoArg)
    BY <2>1
  <2>2. t \in ServerType /\ SameBooks(s, t) /\ NoNewProgram(s, t) /\ t.out = s.out
    BY <2>0, QuietStep
  <2>3. Grown(s, t, Unanswered)
    BY <2>2 DEF Grown, ServerType
  <2>4. AuthTurn(s, t)
    BY <2>2, <2>3 DEF AuthTurn, AuthKept, SameBooks
  <2>5. ServerTurn(s, m, t)
    BY <1>8, <2>2 DEF ServerTurn, SameBooks, SameChannel, Quietly
  <2> QED
    BY <2>2, <2>4, <2>5 DEF m, SameBooks
<1>9. CASE m.type # "DISCONNECT" /\ s.authenticated
  <2>1. t = handle_connection(s, m)
    BY <1>7, <1>9 DEF pump
  <2>2. WellFormed(m)
    BY <1>5 DEF WellFormed
  <2>3. t \in ServerType /\ AuthKept(s, t) /\ Grown(s, t, Unanswered) /\ ServerTurn(s, m, t)
    <3>1. /\ t \in ServerType /\ AuthKept(s, t) /\ Grown(s, t, Unanswered)
          /\ \/ /\ m.type = "CHANNEL_OPEN" /\ t.channel.open /\ t.channel.id = m.id
                /\ ~t.program_started /\ t.events = s.events
             \/ /\ m.type = "CHANNEL_REQUEST" /\ SameChannel(s, t)
                /\ Quietly(s, t) \/ ProgramAsked(s, t)
             \/ /\ m.type = "CHANNEL_CLOSE" /\ ~t.channel.open /\ t.channel.id = 0
                /\ NoNewProgram(s, t)
             \/ /\ m.type \notin {"CHANNEL_OPEN", "CHANNEL_REQUEST", "CHANNEL_CLOSE"}
                /\ SameChannel(s, t) /\ Quietly(s, t)
      BY <1>3, <1>6, <2>1, <2>2, ConnectionStep
    <3> QED
      BY <1>9, <3>1 DEF ServerTurn
  <2> QED
    BY <1>9, <2>3 DEF m, AuthTurn
<1>10. CASE m.type # "DISCONNECT" /\ ~s.authenticated
  <2>1. t = handle_preauth(s, m)
    BY <1>7, <1>10 DEF pump
  <2>2. t \in ServerType /\ ChannelKept(s, t) /\ AuthStep(s, t)
    BY <1>3, <1>10, <2>1, PreauthStep
  <2>0. n = 0
    BY <1>10 DEF n
  <2>3. m.type # "CHANNEL_OPEN"
    <3>1. m.type = "CHANNEL_OPEN" => m.id # 0
      BY <1>3, <1>4 DEF Wire, Known, m, o
    <3> QED
      BY <1>5, <2>0, <3>1 DEF Chan
  <2>5. ~s.channel.open /\ s.channel.id = 0
    <3>1. \A k \in Held(s.channel) : k \in 1..n
      BY <1>4 DEF Wire, Behind
    <3> QED
      BY <2>0, <3>1 DEF Held, Sound
  <2>4. ServerTurn(s, m, t)
    BY <2>2, <2>3, <2>5 DEF ServerTurn, ChannelKept, SameChannel, Quietly
  <2> QED
    BY <1>10, <2>2, <2>4 DEF m, AuthTurn
<1> QED
  BY <1>8, <1>9, <1>10 DEF ServerType

\* What a turn sends is no refusal of a channel.
LEMMA NoRefusal ==
    ASSUME NEW s \in ServerType, NEW t \in ServerType, AuthTurn(s, t),
           \A i \in 1..Len(s.out) : s.out[i].type # "CHANNEL_OPEN_FAILURE"
    PROVE  \A i \in 1..Len(t.out) : t.out[i].type # "CHANNEL_OPEN_FAILURE"
<1>1. CASE Grown(s, t, Unanswered)
  BY <1>1, NotAnswered
<1>2. ASSUME NEW x \in AuthReplies, Answers(s, t, x)
      PROVE  \A i \in 1..Len(t.out) : t.out[i].type # "CHANNEL_OPEN_FAILURE"
  <2>1. \A i \in 1..Len(t.out) : t.out[i].type = x \/ (i \in 1..Len(s.out) /\ t.out[i] = s.out[i])
    BY <1>2, OnceAnswered
  <2> QED
    BY <2>1 DEF AuthReplies
<1>3. {"USERAUTH_PK_OK", "USERAUTH_FAILURE", "USERAUTH_SUCCESS"} \subseteq AuthReplies
  BY DEF AuthReplies
<1>4. Grown(s, t, Unanswered) \/ \E x \in AuthReplies : Answers(s, t, x)
  BY <1>3 DEF AuthTurn, AuthStep
<1> QED
  BY <1>1, <1>2, <1>4

LEMMA LifeOfServer ==
    ASSUME NEW c, NEW s \in ServerType, NEW t \in ServerType, Life(c, s), AuthTurn(s, t), Asked(t),
           \/ c.state # "Handshaking" /\ ~c.closing
           \/ t.out = s.out /\ t.authenticated = s.authenticated
    PROVE  Life(c, t)
<1>1. s.authenticated => t.authenticated
  BY DEF AuthTurn, AuthKept
<1>2. \A i \in 1..Len(t.out) : t.out[i].type # "CHANNEL_OPEN_FAILURE"
  BY NoRefusal DEF Life
<1> QED
  BY <1>1, <1>2 DEF Life

LEMMA LifeOfClient ==
    ASSUME NEW c, NEW d, NEW s, Life(c, s), ~c.closing, d.state # "Handshaking",
           Continues(c, d) \/ Closes(c, d)
    PROVE  Life(d, s)
  BY DEF Life, Continues, Closes, Asked

--------------------------------------------------------------------------------
(* The invariant *)

TypeOK ==
    /\ client \in ClientType /\ server \in ServerType
    /\ "started" \in DOMAIN app /\ app.started \in Seq(Nat)
    /\ term \in Nat /\ answers \in Seq(AuthReplies) /\ trusted \in BOOLEAN

SessionInv ==
    /\ TypeOK
    /\ Sound(client, server, app.started)
    /\ Life(client, server)
    /\ Capped(server, answers)
    /\ Succeeded(client, server, answers)

LEMMA SessionInit == Init => SessionInv
<1> SUFFICES ASSUME Init PROVE SessionInv
  OBVIOUS
<1>1. PICK attempts \in SeqOf(Attempts, MaxAttempts) : client = NewClient(attempts)
  BY DEF Init
<1>2. PICK allow \in BOOLEAN : server = NewServer(allow)
  BY DEF Init
<1>3. attempts \in Seq(Credentials)
  BY <1>1, SessionAssumption DEF SeqOf
<1>4. NoClientChannel \in ClientChannel /\ ~NoClientChannel.open /\ ~NoClientChannel.sent_close
  BY DEF NoClientChannel, ClientChannel
<1>5. /\ client \in ClientType /\ client.state = "Handshaking" /\ client.out = <<>>
      /\ client.opens = 0 /\ client.channel = NoClientChannel /\ ~client.closing
  <2>1. <<>> \in Seq(Message) /\ <<>> \in Seq([kind : {"Pty", "Session"}, id : Nat])
    OBVIOUS
  <2> QED
    BY <1>1, <1>3, <1>4, <2>1 DEF NewClient, ClientType, States, NoPty
<1>6. /\ server \in ServerType /\ server.out = <<>> /\ server.events = <<>>
      /\ ~server.authenticated /\ server.channel = NoChannel
      /\ server.auth_requests = 0 /\ server.auth_failures = 0
  <2>1. NoChannel \in [open : BOOLEAN, id : Nat, sent_close : BOOLEAN, pty : Nat]
    BY DEF NoChannel, NoPty
  <2>2. <<>> \in Seq(Message) /\ <<>> \in Seq(Event)
    OBVIOUS
  <2> QED
    BY <1>2, <2>1, <2>2 DEF NewServer, ServerType
<1>7. /\ "started" \in DOMAIN app /\ app.started = <<>> /\ answers = <<>> /\ trusted \in BOOLEAN
  BY DEF Init
<1>8. term \in Nat
  BY SessionAssumption DEF Init
<1>9. TypeOK
  BY <1>5, <1>6, <1>7, <1>8 DEF TypeOK
<1>10. ~NoChannel.open /\ NoChannel.id = 0
  BY DEF NoChannel
<1>11. Held(client.channel) = {} /\ Held(server.channel) = {} /\ Fresh(server) = {}
  BY <1>4, <1>5, <1>6, <1>10 DEF Held, Fresh
<1>12. Wire(<<>>, 0, {}, {})
  BY DEF Wire, Known, Ordered, Closing, Latest, Behind, Live, Opened
<1>13. Programmed(<<>>, 0, {}, <<>>, <<>>)
  BY DEF Programmed, Once, Past, Requested
<1>14. Sound(client, server, app.started)
  BY <1>5, <1>6, <1>7, <1>10, <1>11, <1>12, <1>13 DEF Sound
<1>15. Life(client, server)
  BY <1>4, <1>5, <1>6 DEF Life, Asked
<1>16. Capped(server, answers)
  <2>1. \A type : Count(<<>>, type) = 0
    BY FS_EmptySet DEF Count
  <2> QED
    BY <1>6, <1>7, <2>1, ServerAssumption DEF Capped
<1>17. Succeeded(client, server, answers)
  BY <1>5, <1>6 DEF Succeeded
<1> QED
  BY <1>9, <1>14, <1>15, <1>16, <1>17 DEF SessionInv

--------------------------------------------------------------------------------
(* What a step preserves, side by side *)

\* The invariant of the two connections, whatever they and the application's
\* programs and the answers are.
Holds(c, s, a, b) ==
    /\ c \in ClientType /\ s \in ServerType /\ a \in Seq(Nat) /\ b \in Seq(AuthReplies)
    /\ Sound(c, s, a) /\ Life(c, s) /\ Capped(s, b) /\ Succeeded(c, s, b)

\* The client sends, or drops its channel.
LEMMA ClientMoves ==
    ASSUME NEW c, NEW s, NEW a, NEW b, Holds(c, s, a, b), ~c.closing,
           NEW d \in ClientType, Continues(c, d) \/ Closes(c, d), d.state # "Handshaking",
           d.state = "Authenticated" =>
               c.state = "Authenticated" \/ (s.authenticated /\ b # <<>> /\ Last(b) = "USERAUTH_SUCCESS")
    PROVE  Holds(d, s, a, b)
<1>1. c \in ClientType /\ s \in ServerType /\ Sound(c, s, a) /\ Life(c, s)
  BY DEF Holds
<1>2. ~c.channel.sent_close
  BY <1>1 DEF Life
<1>3. Sound(d, s, a)
  BY <1>1, <1>2, SoundContinues, SoundCloses
<1>4. Life(d, s)
  BY <1>1, LifeOfClient
<1>5. Succeeded(d, s, b)
  BY DEF Holds, Succeeded
<1> QED
  BY <1>3, <1>4, <1>5 DEF Holds

\* The key exchange is over.
LEMMA HandshakeKeeps ==
    ASSUME NEW c, NEW s, NEW a, NEW b, Holds(c, s, a, b), c.state = "Handshaking",
           NEW trust \in BOOLEAN, NEW d, d = established(verify_host_key(c, trust))
    PROVE  Holds(d, s, a, b)
<1>1. c \in ClientType /\ s \in ServerType /\ Sound(c, s, a) /\ Life(c, s)
  BY DEF Holds
<1>2. /\ c.out = <<>> /\ s.out = <<>> /\ c.opens = 0 /\ c.channel = NoClientChannel /\ ~c.closing
      /\ ~c.channel.sent_close
  BY <1>1 DEF Life
<1>3. /\ d \in ClientType /\ d.channel = c.channel /\ d.opens = c.opens
      /\ \/ d = c
         \/ d.state = "ExpectServiceAccept" /\ Continues(c, d)
         \/ /\ d.state \in {"Done", "ExpectServiceAccept"} /\ d.closing
            /\ \A i \in 1..Len(d.out) : d.out[i].type = "DISCONNECT"
  BY <1>1, <1>2, HandshakeEnds
<1>4. CASE d = c
  BY <1>4
<1>5. CASE d.state = "ExpectServiceAccept" /\ Continues(c, d)
  BY <1>2, <1>3, <1>5, ClientMoves
<1>6. CASE /\ d.state \in {"Done", "ExpectServiceAccept"} /\ d.closing
           /\ \A i \in 1..Len(d.out) : d.out[i].type = "DISCONNECT"
  <2>1. Len(c.out) = 0 /\ Len(d.out) \in Nat
    BY <1>2, <1>3, ClientParts
  <2>2. \A i \in 1..Len(d.out) : IF i <= Len(c.out) THEN d.out[i] = c.out[i]
                                 ELSE MayFollow(d.out[i], Held(c.channel))
    BY <1>6, <2>1 DEF MayFollow, Chan
  <2>3. Len(d.out) >= Len(c.out)
    BY <2>1
  <2>4. Held(d.channel) = Held(c.channel)
    BY <1>3
  <2>5. Sound(d, s, a)
    BY <1>1, <1>3, <2>2, <2>3, <2>4, SoundGrows
  <2>6. Life(d, s)
    BY <1>1, <1>2, <1>3, <1>6 DEF Life
  <2>7. Succeeded(d, s, b)
    BY <1>2, <1>6 DEF Holds, Succeeded
  <2> QED
    BY <1>3, <2>5, <2>6, <2>7 DEF Holds
<1> QED
  BY <1>3, <1>4, <1>5, <1>6

\* A session is opened, with or without a terminal.
LEMMA OpenKeeps ==
    ASSUME NEW c, NEW s, NEW a, NEW b, Holds(c, s, a, b), c.state = "Authenticated", ~c.channel.open,
           NEW request \in {"exec", "shell"}, NEW pty \in BOOLEAN, NEW size \in Nat,
           NEW d, d = open_session(IF pty THEN request_pty(c, size) ELSE c, request)
    PROVE  Holds(d, s, a, b)
<1>1. c \in ClientType /\ s \in ServerType /\ Life(c, s)
  BY DEF Holds
<1>2. ~c.closing
  BY <1>1 DEF Life
<1> DEFINE e == IF pty THEN request_pty(c, size) ELSE c
<1>3. /\ e \in ClientType /\ e.channel = c.channel /\ e.opens = c.opens /\ e.closing = c.closing
      /\ e.out = c.out /\ e.state = c.state
  BY <1>1 DEF request_pty, ClientType
<1>4. d = open_session(e, request)
  OBVIOUS
<1> HIDE DEF e
<1>5. Continues(c, e)
  BY <1>1, <1>3, ContinuesSame
<1>6. Holds(e, s, a, b)
  BY <1>2, <1>3, <1>5, ClientMoves
<1>7. /\ d \in ClientType /\ d.state = e.state /\ ~d.closing
      /\ d.channel.open /\ d.channel.id = e.opens + 1 /\ ~d.channel.sent_close
      /\ d.opens = e.opens + 1 /\ d.out = Append(e.out, OpenOf(e.opens + 1))
  BY <1>2, <1>3, <1>4, SessionOpened, SMTT(40)
<1>8. Sound(d, s, a)
  BY <1>3, <1>6, <1>7, SoundOpens DEF Holds
<1>9. s.authenticated
  BY DEF Holds, Succeeded
<1>10. Life(d, s)
  BY <1>1, <1>3, <1>7, <1>9 DEF Life
<1>11. Succeeded(d, s, b)
  BY DEF Holds, Succeeded
<1> QED
  BY <1>6, <1>7, <1>8, <1>10, <1>11 DEF Holds

\* A client that has a channel, or is authenticating, has neither refused the host
\* key nor the key exchange before it.
LEMMA ClientTalks ==
    ASSUME NEW c, NEW s, Life(c, s), c.channel.open \/ c.channel.ready \/ c.state = "Authenticating"
                                     \/ s.out # <<>> \/ s.authenticated
    PROVE  ~c.closing /\ c.state # "Handshaking"
<1>1. ~NoClientChannel.open /\ ~NoClientChannel.ready
  BY DEF NoClientChannel
<1> QED
  BY <1>1 DEF Life

\* What the application makes an established client send.
LEMMA TalkKeeps ==
    ASSUME NEW c, NEW s, NEW a, NEW b, Holds(c, s, a, b),
           c.channel.open \/ c.channel.ready \/ c.state = "Authenticating" \/ s.authenticated,
           NEW d \in ClientType, d.state = c.state, Continues(c, d)
    PROVE  Holds(d, s, a, b)
<1>1. ~c.closing /\ c.state # "Handshaking"
  BY ClientTalks DEF Holds
<1> QED
  BY <1>1, ClientMoves

LEMMA ResizeKeeps ==
    ASSUME NEW c, NEW s, NEW a, NEW b, Holds(c, s, a, b), c.channel.open, NEW size \in Nat,
           NEW d, d = client_window_change(c, size)
    PROVE  Holds(d, s, a, b)
<1> DEFINE m == Saying("window-change", size, c.channel.id)
<1>1. d = send_packet(c, m)
  BY DEF client_window_change, Saying
<1>2. "window-change" \in Requests /\ c \in ClientType
  BY DEF Requests, Holds
<1> HIDE DEF m
<1>3. m = Saying("window-change", size, c.channel.id)
  BY DEF m
<1>4. d \in ClientType /\ SameDesk(c, d) /\ d.channel = c.channel /\ Continues(c, d)
  BY <1>1, <1>2, <1>3, RequestSent
<1> QED
  BY <1>4, TalkKeeps DEF SameDesk

\* The messages of send_raw_packet: about the open channel, or about none.
RawOf(c) ==
    CASE c.state = "Authenticating" ->
             {Msg("SERVICE_REQUEST", "ssh-connection", FALSE, 0), Msg("CHANNEL_EOF", NoArg, FALSE, 0)}
                 \cup {Msg("USERAUTH_REQUEST", cr, FALSE, 0) : cr \in Credentials}
      [] c.state = "Authenticated" /\ c.channel.ready /\ c.channel.open ->
             {ChannelRequest(r, NoPty, FALSE, c.channel.id) : r \in {"exec", "subsystem", "env", "other"}}
      [] c.state = "Authenticated" /\ ~c.channel.open /\ StrayRequests ->
             {ChannelRequest(r, NoPty, FALSE, 0) : r \in {"exec", "subsystem"}}
                 \cup {Msg(type, NoArg, FALSE, 0) : type \in {"CHANNEL_EOF", "CHANNEL_CLOSE"}}
      [] OTHER -> {}

\* A request or a CLOSE about no channel.
LEMMA StraySent ==
    ASSUME NEW c \in ClientType, NEW m \in Message, m.id = 0, m.type # "CHANNEL_OPEN",
           m.type = "CHANNEL_REQUEST" => m.arg \in Request,
           NEW d, d = send_packet(c, m)
    PROVE  d \in ClientType /\ SameDesk(c, d) /\ d.channel = c.channel /\ Continues(c, d)
<1>1. Ordinary(c, m)
  BY DEF Ordinary
<1> QED
  BY <1>1, ClientSends

LEMMA RawKeeps ==
    ASSUME NEW c, NEW s, NEW a, NEW b, Holds(c, s, a, b), NEW m \in RawOf(c),
           NEW d, d = send_packet(c, m)
    PROVE  Holds(d, s, a, b)
<1>1. c \in ClientType /\ c.channel.id \in Nat
  BY ClientParts DEF Holds
<1>2. \/ c.state = "Authenticating" \/ c.channel.ready
      \/ c.state = "Authenticated"
  BY DEF RawOf
<1>3. c.state = "Authenticating" \/ c.channel.ready \/ s.authenticated
  BY <1>2 DEF Holds, Succeeded
<1>4. SUFFICES d \in ClientType /\ SameDesk(c, d) /\ d.channel = c.channel /\ Continues(c, d)
  BY <1>3, TalkKeeps DEF SameDesk
<1>5. \/ /\ c.channel.open
         /\ \E r \in {"exec", "subsystem", "env", "other"} : m = Saying(r, NoPty, c.channel.id)
      \/ \E r \in {"exec", "subsystem"} : m = Saying(r, NoPty, 0)
      \/ m = Note("CHANNEL_CLOSE", NoArg, 0)
      \/ \E ty \in {"SERVICE_REQUEST", "USERAUTH_REQUEST", "CHANNEL_EOF", "DISCONNECT"}, x \in Words :
            m = Note(ty, x, 0)
  <2>1. Credentials \cup {NoArg, "ssh-connection"} \subseteq Words
    BY DEF Words
  <2>2. CASE c.state = "Authenticating"
    <3>1. \/ m = Note("SERVICE_REQUEST", "ssh-connection", 0)
          \/ m = Note("CHANNEL_EOF", NoArg, 0)
          \/ \E cr \in Credentials : m = Note("USERAUTH_REQUEST", cr, 0)
      <4>1. m \in {Msg("SERVICE_REQUEST", "ssh-connection", FALSE, 0), Msg("CHANNEL_EOF", NoArg, FALSE, 0)}
                      \cup {Msg("USERAUTH_REQUEST", cr, FALSE, 0) : cr \in Credentials}
        BY <2>2 DEF RawOf
      <4> QED
        BY <4>1 DEF Note
    <3> QED
      BY <2>1, <3>1
  <2>3. CASE c.state = "Authenticated" /\ c.channel.ready /\ c.channel.open
    BY <2>3 DEF RawOf, Saying
  <2>4. CASE c.state = "Authenticated" /\ ~c.channel.open
    <3>1. m \in {ChannelRequest(r, NoPty, FALSE, 0) : r \in {"exec", "subsystem"}}
                     \cup {Msg(type, NoArg, FALSE, 0) : type \in {"CHANNEL_EOF", "CHANNEL_CLOSE"}}
      BY <2>4 DEF RawOf
    <3>2. \/ \E r \in {"exec", "subsystem"} : m = Saying(r, NoPty, 0)
          \/ m = Note("CHANNEL_EOF", NoArg, 0) \/ m = Note("CHANNEL_CLOSE", NoArg, 0)
      BY <3>1 DEF Saying, Note
    <3> QED
      BY <2>1, <3>2
  <2> QED
    BY <2>2, <2>3, <2>4 DEF RawOf
<1>6. ASSUME NEW r \in {"exec", "subsystem", "env", "other"}, c.channel.open,
             m = Saying(r, NoPty, c.channel.id)
      PROVE  d \in ClientType /\ SameDesk(c, d) /\ d.channel = c.channel /\ Continues(c, d)
  <2>1. r \in Requests /\ NoPty \in Nat
    BY DEF Requests, NoPty
  <2> QED
    BY <1>1, <1>6, <2>1, RequestSent
<1>9. ASSUME NEW r \in {"exec", "subsystem"}, m = Saying(r, NoPty, 0)
      PROVE  d \in ClientType /\ SameDesk(c, d) /\ d.channel = c.channel /\ Continues(c, d)
  <2>1. r \in Requests /\ NoPty \in Nat /\ 0 \in Nat
    BY DEF Requests, NoPty
  <2>2. m \in Message /\ m.type = "CHANNEL_REQUEST" /\ m.arg \in Request /\ m.id = 0
    BY <1>9, <2>1, RequestType
  <2> QED
    BY <1>1, <2>2, StraySent
<1>7. ASSUME m = Note("CHANNEL_CLOSE", NoArg, 0)
      PROVE  d \in ClientType /\ SameDesk(c, d) /\ d.channel = c.channel /\ Continues(c, d)
  <2>1. m \in Message /\ m.type = "CHANNEL_CLOSE" /\ m.id = 0
    BY <1>7 DEF Note, Msg, Message, MsgTypes, Words
  <2> QED
    BY <1>1, <2>1, StraySent
<1>8. ASSUME NEW ty \in {"SERVICE_REQUEST", "USERAUTH_REQUEST", "CHANNEL_EOF", "DISCONNECT"},
             NEW x \in Words, m = Note(ty, x, 0)
      PROVE  d \in ClientType /\ SameDesk(c, d) /\ d.channel = c.channel /\ Continues(c, d)
  <2>1. m \in Message /\ m.type = ty /\ m.id = 0
    BY <1>8 DEF Note, Msg, Message, MsgTypes
  <2> QED
    BY <1>1, <2>1, StraySent
<1> QED
  BY <1>5, <1>6, <1>7, <1>8, <1>9

\* The client takes a message.
LEMMA ClientTakes ==
    ASSUME NEW c, NEW s, NEW a, NEW b, Holds(c, s, a, b), s.out # <<>>,
           NEW d, d = handle_packet(c, Head(s.out)),
           NEW t, t = [s EXCEPT !.out = Tail(@)]
    PROVE  Holds(d, t, a, b)
<1>1. c \in ClientType /\ s \in ServerType /\ Life(c, s) /\ Sound(c, s, a)
  BY DEF Holds
<1>2. s.out \in Seq(Message)
  BY <1>1, ServerParts
<1> DEFINE m == s.out[1]
           o == s.out
           p == Tail(s.out)
<1>3. /\ Len(o) \in Nat /\ 1 \in 1..Len(o) /\ Head(o) = m /\ m \in Message
      /\ p \in Seq(Message) /\ Len(p) = Len(o) - 1
      /\ \A i \in 1..Len(p) : i + 1 \in 1..Len(o) /\ p[i] = o[i + 1]
  BY <1>2, TailParts
<1>4. ~c.closing /\ c.state # "Handshaking"
  BY <1>1, ClientTalks
<1>5. m.type # "CHANNEL_OPEN_FAILURE"
  BY <1>1, <1>3 DEF Life
<1>6. m.type = "USERAUTH_SUCCESS" => s.authenticated /\ b # <<>> /\ Last(b) = "USERAUTH_SUCCESS"
  BY <1>3 DEF Holds, Succeeded
<1>7. d = handle_packet(c, m)
  BY <1>3
<1>8. t = [s EXCEPT !.out = p]
  OBVIOUS
<1>9. p \in Seq(Message)
  BY <1>3
<1> HIDE DEF m, p
<1>10. /\ t \in ServerType /\ t.out = p /\ t.channel = s.channel /\ t.events = s.events
       /\ t.program_started = s.program_started /\ t.authenticated = s.authenticated
       /\ t.auth_requests = s.auth_requests /\ t.auth_failures = s.auth_failures
  BY <1>1, <1>8, <1>9 DEF ServerType
<1>11. \A i \in 1..Len(t.out) : \E j \in 1..Len(s.out) : t.out[i] = s.out[j]
  BY <1>3, <1>10
<1>12. Sound(c, t, a)
  <2>1. SameChannel(s, t)
    BY <1>10 DEF SameChannel
  <2> QED
    BY <1>1, <1>10, <2>1, SoundServer
<1>13. Life(c, t)
  BY <1>1, <1>4, <1>10, <1>11 DEF Life, Asked
<1>14. Succeeded(c, t, b)
  BY <1>10, <1>11 DEF Holds, Succeeded
<1>15. Capped(t, b)
  BY <1>10 DEF Holds, Capped
<1>16. Holds(c, t, a, b)
  BY <1>10, <1>12, <1>13, <1>14, <1>15 DEF Holds
<1>17. /\ d \in ClientType /\ (Continues(c, d) \/ Closes(c, d))
       /\ \/ d.state \in {c.state, "Authenticating", "Done"}
          \/ d.state = "Authenticated" /\ m.type = "USERAUTH_SUCCESS"
  BY <1>1, <1>3, <1>5, <1>7, ClientHandles
<1> QED
  BY <1>4, <1>6, <1>10, <1>16, <1>17, ClientMoves

\* A turn asks for a program once the client is authenticated.
LEMMA AskedTurn ==
    ASSUME NEW s \in ServerType, NEW t \in ServerType, NEW m, Asked(s), AuthTurn(s, t),
           ServerTurn(s, m, t)
    PROVE  Asked(t)
<1>1. s.authenticated => t.authenticated
  BY DEF AuthTurn, AuthKept
<1>2. CASE s.authenticated
  BY <1>1, <1>2 DEF Asked
<1>3. CASE ~s.authenticated
  <2>1. s.events \in Seq(Event) /\ \A i \in 1..Len(s.events) : s.events[i].kind # "ProgramRequest"
    BY <1>3, ServerParts DEF Asked
  <2>2. NoNewProgram(s, t)
    BY <1>3 DEF ServerTurn, Quietly, NoNewProgram
  <2>3. CASE t.events = s.events
    BY <2>1, <2>3 DEF Asked
  <2>4. ASSUME NEW e \in Event, e.kind # "ProgramRequest", t.events = Append(s.events, e)
        PROVE  Asked(t)
    <3>1. \A i \in 1..Len(t.events) : t.events[i] = e \/ (i \in 1..Len(s.events) /\ t.events[i] = s.events[i])
      BY <2>1, <2>4
    <3> QED
      BY <2>1, <2>4, <3>1 DEF Asked
  <2> QED
    BY <2>2, <2>3, <2>4 DEF NoNewProgram
<1> QED
  BY <1>2, <1>3 DEF ServerType

\* What a turn of the server that took the first message leaves of the invariant.
LEMMA TurnKeeps ==
    ASSUME NEW c \in ClientType, NEW d \in ClientType, NEW s \in ServerType, NEW t \in ServerType,
           NEW a \in Seq(Nat), Sound(c, s, a), Life(c, s), Shorter(c.out, d.out),
           d.opens = c.opens, d.channel = c.channel, d.state = c.state, d.closing = c.closing,
           NEW m, m = c.out[1], AuthTurn(s, t), ServerTurn(s, m, t),
           m.type = "DISCONNECT" => t.out = s.out /\ t.authenticated = s.authenticated
    PROVE  Sound(d, t, a) /\ Life(d, t)
<1>1. Sound(d, t, a)
  BY SoundTakes
<1>2. c.out \in Seq(Message) /\ d.out \in Seq(Message)
  BY ClientParts
<1>3. 1 \in 1..Len(c.out) /\ \A i \in 1..Len(d.out) : \E j \in 1..Len(c.out) : d.out[i] = c.out[j]
  BY <1>2, ShorterParts
<1>4. c.out # <<>>
  BY <1>3
<1>5. c.state # "Handshaking"
  BY <1>4 DEF Life
<1>6. c.closing => c.out[1].type = "DISCONNECT"
  BY <1>3 DEF Life
<1>8. Asked(t)
  BY AskedTurn DEF Life
<1>7. Life(c, t)
  BY <1>5, <1>6, <1>8, LifeOfServer
<1> QED
  BY <1>1, <1>3, <1>5, <1>7 DEF Life

\* The server takes a message.
LEMMA ServerTakes ==
    ASSUME NEW c, NEW s, NEW a, NEW b, Holds(c, s, a, b), c.out # <<>>,
           NEW t, t = pump(s, Head(c.out)),
           NEW d, d = [c EXCEPT !.out = Tail(@)],
           NEW e, e = b \o AnsweredBy(s, t)
    PROVE  Holds(d, t, a, e)
<1>1. /\ c \in ClientType /\ s \in ServerType /\ Life(c, s) /\ Sound(c, s, a)
      /\ a \in Seq(Nat) /\ b \in Seq(AuthReplies) /\ Capped(s, b) /\ Succeeded(c, s, b)
  BY DEF Holds
<1>2. c.out \in Seq(Message)
  BY <1>1, ClientParts
<1> DEFINE p == Tail(c.out)
<1>3. /\ Len(c.out) \in Nat /\ 1 \in 1..Len(c.out) /\ p \in Seq(Message)
      /\ Len(p) = Len(c.out) - 1
      /\ \A i \in 1..Len(p) : i + 1 \in 1..Len(c.out) /\ p[i] = c.out[i + 1]
  BY <1>2, TailParts
<1>4. d = [c EXCEPT !.out = p]
  OBVIOUS
<1>5. p \in Seq(Message)
  BY <1>3
<1> HIDE DEF p
<1>6. /\ d \in ClientType /\ d.out = p /\ d.channel = c.channel /\ d.opens = c.opens
      /\ d.state = c.state /\ d.closing = c.closing
  BY <1>1, <1>4, <1>5 DEF ClientType
<1>7. Shorter(c.out, d.out)
  BY <1>3, <1>6 DEF Shorter
<1>8. c.opens # 0 => s.authenticated
  BY <1>1 DEF Life
<1>9. /\ t \in ServerType /\ AuthTurn(s, t) /\ ServerTurn(s, c.out[1], t)
      /\ c.out[1].type = "DISCONNECT" => t.out = s.out /\ t.authenticated = s.authenticated
  BY <1>1, <1>8, Pumped
<1> DEFINE m == c.out[1]
<1>10. ServerTurn(s, m, t) /\ (m.type = "DISCONNECT" => t.out = s.out /\ t.authenticated = s.authenticated)
       /\ m = c.out[1]
  BY <1>9
<1> HIDE DEF m
<1>13. Sound(d, t, a) /\ Life(d, t)
  BY <1>1, <1>6, <1>7, <1>9, <1>10, TurnKeeps
<1>11. e \in Seq(AuthReplies) /\ Capped(t, e) /\ Succeeded(c, t, e)
  BY <1>1, <1>9, AuthAdvances
<1>12. Succeeded(d, t, e)
  BY <1>6, <1>11 DEF Succeeded
<1> QED
  BY <1>1, <1>6, <1>9, <1>11, <1>12, <1>13 DEF Holds

\* The server sends something that answers no authentication request.
LEMMA ServerMoves ==
    ASSUME NEW c, NEW s, NEW a, NEW b, Holds(c, s, a, b),
           NEW t \in ServerType, AuthKept(s, t), Grown(s, t, Unanswered),
           s.authenticated \/ t.out = s.out, Asked(t),
           NEW f, f \in Seq(Nat), Sound(c, t, f)
    PROVE  Holds(c, t, f, b)
<1>1. /\ s \in ServerType /\ Life(c, s) /\ b \in Seq(AuthReplies) /\ Capped(s, b)
      /\ Succeeded(c, s, b)
  BY DEF Holds
<1>2. AuthTurn(s, t)
  BY DEF AuthTurn
<1>3. s.authenticated => c.state # "Handshaking" /\ ~c.closing
  BY <1>1 DEF Life
<1>4. Life(c, t)
  BY <1>1, <1>2, <1>3, LifeOfServer DEF AuthKept
<1>5. b \o AnsweredBy(s, t) = b
  BY <1>1, NotAnswered
<1>6. Capped(t, b) /\ Succeeded(c, t, b)
  BY <1>1, <1>2, <1>5, AuthAdvances
<1> QED
  BY <1>4, <1>6 DEF Holds

\* The server's application takes an event.
LEMMA EventTaken ==
    ASSUME NEW c, NEW s, NEW a, NEW b, Holds(c, s, a, b), s.events # <<>>,
           NEW t, t = [s EXCEPT !.events = Tail(@)]
    PROVE  /\ Holds(c, t, a, b)
           /\ t.out = s.out
           /\ Head(s.events) \in Event
           /\ Head(s.events).kind = "ProgramRequest" =>
                  /\ t.authenticated
                  /\ Append(a, Head(s.events).id) \in Seq(Nat)
                  /\ Holds(c, t, Append(a, Head(s.events).id), b)
<1>1. c \in ClientType /\ s \in ServerType /\ Sound(c, s, a) /\ a \in Seq(Nat)
  BY DEF Holds
<1>2. s.events \in Seq(Event) /\ Fresh(s) \in SUBSET Nat
  BY <1>1, ServerParts
<1> DEFINE q == s.events
           r == Tail(q)
           x == Head(q)
           f == Append(a, x.id)
<1>3. /\ Len(q) \in Nat /\ 1 \in 1..Len(q) /\ x = q[1] /\ q[1] \in Event
      /\ r \in Seq(Event)
  BY <1>2, TailParts
<1>4. x \in Event /\ x.id \in Nat
  BY <1>3 DEF Event
<1>5. f \in Seq(Nat)
  BY <1>1, <1>4
<1>6. t = [s EXCEPT !.events = r] /\ r \in Seq(Event)
  BY <1>3
<1>7. Programmed(c.out, c.opens, Fresh(s), q, a)
  BY <1>1 DEF Sound
<1>8. Programmed(c.out, c.opens, Fresh(s), r, a)
  BY <1>2, <1>7, ProgramsTaken
<1>9. x.kind = "ProgramRequest" => Programmed(c.out, c.opens, Fresh(s), r, f)
  BY <1>1, <1>2, <1>7, ProgramsStarted
<1>10. Asked(s)
  BY DEF Holds, Life
<1>18. x.kind = "ProgramRequest" => s.authenticated
  BY <1>3, <1>10 DEF Asked
<1>19. \A i \in 1..Len(r) : \E j \in 1..Len(q) : r[i] = q[j]
  BY <1>2, TailParts
<1>20. (\E i \in 1..Len(r) : r[i].kind = "ProgramRequest") => s.authenticated
  BY <1>10, <1>19 DEF Asked
<1> HIDE DEF q, r, x, f
<1>11. /\ t \in ServerType /\ t.out = s.out /\ t.events = r /\ t.channel = s.channel
       /\ t.program_started = s.program_started /\ AuthKept(s, t)
  BY <1>1, <1>6 DEF ServerType, AuthKept
<1>12. Grown(s, t, Unanswered)
  BY <1>1, <1>11 DEF Grown, ServerType
<1>13. Held(t.channel) = Held(s.channel) /\ Fresh(t) = Fresh(s)
  BY <1>11 DEF Held, Fresh
<1>21. Asked(t)
  BY <1>11, <1>20 DEF Asked, AuthKept
<1>14. Sound(c, t, a)
  BY <1>1, <1>8, <1>11, <1>13 DEF Sound
<1>15. x.kind = "ProgramRequest" => Sound(c, t, f)
  BY <1>1, <1>9, <1>11, <1>13 DEF Sound
<1>16. Holds(c, t, a, b)
  BY <1>1, <1>11, <1>12, <1>14, <1>21, ServerMoves
<1>17. x.kind = "ProgramRequest" => Holds(c, t, f, b)
  BY <1>5, <1>11, <1>12, <1>15, <1>21, ServerMoves
<1> QED
  BY <1>4, <1>5, <1>11, <1>16, <1>17, <1>18 DEF q, x, f, AuthKept

\* And answers the request it took, or reports the end of the program.
LEMMA DecisionKeeps ==
    ASSUME NEW c, NEW s, NEW a, NEW b, Holds(c, s, a, b), s.authenticated,
           NEW t, t = accept_channel(s) \/ t = reject_channel(s)
    PROVE  Holds(c, t, a, b)
<1>1. s \in ServerType /\ Sound(c, s, a) /\ a \in Seq(Nat)
  BY DEF Holds
<1>2. /\ t \in ServerType /\ AuthKept(s, t) /\ Grown(s, t, Unanswered)
      /\ SameChannel(s, t) /\ t.program_started = s.program_started /\ t.events = s.events
  BY <1>1, ReplyTaken
<1>3. Sound(c, t, a)
  BY <1>1, <1>2, SoundServer
<1>4. Asked(t)
  BY <1>2 DEF Holds, Life, Asked, AuthKept
<1> QED
  BY <1>1, <1>2, <1>3, <1>4, ServerMoves

LEMMA ExitKeeps ==
    ASSUME NEW c, NEW s, NEW a, NEW b, Holds(c, s, a, b), NEW t, t = channel_exit(s)
    PROVE  Holds(c, t, a, b)
<1>1. c \in ClientType /\ s \in ServerType /\ Sound(c, s, a) /\ a \in Seq(Nat)
  BY DEF Holds
<1>2. /\ t \in ServerType /\ AuthKept(s, t) /\ Grown(s, t, Unanswered)
      /\ SameChannel(s, t) /\ t.program_started = s.program_started /\ t.events = s.events
      /\ ~s.channel.open => t = s
  BY <1>1, ExitStep
<1>3. Sound(c, t, a)
  BY <1>1, <1>2, SoundServer
<1>4. s.channel.open => c.opens # 0
  <2>1. c.opens \in Nat
    BY <1>1, ClientParts
  <2>2. Behind(c.out, c.opens, Held(s.channel))
    BY <1>1 DEF Sound, Wire
  <2>3. s.channel.open => s.channel.id \in 1..c.opens
    BY <2>2 DEF Behind, Held
  <2> QED
    BY <2>1, <2>3
<1>5. s.channel.open => s.authenticated
  BY <1>4 DEF Holds, Life
<1>6. Asked(t)
  BY <1>2 DEF Holds, Life, Asked, AuthKept
<1> QED
  BY <1>1, <1>2, <1>3, <1>5, <1>6, ServerMoves

--------------------------------------------------------------------------------
(* The theorems *)

\* The rest of the invariant is about the applications.
AppsOK == "started" \in DOMAIN app /\ term \in Nat /\ trusted \in BOOLEAN

LEMMA InvParts == SessionInv <=> Holds(client, server, app.started, answers) /\ AppsOK
  BY DEF SessionInv, TypeOK, Holds, AppsOK

LEMMA SessionNext == SessionInv /\ [Next]_vars => SessionInv'
<1> SUFFICES ASSUME SessionInv, [Next]_vars PROVE SessionInv'
  OBVIOUS
<1>0. Holds(client, server, app.started, answers) /\ AppsOK
  BY InvParts
<1>1. term \in Nat /\ trusted \in BOOLEAN /\ "started" \in DOMAIN app
  BY <1>0 DEF AppsOK
<1>2. SUFFICES Holds(client, server, app.started, answers)' /\ AppsOK'
  BY DEF SessionInv, TypeOK, Holds, AppsOK
<1>3. ASSUME NEW c, Call(c), Holds(c, server, app.started, answers), term' \in Nat
      PROVE  Holds(client, server, app.started, answers)' /\ AppsOK'
  BY <1>1, <1>3 DEF Call, AppsOK
<1>4. CASE Handshake
  <2> DEFINE d == established(verify_host_key(client, trusted))
  <2>1. Holds(d, server, app.started, answers)
    BY <1>0, <1>1, <1>4, HandshakeKeeps DEF Handshake
  <2>2. Call(d) /\ term' \in Nat
    BY <1>1, <1>4 DEF Handshake
  <2> HIDE DEF d
  <2> QED
    BY <1>3, <2>1, <2>2
<1>5. ASSUME NEW request \in {"exec", "shell"}, NEW pty \in BOOLEAN, Open(request, pty)
      PROVE  Holds(client, server, app.started, answers)' /\ AppsOK'
  <2> DEFINE d == open_session(IF pty THEN request_pty(client, term) ELSE client, request)
  <2>1. Holds(d, server, app.started, answers)
    BY <1>0, <1>1, <1>5, OpenKeeps DEF Open
  <2>2. Call(d) /\ term' \in Nat
    BY <1>1, <1>5 DEF Open
  <2> HIDE DEF d
  <2> QED
    BY <1>3, <2>1, <2>2
<1>6. ASSUME NEW size \in Sizes, Resize(size)
      PROVE  Holds(client, server, app.started, answers)' /\ AppsOK'
  <2> DEFINE d == client_window_change(client, size)
  <2>1. size \in Nat /\ client.channel.open
    BY <1>6, SessionAssumption DEF Resize, MayCall
  <2>2. Holds(d, server, app.started, answers)
    BY <1>0, <2>1, ResizeKeeps
  <2>3. Call(d) /\ term' \in Nat
    BY <1>6, <2>1 DEF Resize
  <2> HIDE DEF d
  <2> QED
    BY <1>3, <2>2, <2>3
<1>7. CASE EndInput
  <2> DEFINE d == send_eof(client)
  <2>1. client.channel.open /\ client \in ClientType
    BY <1>0, <1>7 DEF EndInput, MayCall, Holds
  <2>2. d \in ClientType /\ d.state = client.state /\ Continues(client, d)
    BY <2>1, InputEnded
  <2>3. Call(d) /\ term' \in Nat
    BY <1>1, <1>7 DEF EndInput
  <2> HIDE DEF d
  <2>4. Holds(d, server, app.started, answers)
    BY <1>0, <2>1, <2>2, TalkKeeps
  <2> QED
    BY <1>3, <2>3, <2>4
<1>8. ASSUME NEW m \in RawPackets, send_raw_packet(m)
      PROVE  Holds(client, server, app.started, answers)' /\ AppsOK'
  <2> DEFINE d == send_packet(client, m)
  <2>1. m \in RawOf(client)
    BY DEF RawOf, RawPackets, RawRequests
  <2>2. Holds(d, server, app.started, answers)
    BY <1>0, <2>1, RawKeeps
  <2>3. Call(d) /\ term' \in Nat
    BY <1>1, <1>8 DEF send_raw_packet
  <2> HIDE DEF d
  <2> QED
    BY <1>3, <2>2, <2>3
<1>9. CASE client_on_input
  <2> DEFINE d == handle_packet(client, Head(server.out))
             t == [server EXCEPT !.out = Tail(@)]
  <2>1. /\ server.out # <<>> /\ client' = d /\ server' = t
        /\ UNCHANGED <<app, term, answers, trusted>>
    BY <1>9 DEF client_on_input
  <2>2. Holds(d, t, app.started, answers)
    BY <1>0, <2>1, ClientTakes
  <2> HIDE DEF d, t
  <2> QED
    BY <1>1, <2>1, <2>2 DEF AppsOK
<1>10. CASE server_on_input
  <2> DEFINE t == pump(server, Head(client.out))
             d == [client EXCEPT !.out = Tail(@)]
             e == answers \o AnsweredBy(server, t)
             more == app.ptys \cup (IF t.channel.pty # NoPty THEN {t.channel.id} ELSE {})
  <2>1. /\ client.out # <<>> /\ client' = d /\ server' = t /\ answers' = e
        /\ app' = [app EXCEPT !.ptys = more] /\ UNCHANGED <<term, trusted>>
    BY <1>10 DEF server_on_input, Answered, AnsweredBy
  <2>2. Holds(d, t, app.started, e)
    BY <1>0, <2>1, ServerTakes
  <2> HIDE DEF d, t, e, more
  <2>3. "started" \in DOMAIN app' /\ app'.started = app.started
    BY <1>1, <2>1
  <2> QED
    BY <1>1, <2>1, <2>2, <2>3 DEF AppsOK
<1>11. ASSUME NEW kinds, poll_event(kinds), NEW t, t = Polled
       PROVE  /\ Holds(client, t, app.started, answers) /\ server.events # <<>>
              /\ UNCHANGED <<client, term, answers, trusted>>
              /\ event.kind \in kinds
  <2>1. /\ server.events # <<>> /\ UNCHANGED <<client, term, answers, trusted>>
        /\ event.kind \in kinds
    BY <1>11 DEF poll_event, event
  <2>2. t = [server EXCEPT !.events = Tail(@)]
    BY <1>11 DEF Polled
  <2>3. Holds(client, t, app.started, answers)
    BY <1>0, <2>1, <2>2, EventTaken
  <2> QED
    BY <2>1, <2>3
<1>12. ASSUME poll_event({"ProgramRequest"}), NEW t, t = Polled
       PROVE  /\ t.authenticated
              /\ Holds(client, t, Append(app.started, event.id), answers)
  <2>1. server.events # <<>> /\ Head(server.events).kind = "ProgramRequest"
    BY <1>12 DEF poll_event
  <2>2. t = [server EXCEPT !.events = Tail(@)]
    BY <1>12 DEF Polled
  <2>3. /\ t.authenticated
        /\ Holds(client, t, Append(app.started, Head(server.events).id), answers)
    BY <1>0, <2>1, <2>2, EventTaken
  <2> QED
    BY <2>3 DEF event
<1>13. CASE Accept
  <2> DEFINE u == Polled
             t == accept_channel(u)
             begun == [running |-> TRUE, id |-> event.id, stdin_open |-> TRUE,
                       size |-> server.channel.pty]
             f == Append(app.started, event.id)
  <2>1. /\ poll_event({"ProgramRequest"}) /\ server' = t
        /\ app' = [app EXCEPT !.program = begun, !.started = f]
    BY <1>13 DEF Accept
  <2>2. u.authenticated /\ Holds(client, u, f, answers)
    BY <1>12, <2>1
  <2>3. UNCHANGED <<client, term, answers, trusted>>
    BY <1>11, <2>1
  <2> HIDE DEF u
  <2>4. Holds(client, t, f, answers)
    BY <2>2, DecisionKeeps
  <2> HIDE DEF t, begun, f
  <2>5. "started" \in DOMAIN app' /\ app'.started = f
    BY <1>1, <2>1
  <2> QED
    BY <1>1, <2>1, <2>3, <2>4, <2>5 DEF AppsOK
<1>14. CASE Reject
  <2> DEFINE u == Polled
             t == reject_channel(u)
             more == app.rejected \cup {event.id}
  <2>1. /\ poll_event({"ProgramRequest"}) /\ server' = t
        /\ app' = [app EXCEPT !.rejected = more]
    BY <1>14 DEF Reject
  <2>2. u.authenticated
    BY <1>12, <2>1
  <2>3. Holds(client, u, app.started, answers) /\ UNCHANGED <<client, term, answers, trusted>>
    BY <1>11, <2>1
  <2> HIDE DEF u
  <2>4. Holds(client, t, app.started, answers)
    BY <2>2, <2>3, DecisionKeeps
  <2> HIDE DEF t, more
  <2>5. "started" \in DOMAIN app' /\ app'.started = app.started
    BY <1>1, <2>1
  <2> QED
    BY <1>1, <2>1, <2>3, <2>4, <2>5 DEF AppsOK
<1>15. ASSUME NEW kinds, poll_event(kinds), server' = Polled,
              "started" \in DOMAIN app', app'.started = app.started
       PROVE  Holds(client, server, app.started, answers)' /\ AppsOK'
  <2> DEFINE u == Polled
  <2>1. Holds(client, u, app.started, answers) /\ UNCHANGED <<client, term, answers, trusted>>
    BY <1>11, <1>15
  <2>2. server' = u
    BY <1>15
  <2> HIDE DEF u
  <2> QED
    BY <1>1, <1>15, <2>1, <2>2 DEF AppsOK
<1>16. ASSUME NEW p, app' = app \/ app' = [app EXCEPT !.program = p]
                     \/ app' = [app EXCEPT !.done = TRUE, !.program = p]
       PROVE  "started" \in DOMAIN app' /\ app'.started = app.started
  BY <1>1, <1>16
<1>17. CASE WindowChange
  <2> DEFINE p == [app.program EXCEPT !.size = event.arg]
  <2>1. /\ poll_event({"WindowChange"}) /\ server' = Polled
        /\ app' = app \/ app' = [app EXCEPT !.program = p]
    BY <1>17 DEF WindowChange
  <2> HIDE DEF p
  <2> QED
    BY <1>15, <1>16, <2>1
<1>18. CASE ChannelEof
  <2> DEFINE p == [app.program EXCEPT !.stdin_open = FALSE]
  <2>1. /\ poll_event({"ChannelEof"}) /\ server' = Polled
        /\ app' = [app EXCEPT !.program = p]
    BY <1>18 DEF ChannelEof
  <2> HIDE DEF p
  <2> QED
    BY <1>15, <1>16, <2>1
<1>19. CASE ChannelClose
  BY <1>15, <1>16, <1>19 DEF ChannelClose
<1>20. CASE Authenticated
  BY <1>15, <1>16, <1>20 DEF Authenticated
<1>21. CASE Finish
  BY <1>15, <1>16, <1>21 DEF Finish
<1>22. CASE Exit
  <2> DEFINE t == channel_exit(server)
             p == [app.program EXCEPT !.running = FALSE]
  <2>1. /\ server' = t /\ app' = [app EXCEPT !.program = p]
        /\ UNCHANGED <<client, term, answers, trusted>>
    BY <1>22 DEF Exit
  <2>2. Holds(client, t, app.started, answers)
    BY <1>0, ExitKeeps
  <2> HIDE DEF t, p
  <2>3. "started" \in DOMAIN app' /\ app'.started = app.started
    BY <1>16, <2>1
  <2> QED
    BY <1>1, <2>1, <2>2, <2>3 DEF AppsOK
<1>23. CASE UNCHANGED vars
  BY <1>0, <1>23 DEF vars, AppsOK
<1> QED
  BY <1>4, <1>5, <1>6, <1>7, <1>8, <1>9, <1>10, <1>13, <1>14, <1>17, <1>18, <1>19, <1>20, <1>21,
     <1>22, <1>23 DEF Next

\* Every step of either side keeps the invariant: what is on its way to the server
\* opens, uses and closes the client's channels in the order the server can follow.
THEOREM SessionInvariant == Spec => []SessionInv
<1>1. Init => SessionInv
  BY SessionInit
<1>2. SessionInv /\ [Next]_vars => SessionInv'
  BY SessionNext
<1> QED
  BY <1>1, <1>2, PTL DEF Spec

\* However a client mixes its requests, the server answers no more of them than
\* max_auth_requests, fails fewer than max_auth_attempts and succeeds at most once,
\* and a client that believes itself authenticated has that success as the last
\* answer (handle_userauth, send_failure, finish_auth).
THEOREM AuthAlwaysCapped == Spec => []AuthWithinCaps
<1>1. SessionInv => AuthWithinCaps
  <2> SUFFICES ASSUME SessionInv PROVE AuthWithinCaps
    OBVIOUS
  <2>1. Capped(server, answers) /\ Succeeded(client, server, answers) /\ answers \in Seq(AuthReplies)
    BY DEF SessionInv, TypeOK
  <2>2. Count(answers, "USERAUTH_SUCCESS") \in Nat
    BY <2>1, CountedAnswer DEF AuthReplies
  <2>3. Count(answers, "USERAUTH_SUCCESS") <= 1
    BY <2>1, <2>2 DEF Capped
  <2>4. Len(answers) <= MaxAuthRequests /\ Count(answers, "USERAUTH_FAILURE") < MaxAuthAttempts
    BY <2>1 DEF Capped
  <2>5. client.state = "Authenticated" => Last(answers) = "USERAUTH_SUCCESS"
    BY <2>1 DEF Succeeded
  <2> QED
    BY <2>3, <2>4, <2>5 DEF AuthWithinCaps, Count
<1> QED
  BY <1>1, SessionInvariant, PTL

\* Whatever requests follow on a session or arrive about no channel, and however late
\* the server's application takes its events, no channel has two programs, and a
\* program that is on a channel is on one that the client opened (start_program,
\* program_started, handle_channel_close).
THEOREM ProgramsNeverDoubled == Spec => []OneProgramPerChannel
<1>1. SessionInv => OneProgramPerChannel
  <2> SUFFICES ASSUME SessionInv PROVE OneProgramPerChannel
    OBVIOUS
  <2> DEFINE a == app.started
  <2>1. /\ a \in Seq(Nat) /\ client.opens \in Nat
        /\ Programmed(client.out, client.opens, Fresh(server), server.events, a)
    BY ClientParts DEF SessionInv, TypeOK, Sound
  <2>2. DOMAIN a = 1..Len(a) /\ \A i \in 1..Len(a) : a[i] \in Nat
    BY <2>1
  <2>3. Once(server.events, a) /\ Past(client.out, client.opens, server.events, a)
    BY <2>1 DEF Programmed
  <2> HIDE DEF a
  <2>4. ASSUME NEW i \in 1..Len(a) PROVE a[i] \in 0..client.opens
    <3>1. Requested(server.events, a, a[i])
      BY DEF Requested
    <3>2. a[i] # 0 => a[i] \in 1..client.opens
      BY <2>2, <2>3, <3>1 DEF Past
    <3> QED
      BY <2>1, <2>2, <3>2
  <2>5. \A i, j \in 1..Len(a) : a[j] = a[i] /\ a[i] # 0 => j = i
    BY <2>3 DEF Once
  <2> QED
    BY <2>2, <2>4, <2>5 DEF OneProgramPerChannel, a
<1> QED
  BY <1>1, SessionInvariant, PTL
================================================================================
