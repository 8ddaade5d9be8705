----------------------------- MODULE TransportPair -----------------------------
(***************************************************************************)
(* A client and a server Transport connected by a byte stream.             *)
(*                                                                         *)
(* ep[r].tx is everything endpoint r has ever written and taken[r] how     *)
(* much of it the other endpoint has read, so the frames after position    *)
(* taken[r] are the ones in r's outbound buffer or on the network.  Both   *)
(* are FIFO, and the driver may flush at any time, so one queue stands for *)
(* both.  A call of on_input that decodes several packets is several       *)
(* Receive steps in a row.                                                 *)
(***************************************************************************)
EXTENDS Transport, FiniteSets

CONSTANTS
    Compression,     \* what the client may list first: "none", "zlib" or either
    Talkers,         \* the endpoints whose layer above sends packets
    MaxApp,          \* application packets each of them sends (bound)
    MaxChaff,        \* chaff packets each endpoint sends (bound)
    MaxRekeys,       \* calls of initiate_rekey by each endpoint (bound)
    MayDisconnect,   \* may the layer above call disconnect?
    QuietClient      \* does the client wait for USERAUTH_SUCCESS before it
                     \* sends chaff, re-keys or sends further packets?

ASSUME PairAssumption ==
    /\ Talkers \subseteq Roles /\ Compression \subseteq {"none", "zlib"}
    /\ MaxApp \in Nat /\ MaxChaff \in Nat /\ MaxRekeys \in Nat
    /\ MayDisconnect \in BOOLEAN /\ QuietClient \in BOOLEAN

VARIABLES
    ep,        \* the two endpoints
    taken,     \* frames of r's output its peer has read
    accepted,  \* application packets send_packet has accepted from r
    calls,     \* chaff, initiate_rekey and disconnect calls made, per endpoint
    begun      \* ghost: positions of the KEXINITs with which r began a re-key of its
               \* own accord, and not in answer to its peer's

vars == <<ep, taken, accepted, calls, begun>>

Peer(r) == IF r = "client" THEN "server" ELSE "client"

AppIds == {"APP", "USERAUTH_SUCCESS"}

\* new_client offers the default lists, new_client_with_compression its own
\* compressions; the model lets that client prefer the other cipher as well.
ClientStart(name) ==
    IF name = "zlib" THEN start("client", Reverse(CIPHERS), Reverse(COMPRESSIONS))
                     ELSE start("client", CIPHERS, COMPRESSIONS)

Init ==
    /\ \E name \in Compression :
          ep = [r \in Roles |-> IF r = "server" THEN start(r, CIPHERS, COMPRESSIONS)
                                ELSE ClientStart(name)]
    /\ taken = [r \in Roles |-> 0]
    /\ accepted = [r \in Roles |-> 0]
    /\ calls = [r \in Roles |-> [chaff |-> 0, rekey |-> 0, disconnect |-> 0]]
    /\ begun = [r \in Roles |-> {}]

--------------------------------------------------------------------------------
\* The driver of r still runs: no on_input call has returned an error.
Running(r) == ep[r].err = "none"

\* The session layer above a quiet client says nothing of its own accord
\* before it has been told that authentication succeeded.
MaySpeak(r) ==
    QuietClient /\ r = "client" /\ ep[r].comp_name = "zlib" => ep[r].comp_active

\* The endpoint reads the next frame of its peer's output; a closing endpoint
\* ignores input.
ReadNext(r) ==
    /\ Running(r) /\ ~ep[r].closing
    /\ taken[Peer(r)] < Len(ep[Peer(r)].tx)
    /\ taken' = [taken EXCEPT ![Peer(r)] = @ + 1]

\* The KEXINITs that a step of r writes.
NewKexinits(r) ==
    {i \in Len(ep[r].tx)+1..Len(ep'[r].tx) : ep'[r].tx[i].msg.id = "KEXINIT"}

\* What the step writes it writes of its own accord.
OfItsOwnAccord(r) == begun' = [begun EXCEPT ![r] = @ \cup NewKexinits(r)]

\* on_input with the next frame of the peer's output.
Receive(r) ==
    LET f == ep[Peer(r)].tx[taken[Peer(r)] + 1]
    IN  /\ ReadNext(r)
        /\ ep' = [ep EXCEPT ![r] = drive(@, f)]
        /\ IF f.msg.id = "KEXINIT" THEN UNCHANGED begun ELSE OfItsOwnAccord(r)
        /\ UNCHANGED <<accepted, calls>>

\* send_packet by the layer above.  The server sends USERAUTH_SUCCESS once, as
\* its first packet of the runs that negotiate compression.
SendApp(r) ==
    LET id == IF ep[r].comp_name = "zlib" /\ r = "server" /\ accepted[r] = 0 THEN "USERAUTH_SUCCESS" ELSE "APP"
    IN  /\ Running(r) /\ MaySpeak(r) /\ r \in Talkers
        /\ ep[r].phase = "Established"
        /\ accepted[r] < MaxApp
        /\ accepted' = [accepted EXCEPT ![r] = @ + 1]
        /\ ep' = [ep EXCEPT ![r] = send_packet(@, Msg(id, accepted[r] + 1))]
        /\ OfItsOwnAccord(r)
        /\ UNCHANGED <<taken, calls>>

send_chaff(r) ==
    /\ Running(r) /\ MaySpeak(r)
    /\ ep[r].phase = "Established"
    /\ calls[r].chaff < MaxChaff
    /\ calls' = [calls EXCEPT ![r].chaff = @ + 1]
    /\ ep' = [ep EXCEPT ![r] = send_packet(@, Msg("IGNORE", calls[r].chaff + 1))]
    /\ OfItsOwnAccord(r)
    /\ UNCHANGED <<taken, accepted>>

InitiateRekey(r) ==
    /\ Running(r) /\ MaySpeak(r)
    /\ calls[r].rekey < MaxRekeys
    /\ ep[r].phase = "Established" /\ ~ep[r].rekeying
    /\ calls' = [calls EXCEPT ![r].rekey = @ + 1]
    /\ ep' = [ep EXCEPT ![r] = initiate_rekey(@)]
    /\ OfItsOwnAccord(r)
    /\ UNCHANGED <<taken, accepted>>

Disconnect(r) ==
    /\ MayDisconnect /\ Running(r) /\ ~ep[r].closing
    /\ calls' = [calls EXCEPT ![r].disconnect = 1]
    /\ ep' = [ep EXCEPT ![r] = disconnect(@)]
    /\ OfItsOwnAccord(r)
    /\ UNCHANGED <<taken, accepted>>

Next == \E r \in Roles :
    \/ Receive(r) \/ SendApp(r) \/ send_chaff(r) \/ InitiateRekey(r) \/ Disconnect(r)

Spec == Init /\ [][Next]_vars

\* The driver flushes its output and reads its socket whenever bytes are there.
\* Fairness is stated of ReadNext, the part of Receive that moves taken; no
\* other action does.
Fairness == \A r \in Roles : WF_taken(ReadNext(r))

FairSpec == Spec /\ Fairness

--------------------------------------------------------------------------------
Phases == {"NeedPeerVersion", "Handshake", "Established"}

TypeOK ==
    \A r \in Roles :
        /\ ep[r].role = r /\ ep[r].phase \in Phases
        /\ ep[r].tx_seq \in 0..SeqSpace-1 /\ ep[r].rx_seq \in 0..SeqSpace-1
        /\ ep[r].comp_out \in Nat /\ ep[r].comp_in \in Nat
        /\ ep[r].comp_name \in {"none", "zlib"}
        /\ ep[r].rekeying \in BOOLEAN /\ ep[r].kexinit_sent \in BOOLEAN
        /\ ep[r].closing \in BOOLEAN
        /\ taken[r] \in 0..Len(ep[r].tx)
        /\ accepted[r] \in 0..MaxApp
        /\ calls[r] \in [chaff : 0..MaxChaff, rekey : 0..MaxRekeys, disconnect : 0..1]

\* Two endpoints of this code never make each other fail: every frame opens
\* under the receiver's current key, sequence number and compression context,
\* and every key-exchange message arrives in a state that expects it, however
\* the two sides' re-keys, packets and chaff cross on the wire (the Err returns
\* of drive, handle_packet and the key-exchange handlers).
NoEndpointFails == \A r \in Roles : ep[r].err = "none"

\* An endpoint never seals two frames with the same key and sequence number,
\* which is the AEAD nonce (the comment on EPOCH_HARD_PACKETS).
NonceUnique ==
    \A r \in Roles : \A i, j \in 1..Len(ep[r].tx) :
        i < j /\ ep[r].tx[i].key # NoKey /\ ep[r].tx[i].key = ep[r].tx[j].key
            => ep[r].tx[i].seq # ep[r].tx[j].seq

\* From its KEXINIT to its NEWKEYS an endpoint writes nothing but key-exchange
\* messages and DISCONNECT: application packets and chaff wait in tx_app_queue
\* (send_packet, RFC 4253 section 9).
QuietDuringKex ==
    \A r \in Roles : LET tx == ep[r].tx IN
        \A i, j \in 1..Len(tx) :
            /\ i < j /\ tx[i].msg.id = "KEXINIT"
            /\ tx[j].msg.id \in AppIds \cup {"IGNORE"}
            => \E k \in i..j : tx[k].msg.id = "NEWKEYS"

\* The session id is the hash of the first exchange: the endpoints agree on it,
\* no later exchange replaces it, and every key either of them ever sealed with
\* is derived from it (finish_kex).
SessionIdAgreement ==
    /\ \A r \in Roles : \A i \in 1..Len(ep[r].tx) :
          LET key == ep[r].tx[i].key
          IN  key # NoKey => \A q \in Roles :
                  ep[q].session_id # <<>> => key[3] = ep[q].session_id
    /\ ep["client"].session_id # <<>> => ep["server"].session_id = ep["client"].session_id

\* r's transport closes of its own accord only when its peer began more re-keys
\* than allowed, of the peer's own accord, since the last application packet r was
\* given, or when the key epoch is exhausted: neither the first exchange nor the
\* peer's answers to r's own re-keys count, also when the two cross
\* (on_peer_kexinit).
FloodGuardSound ==
    \A r \in Roles :
        LET out  == ep[Peer(r)].tx
            read == 1..taken[Peer(r)]
            apps == {i \in read : out[i].msg.id \in AppIds}
            last == IF apps = {} THEN 0 ELSE Max(apps)
        IN  ep[r].closing /\ calls[r].disconnect = 0 =>
                \/ ep[r].tx_packets_since_rekey >= EpochHardPackets
                \/ Cardinality({i \in begun[Peer(r)] \cap read : i > last})
                       > MaxConsecutivePeerRekeys

--------------------------------------------------------------------------------
\* The application packets among the messages s, in order: a packet's argument
\* is its number.
WithPacket(a, m) == IF m.id \in AppIds THEN Append(a, m.arg) ELSE a

AppArgs(s) ==
    LET a[i \in 0..Len(s)] == IF i = 0 THEN <<>> ELSE WithPacket(a[i - 1], s[i])
    IN  a[Len(s)]

\* The transport implements the ordered lossless pipes of AppPipe: r's pipe is
\* what it has sealed and its peer has not read, then what a re-key defers
\* (a closing endpoint will never write that).
InFlight(r) ==
    LET e      == ep[r]
        unread == [i \in 1..(Len(e.tx) - taken[r]) |-> e.tx[taken[r] + i].msg]
        queued == IF e.closing THEN <<>> ELSE e.tx_app_queue
    IN  AppArgs(unread \o queued)

Pipe == INSTANCE AppPipe WITH
    Ends      <- Roles,
    Other     <- Peer,
    pipe      <- [r \in Roles |-> InFlight(r)],
    delivered <- [r \in Roles |-> ep[r].events],
    closed    <- [r \in Roles |-> ep[r].closing]

\* Application packets are delivered in order, once, and none is lost across
\* any number of key exchanges (send_packet, maybe_complete_kex, handle_packet).
ImplementsPipe == Pipe!Spec

--------------------------------------------------------------------------------
Ended == \E r \in Roles : ep[r].closing \/ ~Running(r)

\* A key exchange that has begun completes (begin_rekey_round to
\* maybe_complete_kex), also when both sides begin one at the same time.
RekeyCompletes ==
    \A r \in Roles : ep[r].kexinit_sent ~> (~ep[r].kexinit_sent \/ Ended)

\* A packet accepted by send_packet reaches the layer above the peer, also when
\* it had to wait in tx_app_queue for the end of a re-key.
AppDelivered ==
    \A r \in Roles : \A n \in 1..MaxApp :
        accepted[r] = n ~> (Len(ep[Peer(r)].events) >= n \/ Ended)

--------------------------------------------------------------------------------
\* What the documentation of send_chaff says of the peer: it silently discards
\* a chaff packet.  No endpoint fails on one, the packet it read last.
ChaffDiscarded ==
    \A r \in Roles : LET q == Peer(r) IN
        ep[r].err # "none" => ep[q].tx[taken[q]].msg.id # "IGNORE"
================================================================================
