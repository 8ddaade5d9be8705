------------------------------- MODULE Transport -------------------------------
(***************************************************************************)
(* One endpoint of the SSH transport (crates/ssh-transport/src/            *)
(* transport.rs, struct Transport).  The endpoint is a record and each     *)
(* method of the struct is an operator from the record before the call to  *)
(* the record after it, so that a module that composes endpoints has one   *)
(* action per call of the public API.                                      *)
(*                                                                         *)
(* Cryptography is symbolic.  Every draw from the endpoint's generator is  *)
(* a fresh number; the exchange hash is the tuple of the four values the   *)
(* code binds into it; a directional key is named by the direction, the    *)
(* hash and the session id it is derived from; a frame opens exactly under *)
(* the key and the sequence number that sealed it.  A compression context  *)
(* is the number of packets it has processed: a deflate stream can be      *)
(* inflated only by a context that has seen the same packets.              *)
(*                                                                         *)
(* Every payload counts PayloadLen bytes and every frame FrameLen bytes.   *)
(* skip_guess is not a field: KexInit::ours_with never announces a guessed *)
(* packet, so between two endpoints of this code it stays false.           *)
(***************************************************************************)
EXTENDS Integers, Sequences, SequencesExt

CONSTANTS
    SeqSpace,                  \* sequence numbers wrap here (2^32)
    RekeyBytes,                \* rekey_bytes_limit
    RekeyPackets,              \* rekey_packets_limit
    EpochHardPackets,          \* EPOCH_HARD_PACKETS
    MaxConsecutivePeerRekeys,  \* max_consecutive_peer_rekeys
    FrameLen,                  \* wire bytes of a frame
    StrictMarker               \* do KEXINITs carry the strict-KEX marker?

ASSUME TransportAssumption ==
    /\ SeqSpace \in Nat /\ EpochHardPackets \in Nat \ {0}
    /\ EpochHardPackets < SeqSpace
    /\ RekeyBytes \in Nat /\ RekeyPackets \in Nat
    /\ MaxConsecutivePeerRekeys \in Nat /\ FrameLen \in Nat
    /\ StrictMarker \in BOOLEAN

Roles == {"client", "server"}

\* The name lists of a KEXINIT, in preference order.  The two directions of a
\* cipher or compression list are always offered alike.
KEX_ALGORITHMS == <<"mlkem768x25519", "curve25519", "curve25519@libssh">>
CIPHERS        == <<"chacha20-poly1305", "aes256-gcm">>
COMPRESSIONS   == <<"none", "zlib">>
StrictName(role) == IF role = "client" THEN "kex-strict-c" ELSE "kex-strict-s"

\* KexInit::ours_with, and what parse reads back from it.
ours_with(role, cookie, ciphers, compressions) ==
    [cookie |-> cookie, cipher |-> ciphers, comp |-> compressions,
     kex |-> IF StrictMarker THEN Append(KEX_ALGORITHMS, StrictName(role))
                             ELSE KEX_ALGORITHMS]

\* The first name on the client's list that the server supports too.
pick(client, server) ==
    LET i == SelectInSeq(client, LAMBDA name : Contains(server, name))
    IN  IF i = 0 THEN "" ELSE client[i]

NotNegotiated == [kex |-> "", cipher |-> "", comp |-> "none"]
NoCommon(n)   == "" \in {n.kex, n.cipher, n.comp}

negotiate(client, server) == [kex    |-> pick(client.kex, server.kex),
                              cipher |-> pick(client.cipher, server.cipher),
                              comp   |-> pick(client.comp, server.comp)]

\* Fault: each side negotiates as if it were the client.
Agreed_own(role, local, peer) == negotiate(local, peer)

Agreed(role, local, peer) == IF role = "client" THEN negotiate(local, peer)
                                                ELSE negotiate(peer, local)

PayloadLen == 1

NoKey     == <<"none", <<>>, <<>>, "">>   \* Cipher::None
NoContext == 0                        \* Compressor::None, Decompressor::None
Fresh     == 1                        \* a new compression context
NoPending == [some |-> FALSE, out |-> NoKey, inn |-> NoKey]

Msg(id, arg) == [id |-> id, arg |-> arg]

\* An on_input call that returns Err: the driver drops the connection.
Fail(e, why) == [e EXCEPT !.err = why]

--------------------------------------------------------------------------------
(* Sending *)

\* Compressor::new and Decompressor::new on the negotiated name.
NewContext(e) == IF e.comp_name = "zlib" THEN Fresh ELSE NoContext

activate_compression(e) ==
    [e EXCEPT !.comp_active = TRUE,
              !.comp_out = NewContext(e), !.comp_in = NewContext(e)]

\* Fault: the sequence number never wraps.
NextSeq_unwrapped(n) == n + 1

\* wrapping_add(1)
NextSeq(n) == (n + 1) % SeqSpace

\* Fault: the per-epoch packet cap is missing.
EpochExhausted_never(packets) == FALSE

EpochExhausted(packets) == packets >= EpochHardPackets

\* Fault: a closing endpoint still writes.
Muted_never(e) == FALSE

\* Once closing, an endpoint emits nothing further.
Muted(e) == e.closing

write_packet(e, m) ==
    LET packets == e.tx_packets_since_rekey + 1
        sealed  == [e EXCEPT
            !.tx = Append(@, [key |-> e.cipher_out, seq |-> e.tx_seq,
                              comp |-> e.comp_out, msg |-> m]),
            !.comp_out = IF @ = NoContext THEN @ ELSE @ + 1,
            !.tx_packets_since_rekey = packets,
            !.tx_seq = NextSeq(@),
            !.closing = EpochExhausted(packets)]
    IN  IF Muted(e) THEN e
        ELSE IF /\ e.role = "server" /\ ~e.comp_active
                /\ e.comp_name = "zlib" /\ m.id = "USERAUTH_SUCCESS"
             THEN activate_compression(sealed)
             ELSE sealed

disconnect(e) ==
    IF e.closing THEN e
    ELSE [write_packet(e, Msg("DISCONNECT", 0)) EXCEPT !.closing = TRUE]

send_kexinit(e) ==
    LET ki == ours_with(e.role, e.rng + 1, e.offered_ciphers, e.offered_compression)
    IN  [write_packet([e EXCEPT !.rng = ki.cookie], Msg("KEXINIT", ki)) EXCEPT
            !.local_kexinit = ki.cookie, !.kexinit_sent = TRUE]

begin_rekey_round(e) ==
    send_kexinit([e EXCEPT !.rekeying = TRUE,
                           !.sent_newkeys = FALSE, !.recv_newkeys = FALSE,
                           !.negotiated = NotNegotiated,
                           !.peer_kexinit = 0, !.kex_eph = 0])

initiate_rekey(e) ==
    IF e.phase = "Established" /\ ~e.rekeying THEN begin_rekey_round(e) ELSE e

\* Fault: packets are not deferred while a re-key is in progress.
Deferring_never(e) == FALSE

\* Application packets wait while our KEXINIT is out and the round is open.
Deferring(e) == e.rekeying

\* The callers check that the phase is Established (otherwise the code returns
\* Err, or for chaff does nothing).
send_packet(e, m) ==
    LET sent == [write_packet(e, m) EXCEPT !.bytes_since_rekey = @ + PayloadLen]
    IN  IF Deferring(e) THEN [e EXCEPT !.tx_app_queue = Append(@, m)]
        ELSE IF \/ sent.bytes_since_rekey >= RekeyBytes
                \/ sent.tx_packets_since_rekey >= RekeyPackets
             THEN initiate_rekey(sent)
             ELSE sent

--------------------------------------------------------------------------------
(* Key exchange *)

\* The exchange hash over both KEXINITs (an endpoint's cookie names its KEXINIT)
\* and both ephemeral values, by the hash function of the agreed method.
compute_exchange_hash(e, q_c, q_s) ==
    IF e.role = "client" THEN <<e.local_kexinit, e.peer_kexinit, q_c, q_s, e.negotiated.kex>>
                         ELSE <<e.peer_kexinit, e.local_kexinit, q_c, q_s, e.negotiated.kex>>

\* Fault: every exchange replaces the session id.
SessionId_latest(e, h) == h

\* The first exchange fixes the session id.
SessionId(e, h) == IF e.session_id = <<>> THEN h ELSE e.session_id

finish_kex(e, h) ==
    LET sid == SessionId(e, h)
        c2s == <<"c2s", h, sid, e.negotiated.cipher>>
        s2c == <<"s2c", h, sid, e.negotiated.cipher>>
    IN  [e EXCEPT !.session_id = sid,
                  !.pending = IF e.role = "client"
                              THEN [some |-> TRUE, out |-> c2s, inn |-> s2c]
                              ELSE [some |-> TRUE, out |-> s2c, inn |-> c2s],
                  !.comp_name = e.negotiated.comp]

\* Fault: kexinit_sent survives the round.
EndRound_stale(e) ==
    [e EXCEPT !.rekeying = FALSE, !.sent_newkeys = FALSE, !.recv_newkeys = FALSE,
              !.bytes_since_rekey = 0, !.tx_packets_since_rekey = 0,
              !.rx_packets_since_rekey = 0]

\* Per-round state is reset so that a later re-key starts clean.
EndRound(e) ==
    [e EXCEPT !.rekeying = FALSE, !.kexinit_sent = FALSE,
              !.sent_newkeys = FALSE, !.recv_newkeys = FALSE,
              !.bytes_since_rekey = 0, !.tx_packets_since_rekey = 0,
              !.rx_packets_since_rekey = 0]

\* Fault: the deferred packets are dropped.
FlushQueue_lost(e) == [e EXCEPT !.tx_app_queue = <<>>]

\* Writes the packets deferred during the exchange, in order.
FlushQueue(e) ==
    LET q == e.tx_app_queue
        w[i \in 0..Len(q)] == IF i = 0 THEN [e EXCEPT !.tx_app_queue = <<>>]
                              ELSE write_packet(w[i - 1], q[i])
    IN  w[Len(q)]

\* Ends the round once both NEWKEYS are exchanged; the first round brings the
\* connection up.
maybe_complete_kex(e) ==
    IF e.sent_newkeys /\ e.recv_newkeys
    THEN FlushQueue(EndRound([e EXCEPT !.pending = NoPending,
                                       !.initial_kex_done = TRUE,
                                       !.phase = "Established"]))
    ELSE e

\* The cipher the packet after our NEWKEYS is sealed with.
NewOutKey(e) == e.pending.out

\* Fault: the compression context survives the key exchange.
NewOutContext_old(e) == e.comp_out

\* Compression restarts per key exchange, once it has engaged at all.
NewOutContext(e) == IF e.comp_active THEN NewContext(e) ELSE e.comp_out

\* Fault: only the initial exchange resets the sequence number.
SeqAfterNewkeys_initial(e) == IF e.strict_kex /\ ~e.initial_kex_done THEN 0 ELSE e.tx_seq

\* Strict KEX restarts the numbering at every NEWKEYS, initial and re-key.
SeqAfterNewkeys(e) == IF e.strict_kex THEN 0 ELSE e.tx_seq

send_newkeys(e) ==
    LET w == write_packet(e, Msg("NEWKEYS", 0))
    IN  maybe_complete_kex(
            [w EXCEPT !.cipher_out = NewOutKey(w),
                      !.pending.out = NoKey,
                      !.comp_out = NewOutContext(w),
                      !.tx_seq = SeqAfterNewkeys(w),
                      !.sent_newkeys = TRUE])

on_newkeys(e) ==
    IF ~e.pending.some THEN Fail(e, "NEWKEYS before key exchange")
    ELSE maybe_complete_kex(
            [e EXCEPT !.cipher_in = e.pending.inn,
                      !.pending.inn = NoKey,
                      !.comp_in = IF e.comp_active THEN NewContext(e) ELSE @,
                      !.rx_seq = IF e.strict_kex THEN 0 ELSE @,
                      !.recv_newkeys = TRUE])

\* Fault: an answer to our own re-key counts as one the peer began.
PeerBegins_always(e) == e.phase = "Established"

\* A KEXINIT received while established and idle is a peer-initiated re-key.
PeerBegins(e) == e.phase = "Established" /\ ~e.kexinit_sent

on_peer_kexinit(e, m) ==
    LET idle    == PeerBegins(e)
        counted == [e EXCEPT !.consecutive_peer_rekeys = @ + 1]
        round   == IF idle THEN begin_rekey_round(counted) ELSE e
        local   == ours_with(e.role, round.local_kexinit, e.offered_ciphers, e.offered_compression)
        agreed  == Agreed(e.role, local, m.arg)
        known   == [round EXCEPT
                       !.peer_kexinit = m.arg.cookie, !.negotiated = agreed,
                       !.strict_kex = IF round.initial_kex_done THEN @
                                      ELSE \E role \in Roles \ {e.role} :
                                               Contains(m.arg.kex, StrictName(role))]
        q_c     == known.rng + 1
    IN  IF idle /\ counted.consecutive_peer_rekeys > MaxConsecutivePeerRekeys
        THEN disconnect(counted)
        ELSE IF NoCommon(agreed) THEN Fail(round, "no common algorithm")
        ELSE IF e.role = "client"
             THEN [write_packet([known EXCEPT !.rng = q_c], Msg("ECDH_INIT", q_c))
                      EXCEPT !.kex_eph = q_c]
             ELSE known

\* The reply carries the server's ephemeral value and its signature over h.
on_ecdh_init(e, m) ==
    LET q_s == e.rng + 1
        h   == compute_exchange_hash(e, m.arg, q_s)
    IN  IF e.peer_kexinit = 0 THEN Fail(e, "missing peer kexinit")
        ELSE send_newkeys(finish_kex(
                 write_packet([e EXCEPT !.rng = q_s],
                              Msg("ECDH_REPLY", [q_s |-> q_s, signed |-> h])), h))

on_ecdh_reply(e, m) ==
    LET h == compute_exchange_hash(e, e.kex_eph, m.arg.q_s)
    IN  IF e.kex_eph = 0 THEN Fail(e, "KEX_ECDH_REPLY before INIT")
        ELSE IF e.peer_kexinit = 0 \/ m.arg.signed # h
             THEN Fail(e, "host key signature")
             ELSE send_newkeys(finish_kex([e EXCEPT !.kex_eph = 0], h))

--------------------------------------------------------------------------------
(* Receiving *)

\* Fault: application traffic does not reset the re-key flood guard.
Deliver_uncounted(e, m) == [e EXCEPT !.events = Append(@, m.arg)]

\* Event::Packet for the layer above; real traffic resets the flood guard.
Deliver(e, m) ==
    [e EXCEPT !.consecutive_peer_rekeys = 0, !.events = Append(@, m.arg)]

handle_packet(e, m) ==
    IF e.strict_kex /\ e.phase # "Established" /\ m.id = "IGNORE"
    THEN Fail(e, "unexpected message during strict KEX")
    ELSE CASE m.id = "IGNORE" -> e
           [] m.id = "DISCONNECT" -> [e EXCEPT !.peer_disconnected = TRUE]
           [] m.id = "KEXINIT" -> on_peer_kexinit(e, m)
           [] m.id = "ECDH_INIT" /\ e.role = "server" -> on_ecdh_init(e, m)
           [] m.id = "ECDH_REPLY" /\ e.role = "client" -> on_ecdh_reply(e, m)
           [] m.id = "NEWKEYS" -> on_newkeys(e)
           [] OTHER -> IF e.phase = "Established"
                       THEN Deliver(e, m)
                       ELSE Fail(e, "unexpected message during handshake")

\* Cipher::open: the plaintext framing ignores the sequence number, the AEAD
\* framings authenticate it.
Opens(e, f) ==
    /\ e.cipher_in = f.key
    /\ e.cipher_in # NoKey => e.rx_seq = f.seq

\* Does inbound traffic call for a re-key?
RxLimitReached(e) ==
    /\ e.phase = "Established"
    /\ \/ e.rx_packets_since_rekey * FrameLen >= RekeyBytes
       \/ e.rx_packets_since_rekey >= RekeyPackets

\* One iteration of the drive loop on the next unit of input.
drive(e, f) ==
    LET opened  == [e EXCEPT !.rx_seq = NextSeq(@),
                             !.rx_packets_since_rekey = @ + 1]
        plain   == [opened EXCEPT !.comp_in = IF @ = NoContext THEN @ ELSE @ + 1]
        handled == handle_packet(plain, f.msg)
        active  == IF /\ handled.role = "client" /\ ~handled.comp_active
                      /\ handled.comp_name = "zlib"
                      /\ f.msg.id = "USERAUTH_SUCCESS"
                   THEN activate_compression(handled) ELSE handled
    IN  IF e.phase = "NeedPeerVersion" THEN [e EXCEPT !.phase = "Handshake"]
        ELSE IF ~Opens(e, f) THEN Fail(e, "open")
        ELSE IF EpochExhausted(opened.rx_packets_since_rekey)
             THEN Fail(opened, "epoch packet limit")
        ELSE IF e.comp_in # f.comp THEN Fail(opened, "decompress")
        ELSE IF handled.err = "none" /\ RxLimitReached(active)
             THEN initiate_rekey(active)
             ELSE active

--------------------------------------------------------------------------------
\* The identification line is the first thing in the outbound buffer.
VersionLine == [key |-> NoKey, seq |-> 0, comp |-> NoContext, msg |-> Msg("VERSION", 0)]

start(role, ciphers, compressions) == send_kexinit(
    [role |-> role, phase |-> "NeedPeerVersion", rng |-> 0, tx |-> <<VersionLine>>,
     tx_seq |-> 0, rx_seq |-> 0, cipher_out |-> NoKey, cipher_in |-> NoKey,
     comp_out |-> NoContext, comp_in |-> NoContext,
     offered_ciphers |-> ciphers, offered_compression |-> compressions,
     negotiated |-> NotNegotiated, comp_name |-> "none", comp_active |-> FALSE,
     local_kexinit |-> 0, peer_kexinit |-> 0, kex_eph |-> 0, pending |-> NoPending,
     sent_newkeys |-> FALSE, recv_newkeys |-> FALSE,
     strict_kex |-> FALSE, initial_kex_done |-> FALSE,
     rekeying |-> FALSE, kexinit_sent |-> FALSE, tx_app_queue |-> <<>>,
     bytes_since_rekey |-> 0, tx_packets_since_rekey |-> 0,
     rx_packets_since_rekey |-> 0, consecutive_peer_rekeys |-> 0,
     session_id |-> <<>>, events |-> <<>>, peer_disconnected |-> FALSE,
     closing |-> FALSE, err |-> "none"])
================================================================================
