# ssh-bench: a TLA+ verification project

This directory holds TLA+ specifications of the SSH implementation in `src/`,
the TLC configurations that check them and the theorems TLAPS proves about them.
Every definition is translated from the Rust source; `PROJECT.json` maps each
one to its lines.

## 1. Inventory of the system

`ssh-transport` is sans-I/O: a connection is a value, fed with bytes
(`on_input`) and asked for bytes (`take_output`) and events (`poll_event`).
`ssh-io` drives such values over sockets with tokio. The layers call downwards
and pass events upwards; only `ssh-io` is concurrent.

| Component | State | Operations | What is hard | What makes it correct |
|---|---|---|---|---|
| Transport (`transport.rs`, `compress.rs`, `cipher.rs`) | phase, both ciphers and sequence numbers, the round's flags and ephemeral values, `tx_app_queue`, counters, compression contexts | `on_input`, `send_packet`, `send_chaff`, `initiate_rekey`, `disconnect` | re-keys of both sides crossing; per-direction switch of keys, numbers and compression; automatic re-keys; wrap-around; the flood guard | endpoints never refuse each other's frames, nonces are unique, packets are delivered in order and once, exchanges complete |
| Channel (`connection.rs`) | both windows, `unacked`, the output queue, end-of-stream flags, `flushed_out` | `enqueue_*`, `drain_output`, `add_remote_window`, `consume_incoming`, `ack_incoming`, `take_flushed_out`, `request_*` | two counters kept in step by messages in transit; batched grants; partial drains; end marks that wait | no false window violation, no stall, one window of backpressure, no byte lost, the end last |
| Server connection (`server.rs`) | authentication counters, one channel, `pending_reply`, `program_started`, events | authentication handlers, channel handlers, output API | packets handled after a disconnect; a channel closed and re-opened; replies deferred to the application | caps are respected, one program per channel, replies match requests |
| Client connection (`client.rs`) | state, one channel, `pending`, `want_pty`, `reply_queue` | `exec`/`shell`, `write_stdin`, `send_eof`, message handlers | replies without request ids; late messages of an old channel; EOF before the confirmation | replies are attributed to the right request, stdin reaches its program |
| Serve loop (`serve.rs`, `exec.rs`) | active channel, stdin sender, output budget, `out_inflight`, consumption watch, timers, handler task | the branches of the `select!`, `reserve_and_send`, `poll_read`, `poll_write` | stale output and consumption of an old handler; budget accounting; timers racing flushes | budget conservation, no handler outlives its connection, one window of stdin |
| Admission (`limits.rs`, `policy.rs`, `serve_listener`) | per-address counts, permits, token bucket, ban table | `try_admit`, guard drop, `try_acquire`, `evaluate`, `on_auth_exhausted`, `on_authenticated` | release in two steps; expiry against pruning | caps hold, slots return, bans last exactly their time |
| Driver, process runner (`lib.rs`, `system.rs`) | buffers, child process | `flush`, `read_once`, `run_process` | cancellation between awaits; a child that exits before its output is read | a child never outlives its session, its exit status follows its output |
| Negotiation, identification, framing, authentication messages (`algo.rs`, `version.rs`, `packet.rs`, `cipher.rs`, `auth.rs`) | none | `pick`, `parse_peer_id`, `padding_len`, `seal_into`, `open`, `verify` | boundary lengths; input cut anywhere | both sides choose the same algorithms; decoding is independent of the cuts |
| Terminal input decoder (`input.rs`) | an incomplete tail | `feed` | sequences and characters split over reads | the keys typed, in order, once |
| Key-exchange mathematics (`kex.rs`, `mlkem.rs`, `sntrup.rs`, `kdf.rs`, `hostkey.rs`) | none | cryptographic functions | - | out of a model checker's reach |
| Wire primitives, key store, terminal backend, programs, fuzz targets, benchmarks | bytes, files, a screen | encoding, file I/O, rendering, command lines | - | see "Not modelled" |

How they interact: the serve loop owns a `Driver`, which owns a
`ServerConnection`, which owns a `Transport` and at most one `Channel`. Handler
tasks share three things with the loop: an unbounded channel of output
(`Outbound`), a semaphore that budgets it, and a watch that counts consumed
stdin. `serve_listener` spawns one serve loop per admitted connection; these
share the limiter and the ban table behind mutexes.

`PROJECT.json` lists the hazards line by line, with the properties that cover
each, and where none does, the reason.

## 2. Modules

| Module | Models | State and actions |
|---|---|---|
| `Transport` | `struct Transport`, `KexInit`, `Negotiated` | An endpoint is a record with the struct's fields. Each method is an operator from record to record with the method's name; small named operators (`PeerBegins`, `Deferring`, `Muted`, `NextSeq`, ...) hold the conditions and computations inside them. KEXINITs carry the algorithm lists and the strict-KEX marker, and both sides run `pick` on them. |
| `TransportPair` | a client and a server over a byte stream | `ep` the endpoints, `taken` how much of each output its peer has read, `begun` (a ghost) which KEXINITs an endpoint sent of its own accord. One action per call: `Receive` (`on_input` with the next frame), `SendApp`, `send_chaff`, `InitiateRekey`, `Disconnect`. |
| `AppPipe` | the abstract promise of the transport | two ordered lossless pipes; a closed end loses a suffix of what it accepted |
| `ChannelFlow` | one direction of a session channel, both ends | the sender's and the receiver's `Channel` fields, the two queues of messages between them. `SenderRole` selects stdin (client to server) or output (server to client). |
| `ByteStream` | the abstract promise of a channel direction | bytes written, launched within a capacity, consumed; the end seen after the last byte |
| `ChannelOutput` | `Channel`'s output queue | the exact loop of `drain_output` over items of stdout and stderr bytes |
| `ServerSession` | `ServerConnection` (`server.rs`), the authentication decisions of `auth.rs` | a record with the struct's fields; one operator per handler (`handle_userauth`, `handle_channel_request`, `accept_channel`, `channel_exit`, ..., `pump`) |
| `ClientSession` | `ClientConnection` (`client.rs`) | the same for the client: host key, `next_auth`, `open_session`, `reply_queue`, `send_eof`, `window_change`, the channel handlers |
| `SessionPair` | both session layers with their applications | One action per API call or input: `Handshake`, `Open`, `Resize`, `EndInput`, `send_raw_packet`, `client_on_input`, `server_on_input`, and the dispatch of each server event (`Accept`, `Reject`, `WindowChange`, `ChannelEof`, `ChannelClose`, `Finish`), `Exit`. |
| `Serve` | `serve_with`, `spawn_handler`, the output budget of `exec.rs`, `run_process` of `system.rs` | `loop` the locals of `serve_with`, `hnd` the handlers, `out_rx` their output, `chan` the open channel. One action per branch of the `select!` and per event; OPEN (`ChannelOpen`) and the request for a program (`ProgramRequest`) are steps of their own, since the code takes the second without the first; handlers are tasks of their own (`Reserve`, `Write`, `WriteFails`, `ChildExits`, `PumpEnds`, `Returns`, `Dropped`, `ReadStdin`). |
| `Admission` | `serve_listener`, `limits.rs`, `policy.rs` | the gates of the accept loop (`try_acquire`, `evaluate`, `try_admit`), what a connection task does to them, the guard's drop in two steps, the clock |
| `Framing` | `packet.rs`, `cipher.rs`, `version.rs` as decoders | `padding_len`, `seal_into`, `open`, `parse_peer_id` over lengths |
| `InputParser` | `ssh-tui/src/input.rs` | `feed`, `step` and the CSI, SS3, control and UTF-8 decoders over bytes |
| `Decoders` | `drive` over a buffer, with the decoders of both modules behind each other | `fed` bytes of a fixed script; one action, `on_input` of a piece |
| `TransportProofs`, `TransportOrder`, `SessionProofs`, `ServeProofs`, `ChannelFlowProofs`, `ChannelOutputProofs`, `AdmissionProofs`, `FramingProofs` | - | theorems about `TransportPair` (two modules), `SessionPair`, `Serve`, `ChannelFlow`, `ChannelOutput`, `Admission`, `Framing` |

`SessionPair` sits on an ordered reliable pipe, which is what `TransportPair`
is shown to implement (`ImplementsPipe`). `Serve` uses of the session layer what
the loop calls. `ChannelFlow` is the window part of both channel ends,
`SessionPair` their requests and their life, so no data flows in `SessionPair`.

Abstractions:

* Cryptography is symbolic. A draw from the generator is a fresh number; the
  exchange hash is the tuple of both KEXINITs and both ephemeral values; a key is
  named by direction, hash, session id and cipher; a frame opens under exactly
  the key and (for the AEAD framings) the sequence number that sealed it. A
  signature, a password or a host key is good or bad (`Credentials`).
* A compression context is the number of packets it has processed. A packet
  inflates only in a context that has seen the same packets.
* Payloads and frames count one unit each in `TransportPair`, so its byte limits
  are limits on units; `Framing` has the real lengths. `skip_guess` is left out:
  this code never announces a guess.
* `tx` keeps everything an endpoint ever wrote; `taken` separates what has been
  read from what is in the output buffer or on the wire. Both are FIFO and a
  driver may flush at any moment, so one queue stands for both.
* In `ChannelFlow` bytes are counted. A message carries its position, which the
  code never reads, so that gaps, overlaps and reordering are visible. The cut of
  the drained bytes into messages is arbitrary within the computed limit;
  `ChannelOutput` shows (`DrainsExactly`, proved as `DrainExact`) that the loop
  drains exactly min(queued, window) bytes, which is all that `ChannelFlow` assumes.
* The layer above the transport in `TransportPair` is any layer that sends
  numbered packets once established; `QuietClient` restricts the client to
  silence until it has seen `USERAUTH_SUCCESS`, which is what `client.rs` does
  between its authentication request and the answer.
* Every channel has local id 0 in the code. `SessionPair` and `Serve` number the
  sessions with a ghost that no guard reads, so that a message or byte that ends
  up in the wrong session is visible.
* In `Serve` the session layer answers a read of the socket with at most one
  event; a read with several is several turns. The window of the peer is a number
  it grants again when it is used up.
* In `Admission` tokens are integers and a connection costs `Cost` of them, so
  that a bucket can hold a fraction of a connection as the `f64` does.

What the models take from the callers, and what that leaves out:

* an application writes nothing after `channel_exit` or `send_eof`, and a handler
  reports as consumed only what it was given (`SessionReader::poll_read`);
* the client's application calls `send_eof` and `window_change` after
  `ChannelReady` (`EarlyCalls = FALSE`). With `EarlyCalls = TRUE` the input's end
  is lost (finding 2), and a resize goes to remote channel 0, although
  `window_change` is documented as a no-op before the channel is open;
* it does not open a session again after `RequestFailed` before the refused
  channel's CLOSE has arrived: the late CLOSE would close the new channel, since
  both have local id 0 (`client.rs:554`);
* for `OutputOnItsChannel` and `BudgetBalanced`, the peer opens a session, or asks
  for a program outside one, only when the server has reported the program before
  finished (`EarlyReopen = FALSE` in `Serve`; the end of a program outside a
  channel is never reported). A peer that closes a running session and opens
  another, or starts a program with no channel and then opens one, reaches within
  12 steps a state where output of the old handler is written to the new channel
  or credited to the new budget: `out_rx` is not drained between handlers, and every
  channel is number 0 (`serve.rs:303`). `NoOrphan` is proved without this
  restriction;
* raw packets (`send_raw_packet` in `SessionPair`) are: while authenticating, a
  wrong service request, any userauth request, or an EOF; on a confirmed session,
  an exec, subsystem, env or unknown request; with no channel (`StrayRequests`),
  before, between and after the sessions, an exec or subsystem request, an EOF or a
  CLOSE. None wants a reply, none fails to parse, and there is no raw OPEN and no
  raw CLOSE of an open channel, so the refusals of a second channel and of a small
  maximum packet (`server.rs:446`, `server.rs:455`) and the errors of
  `AuthRequest::parse` are not reached;
* what the client makes of its replies (`RepliesAttributed`, `RequestsResolve`) is
  stated up to the moment the driver dispatches a program request about no channel
  (`Strayed`): `pending_reply` is one flag for all requests, so the driver's
  decision on such a request is sent as the reply to the session's own, if that
  has arrived by then;
* keystrokes are not cut directly behind an ESC, which the decoder takes for the
  Esc key on purpose (`input.rs:166`).

## 3. Runs

All instances are exhaustive. `CHECK_DEADLOCK FALSE` appears where the inputs are
bounded: a pair that has sent all its packets, an ended channel or connection may
stop. `admission` never may, and is checked for deadlock.

| Run | Bounds | Shows |
|---|---|---|
| `transport_rekey` | strict KEX, with and without compression, both cipher preferences, 2 packets and 2 re-keys per side, flood guard at 1 re-key of the peer's own accord, automatic limits out of reach, fair reading | `NoEndpointFails`, `QuietDuringKex`, `SessionIdAgreement`, `FloodGuardSound`, `ImplementsPipe`, `RekeyCompletes`, `AppDelivered`. Two re-keys per side give crossing KEXINITs, a re-key begun while the last one's NEWKEYS is still in transit, several rounds after the first, and floods as well as re-keys with traffic between them. |
| `transport_limits` | no strict KEX, 9 sequence numbers, cap 8, automatic re-keys, one talker, disconnects anywhere | `TypeOK`, `NonceUnique`, `ImplementsPipe`. Small enough that the number wraps and that the cap is reached against a peer that does not answer in time; only a closing end may lose a suffix. |
| `flow_stdin` | window 4, packet 3, 7 bytes, fairness | the safety and liveness properties of `ChannelFlow`, its inductive invariant and the refinement. Seven bytes are almost two windows, so grants, stalls at zero and at small windows, partial batches and a late end all happen. |
| `flow_stdout` | window 4, packet 6, chunk cap 5, 9 bytes, fairness | `FlowInv`, `ImplementsStream`, `EndDelivered` for output; packet and cap above the window, so the window is what limits a message |
| `channel_output` | packets 0, 2, 3, caps none/0/1/2, windows to 4, writes of 0-3, 6 bytes | `NothingLost`, `MessagesWellFormed`, `BudgetExact`, `DrainsExactly` |
| `session` | caps of 2, up to 2 scripted attempts and one raw packet (section 2), 2 sessions, 2 sizes, one resize, fairness | `AuthWithinCaps`, `RepliesAttributed`, `OneProgramPerChannel`, `ResizeReachesProgram`, `RequestsResolve`, `EofReachesProgram`. Two attempts and a raw one exceed both caps; two sessions make replies, EOF and CLOSE of the first meet the second; the raw packet may be a second program request on a session, or a program request, EOF or CLOSE about no channel before, between or after the sessions. Longer sequences of these are left to the proof. |
| `serve` | budget 2, reservations to 2, window 1, 2 sessions, 3 bytes of output, 1 of input, fairness | `OutputOnItsChannel`, `BudgetBalanced`, `NoOrphan`, `ConnectionEnds`, `WritersReleased`. Two pumps that may each reserve the whole budget, more output than budget and a window smaller than both make every waiting chain; two sessions make handlers follow each other, and in place of either the peer may ask for a program with no channel open. A peer that reopens early is left to the proof of `NoOrphan`. |
| `admission` | 2 addresses, 2 tasks (so 2 permits), caps 1, 2, none, burst of 2 connections refilled at half of one per tick, threshold 2, ban of 2 ticks, 4 ticks, lock delay of 1 | `SlotsExact`, `RateBound`, `BansFair`. The second address admits while the first releases; four ticks are enough for a strike, a ban, its expiry and a new strike; the delay lets an older time be applied after a newer one. |
| `decoders` | pieces of 1 and of 30 bytes, mixed freely, up to 2 banner lines, identification lines around both limits, payloads of 0-17 bytes in every framing, up to 2 keystrokes of 12 kinds | `DecodedAsSent`, `KeysAsTyped`. 18 lengths go round both block sizes; pieces of 1 reach every cut. |
| `transport_chaff`, `session_eof`, `serve_wedge` | small | violations, see section 5 |

Fairness. `transport_rekey` assumes weak fairness of reading the peer's next
frame: `serve_with` and `Driver::next_event` flush and then read in a loop, and
TCP delivers. Nothing is assumed of the layer above. The flow runs assume that
both drivers keep reading, and that a running handler keeps reading its stdin; a
handler that stops reading stalls the client by design (`channel_consumed`), and
one that exits closes the channel, which the properties allow for. `session`
assumes that both sides keep reading and that the server's application takes its
events; no program is assumed to exit. `serve` assumes that the runtime polls
tasks that can go on and that the idle timer fires; the timer is put off by every
read in the code, and a peer of the run sends only so much, so that in the end it
does fire. Nothing is assumed of the peer, and no child is assumed to write, read
or exit.

Mutants. Each property of a passing run is paired with a fault in a mapped
definition, kept beside it under a name such as `FlushQueue_lost`; the property
is violated when the fault replaces the definition. `NoEndpointFails` has three,
one for each of sequence numbers, compression contexts and negotiation, and
`FloodGuardSound` two: the peer's answers are counted, and application packets do
not restart the count.

## 4. Proofs

### Channel flow control

`ChannelFlowProofs` proves, for every window, maximum packet, chunk cap, u32
bound and total that satisfy `FlowAssumption` (the window is positive and fits in
the u32; everything is a natural number), and for both roles:

* `FlowInvariant`: `Spec => []FlowInv`
* `TypeCorrect`, `WindowRespected`, `BackpressureHolds`, `EndBehindData`:
  `TypeOK`, `NoWindowViolation`, `Backpressure`, `EndAfterData`
* `Refinement`: `Spec => ImplementsStream`

The argument. `NoWindowViolation` is not inductive: whether a message fits
depends on grants that are still in transit. `FlowInv` adds

* `WindowInv`: each window equals the initial window plus the grants made
  (receiver) or received (sender) minus the bytes received or sent, and
  `granted + unacked = consumed`, so the clamp in `ack_incoming` never cuts and
  the saturation in `add_remote_window` never happens;
* `TransitInv`: the messages in transit cover exactly the positions between the
  two sides' totals (`Chain`), so the head of the queue ends at most at `sent`,
  which is at most one window past what was granted: it fits;
* `OpenInv`: before the confirmation there is no window, and the confirmation is
  the first message back;
* `EndInv`: an end mark in transit is positioned at `sent`, with an empty queue
  and the end requested; CLOSE is the last message.

The lemmas about `Chain` (tail, concatenation, append) carry the reasoning about
sequences; `FlushFacts` and `AckFacts` say once what `flush_channel` and
`ack_incoming` do; `NextFlowInv` has one step per action. `StepRefines` maps each
action to a step or stutter of `ByteStream`.

### The drain loop

`ChannelOutputProofs` proves all four properties of the run, for every maximum
packet (a 0 counts as 1, as in `Channel::new`), every cap, window and sequence of
writes: `OutputNeverLost`, `MessagesAlwaysFit`, `BudgetAlwaysExact` and the action
property `DrainExact`. The invariant `OutputInv` adds to them that every item of
the queue has bytes left and is of one stream; without it a turn of the loop could
send nothing, or leave a finished item in front.

The argument has three layers. What `FlattenSeq` does to an append, a
concatenation and a first element, by induction on the number of parts. What
`Advance` does to the unsent bytes: they are the chunk sent and then the unsent
bytes that are left (`AdvanceKeeps`). And the loop: `LoopInv` says that the
messages so far and then the rest of the queue are what the loop began with, and
that their length has come off the window; a turn keeps it and takes at least one
byte off the window (`TurnKeeps`), so after as many turns as the window has bytes
the loop has ended, with an empty queue or without window (`DrainFacts`). From
either, the number of bytes sent is the lesser of the two. `DrainLoop` is a
recursive function over the number of turns for this reason.

### Admission

`AdmissionProofs` proves the three properties of the run, for every set of
addresses, every finite set of connection tasks, every choice of settings and
every bound on the clock:

* `SlotsAlwaysExact`, `Spec => []SlotsExact`. The inductive invariant
  `LimiterInv` adds the types of the limiter, of the listener and of the tasks.
  `Holding` and `Counted(i)` change by one element or not at all in each action;
  the lemmas on cardinalities say so once. The release needs the most care:
  between `DropCount` and `DropPermit` a task is held but not counted.
* `RateAlwaysBounded`, `Spec => []RateBound`. `RateBound` does not say what the
  bucket still holds, so it says nothing about the next pass. `BucketInv` adds
  it: what was spent since any tick s, plus what the bucket holds now, is at most
  a full bucket and the refill since s. The cap on the refill is what makes the
  window that begins now start at no more than `Burst`.
* `BansAlwaysFair`, `Spec => BansFair`, an action property. `BanInv` ties each
  record to the strikes it stands for: the ban is exactly `BanDuration` after the
  last strike and there exactly from `BanThreshold` strikes on (`RecordOK`); the
  strikes of the last `BanDuration - Skew` are all in the record, the record has
  none that was not made, and no strike is later than the record's last by more
  than `Skew` (`RecordFaithful`). The last part is what the race needs: a strike
  applied late moves `last_strike` back, but by no more than `Skew`. Then a
  record that `gc` or `evaluate` drops holds no strike that still counts
  (`Forgotten`).

### Framing

`FramingProofs` proves about the lengths of packets, for every cipher and every
payload length: `PlainPacketLongEnough` (the `while` loop of `padding_len` never
runs: alignment and minimum padding always reach `MIN_PACKET`), `PaddingFitsByte`
(at least four, at most nineteen), and `OpenAcceptsSealed` (up to
`MAX_PACKET_LENGTH`, `open` waits for exactly the bytes of a sealed packet,
accepts it whatever follows it in the buffer, and recovers the payload's length).

### Transport

`TransportProofs` proves of two transports connected by FIFO streams, for every
limit, sequence space, number of packets and list of algorithms that
`TransportAssumption` and `PairAssumption` allow, strict KEX or not, with
compression or without:

* `TransportTypeCorrect`: `Spec => []TypeOK`
* `SilenceDuringKex`: `Spec => []QuietDuringKex`
* `NoncesNeverRepeat`: `ASSUME Wide PROVE Spec => []NonceUnique`
* `SessionIdAgreed`: `Spec => []SessionIdAgreement`
* `TransportInvariant`: the invariant they all follow from, `PairInv`.

`PairInv` has two halves. `EndsInv` is about one endpoint and its own output and
asks nothing of the frames it reads except that a KEXINIT lists known
compression names, so what follows from it holds against any peer: `Shape` (which
fields are set in which phase), `QuietInv` (an endpoint in a key exchange has
written its KEXINIT and since then only key-exchange frames, and the packets that
wait are in `tx_app_queue`), `NonceInv` (every key sealed with comes from an exchange
whose ephemeral value has been drawn, so the key of a new exchange is new; the
frame that lies n places back under the current key has the number n before the
next; and there are at most as many of them as the packet counter says, plus one
`EpochHardPackets` for those sent before the end of the round reset it) and `SidInv`. `AgreedInv` relates
the two ends: what the client took its session id from is the first reply the
server wrote.

`Wide` is `2 * EpochHardPackets <= SeqSpace`. In the code the cap is 2^31 packets
and the sequence number has 32 bits, so it holds, with nothing to spare. It is
needed because the counter of an epoch restarts at the end of the round, which a
peer may delay, and the outgoing key changes before it. The run
`transport_limits` has a smaller space (9 numbers, cap 8) on purpose: with a peer
that follows the protocol a smaller space is enough too.

Each operator of `Transport` has a lemma that says which fields it changes and
that it keeps the invariant; an action is then a composition of these. The one
loop, `FlushQueue`, is a recursive function over the positions of the queue. What
it computes is proved by induction on the position, and the induction itself from
the well-foundedness of strict inclusion of finite sets (`LeastNumber`,
`Induction`), so no theorem with an operator parameter is used.

#### The two transports together

`TransportOrder` proves, again for all constants, what the two endpoints make of
each other:

* `KeyExchangeOrder`: the invariant, `Spec => []OrderInv`;
* `FloodGuardJustified`: `Spec => []FloodGuardSound`;
* `FailuresExplained`: an endpoint's `err` is `"none"`, `"decompress"`, or
  `"epoch packet limit"` with the peer's own epoch used up. Every other failure of
  `drive` and the handlers (a frame that does not open, a KEXINIT, ECDH or NEWKEYS
  message out of turn, no common algorithm, a bad signature, a packet of the
  layer above inside a strict key exchange) is excluded;
* `UncompressedNeverFails`: if the client lists no compression first, so that none
  is negotiated, `NoEndpointFails` holds as long as neither endpoint has used up an
  epoch;
* `TransportImplementsPipe`: `Spec /\ []NoEndpointFails => ImplementsPipe`, the
  refinement of `AppPipe`;
* `UncompressedImplementsPipe`: `ImplementsPipe` under the hypotheses of
  `UncompressedNeverFails`, with nothing assumed of failures.

Both hypotheses of `UncompressedNeverFails` are needed. With zlib a packet of the client that
crosses `USERAUTH_SUCCESS` does fail to inflate (finding 1; the run
`transport_rekey` excludes it with `QuietClient`), and an endpoint that has used up an epoch
closes, with what its peer still sends left unread.

The state space is two endpoints in the middle of crossing exchanges, with
frames of several epochs between them. The idea that makes it tractable is that
nothing of it is independent: an endpoint's output is ordered (`Ordered`: its n-th
key-exchange message is the (n mod 3)-th of its role's round, KEXINIT, its ECDH message, NEWKEYS),
and where it stands is a function of two numbers, n such messages written and m
taken from the peer. `Flags` gives its phase and its flags for every n and m;
n is at most m + 1, so the two sides are at most one message apart, and a second
KEXINIT cannot begin before the peer's NEWKEYS is taken. In the same way the
sequence number of a frame is a function of the frames before it (strict KEX resets it
at each NEWKEYS), the n-th key-exchange value is the one both sides have drawn for round n,
and the key of a frame is that of the last NEWKEYS before it. Each of these is
stated of an output alone, so that the reader's side of the same function gives
the number, key and message it expects. `Stands` collects them for an
endpoint that has read k frames of its peer's output, and is kept by every operator
of `Transport` in its turn (`Carries` for those that write, `HandleStands` and
`DriveStands` for those that read). `OrderInv` says that both endpoints stand so.

`FloodGuardSound` needs more: which of the KEXINITs taken the peer began. The ghost
`begun` holds the positions of those it sent in a step that read no KEXINIT.
`GuardInv` says that every other KEXINIT is the first of its writer or an answer,
that is, the reader has written the KEXINIT of that round itself (`Replies`); and that
the flood counter is at most the number of begun ones taken since the last packet of
the layer above. An endpoint counts when it is established and has sent no KEXINIT
(`PeerBegins`); by `Flags` it has then written fewer key-exchange messages than its
peer has, up to the KEXINIT it takes, so that one is no answer, and it is not the
first: it is in `begun` (`KexinitBegins`).

The refinement maps a pipe of `AppPipe` to `InFlight`: the packets of the layer above
among the frames the peer has not read, then those that wait in `tx_app_queue`, unless
the endpoint has closed and will not send them. One step of `TransportPair` is many
operations of an endpoint (reading a NEWKEYS opens the frame, changes the keys, empties the
queue, may begin the next re-key, and may close when the epoch is used up), and
`AppPipe` allows it one packet delivered or one sent. So the lemmas at the end of
`TransportProofs` say of each operator what it does to the packets on their way:
it keeps them, or an initial part of them if it closes (`Flows`), appends the one it was
given (`Sends`), or gives the first to the layer above (`Gives`). Three facts join them:

* `DrainInv`, the extra invariant: packets wait only at an endpoint that is exchanging
  keys or has closed. Without it a packet handed to an idle endpoint could
  overtake one left in the queue.
* `OrderInv` tells which frame an endpoint reads next and that it opens, so the packet
  that is delivered is the head of the pipe and no key-exchange message is delivered
  as one.
* `[]NoEndpointFails`, as hypothesis: an endpoint that fails has taken the frame it failed
  on and delivers nothing for it, which is a loss from the front of the
  pipe. `UncompressedNeverFails` then discharges it.

`EpochHardPackets > 1` is assumed so that an endpoint does not use up its epoch
with its very first KEXINIT, before any step is taken: `AppPipe` begins with both
ends open. The code's value is 2^31.

### Serve loop

`ServeProofs` proves of `serve_with`, for every budget, reservation, window,
number of sessions and amount of input and output:

* `ServeTypeCorrect` and `HandlersNeverOrphaned` (`NoOrphan`), for both values of
  `EarlyReopen`: also for a peer that reopens early and for any number of programs
  started with no channel open;
* `OutputStaysOnChannel` (`OutputOnItsChannel`), `BudgetConserved`
  (`BudgetBalanced`) and the invariant behind them, `ServeInvariant`, for
  `EarlyReopen = FALSE`: the peer opens a session, or asks for a program outside
  one, only when no earlier program may still run. Without it both are false
  (section 2).

`OutputOnItsChannel` looks at what was sent and says nothing of what is queued.
`ServeInv` adds `WiredInv` (which handler the loop's channels, budget and exit
receiver belong to), `OutputInv` (a queue holds only output of the handler that is
wired or has just finished, the exit status is behind every byte of both pumps,
and CLOSE behind the exit status) and `BudgetInv` (free, queued and in-flight
bytes add up for every handler, with the bytes of a queue counted as a set of
pairs so that an append or a take changes its cardinality by the length).

### Session layer

`SessionProofs` proves of a client and a server connection with their
applications, for every pair of caps, every script of credentials, and any number
of sessions, raw packets and resizes, also with calls before `ChannelReady`
(`EarlyCalls`) and with requests about no channel (`StrayRequests`):

* `AuthAlwaysCapped`: `Spec => []AuthWithinCaps`
* `ProgramsNeverDoubled`: `Spec => []OneProgramPerChannel`
* `SessionInvariant`: the invariant they follow from, `SessionInv`.

It assumes of the constants that the caps are positive, that the scripted
attempts are credentials, and that there is a terminal size, none of them 0.

`OneProgramPerChannel` is about programs the application has started, numbered by
their channel, with 0 for one that was asked for about no channel; nothing in
it stops the server from asking for a second one. `SessionInv` says why it does
not:

* `Wire`: among the messages on their way, those of a channel follow those of
  older channels, its OPEN comes first and its CLOSE last, and a request is about
  no channel or about one the server has or will have by then. The server's channel
  is older than any that is still to be opened, so an OPEN always finds the last
  channel closed, and a refusal (`CHANNEL_OPEN_FAILURE`) never happens.
* `Programmed`: a channel other than 0 occurs at most once among the programs started and those
  the application has still to hear of, and not at all if the server's
  `program_started` is false. `program_started` is reset when a channel is opened
  or closed, while the old channel's request may still be in the event queue; that the new
  channel has a number of its own needs `Wire`.
* `Life`: what a client in each state has sent. A client has a channel only if the
  server has authenticated it, so no channel message arrives before that.
* `Capped` and `Succeeded`: the answers given are at most the requests and failures
  the server counted, the success is the last answer, and a client learns of it
  only from that message.

The lemmas come in three layers: what each operator of `ServerSession` and
`ClientSession` changes; how a message added or taken changes `Wire` and
`Programmed`; and, for two connection records, what each kind of step keeps
(`Holds`). `SessionNext` then has one step per action. The proof made one change
to the model: `pump` was written as a `CASE` whose arms overlapped for a
DISCONNECT after authentication; TLC takes the first, TLA+ does not say which, so
it is now a chain of conditions in the order of the code.

Only model-checked: of the session layer `RepliesAttributed` and
`ResizeReachesProgram`; liveness, which needs fairness; the decoders, whose
results are recursive over their input; and of the transport `NoEndpointFails`
with compression on, which holds only for a client that waits for
`USERAUTH_SUCCESS`.

## 5. Findings

1. `transport_chaff`. The server engages its decompressor when it *sends*
   `USERAUTH_SUCCESS`, the client its compressor when it *receives* it. A chaff
   packet (an IGNORE frame) sent by the client in between fails to inflate and
   ends the connection, although `send_chaff` is documented as "the peer silently
   discards it" (`transport.rs:527`) and is offered for an idle timer.
2. `session_eof`. `send_eof` between `open_session` and `ChannelReady`, with
   nothing queued, sends EOF at once and so before the program is requested. The
   serve loop drops the `stdin_tx` it does not have yet (`serve.rs:282`), and the
   program never sees the end of its input. `client.rs:282` promises that EOF
   "never overtakes buffered data when the window opens late", and the client
   program calls `send_eof` as "EOF (ordered after all data); signal it to the
   remote once." (`ssh-client/src/main.rs:196`).
3. `serve_wedge`. The comment on the loop's flush explains that it runs under the
   timers because "a peer that stops reading its socket would otherwise wedge the
   connection here forever" (`serve.rs:158`); the flush before each of the two
   returns that follow a disconnect (`serve.rs:224`, `serve.rs:299`) is awaited
   without them, and keeps the task and its admission slot.

Read, and without a run of their own:

* `program_started` is the only guard of exec, shell and subsystem requests;
  `handle_channel_request` never asks whether a channel exists (`server.rs:470`),
  and `handle_channel_close`, which does not ask either, resets the flag. So an
  exec before any OPEN starts a handler (a state of the run `session`), and exec
  and CLOSE in turn start one each time, with no session at all, although the
  comment says "A session runs exactly one program. A second exec/shell/subsystem
  on a channel that already started one is refused, so a peer can't churn handlers"
  (`server.rs:477`; `tests/hardening.rs:189` likewise). What does hold, with such
  requests, is `OneProgramPerChannel` and, in the driver, `NoOrphan`: the old
  handler is stopped before the next starts, so no more than one is wired at a time;
* data that arrives with no channel is counted against no window
  (`server.rs:622`) and still reaches such a handler, although `serve.rs:274` says
  that "at most one window of unread stdin can ever be queued here";
* the comment on `initial_kex_done` (`transport.rs:259`) says that strict KEX
  resets sequence numbers at the initial exchange only; the code resets them at
  every NEWKEYS, as the comment in `send_newkeys` says and as `NoEndpointFails`
  needs (one of its mutants is the other reading);
* `bytes_since_rekey` does not count the packets that `maybe_complete_kex`
  flushes under the new key (`transport.rs:1132`); the packet counter does;
* both directions use the cipher negotiated for client to server
  (`transport.rs:1047`). Since both sides do, and every list is the same in both
  directions, they agree (`NoEndpointFails` over both preferences);
* an address whose admission fails for want of a global permit keeps an entry
  with count zero in the limiter's map (`limits.rs:47`) until it is next
  admitted and released;
* `parse_peer_id` bounds the unfinished line, not the number of finished banner
  lines before the identification (`version.rs:43`).

## 6. Not modelled

* Key exchange, key derivation and host-key mathematics (`kex.rs`, `mlkem.rs`,
  `sntrup.rs`, `kdf.rs`, `hostkey.rs`): arithmetic on large numbers, symbolic here.
* Wire primitives and message encodings (`wire.rs`, `msg.rs`, the builders in
  `connection.rs` and `auth.rs`): data without control; messages are records.
* Deflate itself (`compress.rs`): a context is its history.
* Key store (`keystore.rs`): files of known hosts and authorized keys.
* Terminal backend (`backend.rs`, `terminal.rs`): which escape codes draw which
  cells; its correctness is about an external terminal.
* The programs' command lines, the fuzz targets and the benchmarks.
* Transport and channel in one state space, which would bound `tx_app_queue`
  against a peer that never answers a KEXINIT; `transport_rekey` alone has the
  size TLC finishes in minutes.

What could still be proved: of the session layer, that replies go to the requests
they answer and that a resize reaches the program.
