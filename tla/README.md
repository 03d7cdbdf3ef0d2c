# Verification of kymux

kymux carries video, audio, input, data and metrics between two peers over one
QUIC or WebTransport connection. This directory holds TLA+ models of its
concurrent and distributed parts, TLC configurations that check them
exhaustively on small instances, and TLAPS proofs of the properties that matter
most, for every value of the constants. `PROJECT.json` lists the components,
the runs, the source lines of every definition, the hazards and the theorems.

## The system

    local process --- kycom --- kyproto --- kynet === network === kynet --- kyproto --- ...
                     (TCP)     endpoints   QUIC / WebTransport

* **kynet** wraps a transport: reliable streams, unreliable datagrams.
* **kyproto** multiplexes *endpoints* over one connection. `Control` registers
  them over a control stream; `Router` hands streams and datagrams, each of
  which starts with an endpoint id, to the endpoint; a *protocol* runs on each
  endpoint (video and audio, reliable or not, input, data, metrics, clock).
* **kymux-types** has the packet formats and the traits of the clients, with
  wrappers that make `send()` and `recv()` safe to cancel.
* **kycom** offers endpoints to other processes over local TCP connections.

## Inventory

| part (source) | state | operations | what makes it hard |
|---|---|---|---|
| `driver/util/seq.rs` | newest number | `seq()` | wrap-around against late numbers |
| `driver/av/video_unreliable.rs` | pending groups, segments, deadline, next number | send codec, config, media; handle stream packet, datagram, timer; end; drop | loss, duplication, reordering, two unordered channels, timer against late datagrams |
| `driver/av/audio_unreliable.rs` | one pending group, deadline, frame size | as above, plus holes | as above; sample accounting, clamping to `u32` |
| `driver/av/video_gopstream.rs` | GOP id, generations, current stream, queue, reader tasks | send; accept, read ids, read packets; recv | one task per stream, cancelled tasks, stale queue entries, a bounded queue |
| `driver/av/*_fec.rs`, `fec.rs` | blocks, source and repair symbols | encode, decode, reassemble | as `unreliable`, blocks interleaved, budgets |
| `control.rs`, `lib.rs` | three maps of waiting calls, id counter | register, connect, ready, handle_msg, drop, cancel | ids that wrap around, stale entries, Ready before connect, streams unordered with control |
| `router.rs` | map id to queues, three tasks | register, accept_uni, accept_bi, recv_datagram, drop | lookup and send are two steps; a full queue blocks everybody |
| `clock_sync.rs` | request id, deadline | sync, sync_average, answer | late answers, loss, rounding |
| `kycom/src/*` | map id to waiting channel, queue of connections | register, accept, read id, accept(), ready, forward, drop | ids that wrap around, stalled clients, listener failure |
| `kymux-types/src/*`, `driver/{data,input,metrics}.rs`, `driver/av/reliable.rs` | channels of one place, position in the stream | send, write, read, recv | cancellation at every await, truncated streams, errors reported late |
| `auth.rs`, `connect*`/`accept*` of `lib.rs` | the call a peer is in, the control stream | token, decision, confirmation | handshake and control messages share a stream; limits of the token on both sides |
| `webtransport_js.rs`: reader and writer | a promise, a read-ahead buffer | `poll_write`, `poll_flush`, `poll_read` | writes that fail after they were reported as done |
| other kynet drivers, telemetry, certificates, runtime | | | I/O and wrappers |

## Modules

Each module has the state of a component as variables, one action per operation
or handler, and its properties. `MC*` modules instantiate them. Definitions
called *Mutant of* are deliberately wrong variants of the definition that
follows; no specification uses them. They document which mistake each property
catches.

### `Sequencer`: `Sequencer<T>::seq`

Pure operators: `Raw` is what goes on the wire, `Unroll` the unrolled number,
`InWindow` the numbers that the circular space can tell apart.

### `OrderedDelivery`: what an unreliable protocol promises

The abstract specification: the client gets the codec packet, then a
subsequence of the numbered packets, in order, each intact; a media packet only
while its own group's config packet is the latest; skipped packets are counted.

### `VideoUnreliable`

| code | model |
|---|---|
| `send()` 298-350: codec, config, media branches | `SendCodec`, `SendConfig`, `SendMedia`, `SendMediaFails` |
| the `select!` of `process()` and what follows it | `RecvCodec`, `RecvConfig`, `RecvDatagram`, `DeadlineReached`, `InputEnds`: each does the insertion, `next_packet`, the forwarding and the new deadline |
| `PendingGroups` (sorted `Vec`) | three sets `configs`, `media`, `segments` whose members carry their group |
| `Instant` | ages, counted up to `MaxBuffering`; the timer is the time it still has to run |
| datagrams | the set of all datagrams ever sent: any of them may be received at any time, any number of times, or never |
| `assert!` | `process = "panicked"` |

The payload is the number of the packet a message was made from; a reassembled
packet carries the set of the payloads it was put together from, so that mixing
two packets shows. The window assumption (`SenderInWindow`, `Unrolls`) says
that a datagram older than half the sequence space (2^31 packets) does not
arrive. `InputEnds` may happen at any time, which includes every end of the
input that the code knows. A failed write to the stream ends the sender without
a trace and is the same as sending nothing more.

### `AudioUnreliable`, `AudioUnreliableFec` and `Audio`

`AudioUnreliable` is like `VideoUnreliable`, with one pending group, the frame
size from the codec packet and hole packets. `ConfigsAt` says which packets are
config packets: the protocol relies on there being one, as the first numbered
packet (see the findings). `AudioUnreliableFec` has objects and symbols for
segments, limits, at which it ends (it retires nothing), and `Take`/`Drained`
for its inner loop; what the two files share word for word is taken from
`AudioUnreliable`. `Audio` chooses one of them, as `start_audio_protocol_*` do
by `AudioProtocol`, and states what both promise, the refinement of
`OrderedDelivery` included.

### `VideoUnreliableFec`

As `VideoUnreliable`, with symbols for segments: K distinct symbols may be
enough to decode a packet of K source symbols, and all source symbols are
(RaptorQ is external). The receiver's inner loop is a state of its own,
`draining`, in which `Take` takes one packet per step. `Boundary` and `Retire`
are `admit()`, which gives up obsolete media when the receiver holds too many
objects or reserves too much. The bytes reserved are counted in source symbols,
those of config packets are left out, and a packet is one source block. The
order in which symbols are sent (`send_source_first`) does not matter to a
network that reorders. Numbers do not wrap around.

### `VideoGopStream`

Streams are sequences of packets, each read independently. `AcceptUni`,
`ReadStreamIds` (one task per stream), `ReadPacket` (the reader of the followed
stream, and cancelled ones that were not stopped yet) share the bounded queue
`rx`, which `ClientRecv`, all of `recv()`, empties. The queue never closes
because the driver holds a sender itself, so the `Ok(None)` at line 408 is
unreachable and has no action.

### `Handshake` and `Endpoints`

`Handshake` is how the control stream comes about: `connect`, `accept`, and
`connect_with_auth`, `accept_with_auth` with the decision of the server. A token
is its length, of which `Serialized` gives what MessagePack makes of it.

`Endpoints` extends it with both peers' `lib.rs` (`register_*`, `connect_*`),
`control.rs` (`handle_msg`, `Registration`, `Ready`), the start of the protocol,
and as much of the router as decides whether a stream finds its endpoint.
`endpoints[p]` has an entry per call; the maps hold indices where the code holds
`oneshot` senders. Control messages go through the bounded `queue` of
`send_msgs()` and a stream with flow control, `wire`; `handle_msg()` that waits
for room to reply is `replying`. Calls may be cancelled and endpoints dropped at
every await; the connection may be lost, closed or dropped between any two
steps.

### `Router`

Three tasks as one parameterised by `Kinds`: `Lookup` (under the lock), then
`Deliver` or its failure (outside it). `DropReceivers` and `Unregister` are the
two steps in which a `KyChannel` goes away.

### `ClockSync`

The client (`Sync`, `RecvResponse`, `TimeoutReached`, `SyncAverage`), the
network and the server. `now` is the client's clock, the server's is
`now + Offset`. Division rounds towards zero as in Rust. Tokio's `timeout` polls
the future before the timer, so an answer may be taken at the deadline. Checks
of message length and endpoint id are left out.

### `KyCom`

`EndpointMap` and `register_channel`, the listener task, one task per connection
that reads the id, the queue, the task in `Server::accept`, the channel's
owner, and the clients. A holder that awaits the channel itself is a forwarder
whose endpoint is ready at once.

### `ByteStream` and `ReliablePipe`

`ByteStream` is one stream of kynet as `AsyncWrite` and `AsyncRead` show it. A
native end takes what it is given and ends the stream when it is dropped. An end
in a browser (`webtransport_js.rs`) hands a buffer to JavaScript, says at once
that it was written and learns from a promise, at the next poll, what became of
it; it reads ahead into a buffer of its own and never reports an end.

`ReliablePipe` puts on top of it the wrapper's `send()` (a biased `select!`), the
send task, the packet formats as units of header and payload, the receive task
and `recv()`. The format, `kind`, is chosen at the start together with the end
that is in a browser; formats differ in how they treat an end of stream inside a
packet and a packet that they cannot hold. The `flush()` after each packet is a
step of its own: it is where a browser's error of the last buffer comes back.

### `FecObject`

Operators only: `validate_oti()`, the division of an object into blocks and
symbols, the slices of `source_packets()`, `reservation()` and `check_pending()`,
with the widths of the code's integers. No run uses it: the theorems are for all
values at once, most of which TLC could not count up to.

## Runs

All runs are exhaustive. There is one run per component, of its specification
with fairness, which checks the safety and the liveness properties together,
and one run for each of three disagreements between code and documentation.
`CHECK_DEADLOCK FALSE` is set everywhere because every model may stop: clients
stop sending and the bounds are reached.

| run | what it shows | states |
|---|---|---|
| `video` | The protocol implements `OrderedDelivery` (order, contiguous groups, exact loss count, integrity); no drop before `MAX_BUFFERING`, a deadline that more packets never postpone, a gap that is passed once the timer is armed. Also checks the inductive invariant of the proof, which includes that no assertion fails | 238 000 |
| `video_next` | **violation**: a packet that is next and complete may stay in the receiver | |
| `audio` | Both audio protocols, with numbers that wrap around every four packets in one and limits that are reached in the other: they implement `OrderedDelivery`; holes and packets add up to every sample; nothing of a correct sender is rejected; the packet that is due is not held back with error correction; gaps are passed | 103 000 |
| `fec` | Implements `OrderedDelivery` although media is retired at the limits; what is held stays within them and nothing sent is rejected; every object is counted once in the statistics; the packet that is due is never held back (compare `video_next`); gaps are passed | 190 000 |
| `gopstream` | Media in order, a prefix of each GOP, with the codec and config in force, none repeated; every packet of the newest GOP is delivered | 103 000 |
| `endpoints` | After the handshake `Control` starts exactly behind it; protocols start only with their own partner and streams find their endpoint, also when ids are reused; the first registration of an id returns, and both ends start, though queues are full, calls are cancelled and the connection may close | 222 000 |
| `endpoints_wrap` | **violation**: a registration that reuses an id is never answered | |
| `router` | Items reach their own endpoint in order and without gaps while others come, fill up and go; what arrives is received while every endpoint is read | 381 000 |
| `router_task` | **violation**: dropping an endpoint can end the datagram task | |
| `clock` | A result measures its own request; its offset is right up to half its delay; so is the average; `sync()` returns although old answers keep coming | 700 000 |
| `kycom` | A channel that waits can be reached, a connection reaches one channel and one that has its id, none is forgotten, clients that sent their id are answered although another stalls, and no channel waits for a server that stopped accepting | 317 000 |
| `pipe` | For all four formats and with a browser at either end: cancelled calls lose no part of a packet; truncation is not an end; errors come back, before a third packet is accepted; what `send()` accepted arrives unless the stream or the task fails, and the end after it | 660 000 |

Liveness is stated as `[]<>(nobody waits)` where the models allow it: every wait
is bounded by steps that only the environment can renew, so "there comes a time
when nobody who should go on waits" is what a lasting hang would violate, and it
covers all endpoints, channels and packets with one formula. That an armed timer
is disarmed only when a packet is forwarded is an action property beside it
(`DeadlineNotPostponed`, and a part of `GapPassed` for audio).

### Bounds

* Video: four packets hold two groups with a media packet each, or a gap with
  packets on both sides and a late datagram; two segments per packet give
  partial packets; `MaxBuffering = 2` separates "some time" from "long enough";
  a client queue of one makes the receiver wait for the client. The numbers
  do not wrap around: the theorem `Refinement` covers every range.
* Audio: five packets pass a sequence range of four, without error correction.
  Its window is too small for a late datagram behind a gap, which is the case
  that four packets in a range of sixteen have with error correction. Holes are
  clamped at two samples, three objects and four symbols are the limits.
* Error correction: three packets, two of which fill the receiver, so that the
  third, media or a config packet, needs one of them retired; up to two source
  symbols and one repair symbol each give packets that are partial, decoded
  with a source symbol missing, and complete.
* Endpoints: with `IdRange = 2` a peer uses one id over and over; both peers
  register, two endpoints each; queue and stream hold one message, so that both
  tasks and both callers wait for room. The two lengths of tokens are the
  longest one that the server accepts and the next.
* Router: two endpoints, one that is dropped or full and one that suffers.
* GOP streams: three GOPs, so that the one followed, a newer and a newest one
  race; three media packets and two config generations; a queue of two, which
  can hold packets of two streams.
* Clock: three requests, so that an answer can be late by one and by two; ids
  do not wrap.
* kycom: three channels with two ids, so that ids wrap around and run out; two
  clients, perhaps of the same channel; a queue of one.
* Pipe: four packets fill the task, its queue and the call behind it and
  leave one more for the error to be returned to. Three formats between native
  peers, and a browser at either end with one format each: what differs in a
  browser is below the formats.

### Fairness

Tasks that can make progress are polled by the runtime (weak fairness of task
steps); streams are reliable while the connection lasts, and the promises of a
browser are settled; timers fire and time passes. Where several tasks can go on,
fairness is assumed of all of them together whenever that is enough because each
has a bounded number of steps to take (`Endpoints`, `Router`, `KyCom`), which is
less than the runtime guarantees. Where a task waits with others for room in a
`tokio::sync::mpsc` queue, the queue serves them in turn, which is strong
fairness of each (`VideoGopStream`); a `recv()` that its caller cancels and
repeats returns at last, which is strong fairness of returning
(`ReliablePipe`). Of the applications only this is assumed: receivers keep
calling `recv()` (video, audio, error correction, GOP stream, router, pipe) and
a holder of a kycom channel does something with it. Nothing is assumed of
datagrams, of applications that register, connect, get ready, cancel and drop,
of the clients of kycom (`Notified` names those that have connected and sent
nothing), or of the server of the clock.

## Proofs

TLAPS checks these for all values of the constants that satisfy the named
assumptions (positive capacities and timeouts, an even sequence range).

* `SequencerProofs!UnrollInWindow`: inside the window, `Unroll` returns exactly
  the number that was sent. From the two facts that the result is congruent to
  the raw value and that only one number of the window is.
* `OrderedDelivery!Safety`: the abstract specification delivers in order, keeps
  groups contiguous, counts losses exactly and delivers what was sent. The
  invariant adds that everything delivered is below `expected` and that only
  the codec packet has no group.
* `VideoUnreliableProofs`
  * `Invariance`: the inductive invariant `Inv`. None of the properties is
    inductive: that a packet is intact depends on what its datagrams carry
    (`DatagramInv`), on the numbers being unrolled to what was sent
    (`UnrollInWindow`) and on pending packets being filed under their own
    numbers (`PendingInv`); that no assertion fails depends on the stream only
    bringing groups later than those that have a config packet (`StreamAhead`)
    and on an abandoned packet never having a last segment.
  * `Refinement`: under `Inv` every step is a step of `OrderedDelivery` or
    leaves its variables unchanged. There is one lemma per action; those that
    take a packet share `TakeNextTaken`, which says what `next_packet()` may
    have taken.
  * `Delivery`: order, contiguity, loss count and integrity, carried over from
    `Safety` by `Refinement`.
  * `NoPanics` and `NoEarlyDrops`, from `Inv`.
* `ClockSyncProofs!Accuracy`: the offset is right up to half the delay, plus
  rounding. The invariant orders the times that travel: each was taken
  before the next, by the clock of its owner.
* `ClockSyncProofs!Freshness`: a result measures the request of its own call,
  if the ids have not wrapped (`MaxRequests <= IdRange`). The invariant `IdInv`
  says that what carries the id of the waiting request carries its time.

* `EndpointsProofs!ControlStreamIsFramed`: at either peer, what `recv_msgs()`
  reads first is a control message, and a client that has its `Connection` was
  accepted. `HandshakeFirst` itself says nothing of a peer that is still in the
  handshake; the invariant says what each direction of the stream holds in every
  phase (`Framed`), how far the peers can be apart (`InStep`), that the
  handshake's message is there before `Control` writes its own (`Greeted`), and
  that no task of `Control` runs before the handshake is done (`TasksRun`).
* `EndpointsProofs!DroppersUnregisterTheirOwn`: the assertion of
  `KyChannelDropper`. An endpoint keeps its channel or gets one with an id that
  the router did not know; no other action touches ids. `EndpointsTypes` has the
  type invariant, one lemma per action, that both theorems rest on.
* `KyComProofs!ChannelsAreReachable`, `ChannelsArePaired`, `ConnectionsAreKept`:
  for any number of ids, channels, clients and places in the queue. Reachability
  needs that what the map holds has the id it is under and has not received
  anything (`MapInv`) and that the search of `register_channel()` ends with a
  vacant id although it wraps around (`FirstVacantIsVacant`). That no two
  channels receive one connection needs that the queue holds it once
  (`QueuedOnce`) and, while it does, no channel has it (`Queued`, `Delivered`).
* `FecObjectProofs`, for every object whose parameters `validate_oti()` accepts:
  its blocks have all its symbols and no block too many (`BlocksDivideObject`),
  the slices of `source_packets()` are in range, follow one another and use up
  the block, as the assertion at its end says (`SlicesTileBlock`), and
  `check_pending()` admits the object when nothing else is pending
  (`VideoObjectsFit`, `AudioObjectsFit`). `VideoUnreliableFec` and
  `AudioUnreliableFec` rely on the last ones where they take limits that every
  single packet fits into.

The assumptions are the `ASSUME`s of the modules, which TLC evaluates in every
run; `FecObject` has none.

TLC only: all liveness properties and whatever needs `ENABLED`, which the
prover does not handle; `AverageAccurate` (its sums are not in the invariant)
and `DeadlineNotPostponed`; of `Endpoints`, that peers start together and that
streams are routed, which depend on the whole history of an id in both peers;
and the safety properties of `Router`, `VideoGopStream`, `Audio`,
`VideoUnreliableFec` and `ReliablePipe`.

## Findings

* `video_next`: `process()` takes one packet per event and disarms the timer;
  a second packet that became deliverable waits for the next event. The module
  documentation says it is sent immediately.
* `endpoints_wrap`: nothing removes an id from `pending_connect`, so after 2^15
  registrations of a peer `register_*` waits for ever. The README promises a reply.
* `router_task`: a datagram for an endpoint that is dropped between lookup
  and send ends the datagram task of the connection; the comment says that
  this is not a hard error.

Some more disagreements have no run of their own. A second audio config packet,
which the sender accepts, fails the assertion at `audio_unreliable.rs:516`; the
model has it for two members of `ConfigsAt` (`NothingRejected` fails). The comment of
`admit()` says that only a burst of fresh objects that alone exceeds the budget
is rejected; `retire_oldest_media()` looks at the object with the lowest number
only, so one fresh object with a low number keeps obsolete ones with higher
numbers from being retired, and the stream ends. The comment at
`video_gopstream.rs:81` says that the previous stream is reset when a new one is
opened, while `send()` finishes it, which keeps retransmitting. An audio config
packet that is not the first numbered packet overtakes audio packets sent before
it (`next_packet()` does not compare their numbers); the model has it for
`ConfigsAt = {1}`. `InputPacket::read()` reports an end of stream between two
packets as an error and one inside the size field as the end, which is why
`EndIsClean` leaves out input packets. `ClientAuth::new` accepts tokens of up to
1024 bytes; the server reads at most 1024 bytes of the serialised message, which
is up to four bytes longer, so that the longest tokens are never accepted.

Smaller observations: the documentation of `video_unreliable.rs` speaks of 20 ms
where the constant is 50 ms; the README describes endpoint ids as random `u64`
where the code counts in `u16`; "Ky channel closed" (`router.rs:371`) cannot be
returned, because the channel itself keeps the map with its sender alive, so a
receiver is not told that the connection is gone; a kycom channel that is
dropped before it is connected keeps its id, and when all ids are taken
`register_channel` panics with the mutex locked; after the kycom listener
fails, one client that neither sends nor closes delays the notification of all
channels; a wrapper that is dropped while its task has an error to report loses
the packet in the queue; a `register_*` call that waits for its ack when the
connection is lost waits until it is cancelled; the control queues of both peers
can block each other only when each peer has more concurrent registrations than
its queue and the window of the stream hold; a browser that reads a stream is
never told of its end, and dropping a browser's writer does not end the stream;
audio objects with symbols of one byte, which no sender makes, pass
`validate_oti()` and may not fit the limit in bytes.

## Not modelled

* The bytes of headers, control messages and RaptorQ parameters. Formats are
  modelled only where their reading and writing can be cut in two
  (`ReliablePipe`), wraps around (`Sequencer`), has a limit (`Handshake`) or is
  computed with (`FecObject`). RaptorQ is a library; `send_source_first` orders
  datagrams for a network that the models let reorder them anyway.
* The native kynet drivers, and of the browser's all but reading and writing
  streams: each operation is one call of a library, awaited, without state of
  its own. Certificates, statistics, the protocol constructors and the runtime
  abstraction: no behaviour of the protocols depends on them.
* The reliable drivers open or accept one stream before they run as
  `ReliablePipe`; kycom's forwarders are followed up to their start and their
  end, and the packets they pass on are those of `ReliablePipe`.
* `Endpoints` and `Router` are not composed: `Endpoints` has the part of the
  router that decides whether an id is known, `Router` the queues behind it, and
  their product is out of reach of an exhaustive check.
