# TLA+ verification of the media server

This directory holds TLA+ models of the media server in `src/`: an SFU (selective
forwarding unit) in Rust that relays WebRTC media between the endpoints of a
session, is driven by a gRPC signalling service, and can send the audio it relays
to transcription servers. TLC checks the models on small instances; TLAPS proves
their safety properties and both refinements for every instance. `PROJECT.json` is the
index of it all: components, runs, mutants, the map from definitions to source
lines, findings, hazards and theorems.

## 1. The system and its parts

| Part | Source | State | Operations |
|---|---|---|---|
| Registry | `vendor/sfu/src/server/states.rs`, `session/`, `endpoint/` | sessions, their endpoints, the endpoints' transports; candidates by user name; an index from four tuple to endpoint | accept offer, add endpoint, remove transport, look up by four tuple |
| Gateway | `handler/gateway.rs` | `next_timeout`, outbound queue | STUN binding request, RTP and RTCP forwarding, data channel open and message, idle sweep |
| DTLS, SRTP, SCTP, data channel handlers | `handler/*.rs` | outbound queues; contexts kept in the transports | decrypt and encrypt, handshake, alert, keep alive |
| Negotiation | `session/mod.rs`, `description/` | transceivers, mids, renegotiation flag of each endpoint | set remote description, create answer, create offer |
| Signalling service | `src/bin/sfu.rs` | one-slot channel per port, reply channels, stop channels, wait group | Offer, Leave, Enable/DisableTranscription, SubscribeTranscription, shutdown |
| Media worker | `src/signal/mod.rs` | one thread per port; owns a registry and a pipeline | stop check, signalling, socket read and write, timers, audio hand-over |
| Transcription control | `src/transcription/handler.rs`, `manager.rs` | extractor (enabled sessions, default session, SSRC map), command channel, decoders, sessions, round robin index | enable, disable, audio, start, stop |
| Distribution | `src/bin/sfu.rs`, `manager.rs` | subscriber queues, locks of the session map, the sessions and the subscribers | poll results, try_send, subscribe |
| Backends, decoder, resampler | `src/transcription/backends/`, `decoder.rs` | connection or worker thread, sample buffers, clock of the stream | connect, send audio, read lines, flush, request, drop |
| Interceptors | `vendor/sfu/src/interceptor/` | stream statistics | sender and receiver reports |

How they interact. A gRPC handler hashes the session id to a port and sends its
request over that port's one-slot channel; for an offer it blocks on a private
reply channel. The media worker of the port answers from its registry. After
that the client speaks to the worker's UDP socket alone: a binding request with
the user name of the candidate makes a transport, DTLS gives it keys, media is
forwarded to the other endpoints of the session, and further offers and answers
travel over a data channel. Audio is copied to the transcription worker through
an unbounded channel, which the RPC handlers use too. That worker decodes it and
hands it to the session's backend, whose own thread produces segments; a task of
the gRPC runtime polls all sessions every 100 ms and gives the segments to the
subscribers' queues.

What is hard here. A media worker is single threaded, so inside it the hazard is
the *order* in which packets of many clients, signalling messages and timeouts
arrive, together with two records of the same fact (nested maps and index;
transceivers, mids and flags). Between threads the hazards are blocking sends on
one-slot channels, workers that end or panic while somebody waits for them, a
stop channel whose single token must stop many workers, two channels that
carry the two halves of one request, and three kinds of locks that the
transcription worker may hold during a write to the network while the poller,
which serves all sessions, waits for them. The hazards are listed with their lines in
`PROJECT.json`.

## 2. The modules

### ServerStates (the registry and the handlers that change it)

One media thread owns a registry (`Rc<RefCell<..>>`), so each handler is one
step. The nested maps are kept flat: an *owner* is a pair of session and
endpoint id, a transport is known by owner and four tuple.

| Variable | Code |
|---|---|
| `sessions`, `sessionEndpoints`, `transports` | `ServerStates.sessions`, `Session.endpoints`, `Endpoint.transports` |
| `candidates` | `ServerStates.candidates` |
| `endpoints` | `ServerStates.endpoints`, the index by four tuple |
| `phase` | now minus (`next_timeout` minus `idle_timeout`) |
| `age` of a transport | now minus `last_activity` |

Actions: `accept_offer`, `accept_offer_fails`, `handle_stun_message`,
`handshake_complete`, `alert_fatal_or_close`, `handle_rtp_message`,
`handle_rtcp_message`, `handle_timeout`, and the clock `Tick`.
`remove_transport` on a set of four tuples stands for the loop of the sweep. Its
calls come in the order of a hash map, which matters for the index entries that
stay, so the last call for each emptied endpoint is chosen.

The constant `Rebind` is an assumption about the environment. If it is FALSE no
client sends a binding request from a socket on which another endpoint still has
a transport. If it is TRUE a newer endpoint can take over the index entry. The
older transport is then unreachable: packets on its socket are taken for the newer
endpoint's, and the sweep, which looks idle transports up by four tuple, removes
the newer one in its place, however busy it is. So `IndexIsExact`,
`ForwardingStaysInSession`, `IdleTransportsExpire` and `OnlyIdleOrClosedRemoved`
fail with `Rebind = TRUE`. What remains is `TakeoverIsConfined`: a transport is lost
to the index only in the step in which another endpoint connects on its four tuple,
and one that is neither idle nor closed by its peer is removed only with an idle one
on the same four tuple; and `SilentEndpointLeaves`, for endpoints whose sockets were
not taken over. The nesting of the maps, candidates and sessions do not depend on
`Rebind`; they and `TakeoverIsConfined` are proved for both values.

Some behaviours the model makes visible, about which the repository says nothing:
candidates never expire (`expired_time` is never read), a failed offer leaves an
empty session behind, the Leave RPC removes no endpoint, and index entries of the
other four tuples of a removed endpoint stay.

`Connections` is the abstract specification: one flat table of the connected
sockets, in which a socket connects, gets keys, carries media, is closed alone by
its peer, or goes with everything that is idle. The refinement mapping takes a
four tuple to what `get_mut_transport` finds for it. `ImplementsConnections` says
that the index with its stale entries and the nested maps behind it behave, for
every handler that looks up a four tuple, like that table.

### Negotiation (one session)

| Variable | Code |
|---|---|
| `live`, `ready` | endpoints of the session; those whose transport has an open data channel |
| `transceivers`, `mids` | `Endpoint.transceivers`, `Endpoint.mids` |
| `renegotiation_needed` | the flag `is_renegotiation_needed` |
| `joins`, `told`, `answer` | history: number of the connection, mids of the last offer to the endpoint, fate of its last offer |
| `sendonly`, `flaws` | history: own mids that an endpoint offered as sendonly; whether sections without a sender came and whether offers to peers were dropped |

Actions: `add_endpoint`, `remove_endpoint`, `handle_datachannel_open`,
`handle_datachannel_message` and `accept_offer_without_four_tuple` (an offer over
gRPC for a connected endpoint, which changes the transceivers before it fails).

Abstractions: an SDP is the set of its media sections. The vector `mids` is a
bag, in which two stands for two or more. A sender (cname, msid, SSRCs) is the
number of the connection it came with, 0 is None. Each endpoint has one
transport. `current_direction` is written and never read, and is left out.
Malformed SDP, sections without a direction attribute (the code passes over
them) and client mids that look like a mirror's name are not offered.

### Signaling (RPC handlers, workers, shutdown)

| Variable | Code |
|---|---|
| `call`, `result`, `reply` | where an RPC handler is, what it returned, its reply channel |
| `queue` | the one-slot signalling channel of a port |
| `worker` | the media thread: at the stop check, past it, stopped, failed, panicked |
| `tokens`, `senders` | the bounded(1) stop channel and the holders of its sender |
| `meter`, `metrics` | the metrics stop channel and thread |
| `main` | progress of `main` from serving to exit |
| `handled` | history: offers that a worker has processed |

Whether an offer gets an answer or an error is a choice here. The failures of a
worker are two: `send_to` (the loop returns the error and the thread calls
`done()`) and `panic` (`recv_from` fails, `done()` is never called).

### Transcription (enable, disable, audio)

One port with the SimulStreaming backend. `rpc` is what a handler still owes the
media worker, `inbox` the port's channel, `enabled`, `default_session` and
`ssrc_map` the extractor, `cmds` the channel to the transcription worker,
`decoders`, `sessions` and `next_server_index` the worker and the manager.
`interrupted` and `missed` are history for the properties: the keys whose session
was stopped or could not be started, and the turns of the round robin that left a
server without a session (the connection failed, the client brought a server of its
own, the session was stopped since), counted relative to the last server so that the
numbers stay small. A call of the manager is one step here; its locks are the
business of `Transcripts`.

### Backends, Transcripts and Feed (from audio to subscribers)

`Backends` has no variables. It describes one transcription session as a record
and the operators that change it: `decode` and `Fed` (the resampler's chunks),
`send_audio`, `read_results` and `read_ends` (the reader thread of SimulStreaming),
`worker_loop`, `flush` and `transcribe_chunk_sync` (the thread of the OpenAI
backend), `Dropped`. `Transcripts` keeps the sessions and says who calls what.

| Variable | Code |
|---|---|
| `objects` | every `TranscriptionSession` ever made, also while only its thread is left |
| `sessions` | the map of `TranscriptionManager` |
| `worker` | the transcription worker: idle, waiting for the write lock to insert or remove, or sending with a session's mutex held |
| `poller` | the polling task: asleep, with the read lock and some sessions to poll, between two results, or giving one to subscribers under their read lock |
| `subscribers`, `topic`, `queue` | the lists of senders, the state of each subscription, the channels |
| `log`, `packets` | history: results that `poll_results` returned; the number of packets, for the bound |

Actions: `start_session` and `insert`, `stop_session` and `remove`,
`process_audio` and `send_to_session` (each call is cut where it waits for a lock
or for the network), `openai_loop`, `openai_response`, `server_line`,
`server_closes`, `poll_results`, `poll_session`, `distribute`, `try_send`,
`subscribe_transcription`, `take`, `hang_up`. A step that fails without changing
anything (no connection, an undecodable packet, a line that is not a segment) is a
stutter and not written down.

Abstractions: audio is a number of samples. A packet on its way to a backend also
has its place in the decoded stream, which is history: the code sends the samples
alone, and the properties say that what arrives is in its place. Whether five seconds have passed since
the last request is a choice of each turn of the loop. Draining one session's
results with `try_recv` is one step: a segment that arrives meanwhile is in this
poll or the next. A write to SimulStreaming reaches the server as a whole or not at
all, though a timeout can cut it. Each key asks for one backend, and the server's
times are those of the audio it was sent. A dropped session whose thread has ended
is forgotten.

`Feed` is the abstract specification of distribution: results are added to a
feed, and each subscriber goes along it from where the distribution stood when it
came. It is offered the results of its session one by one and passes over those of
other sessions; a result is withheld only if the queue is full at that moment.
`ImplementsFeed` says that `Transcripts` does this, with the mapping that takes the
feed from `log` and the position of a subscriber (`Offered`) from what the poller
has left to do: the results not yet distributed are ahead of everybody, and the one
in the poller's hands is ahead of those who are still in its list.

Two behaviours the model makes visible, about which no comment decides: a session whose
connection broke stays in the map, and a new `start_session` for it returns Ok
without connecting (`auto_reconnect` is never read); and the thread of a stopped
OpenAI session works off its queued audio with requests whose results nobody can
receive.

### OutboundPipeline (how messages leave a media worker)

The pipeline that `build_pipeline` makes is, on the way out, a chain of
`poll_write` calls; five of its handlers have a queue of their own. `pc` says
whose `poll_write` is next, `out` is what the last one returned.

| Variable | Code |
|---|---|
| `transmits` | the `transmits` queue of the DTLS, SCTP, data channel, interceptor and gateway handlers |
| `phase` | what a transport has: nothing, a place in the registry, keys, an association |
| `pc`, `out` | the pull through the chain, and the run loop between two pulls |
| `queued`, `failed` | history: how many messages were queued since all queues were empty, which numbers them in their order; whether the last pull dropped one or held one back |

Actions: one for each handler's `poll_write` (together `write_socket_output`),
`read_socket_input` with one operator for each kind of datagram, and
`handle_timeout` through the handlers in their order. A message that cannot be
encrypted or written is dropped, and the handler returns None or the front of its
own queue; None ends the pull, whatever waits further in.

Abstractions: one transport for each endpoint and one association for each
transport; an association turns a message into one packet, at once or, with a
full window, later (a packet of a later read or timer); a handshake flight is one
record. Numbers of messages start again when all queues are empty. What a failing
`send_to` does is in `Signaling`.

### Proof modules, MC modules

Each component's theorems are in a module that extends it: `ServerStatesProofs`,
`ServerStatesRefinement` (the refinement of `Connections`), `SignalingProofs`,
`NegotiationProofs`, `TranscriptionProofs`, `OutboundPipelineProofs`,
`TranscriptsProofs` and `TranscriptsRefinement` (the refinement of `Feed`). The
inductive invariants (`IInv`, and `AInv` and `RInv` for the transcripts) are
defined at their beginning; a component's module holds what the code does and the
properties that the runs check. `MCServerStates`,
`MCNegotiation`, `MCOutboundPipeline`, `MCSignaling`, `MCTranscription` and
`MCTranscripts` add symmetry sets, the roles of endpoints, and the assignment of
calls to ports and of keys to backends for TLC.

Definitions with a comment that begins "Mistake" are not part of any
specification: they are the plausible errors used as mutants, each of which makes
TLC find the property violated that `PROJECT.json` names with it.

## 3. Runs

| Run | Checks | Bounds |
|---|---|---|
| `registry` | types, nesting, index, forwarding, expiry, and what may disappear in a step; refinement of `Connections` | 2 sessions, 2 endpoint ids, 3 four tuples, 3 user names, timeout 2, delay 1 |
| `registry_live` | with sockets taken over (`Rebind = TRUE`): what a takeover can do; a silent endpoint leaves | 1 session, 2 endpoints, 2 four tuples, 2 user names, timeout 1, delay 1 |
| `negotiation` | tracks reach all peers and are offered; offers fail only for want of a sender | 3 endpoints, one mid each: one offers all four directions with and without a sender, one publishes and joins twice, one listens |
| `outbound` | order kept, queues drained unless a message failed, nothing left behind for ever | 3 peers, 3 messages between two states with empty queues |
| `signaling` | nobody waits for nobody; processed offers are answered; calls return; Ctrl-C ends the process unless a worker panicked or all failed | an offer with transcription and a leave on one port, a subscription, 3 ports, 2 executor threads, both failures |
| `transcription` | audio follows its start; the servers get their turns evenly | 2 clients, sessions 0 and 1, 2 servers, 2 commands in flight |
| `transcripts` | order of transcripts, samples, polled sessions; refinement of `Feed` | a session of each backend, 2 sessions ever, 2 packets of 480 or 1440 samples, 2 subscribers with queues of 1 |
| `transcripts_live` | results, audio, commands and threads get on | the same with packets of 1440 and one subscriber |
| `negotiation_lost_answer`, `negotiation_twice`, `shutdown_dead_workers`, `transcription_disable` | violations, see section 5 | as small as the violation allows |

Why the bounds suffice for the cases of interest. Three four tuples and two
endpoints in two sessions give an endpoint with two transports, one of them idle,
while another endpoint of the same or of another session comes and goes; three
user names let an endpoint hold two candidates while another one connects. Two
four tuples and two endpoints are a socket that is taken over, while the other
socket of the old or of the new endpoint must not be touched. A
timeout of 2 and a delay of 1 put a transport's last packet before, at and after
a sweep. Three endpoints give a publisher, a peer that is ready and one whose
data channel is not open yet, or an offer that can be made next to one that
cannot; a second join of the publisher meets the mirrors of the first. Three messages are an acknowledgement, an offer and the
association's packet, an answer with an offer behind it and a packet, or one
media packet for two peers, of which one is removed before the pull, and a
retransmission. An offer, the enable it sends afterwards and
a leave compete for one slot and two threads. Three ports need one worker stopped
by each token and one by the disconnect. Two clients interleave the two halves of enable and
disable; two commands in flight let audio stand before or behind a start or a
stop. Packets of 480 and 1440 samples end at, below and beyond the resampler's 960
and fill one chunk or two; 320 and 640 for the sizes of a periodic and an immediate
request (1600 and 80000 in the code) put one packet below, at and above them. Two
sessions are one of each backend, or the same endpoint's before and after a stop;
a queue of 1 (100 in the code) is empty, or full.

`MaxJoins` bounds how often an endpoint id is used and `MaxCmds` the commands in
flight, `MaxMsgs` the messages queued since all queues were empty (a read or timer
that would queue more does not happen), `MaxSessions` and `MaxPackets` the sessions
and audio packets of a behaviour; `AgeCap` joins all ages that the code does not tell apart. Deadlock is
not checked where the system may stop: `Signaling` (the process exits) and
`Negotiation` (all joins used up). In `ServerStates`, `OutboundPipeline`,
`Transcription` and `Transcripts` it is.

Fairness. `ServerStates`: the clock runs, and the event loop runs a due sweep,
because its poll deadline is computed from `next_timeout`; clients owe nothing.
`OutboundPipeline`: the loop goes on (`WF(Next)`), because a read ends after 100 ms
at the latest; no datagram has to come.
`Signaling`: threads are scheduled (worker loops, started handlers, main, metrics
thread); no call has to be made, no failure to happen, nobody has to press
Ctrl-C. `PoliteSpec` adds that subscribers hang up: `serve_with_shutdown` waits
for open streams and the server never ends one. Without that fairness
`ShutdownNeedsAWorker` fails.
`Transcripts`: writes and requests end, at the latest with their timeouts; the
threads of the OpenAI backend loop; time passes; a server closes a connection that
its client has closed. The writer of the session map, and the poller at a session,
get a lock that is free again and again (strong fairness), because both wait in
line for it at the operating system or between sleeps of 100 ms. Servers need not
answer, clients need not send, subscribe, read or hang up.

## 4. Proofs

The theorems hold for every value of the constants that satisfies the named
assumptions of the components' modules, which say what the constants are (a
positive number, a function between two sets) and nothing about the size of the
sets. The exception is `PipelineAssumption`, in which `Peers` is finite: the
gateway makes a sequence of the peers of a session, a hash map in the code. In
`TranscriptsAssumption`, "none" and "closed" are no session ids: they stand for the
states of a subscription, which the code does not keep in the same place.

| Module | Theorem | States |
|---|---|---|
| `ServerStatesProofs` | `TypeCorrect`, `Invariance` | the types; the inductive invariant |
| | `Connected` | no endpoint outlives its last transport; no transport is outside an endpoint |
| | `IndexExact` | without rebinding, the index leads from every transport to its endpoint |
| | `ForwardingConfined` | without rebinding, media is sent under keys of other endpoints of the sender's session |
| | `AgesBounded`, `IdleExpire` | without rebinding, ages follow the time since the last sweep, and a transport without media is gone in two timeouts and the delay |
| | `SessionKept`, `CandidateKept` | what may take a session or a candidate away |
| | `OnlyIdleOrClosed` | without rebinding, a transport goes only when it was idle, or alone by its peer's alert |
| | `TakeoverConfined` | with and without rebinding, what a takeover does stays on its four tuple |
| `ServerStatesRefinement` | `Refinement` | without rebinding, the registry implements `Connections` |
| `SignalingProofs` | `TypeCorrect`, `Invariance` | the types; the inductive invariant |
| | `NobodyWaitsForNobody` | a handler that waits for a reply waits for a worker that is there and has its request |
| | `HandledAnswered` | exactly the offers that a worker processed return the worker's reply |
| `NegotiationProofs` | `TypeCorrect`, `Invariance` | the types; the inductive invariant |
| | `Mirroring` | a track offered as sendonly has a transceiver with its sender at every ready peer |
| | `Telling` | each ready peer was offered it or is flagged, unless an error dropped offers |
| | `OffersMade` | offers fail only for want of a sender |
| `TranscriptionProofs` | `TypeCorrect`, `Invariance` | the types; the inductive invariant |
| | `AudioAfterStart` | audio never reaches the manager ahead of its session |
| | `Balance` | in every history, loads and lost turns of two servers differ by one at most |
| `OutboundPipelineProofs` | `TypeCorrect`, `Invariance` | the types; the inductive invariant |
| | `OrderKept` | what reaches the socket overtakes nothing queued before it in the same handler or further out |
| | `Drained` | after a pull without errors all queues are empty |
| `TranscriptsProofs` | `TypeCorrect`, `Invariance` | the types; the inductive invariant |
| | `TranscriptOrdered` | the transcript of an endpoint is in order |
| | `PolledStay` | a session that a poll has yet to look at is in the map and open |
| | `AudioAccounted` | every sample that an OpenAI session was given is before its clock, in its buffer or in its place in the channel; a SimulStreaming server has no more than it was given |
| `TranscriptsRefinement` | `FeedImplemented` | distribution implements `Feed` |

None of the safety properties is inductive alone. What each needs:

*ServerStates.* A sweep removes transports *through the index*, so that every
idle transport goes is true only if the index is exact; the index stays exact only
because `remove_transport` drops an entry when the endpoint loses its last
transport, which relies on the nesting of the maps; and the bound on ages at a
sweep needs the bound between sweeps, `AgesFollowPhase`: after a sweep all ages
are below `IdleTimeout`, and from then on ages and `phase` grow together. `IInv`
is the conjunction of types, nesting and, without rebinding, exact index and
`AgesFollowPhase`. `GrowsOrRemoves` says that every step either keeps all
transports, candidates and sessions or is a `remove_transport`; three of the action
properties follow from it and the invariant. `TakeoverIsConfined` cannot use the
exact index. A removal takes the transport that the index finds under a given four
tuple, whichever that is (`RemovedThroughIndex`), and only `add_endpoint` points an
entry elsewhere while there is a transport for it (`LeavesIndexByTakeover`).

*The refinement of Connections.* The table maps a four tuple to what the index
finds. A lemma for each handler gives the table after its step: a binding
request adds a row or changes nothing, a removal takes away exactly the rows of
its four tuples (this is where the exact index is needed: a stale entry of a
removed endpoint must not lead to somebody else's transport), and the sweep
removes exactly the rows that are old.

*Signaling.* That a waiting handler's request is in its port's slot is kept by
the handlers that give up or return only if every slot in use belongs to a
handler that waits (`SlotIsWaitedFor`), and that a processed offer is answered
needs to know which replies can be in a channel (`RepliesFollowCalls`). `TypeOK`
follows from the same invariant and not by itself: a handler returns what is in
its reply channel, which is a result only because the worker has put one there.

*Negotiation.* A mirror is made when a track is offered or when a data channel
opens, and is not touched by later offers of the publisher; this needs that the
publisher's own transceiver stays what it was (`PublishedIsReceived`), that a
mirror of a first connection has its track at the publisher
(`MirrorsHaveSource`), that an absent endpoint has nothing left
(`AbsentHaveNothing`), and for the offers that transceivers without a sender come
only from sections without one (`SendersAreKnown`).

*Transcription.* Whoever may yet direct audio to a key (a note on its way, the
default session, an SSRC already mapped) does so after its start
(`NotedIsStarted`); a stop in the channel was counted (`StopsInterrupt`). The
balance follows from its exact form, `RoundRobin`: the servers before the index have
had one turn more than the others, a turn being a session they carry or one that
`missed` counts. A start moves the index and adds one turn, whatever comes of it; a
stop turns a session into a missed one.

*OutboundPipeline.* Each queue is in the order of its messages' numbers
(`QueuesInOrder`), what waits behind it may follow the message on its way
(`OutInOrder`), the handlers that the pull has passed without a message are empty
(`PassedAreEmpty`). Messages of one step are numbered as the handlers queue them.

*Transcripts.* The order of a transcript needs that only the last session of a
key is open (`OnlyLastIsOpen`), which needs that an open session is in the map or
about to be inserted (`OpenAreKept`), so that `start_session` finds it; that
results, request and clock of a session are in order (`Orderly`); and that what
was handed out is over for its session (`HandedOutIsOver`). A lemma for each
operator of `Backends` says that it takes an orderly session to an orderly one
for which everything stays over that was (`Evolves`), and the threads' steps
follow from these lemmas alone. `PolledStay` rests on the write lock.

*The accounting of audio.* `AudioIsAccounted` compares samples with milliseconds,
and the code divides: `duration_ms` loses what is no whole millisecond. `AInv`
says why nothing is lost (`Exact`): only whole chunks of 960 samples leave the
resampler, each of which is 20 ms, so every packet, and the buffer, is a multiple
of 16 samples at 16 kHz. A lemma for each operator of `Backends` shows that an
accounted session stays accounted (`Accounted`). For the worker, which decodes in
one step and sends in another, the invariant says that what it has in its hands
is the end of what was decoded for a session that is still open (`HandHasLast`);
it can therefore append it to the channel in its place, and `remove`, which the
same worker does, never drops a session for which it has samples. No sum over the
channel is needed, since each packet carries its place and begins where the one
before it ends.

*The refinement of Feed.* `RInv` has three parts: the list of a session holds
each subscriber that came for it exactly once, those that hung up included
(`SubscribersAreListed`); those who are still to be given a result came for its
session (`GivenToItsOwn`); and what is not distributed yet is the end of the log
(`BatchEndsLog`). A poll adds results at the end of the feed. `distribute` takes
the list of a session at once, so all others pass the result in that step and
those of the session stay behind it; each `try_send` then moves one subscriber on,
and since nobody is listed twice, by one result. A subscriber that hung up is
not on the feed any more, so a `try_send` to it is a stutter; one that comes
waits, by the lock of the lists, until nobody is being given a result, and so is
at the place where the distribution stands.

TLC checked every `IInv`, `AInv` and `RInv` as an invariant before it was proved;
the runs check the named properties in it.

Only model-checked: the liveness properties, which are outside the prover's reach.
The four violations are counterexamples, which TLC finds.

## 5. Where the code and its comments part

Each finding is a run that TLC ends with a counterexample.

* `negotiation_lost_answer`: the answer to an accepted offer is dropped when the
  offer to some other endpoint cannot be created.
* `negotiation_twice`: a track published between a peer's connection and the
  opening of its data channel is listed twice in the offer to that peer.
* `shutdown_dead_workers`: when every worker has ended on a send error, the second
  stop signal blocks for ever.
* `transcription_disable`: after a disable the media worker still maps and
  forwards the session's audio.

Three more observations, of which the repository says nothing. Stated for tracks
offered as sendrecv, `PublishedIsMirrored` would fail, because only sendonly
sections are given to the endpoints already there. Stated for an endpoint that
returns, it would fail because mirrors stay when their publisher leaves, and when
it comes back and offers the same mid, its peers keep the sender of the first
connection. And `ShutdownNeedsAWorker` fails under `FairSpec`, when a subscriber
stays.

## 6. Not modelled, and why

Cryptography, STUN, DTLS, SCTP and RTP formats and SDP text are library code or
formatting; codec tables, certificates and configuration are data. The Kubernetes
and Helm files and the scripts that set up a transcription server hold no logic of
this program.
Signal processing in the decoder, the WAV header and the text of transcripts are
data. The asynchronous backends (`OpenAiBackend`, `AsyncSimulStreamingClient`) and
the resampler's `flush` and `reset` have no caller in the server. `extract_audio` has no caller on the path
of the run loop and is left out. So are the receiver reports: nothing adds a stream
to `ReceiverReport.streams`, which makes `ReceiverStream` unreachable.

## 7. State and possible extensions

Every invariant, every action property that is a matter of safety and both
refinements that the runs check are theorems; liveness stays with TLC. What could
follow, along with the code: the exact index without an assumption on sockets, once
`handle_stun_message` deals with a socket that is taken over; expiry of candidates
and of closed subscribers, once the code has it; and the asynchronous backends,
once the server calls them.
