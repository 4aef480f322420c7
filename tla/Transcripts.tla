---------------------------- MODULE Transcripts -----------------------------
(***************************************************************************)
(* From audio to subscribers: the transcription worker's calls of the      *)
(* manager (src/transcription/manager.rs), the threads of the sessions'    *)
(* backends (module Backends), the task that polls the manager every       *)
(* 100 ms and distributes the results, and the subscriptions (both in      *)
(* src/bin/sfu.rs).                                                        *)
(*                                                                         *)
(* Three locks order them: the RwLock of the session map, the Mutex of     *)
(* each session, which the worker keeps while it decodes and writes, and   *)
(* the RwLock of the subscribers.  Which commands the worker gets is the   *)
(* business of module Transcription; here they come in any order.          *)
(***************************************************************************)
EXTENDS Backends, FiniteSets, SequencesExt

CONSTANTS
    KindOf,      \* Keys -> the backend its requests ask for
    Subs,        \* subscribers, each of which subscribes at most once
    TopicOf,     \* Subs -> the session that it subscribes to
    Capacity,    \* of a subscriber's queue, 100 in the code
    MaxSessions, \* bound: sessions ever created
    MaxPackets   \* bound: audio packets ever processed

SessionIds == {k[1] : k \in Keys}
Objects == 1 .. MaxSessions

ASSUME TranscriptsAssumption ==
    /\ KindOf \in [Keys -> {"simul", "openai"}]
    /\ TopicOf \in [Subs -> SessionIds]
    /\ {"none", "closed"} \cap SessionIds = {}
    /\ Capacity \in Nat \ {0}
    /\ MaxSessions \in Nat \ {0}
    /\ MaxPackets \in Nat

VARIABLES
    objects,      \* sessions ever created, in use or not
    sessions,     \* manager: key -> object
    worker,       \* the transcription worker thread
    poller,       \* the polling task
    subscribers,  \* session id -> the subscribers in the order they came
    topic,        \* Subs -> session subscribed to, or "none" or "closed"
    queue,        \* Subs -> results in its channel
    log,          \* history: the results that poll_results returned
    packets       \* number of audio packets, for the bound

manager == <<objects, sessions>>
subscriptions == <<subscribers, topic, queue>>
vars == <<manager, worker, poller, subscriptions, log, packets>>

(* The worker is idle, waits to insert a session or to remove one, or      *)
(* sends pcm to a session, whose mutex it holds.                           *)
Idle == [pc |-> "idle"]

TypeOK ==
    /\ objects \in Seq(SessionObject) /\ Len(objects) <= MaxSessions
    /\ \A i \in DOMAIN objects : Len(objects[i].request) <= 1
    /\ DOMAIN sessions \subseteq Keys
    /\ \A k \in DOMAIN sessions : sessions[k] \in DOMAIN objects
    /\ worker.pc \in {"idle", "insert", "remove", "send"}
    /\ worker.pc \in {"insert", "remove"} => worker.key \in Keys
    /\ worker.pc = "send" => worker.object \in DOMAIN objects /\ worker.pcm \in Packet
    /\ poller \in [pc : {"sleep", "poll", "hand", "give"}, todo : SUBSET Keys,
                   batch : Seq(Segment), to : Seq(Subs)]
    /\ subscribers \in [SessionIds -> Seq(Subs)]
    /\ topic \in [Subs -> SessionIds \cup {"none", "closed"}]
    /\ queue \in [Subs -> Seq(Segment)] /\ \A s \in Subs : Len(queue[s]) <= Capacity
    /\ log \in Seq(Segment)
    /\ packets \in 0 .. MaxPackets

Init ==
    /\ objects = <<>>
    /\ sessions = [k \in {} |-> 0]
    /\ worker = Idle
    /\ poller = [pc |-> "sleep", todo |-> {}, batch |-> <<>>, to |-> <<>>]
    /\ subscribers = [t \in SessionIds |-> <<>>]
    /\ topic = [s \in Subs |-> "none"]
    /\ queue = [s \in Subs |-> <<>>]
    /\ log = <<>>
    /\ packets = 0

-----------------------------------------------------------------------------
(* The transcription worker.  It is the only writer of the session map.    *)

(* start_session: nothing for a key that has a session, even a broken one. *)
(* TranscriptionSession::new makes the session outside the lock, and its   *)
(* thread runs from here on.  A connection that fails changes nothing.     *)
start_session(k) ==
    /\ worker.pc = "idle"
    /\ k \notin DOMAIN sessions
    /\ Len(objects) < MaxSessions
    /\ objects' = Append(objects, Session(k, KindOf[k], Len(objects) + 1))
    /\ worker' = [pc |-> "insert", key |-> k]
    /\ UNCHANGED <<sessions, poller, subscriptions, log, packets>>

(* sessions.write(): the poller is not reading the map. *)
WriteLock == poller.pc # "poll"

insert ==
    /\ worker.pc = "insert"
    /\ WriteLock
    /\ sessions' = [k \in DOMAIN sessions \cup {worker.key} |->
                      IF k = worker.key THEN Len(objects) ELSE sessions[k]]
    /\ worker' = Idle
    /\ UNCHANGED <<objects, poller, subscriptions, log, packets>>

stop_session(k) ==
    /\ worker.pc = "idle"
    /\ worker' = [pc |-> "remove", key |-> k]
    /\ UNCHANGED <<manager, poller, subscriptions, log, packets>>

(* Mistake: the map is not locked. *)
remove_unlocked ==
    /\ worker.pc = "remove"
    /\ objects' = [i \in DOMAIN objects |->
                     IF worker.key \in DOMAIN sessions /\ i = sessions[worker.key]
                     THEN Dropped(objects[i]) ELSE objects[i]]
    /\ sessions' = [k \in DOMAIN sessions \ {worker.key} |-> sessions[k]]
    /\ worker' = Idle
    /\ UNCHANGED <<poller, subscriptions, log, packets>>

(* The session, if there is one, is dropped under the write lock.          *)
remove ==
    /\ worker.pc = "remove"
    /\ WriteLock
    /\ objects' = [i \in DOMAIN objects |->
                     IF worker.key \in DOMAIN sessions /\ i = sessions[worker.key]
                     THEN Dropped(objects[i]) ELSE objects[i]]
    /\ sessions' = [k \in DOMAIN sessions \ {worker.key} |-> sessions[k]]
    /\ worker' = Idle
    /\ UNCHANGED <<poller, subscriptions, log, packets>>

(* process_audio: the session is looked up under the read lock; if there   *)
(* is none the audio is ignored.  Its mutex is taken, the packet decoded.  *)
process_audio(k, frame) ==
    /\ worker.pc = "idle"
    /\ k \in DOMAIN sessions
    /\ packets < MaxPackets
    /\ packets' = packets + 1
    /\ LET s == objects[sessions[k]] IN
       /\ objects' = [objects EXCEPT ![sessions[k]] = Fed(s, frame)]
       /\ worker' = [pc |-> "send", object |-> sessions[k],
                     pcm |-> [at |-> Decoded(s), samples |-> decode(s, frame).pcm]]
    /\ UNCHANGED <<sessions, poller, subscriptions, log>>

(* backend.send_audio, which for SimulStreaming may take five seconds, and *)
(* the end of the lock.  An error is only logged.                          *)
send_to_session ==
    /\ worker.pc = "send"
    /\ \E s \in send_audio(objects[worker.object], worker.pcm) :
          objects' = [objects EXCEPT ![worker.object] = s]
    /\ worker' = Idle
    /\ UNCHANGED <<sessions, poller, subscriptions, log, packets>>

-----------------------------------------------------------------------------
(* The threads of the backends, and their servers. *)

Becomes(i, s) ==
    /\ s # objects[i]
    /\ objects' = [objects EXCEPT ![i] = s]
    /\ UNCHANGED <<sessions, worker, poller, subscriptions, log, packets>>

(* The server has something to say about the audio it was sent. *)
server_line(i) ==
    /\ objects[i].kind = "simul" /\ objects[i].thread = "loop"
    /\ objects[i].buffer > 0
    /\ Becomes(i, read_results(objects[i]))

(* The server closes the connection: by itself, or because the client did. *)
server_closes(i) ==
    /\ objects[i].kind = "simul" /\ objects[i].thread = "loop"
    /\ Becomes(i, read_ends(objects[i]))

openai_loop(i, elapsed) ==
    /\ objects[i].kind = "openai" /\ objects[i].thread = "loop"
    /\ Becomes(i, worker_loop(objects[i], elapsed))

openai_response(i) ==
    /\ objects[i].thread = "request"
    /\ \E s \in transcribe_chunk_sync(objects[i]) : Becomes(i, s)

-----------------------------------------------------------------------------
(* poll_and_distribute_transcriptions *)

(* poll_results takes the read lock of the map. *)
poll_results ==
    /\ poller.pc = "sleep"
    /\ DOMAIN sessions # {}
    /\ poller' = [poller EXCEPT !.pc = "poll", !.todo = DOMAIN sessions]
    /\ UNCHANGED <<manager, worker, subscriptions, log, packets>>

(* With the last session the lock is released and, if there are results,   *)
(* their distribution begins.                                              *)
Polled(k, results) ==
    LET batch == poller.batch \o results
        last == poller.todo = {k}
    IN /\ poller' = [poller EXCEPT !.todo = @ \ {k}, !.batch = batch,
                        !.pc = IF ~last THEN "poll" ELSE IF batch = <<>> THEN "sleep" ELSE "hand"]
       /\ log' = IF last THEN log \o batch ELSE log

(* One session of the map, in the order of a hash map: its mutex, and      *)
(* try_recv until nothing is left.                                         *)
poll_session(k) ==
    /\ poller.pc = "poll" /\ k \in poller.todo
    /\ ~(worker.pc = "send" /\ worker.object = sessions[k])
    /\ Polled(k, objects[sessions[k]].results)
    /\ objects' = [objects EXCEPT ![sessions[k]].results = <<>>]
    /\ UNCHANGED <<sessions, worker, subscriptions, packets>>

(* subscribers.read() for the next result.  A result without subscribers   *)
(* is done with, as is one that the last of them was sent.                 *)
Distributed(to) ==
    IF to # <<>>
    THEN poller' = [poller EXCEPT !.pc = "give", !.to = to]
    ELSE poller' = [poller EXCEPT !.pc = IF Len(poller.batch) = 1 THEN "sleep" ELSE "hand",
                                  !.to = <<>>, !.batch = Tail(@)]

distribute ==
    /\ poller.pc = "hand"
    /\ Distributed(subscribers[Head(poller.batch).key[1]])
    /\ UNCHANGED <<manager, worker, subscriptions, log, packets>>

(* Mistake: a full queue drops its oldest result. *)
try_send_drops_oldest ==
    /\ poller.pc = "give"
    /\ LET s == Head(poller.to) IN
       queue' = IF topic[s] = "closed" THEN queue
                ELSE [queue EXCEPT ![s] = Append(IF Len(@) = Capacity THEN Tail(@) ELSE @,
                                                 Head(poller.batch))]
    /\ Distributed(Tail(poller.to))
    /\ UNCHANGED <<manager, worker, subscribers, topic, log, packets>>

(* Mistake: send in place of try_send waits for room. *)
try_send_waits ==
    /\ poller.pc = "give"
    /\ LET s == Head(poller.to) IN
       /\ topic[s] = "closed" \/ Len(queue[s]) < Capacity
       /\ queue' = IF topic[s] = "closed" THEN queue
                   ELSE [queue EXCEPT ![s] = Append(@, Head(poller.batch))]
    /\ Distributed(Tail(poller.to))
    /\ UNCHANGED <<manager, worker, subscribers, topic, log, packets>>

(* sender.try_send: a full queue and a closed one refuse, the error is     *)
(* ignored.                                                                *)
try_send ==
    /\ poller.pc = "give"
    /\ LET s == Head(poller.to) IN
       queue' = IF topic[s] = "closed" \/ Len(queue[s]) = Capacity THEN queue
                ELSE [queue EXCEPT ![s] = Append(@, Head(poller.batch))]
    /\ Distributed(Tail(poller.to))
    /\ UNCHANGED <<manager, worker, subscribers, topic, log, packets>>

-----------------------------------------------------------------------------
(* The subscriptions. *)

(* subscribers.write() waits for the poller to finish with a result.       *)
subscribe_transcription(s) ==
    /\ topic[s] = "none"
    /\ poller.pc # "give"
    /\ subscribers' = [subscribers EXCEPT ![TopicOf[s]] = Append(@, s)]
    /\ topic' = [topic EXCEPT ![s] = TopicOf[s]]
    /\ UNCHANGED <<manager, worker, poller, queue, log, packets>>

(* The client reads its stream. *)
take(s) ==
    /\ queue[s] # <<>>
    /\ queue' = [queue EXCEPT ![s] = Tail(@)]
    /\ UNCHANGED <<manager, worker, poller, subscribers, topic, log, packets>>

(* The client goes; its sender stays in the list. *)
hang_up(s) ==
    /\ topic[s] \in SessionIds
    /\ topic' = [topic EXCEPT ![s] = "closed"]
    /\ queue' = [queue EXCEPT ![s] = <<>>]
    /\ UNCHANGED <<manager, worker, poller, subscribers, log, packets>>

-----------------------------------------------------------------------------
Command ==
    \E k \in Keys :
        \/ start_session(k)
        \/ stop_session(k)
        \/ \E frame \in FrameSizes : process_audio(k, frame)

Writing == insert \/ remove
Polling == poll_results \/ distribute \/ try_send
Backend(i) == openai_loop(i, TRUE) \/ openai_loop(i, FALSE) \/ openai_response(i)

Next ==
    \/ Command \/ send_to_session \/ Writing
    \/ Polling \/ \E k \in Keys : poll_session(k)
    \/ \E i \in DOMAIN objects : Backend(i) \/ server_line(i) \/ server_closes(i)
    \/ \E s \in Subs : subscribe_transcription(s) \/ take(s) \/ hang_up(s)

Spec == Init /\ [][Next]_vars

(* Threads and tasks are scheduled: connections, writes and requests end,  *)
(* at the latest with their timeouts (10, 5 and 30 seconds).  The writer   *)
(* of the map and the poller at a session compete for locks that are free  *)
(* again and again, and get them in the end.  Time passes, and a server    *)
(* closes a connection that its client has closed; it need not say         *)
(* anything, and nobody need subscribe, read or hang up.                   *)
FairSpec ==
    /\ Spec
    /\ WF_vars(send_to_session) /\ SF_vars(Writing)
    /\ WF_vars(Polling) /\ \A k \in Keys : SF_vars(poll_session(k))
    /\ \A i \in Objects :
          /\ WF_vars(i \in DOMAIN objects /\ Backend(i))
          /\ WF_vars(i \in DOMAIN objects /\ ~objects[i].open /\ server_closes(i))

-----------------------------------------------------------------------------
(* The results that have left their sessions, in the order in which they   *)
(* get to the distribution.                                                *)
HandedOut == log \o (IF poller.pc = "poll" THEN poller.batch ELSE <<>>)

(* One result may come before another: it is of another endpoint, of an    *)
(* earlier session of the endpoint, or of an earlier time of the session.  *)
Precedes(p, q) ==
    p.key = q.key => \/ p.of < q.of
                     \/ p.of = q.of /\ p.end_ms <= q.start_ms

InSequence(results) ==
    \A j \in DOMAIN results : \A i \in 1 .. j - 1 : Precedes(results[i], results[j])

AllPrecede(earlier, later) ==
    \A i \in DOMAIN earlier, j \in DOMAIN later : Precedes(earlier[i], later[j])

(* The transcript of an endpoint is in order: nothing of a session comes   *)
(* after something of a later session of the same endpoint, and within a   *)
(* session no segment overlaps or precedes an earlier one, although        *)
(* requests fail, sessions are stopped with requests under way and polls   *)
(* go through the sessions in any order.  What waits in a session comes    *)
(* after what was handed out.                                              *)
TranscriptInOrder ==
    /\ InSequence(HandedOut)
    /\ \A i \in DOMAIN objects :
          /\ InSequence(objects[i].results)
          /\ AllPrecede(HandedOut, objects[i].results)
          /\ \A j \in DOMAIN objects : i < j => AllPrecede(objects[i].results, objects[j].results)

(* What the worker has in its hands for a session. *)
InHand(i) == IF worker.pc = "send" /\ worker.object = i THEN worker.pcm.samples ELSE 0

(* The samples that a backend has gone through, or has in its buffer. *)
Taken(s) == s.buffer + (s.stream_time_ms * SAMPLE_RATE) \div 1000

(* Packets that lead from one place in the stream to another. *)
Leads(from, audio, to) ==
    /\ \A j \in DOMAIN audio :
          audio[j].at = IF j = 1 THEN from ELSE audio[j - 1].at + audio[j - 1].samples
    /\ to = IF audio = <<>> THEN from ELSE Last(audio).at + Last(audio).samples

(* The times of a segment are the place of its audio in the stream: the    *)
(* OpenAI backend's clock and buffer end where the packets in its channel  *)
(* begin, and these lead, each in its place, to what the session was       *)
(* given, whatever became of the requests; and what the SimulStreaming     *)
(* server has is no more than it was given.                                *)
AudioIsAccounted ==
    \A i \in DOMAIN objects :
        LET s == objects[i]
            given == Decoded(s) - InHand(i)
        IN IF s.kind = "openai" THEN Leads(Taken(s), s.audio, given) ELSE Taken(s) <= given

(* No session that a poll has yet to look at is taken away meanwhile.      *)
PolledSessionsStay ==
    \A k \in poller.todo :
        k \in DOMAIN sessions /\ objects[sessions[k]].open

-----------------------------------------------------------------------------
(* The refinement of Feed. *)

Undistributed == IF poller.pc \in {"hand", "give"} THEN poller.batch ELSE <<>>

(* The results that are distributed, and for those who have been given the *)
(* one in the poller's hands, or are not to be given it, that one too.     *)
Offered ==
    [s \in Subs |->
        IF topic[s] \notin SessionIds THEN 0
        ELSE Len(log) - Len(Undistributed)
             + (IF poller.pc = "give" /\ s \notin ToSet(poller.to) THEN 1 ELSE 0)]

F == INSTANCE Feed WITH feed <- log, offered <- Offered

(* Distribution with its polls and locks implements the feed: a subscriber *)
(* is offered every result of its session that is distributed after it     *)
(* came, once and in order, and misses one only if its queue is full.      *)
ImplementsFeed == F!Spec

-----------------------------------------------------------------------------
Pending(i) == i \in DOMAIN objects /\ objects[i].results # <<>>
Sendable(i) == i \in DOMAIN objects /\ objects[i].kind = "openai" /\ objects[i].open
               /\ objects[i].buffer >= MinSamples
Leftover(i) == i \in DOMAIN objects /\ ~objects[i].open /\ objects[i].thread # "ended"

(* Every result is handed out, or goes with its session: no blocked write, *)
(* broken connection or slow subscriber of one session stops the others.   *)
ResultsAreHandedOut ==
    \A i \in Objects : Pending(i) ~> ~Pending(i) /\ poller.pc = "sleep"

(* Audio worth a request does not wait for more audio to come.             *)
BufferedAudioIsSent == \A i \in Objects : Sendable(i) ~> ~Sendable(i)

(* The worker finishes every command: it gets its locks although the       *)
(* poller comes back for them, and no write lasts for ever.                *)
CommandsComplete == worker.pc # "idle" ~> worker.pc = "idle"

(* The threads of a stopped session end: the audio that is queued for the  *)
(* OpenAI worker is used up and a request under way is waited for.         *)
StoppedSessionEnds == \A i \in Objects : Leftover(i) ~> ~Leftover(i)
=============================================================================
