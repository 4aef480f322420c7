------------------------- MODULE TranscriptsProofs --------------------------
(***************************************************************************)
(* Proofs about Transcripts and Backends for every set of keys and         *)
(* subscribers, every assignment of backends and topics, every size of     *)
(* packets and queues and every number of sessions.                        *)
(***************************************************************************)
EXTENDS Transcripts, SequenceTheorems, TLAPS

(* The inductive invariant.  What the poller has at each of its steps. *)
PollerInPhase ==
    /\ poller.pc # "poll" => poller.todo = {}
    /\ poller.pc = "sleep" => poller.batch = <<>>
    /\ poller.pc \in {"hand", "give"} => poller.batch # <<>>
    /\ poller.pc = "give" => poller.to # <<>>

(* The session of a key in the map, or about to be inserted, is open and   *)
(* the key's; every open one is in the map or about to be; and of the      *)
(* sessions of a key only the last can be open.                            *)
SessionsAreOpen ==
    /\ poller.todo \subseteq DOMAIN sessions
    /\ \A k \in DOMAIN sessions : objects[sessions[k]].open /\ objects[sessions[k]].key = k
    /\ worker.pc = "insert" =>
          /\ worker.key \notin DOMAIN sessions
          /\ Len(objects) \in DOMAIN objects
          /\ objects[Len(objects)].open /\ objects[Len(objects)].key = worker.key

OpenAreKept ==
    \A i \in DOMAIN objects : objects[i].open =>
        \/ objects[i].key \in DOMAIN sessions /\ sessions[objects[i].key] = i
        \/ worker.pc = "insert" /\ i = Len(objects)

OnlyLastIsOpen ==
    \A i, j \in DOMAIN objects : i < j /\ objects[i].key = objects[j].key => ~objects[i].open

(* A time that is over for a session: its clock and everything it has      *)
(* still to hand out are not before it.                                    *)
Over(t, s) ==
    /\ t <= s.stream_time_ms
    /\ \A b \in DOMAIN s.results : t <= s.results[b].start_ms
    /\ \A b \in DOMAIN s.request : t <= s.request[b].start_ms

(* A session's results are its own, in sequence, and before its clock and  *)
(* the segment that it waits for.  A dropped one has none.                 *)
Orderly(s) ==
    /\ s.kind = "simul" => s.request = <<>>
    /\ ~s.open => s.results = <<>>
    /\ InSequence(s.results)
    /\ \A a \in DOMAIN s.results :
          /\ s.results[a].key = s.key /\ s.results[a].of = s.of
          /\ s.results[a].end_ms <= s.stream_time_ms
          /\ \A b \in DOMAIN s.request : s.results[a].end_ms <= s.request[b].start_ms
    /\ \A b \in DOMAIN s.request :
          /\ s.request[b].key = s.key /\ s.request[b].of = s.of
          /\ s.request[b].end_ms <= s.stream_time_ms

SessionsAreOrderly == \A i \in DOMAIN objects : objects[i].of = i /\ Orderly(objects[i])

(* What was handed out is over for its session. *)
HandedOutIsOver ==
    /\ InSequence(HandedOut)
    /\ \A a \in DOMAIN HandedOut :
          LET p == HandedOut[a] IN
          /\ p.of \in DOMAIN objects
          /\ objects[p.of].key = p.key
          /\ objects[p.of].open => Over(p.end_ms, objects[p.of])

IInv == /\ TypeOK /\ PollerInPhase /\ SessionsAreOpen /\ OpenAreKept /\ OnlyLastIsOpen
        /\ SessionsAreOrderly /\ HandedOutIsOver

(* The accounting of a session's audio, of which the worker has h samples  *)
(* in its hands.  Only whole chunks leave the resampler, so everything     *)
(* after it is a whole number of milliseconds and the clock is exact; and  *)
(* the worker has nothing in its hands for a session that is dropped.      *)
Exact(s) ==
    /\ s.input_buffer <= s.fed /\ (s.fed - s.input_buffer) % chunk_size = 0
    /\ s.buffer % 16 = 0
    /\ \A j \in DOMAIN s.audio : s.audio[j].samples % 16 = 0

Accounted(s, h) ==
    /\ Exact(s)
    /\ ~s.open => h = 0
    /\ IF s.kind = "openai" THEN Leads(Taken(s), s.audio, Decoded(s) - h)
                            ELSE Taken(s) <= Decoded(s) - h

(* The worker has the last samples of an open session in its hands. *)
HandHasLast ==
    worker.pc = "send" =>
        /\ objects[worker.object].open
        /\ worker.pcm.samples % 16 = 0
        /\ worker.pcm.at + worker.pcm.samples = Decoded(objects[worker.object])

AInv == HandHasLast /\ \A i \in DOMAIN objects : Accounted(objects[i], InHand(i))

(* A session goes on to a next state: it stays the same session, orderly,  *)
(* and what was over stays over.                                           *)
Evolves(s, t) ==
    /\ t \in SessionObject /\ Len(t.request) <= 1
    /\ t.key = s.key /\ t.of = s.of /\ (t.open <=> s.open)
    /\ Orderly(t)
    /\ s.open => \A x \in Nat : Over(x, s) => Over(x, t)

(* Two such steps are one. *)
LEMMA EvolvesOn ==
    ASSUME NEW s, NEW t, NEW u, Evolves(s, t), Evolves(t, u)
    PROVE  Evolves(s, u)
BY DEF Evolves

(* Times are natural numbers. *)
LEMMA DurationType ==
    ASSUME NEW n \in Nat
    PROVE  duration_ms(n) \in Nat
BY DEF duration_ms, SAMPLE_RATE

(* A new session is open and has nothing. *)
LEMMA SessionType ==
    ASSUME NEW k \in Keys, NEW kind \in {"simul", "openai"}, NEW n \in Nat
    PROVE  /\ Session(k, kind, n) \in SessionObject
           /\ Session(k, kind, n).request = <<>> /\ Session(k, kind, n).results = <<>>
           /\ Session(k, kind, n).key = k /\ Session(k, kind, n).of = n
           /\ Session(k, kind, n).kind = kind
           /\ Session(k, kind, n).open
<1>1. <<>> \in Seq(Packet) /\ <<>> \in Seq(Segment)
      OBVIOUS
<1> QED BY <1>1 DEF Session, SessionObject, chunk_size

(* A session without results and requests is orderly. *)
LEMMA QuietIsOrderly ==
    ASSUME NEW s, s.results = <<>>, s.request = <<>>
    PROVE  Orderly(s)
BY DEF Orderly, InSequence

(* Forgetting an ended session. *)
LEMMA ForgottenEvolves ==
    ASSUME NEW s \in SessionObject, Len(s.request) <= 1, Orderly(s)
    PROVE  Evolves(s, Forgotten(s))
<1>1. CASE s.open \/ s.thread # "ended"
      BY <1>1 DEF Forgotten, Evolves
<1>2. CASE ~s.open /\ s.thread = "ended"
  <2> DEFINE f == Session(s.key, s.kind, s.of)
             t == [f EXCEPT !.open = FALSE, !.thread = "ended"]
  <2>1. Forgotten(s) = t
        BY <1>2 DEF Forgotten
  <2>2. s.key \in Keys /\ s.kind \in {"simul", "openai"} /\ s.of \in Nat
        BY DEF SessionObject
  <2>3. /\ f \in SessionObject /\ f.request = <<>> /\ f.results = <<>>
        /\ f.key = s.key /\ f.of = s.of
    <3>1. <<>> \in Seq(Packet) /\ <<>> \in Seq(Segment)
          OBVIOUS
    <3> QED BY <2>2, <3>1 DEF Session, SessionObject, chunk_size
  <2> HIDE DEF f
  <2>4. /\ t \in SessionObject /\ t.request = <<>> /\ t.results = <<>>
        /\ t.key = s.key /\ t.of = s.of
        BY <2>3 DEF SessionObject
  <2>5. ~t.open
        BY <2>3 DEF SessionObject
  <2>6. Orderly(t)
        BY <2>4, QuietIsOrderly
  <2>7. Len(t.request) <= 1
        BY <2>4
  <2> HIDE DEF t
  <2> QED BY <1>2, <2>1, <2>4, <2>5, <2>6, <2>7 DEF Evolves
<1> QED BY <1>1, <1>2

(* A step that leaves results, request, clock and openness alone. *)
LEMMA QuietStep ==
    ASSUME NEW s \in SessionObject, Len(s.request) <= 1, Orderly(s),
           NEW t \in SessionObject,
           t.key = s.key, t.kind = s.kind, t.of = s.of, t.open = s.open,
           t.results = s.results, t.request = s.request, t.stream_time_ms = s.stream_time_ms
    PROVE  Evolves(s, t)
<1>1. Orderly(t)
      BY DEF Orderly
<1>2. \A x \in Nat : Over(x, s) => Over(x, t)
      BY DEF Over
<1> QED BY <1>1, <1>2 DEF Evolves

(* Decoding a packet. *)
LEMMA FedEvolves ==
    ASSUME NEW s \in SessionObject, Len(s.request) <= 1, Orderly(s), NEW frame \in FrameSizes
    PROVE  /\ Evolves(s, Fed(s, frame))
           /\ [at |-> Decoded(s), samples |-> decode(s, frame).pcm] \in Packet
<1>0. s.input_buffer \in 0 .. 959 /\ s.fed \in Nat
      BY DEF SessionObject, chunk_size
<1>1. s.input_buffer \in Nat /\ frame \in Nat /\ s.fed \in Nat
  <2> DEFINE b == s.input_buffer
  <2>1. frame \in Nat
        BY SamplesAssumption
  <2>2. b \in 0 .. 959
        BY <1>0
  <2> HIDE DEF b
  <2>3. b \in Nat
        BY <2>2
  <2> QED BY <1>0, <2>1, <2>3 DEF b
<1>2. (s.input_buffer + frame) % chunk_size \in 0 .. chunk_size - 1
  <2> DEFINE n == s.input_buffer + frame
  <2>1. n \in Nat
        BY <1>1
  <2> HIDE DEF n
  <2>2. n % 960 \in 0 .. 959
        BY <2>1
  <2> QED BY <2>2 DEF n, chunk_size
<1>3. decode(s, frame).rest \in 0 .. chunk_size - 1
      BY <1>2 DEF decode
<1>4. decode(s, frame).pcm \in Nat
  <2>1. ((s.input_buffer + frame) \div chunk_size) * resampled \in Nat
        BY <1>1 DEF chunk_size, resampled
  <2> QED BY <2>1 DEF decode
<1>5. s.fed + frame \in Nat /\ Decoded(s) \in Int
      BY <1>1 DEF Decoded, chunk_size, resampled
<1> DEFINE t == Fed(s, frame)
<1>6. /\ t \in SessionObject
      /\ t.key = s.key /\ t.kind = s.kind /\ t.of = s.of /\ t.open = s.open
      /\ t.results = s.results /\ t.request = s.request /\ t.stream_time_ms = s.stream_time_ms
      BY <1>3, <1>5 DEF Fed, SessionObject
<1> HIDE DEF t
<1>7. Evolves(s, t)
      BY <1>6, QuietStep
<1> QED BY <1>4, <1>5, <1>7 DEF t, Packet

(* Giving samples to the backend. *)
LEMMA SendEvolves ==
    ASSUME NEW s \in SessionObject, Len(s.request) <= 1, Orderly(s), NEW pcm \in Packet,
           NEW t \in send_audio(s, pcm)
    PROVE  Evolves(s, t)
<1>0. Evolves(s, s)
      BY QuietStep
<1>1. CASE t = [s EXCEPT !.buffer = @ + pcm.samples]
  <2>1. s.buffer + pcm.samples \in Nat
        BY DEF SessionObject, Packet
  <2>2. /\ t \in SessionObject
        /\ t.key = s.key /\ t.kind = s.kind /\ t.of = s.of /\ t.open = s.open
        /\ t.results = s.results /\ t.request = s.request /\ t.stream_time_ms = s.stream_time_ms
        BY <1>1, <2>1 DEF SessionObject
  <2> QED BY <2>2, QuietStep
<1>2. CASE t = [s EXCEPT !.audio = Append(@, pcm)]
  <2>1. Append(s.audio, pcm) \in Seq(Packet)
    <3>1. s.audio \in Seq(Packet)
          BY DEF SessionObject
    <3> QED BY <3>1
  <2>2. /\ t \in SessionObject
        /\ t.key = s.key /\ t.kind = s.kind /\ t.of = s.of /\ t.open = s.open
        /\ t.results = s.results /\ t.request = s.request /\ t.stream_time_ms = s.stream_time_ms
        BY <1>2, <2>1 DEF SessionObject
  <2> QED BY <2>2, QuietStep
<1>3. t = s \/ t = [s EXCEPT !.buffer = @ + pcm.samples] \/ t = [s EXCEPT !.audio = Append(@, pcm)]
      BY DEF send_audio, simul_send_audio, openai_send_audio
<1> QED BY <1>0, <1>1, <1>2, <1>3

(* A segment at the end of a sequence that is before it. *)
LEMMA SequenceGrows ==
    ASSUME NEW r \in Seq(Segment), NEW q \in Segment, InSequence(r),
           \A i \in DOMAIN r : Precedes(r[i], q)
    PROVE  InSequence(r \o <<q>>)
<1> DEFINE n == Len(r)
           w == r \o <<q>>
<1>1. /\ n \in Nat /\ DOMAIN r = 1 .. n /\ DOMAIN w = 1 .. n + 1
      /\ w[n + 1] = q /\ \A i \in 1 .. n : w[i] = r[i]
      OBVIOUS
<1> HIDE DEF n, w
<1> SUFFICES ASSUME NEW j \in DOMAIN w, NEW i \in 1 .. j - 1
             PROVE  Precedes(w[i], w[j])
    BY DEF InSequence, w
<1>2. i \in 1 .. n /\ (j \in 1 .. n \/ j = n + 1)
      BY <1>1
<1>3. w[i] = r[i]
      BY <1>1, <1>2
<1>4. CASE j = n + 1
  <2>1. w[j] = q
        BY <1>1, <1>4
  <2> QED BY <1>1, <1>2, <1>3, <2>1
<1>5. CASE j \in 1 .. n
  <2>1. w[j] = r[j]
        BY <1>1, <1>5
  <2> QED BY <1>1, <1>3, <1>5, <2>1 DEF InSequence
<1> QED BY <1>2, <1>4, <1>5

(* A segment is added to the results of an open session. *)
LEMMA EmitEvolves ==
    ASSUME NEW s \in SessionObject, Orderly(s), s.open,
           NEW t \in SessionObject,
           t.key = s.key, t.of = s.of, t.open = s.open, t.request = <<>>,
           NEW q \in Segment, t.results = s.results \o <<q>>,
           q.key = s.key, q.of = s.of,
           \A a \in DOMAIN s.results : s.results[a].end_ms <= q.start_ms,
           \A x \in Nat : Over(x, s) => x <= q.start_ms,
           s.stream_time_ms <= t.stream_time_ms, q.end_ms <= t.stream_time_ms
    PROVE  Evolves(s, t)
<1>1. s.results \in Seq(Segment) /\ s.stream_time_ms \in Nat /\ t.stream_time_ms \in Nat
      BY DEF SessionObject
<1>2. ASSUME NEW a \in DOMAIN t.results
      PROVE  \/ a \in DOMAIN s.results /\ t.results[a] = s.results[a]
             \/ t.results[a] = q
      BY <1>1
<1>3. ASSUME NEW a \in DOMAIN s.results
      PROVE  /\ s.results[a].key = s.key /\ s.results[a].of = s.of
             /\ s.results[a].end_ms \in Nat /\ s.results[a].end_ms <= s.stream_time_ms
  <2>1. s.results[a] \in Segment
        BY <1>1
  <2> QED BY <2>1 DEF Orderly, Segment
<1>4. InSequence(t.results)
  <2>1. \A a \in DOMAIN s.results : Precedes(s.results[a], q)
        BY <1>3 DEF Precedes
  <2>2. InSequence(s.results)
        BY DEF Orderly
  <2> QED BY <1>1, <2>1, <2>2, SequenceGrows
<1>5. ASSUME NEW a \in DOMAIN t.results
      PROVE  /\ t.results[a].key = t.key /\ t.results[a].of = t.of
             /\ t.results[a].end_ms <= t.stream_time_ms
  <2>1. CASE a \in DOMAIN s.results /\ t.results[a] = s.results[a]
    <3>1. s.results[a].end_ms <= t.stream_time_ms
          BY <1>1, <1>3, <2>1
    <3> QED BY <1>3, <2>1, <3>1
  <2>2. CASE t.results[a] = q
        BY <2>2
  <2> QED BY <1>2, <2>1, <2>2
<1>6. Orderly(t)
  <2>1. t.open
        OBVIOUS
  <2>2. DOMAIN t.request = {}
        OBVIOUS
  <2> QED BY <1>4, <1>5, <2>1, <2>2 DEF Orderly
<1>7. ASSUME NEW x \in Nat, Over(x, s)
      PROVE  Over(x, t)
  <2>1. x <= t.stream_time_ms
        BY <1>1, <1>7 DEF Over
  <2>2. ASSUME NEW a \in DOMAIN t.results
        PROVE  x <= t.results[a].start_ms
        BY <1>2, <1>7 DEF Over
  <2>3. DOMAIN t.request = {}
        OBVIOUS
  <2> QED BY <2>1, <2>2, <2>3 DEF Over
<1>8. Len(t.request) <= 1
      OBVIOUS
<1> QED BY <1>6, <1>7, <1>8 DEF Evolves

(* The next segment of a session starts at its clock. *)
LEMMA NextSegmentType ==
    ASSUME NEW s \in SessionObject, NEW n \in Nat
    PROVE  /\ NextSegment(s, n) \in Segment
           /\ NextSegment(s, n).key = s.key /\ NextSegment(s, n).of = s.of
           /\ NextSegment(s, n).start_ms = s.stream_time_ms
           /\ NextSegment(s, n).end_ms = s.stream_time_ms + duration_ms(n)
           /\ s.stream_time_ms \in Nat
           /\ s.stream_time_ms + duration_ms(n) \in Nat
           /\ s.stream_time_ms <= s.stream_time_ms + duration_ms(n)
<1>1. s.key \in Keys /\ s.of \in Nat /\ s.stream_time_ms \in Nat
      BY DEF SessionObject
<1>2. duration_ms(n) \in Nat
      BY DurationType
<1>3. /\ s.stream_time_ms + duration_ms(n) \in Nat
      /\ s.stream_time_ms <= s.stream_time_ms + duration_ms(n)
      BY <1>1, <1>2
<1> QED BY <1>1, <1>3 DEF NextSegment, Segment

(* A line of the SimulStreaming server is the next segment. *)
LEMMA ReadResultsEvolves ==
    ASSUME NEW s \in SessionObject, Len(s.request) <= 1, Orderly(s), s.kind = "simul"
    PROVE  Evolves(s, read_results(s))
<1> DEFINE q == NextSegment(s, s.buffer)
           t == [s EXCEPT !.results = Sent(s, <<q>>),
                          !.stream_time_ms = @ + duration_ms(s.buffer),
                          !.buffer = 0,
                          !.thread = IF s.open THEN "loop" ELSE "ended"]
<1>1. s.buffer \in Nat /\ s.results \in Seq(Segment) /\ s.request = <<>>
      BY DEF SessionObject, Orderly
<1>2. /\ q \in Segment /\ q.key = s.key /\ q.of = s.of
      /\ q.start_ms = s.stream_time_ms
      /\ q.end_ms = s.stream_time_ms + duration_ms(s.buffer)
      /\ s.stream_time_ms \in Nat
      /\ s.stream_time_ms + duration_ms(s.buffer) \in Nat
      /\ s.stream_time_ms <= s.stream_time_ms + duration_ms(s.buffer)
      BY <1>1, NextSegmentType
<1> HIDE DEF q
<1>3. Sent(s, <<q>>) \in Seq(Segment)
      BY <1>1, <1>2 DEF Sent
<1>4. /\ t \in SessionObject
      /\ t.key = s.key /\ t.of = s.of /\ t.open = s.open /\ t.request = s.request
      /\ t.results = Sent(s, <<q>>)
      /\ t.stream_time_ms = s.stream_time_ms + duration_ms(s.buffer)
      BY <1>2, <1>3 DEF SessionObject
<1>5. read_results(s) = Forgotten(t)
      BY DEF read_results, q
<1> HIDE DEF t
<1>6. Evolves(s, t)
  <2>1. CASE s.open
    <3>1. t.results = s.results \o <<q>>
          BY <1>4, <2>1 DEF Sent
    <3>2. \A a \in DOMAIN s.results : s.results[a].end_ms <= q.start_ms
          BY <1>2 DEF Orderly
    <3>3. \A x \in Nat : Over(x, s) => x <= q.start_ms
          BY <1>2 DEF Over
    <3>4. s.stream_time_ms <= t.stream_time_ms /\ q.end_ms <= t.stream_time_ms
          BY <1>2, <1>4
    <3>5. t.request = <<>> /\ t.key = s.key /\ t.of = s.of /\ t.open = s.open
          BY <1>1, <1>4
    <3>6. t \in SessionObject /\ q \in Segment /\ q.key = s.key /\ q.of = s.of
          BY <1>2, <1>4
    <3> QED BY <2>1, <3>1, <3>2, <3>3, <3>4, <3>5, <3>6, EmitEvolves
  <2>2. CASE ~s.open
    <3>1. t.results = <<>> /\ t.request = <<>> /\ Len(t.request) <= 1
          BY <1>1, <1>4, <2>2 DEF Sent
    <3>2. Orderly(t)
          BY <3>1, QuietIsOrderly
    <3> QED BY <1>4, <2>2, <3>1, <3>2 DEF Evolves
  <2> QED BY <2>1, <2>2
<1>7. Evolves(t, Forgotten(t))
      BY <1>6, ForgottenEvolves DEF Evolves
<1> QED BY <1>5, <1>6, <1>7, EvolvesOn

(* The end of the SimulStreaming server's stream. *)
LEMMA ReadEndsEvolves ==
    ASSUME NEW s \in SessionObject, Len(s.request) <= 1, Orderly(s)
    PROVE  Evolves(s, read_ends(s))
<1> DEFINE t == [s EXCEPT !.thread = "ended", !.buffer = 0]
<1>1. /\ t \in SessionObject
      /\ t.key = s.key /\ t.kind = s.kind /\ t.of = s.of /\ t.open = s.open
      /\ t.results = s.results /\ t.request = s.request /\ t.stream_time_ms = s.stream_time_ms
      BY DEF SessionObject
<1>2. read_ends(s) = Forgotten(t)
      BY DEF read_ends
<1> HIDE DEF t
<1>3. Evolves(s, t)
      BY <1>1, QuietStep
<1>4. Evolves(t, Forgotten(t))
      BY <1>3, ForgottenEvolves DEF Evolves
<1> QED BY <1>2, <1>3, <1>4, EvolvesOn

(* A request for the buffered audio moves the clock on. *)
LEMMA FlushEvolves ==
    ASSUME NEW s \in SessionObject, Len(s.request) <= 1, Orderly(s), s.kind = "openai",
           NEW elapsed \in BOOLEAN
    PROVE  Evolves(s, flush(s, elapsed))
<1>1. CASE ~should_flush(s, elapsed)
      BY <1>1, QuietStep DEF flush
<1>2. CASE should_flush(s, elapsed)
  <2> DEFINE q == NextSegment(s, s.buffer)
             t == [s EXCEPT !.request = <<q>>,
                            !.thread = "request",
                            !.stream_time_ms = @ + duration_ms(s.buffer),
                            !.buffer = 0]
  <2>1. s.buffer \in Nat /\ s.results \in Seq(Segment)
        BY DEF SessionObject
  <2>2. /\ q \in Segment /\ q.key = s.key /\ q.of = s.of
        /\ q.start_ms = s.stream_time_ms
        /\ q.end_ms = s.stream_time_ms + duration_ms(s.buffer)
        /\ s.stream_time_ms \in Nat
        /\ s.stream_time_ms + duration_ms(s.buffer) \in Nat
        /\ s.stream_time_ms <= s.stream_time_ms + duration_ms(s.buffer)
        BY <2>1, NextSegmentType
  <2> HIDE DEF q
  <2>3. <<q>> \in Seq(Segment)
        BY <2>2
  <2>4. /\ t \in SessionObject
        /\ t.key = s.key /\ t.kind = s.kind /\ t.of = s.of /\ t.open = s.open
        /\ t.results = s.results /\ t.request = <<q>>
        /\ t.stream_time_ms = q.end_ms
        BY <2>2, <2>3 DEF SessionObject
  <2>5. flush(s, elapsed) = t
        BY <1>2 DEF flush, q
  <2> HIDE DEF t
  <2>6. DOMAIN t.request = {1} /\ t.request[1] = q /\ Len(t.request) <= 1
        BY <2>4
  <2>7. ASSUME NEW a \in DOMAIN s.results
        PROVE  /\ s.results[a].key = s.key /\ s.results[a].of = s.of
               /\ s.results[a].end_ms <= q.start_ms /\ s.results[a].end_ms <= q.end_ms
    <3>1. s.results[a] \in Segment
          BY <2>1
    <3> QED BY <2>2, <3>1 DEF Orderly, Segment
  <2>8. Orderly(t)
    <3>1. InSequence(t.results) /\ (~t.open => t.results = <<>>)
          BY <2>4 DEF Orderly
    <3>2. t.kind # "simul"
          BY <2>4
    <3>3. ASSUME NEW a \in DOMAIN t.results
          PROVE  /\ t.results[a].key = t.key /\ t.results[a].of = t.of
                 /\ t.results[a].end_ms <= t.stream_time_ms
                 /\ t.results[a].end_ms <= t.request[1].start_ms
          BY <2>4, <2>6, <2>7
    <3>4. /\ t.request[1].key = t.key /\ t.request[1].of = t.of
          /\ t.request[1].end_ms <= t.stream_time_ms
          BY <2>2, <2>4, <2>6
    <3> QED BY <2>6, <3>1, <3>2, <3>3, <3>4 DEF Orderly
  <2>9. ASSUME NEW x \in Nat, Over(x, s)
        PROVE  Over(x, t)
    <3>1. x <= q.start_ms
          BY <2>2, <2>9 DEF Over
    <3>2. x <= t.stream_time_ms
          BY <2>2, <2>4, <3>1
    <3>3. \A b \in DOMAIN t.results : x <= t.results[b].start_ms
          BY <2>4, <2>9 DEF Over
    <3> QED BY <2>6, <3>1, <3>2, <3>3 DEF Over
  <2> QED BY <2>4, <2>5, <2>6, <2>8, <2>9 DEF Evolves
<1> QED BY <1>1, <1>2

(* A turn of the OpenAI worker's loop. *)
LEMMA LoopEvolves ==
    ASSUME NEW s \in SessionObject, Len(s.request) <= 1, Orderly(s), s.kind = "openai",
           NEW elapsed \in BOOLEAN
    PROVE  Evolves(s, worker_loop(s, elapsed))
<1>1. CASE s.audio # <<>>
  <2> DEFINE t == [s EXCEPT !.buffer = @ + Head(s.audio).samples, !.audio = Tail(@)]
  <2>1. s.audio \in Seq(Packet) /\ s.buffer \in Nat
        BY DEF SessionObject
  <2>2. Head(s.audio) \in Packet /\ Tail(s.audio) \in Seq(Packet)
        BY <1>1, <2>1
  <2>3. s.buffer + Head(s.audio).samples \in Nat
        BY <2>1, <2>2 DEF Packet
  <2>4. /\ t \in SessionObject
        /\ t.key = s.key /\ t.kind = s.kind /\ t.of = s.of /\ t.open = s.open
        /\ t.results = s.results /\ t.request = s.request /\ t.stream_time_ms = s.stream_time_ms
        BY <2>2, <2>3 DEF SessionObject
  <2>5. worker_loop(s, elapsed) = flush(t, elapsed)
        BY <1>1 DEF worker_loop
  <2> HIDE DEF t
  <2>6. Evolves(s, t)
        BY <2>4, QuietStep
  <2>7. Evolves(t, flush(t, elapsed))
        BY <2>4, <2>6, FlushEvolves DEF Evolves
  <2> QED BY <2>5, <2>6, <2>7, EvolvesOn
<1>2. CASE s.audio = <<>> /\ s.open
      BY <1>2, FlushEvolves DEF worker_loop
<1>3. CASE s.audio = <<>> /\ ~s.open
  <2> DEFINE t == [s EXCEPT !.thread = "ended"]
  <2>1. /\ t \in SessionObject
        /\ t.key = s.key /\ t.kind = s.kind /\ t.of = s.of /\ t.open = s.open
        /\ t.results = s.results /\ t.request = s.request /\ t.stream_time_ms = s.stream_time_ms
        BY DEF SessionObject
  <2>2. worker_loop(s, elapsed) = Forgotten(t)
        BY <1>3 DEF worker_loop
  <2> HIDE DEF t
  <2>3. Evolves(s, t)
        BY <2>1, QuietStep
  <2>4. Evolves(t, Forgotten(t))
        BY <2>3, ForgottenEvolves DEF Evolves
  <2> QED BY <2>2, <2>3, <2>4, EvolvesOn
<1> QED BY <1>1, <1>2, <1>3

(* The answer to a request is the next result, if the session is open. *)
LEMMA TranscribeEvolves ==
    ASSUME NEW s \in SessionObject, Len(s.request) <= 1, Orderly(s),
           NEW t \in transcribe_chunk_sync(s)
    PROVE  Evolves(s, t)
<1>1. PICK text \in {s.request, <<>>} :
         t = [s EXCEPT !.results = Sent(s, text), !.request = <<>>, !.thread = "loop"]
      BY DEF transcribe_chunk_sync
<1>2. s.results \in Seq(Segment) /\ s.request \in Seq(Segment) /\ s.stream_time_ms \in Nat
      BY DEF SessionObject
<1>3. text \in Seq(Segment) /\ <<>> \in Seq(Segment)
  <2>1. <<>> \in Seq(Segment)
        OBVIOUS
  <2>2. text = s.request \/ text = <<>>
        BY <1>1
  <2> QED BY <1>2, <2>1, <2>2, Zenon
<1>4. Sent(s, text) \in Seq(Segment)
      BY <1>2, <1>3 DEF Sent
<1>5. /\ t \in SessionObject
      /\ t.key = s.key /\ t.of = s.of /\ t.open = s.open /\ t.request = <<>>
      /\ t.results = Sent(s, text) /\ t.stream_time_ms = s.stream_time_ms
      /\ t.kind = s.kind
      BY <1>1, <1>3, <1>4 DEF SessionObject
<1>6. Len(t.request) <= 1 /\ DOMAIN t.request = {}
      BY <1>5
<1>7. CASE ~s.open
  <2>1. t.results = <<>>
        BY <1>5, <1>7 DEF Sent
  <2>2. Orderly(t)
        BY <1>5, <2>1, QuietIsOrderly
  <2> QED BY <1>5, <1>6, <1>7, <2>2 DEF Evolves
<1>8. CASE s.open /\ text = <<>>
  <2>1. t.results = s.results
        BY <1>2, <1>5, <1>8 DEF Sent
  <2>2. Orderly(t)
        BY <1>5, <1>6, <2>1 DEF Orderly
  <2>3. \A x \in Nat : Over(x, s) => Over(x, t)
        BY <1>5, <1>6, <2>1 DEF Over
  <2> QED BY <1>5, <1>6, <2>2, <2>3 DEF Evolves
<1>9. CASE s.open /\ text = s.request /\ text # <<>>
  <2> DEFINE q == s.request[1]
  <2>1. 1 \in DOMAIN s.request /\ q \in Segment /\ s.request = <<q>>
        BY <1>2, <1>9
  <2> HIDE DEF q
  <2>2. q.key = s.key /\ q.of = s.of /\ q.end_ms <= s.stream_time_ms
        BY <2>1 DEF Orderly, q
  <2>3. \A a \in DOMAIN s.results : s.results[a].end_ms <= q.start_ms
        BY <2>1 DEF Orderly, q
  <2>4. \A x \in Nat : Over(x, s) => x <= q.start_ms
        BY <2>1 DEF Over, q
  <2>5. t.results = s.results \o <<q>>
        BY <1>5, <1>9, <2>1 DEF Sent
  <2>6. s.stream_time_ms <= t.stream_time_ms /\ q.end_ms <= t.stream_time_ms
        BY <1>2, <1>5, <2>2
  <2> QED BY <1>5, <1>9, <2>1, <2>2, <2>3, <2>4, <2>5, <2>6, EmitEvolves
<1> QED BY <1>7, <1>8, <1>9

(* A session whose results were taken. *)
LEMMA TakenEvolves ==
    ASSUME NEW s \in SessionObject, Len(s.request) <= 1, Orderly(s),
           NEW t, t = [s EXCEPT !.results = <<>>]
    PROVE  Evolves(s, t) /\ t.results = <<>>
<1>1. <<>> \in Seq(Segment)
      OBVIOUS
<1>2. /\ t \in SessionObject
      /\ t.key = s.key /\ t.kind = s.kind /\ t.of = s.of /\ t.open = s.open
      /\ t.results = <<>> /\ t.request = s.request /\ t.stream_time_ms = s.stream_time_ms
      BY <1>1 DEF SessionObject
<1>3. DOMAIN t.results = {} /\ InSequence(t.results)
      BY <1>2 DEF InSequence
<1>4. Orderly(t)
      BY <1>2, <1>3 DEF Orderly
<1>5. \A x \in Nat : Over(x, s) => Over(x, t)
      BY <1>2, <1>3 DEF Over
<1> QED BY <1>2, <1>4, <1>5 DEF Evolves

(* A dropped session stays what it is, but for its results. *)
LEMMA DroppedIsClosed ==
    ASSUME NEW s \in SessionObject, Len(s.request) <= 1, Orderly(s)
    PROVE  /\ Dropped(s) \in SessionObject /\ Len(Dropped(s).request) <= 1
           /\ Dropped(s).key = s.key /\ Dropped(s).of = s.of /\ ~Dropped(s).open
           /\ Orderly(Dropped(s))
<1> DEFINE t == [s EXCEPT !.open = FALSE, !.results = <<>>]
<1>1. <<>> \in Seq(Segment)
      OBVIOUS
<1>2. /\ t \in SessionObject
      /\ t.key = s.key /\ t.kind = s.kind /\ t.of = s.of
      /\ t.results = <<>> /\ t.request = s.request /\ t.stream_time_ms = s.stream_time_ms
      BY <1>1 DEF SessionObject
<1>3. ~t.open
      BY DEF SessionObject
<1>4. Dropped(s) = Forgotten(t)
      BY DEF Dropped
<1> HIDE DEF t
<1>5. DOMAIN t.results = {} /\ InSequence(t.results)
      BY <1>2 DEF InSequence
<1>6. Orderly(t)
      BY <1>2, <1>5 DEF Orderly
<1>7. Evolves(t, Forgotten(t))
      BY <1>2, <1>6, ForgottenEvolves
<1> QED BY <1>2, <1>3, <1>4, <1>7 DEF Evolves

-----------------------------------------------------------------------------
(* The sessions of the manager when some of them go on. *)
ObjectsEvolve ==
    /\ objects' \in Seq(SessionObject) /\ Len(objects') = Len(objects)
    /\ DOMAIN objects' = DOMAIN objects
    /\ \A i \in DOMAIN objects : Evolves(objects[i], objects'[i])

(* What the invariant says of one session. *)
LEMMA SessionFacts ==
    ASSUME IInv
    PROVE  /\ objects \in Seq(SessionObject)
           /\ \A i \in DOMAIN objects :
                 /\ objects[i] \in SessionObject /\ Len(objects[i].request) <= 1
                 /\ Orderly(objects[i]) /\ objects[i].of = i
                 /\ Evolves(objects[i], objects[i])
<1>1. objects \in Seq(SessionObject)
      BY DEF IInv, TypeOK
<1> SUFFICES ASSUME NEW i \in DOMAIN objects
             PROVE  /\ objects[i] \in SessionObject /\ Len(objects[i].request) <= 1
                    /\ Orderly(objects[i]) /\ objects[i].of = i
                    /\ Evolves(objects[i], objects[i])
    BY <1>1
<1>2. objects[i] \in SessionObject
      BY <1>1
<1>3. Len(objects[i].request) <= 1 /\ Orderly(objects[i]) /\ objects[i].of = i
      BY DEF IInv, TypeOK, SessionsAreOrderly
<1> QED BY <1>2, <1>3, QuietStep

(* One session goes on, the others stay. *)
LEMMA OneEvolves ==
    ASSUME IInv, NEW i \in DOMAIN objects, NEW t, Evolves(objects[i], t),
           objects' = [objects EXCEPT ![i] = t]
    PROVE  ObjectsEvolve
<1>1. objects \in Seq(SessionObject) /\ t \in SessionObject
      BY SessionFacts DEF Evolves
<1>2. /\ objects' \in Seq(SessionObject) /\ Len(objects') = Len(objects)
      /\ DOMAIN objects' = DOMAIN objects
      BY <1>1
<1>3. ASSUME NEW j \in DOMAIN objects
      PROVE  Evolves(objects[j], objects'[j])
  <2>1. CASE j = i
    <3>1. objects'[j] = t
          BY <2>1
    <3> QED BY <2>1, <3>1
  <2>2. CASE j # i
    <3>1. objects'[j] = objects[j]
          BY <2>2
    <3> QED BY <3>1, SessionFacts
  <2> QED BY <2>1, <2>2
<1> QED BY <1>2, <1>3 DEF ObjectsEvolve

(* All sessions stay. *)
LEMMA NoneEvolves ==
    ASSUME IInv, objects' = objects
    PROVE  ObjectsEvolve
BY SessionFacts DEF ObjectsEvolve

(* The map, its sessions and their order survive steps of the sessions. *)
LEMMA MapStays ==
    ASSUME IInv, ObjectsEvolve, sessions' = sessions, poller'.todo \subseteq DOMAIN sessions,
           worker' = worker \/ (worker.pc # "insert" /\ worker'.pc # "insert")
    PROVE  /\ SessionsAreOpen' /\ OpenAreKept' /\ OnlyLastIsOpen' /\ SessionsAreOrderly'
           /\ \A i \in DOMAIN objects' : Len(objects'[i].request) <= 1
           /\ \A k \in DOMAIN sessions' : sessions'[k] \in DOMAIN objects'
<1>1. DOMAIN objects' = DOMAIN objects /\ Len(objects') = Len(objects)
      BY DEF ObjectsEvolve
<1>2. ASSUME NEW i \in DOMAIN objects
      PROVE  /\ objects'[i].key = objects[i].key /\ objects'[i].of = objects[i].of
             /\ (objects'[i].open <=> objects[i].open)
             /\ Orderly(objects'[i]) /\ Len(objects'[i].request) <= 1
      BY DEF ObjectsEvolve, Evolves
<1>3. \A k \in DOMAIN sessions : sessions[k] \in DOMAIN objects
      BY DEF IInv, TypeOK
<1>4. worker'.pc = "insert" => worker' = worker /\ worker.pc = "insert"
      OBVIOUS
<1>5. worker.pc = "insert" => worker' = worker
      OBVIOUS
<1>6. SessionsAreOpen'
  <2>1. ASSUME NEW k \in DOMAIN sessions
        PROVE  objects'[sessions[k]].open /\ objects'[sessions[k]].key = k
        BY <1>2, <1>3 DEF IInv, SessionsAreOpen
  <2>2. ASSUME worker'.pc = "insert"
        PROVE  /\ worker'.key \notin DOMAIN sessions
               /\ Len(objects) \in DOMAIN objects
               /\ objects'[Len(objects)].open /\ objects'[Len(objects)].key = worker'.key
    <3>1. worker' = worker /\ worker.pc = "insert"
          BY <1>4, <2>2
    <3> QED BY <1>2, <3>1 DEF IInv, SessionsAreOpen
  <2> QED BY <1>1, <2>1, <2>2 DEF SessionsAreOpen
<1>7. OpenAreKept'
  <2> SUFFICES ASSUME NEW i \in DOMAIN objects, objects'[i].open
               PROVE  \/ objects'[i].key \in DOMAIN sessions /\ sessions[objects'[i].key] = i
                      \/ worker'.pc = "insert" /\ i = Len(objects)
      BY <1>1 DEF OpenAreKept
  <2>1. \/ objects[i].key \in DOMAIN sessions /\ sessions[objects[i].key] = i
        \/ worker.pc = "insert" /\ i = Len(objects)
        BY <1>2 DEF IInv, OpenAreKept
  <2> QED BY <1>2, <1>5, <2>1
<1>8. OnlyLastIsOpen'
  <2> SUFFICES ASSUME NEW i \in DOMAIN objects, NEW j \in DOMAIN objects,
                      i < j, objects'[i].key = objects'[j].key
               PROVE  ~objects'[i].open
      BY <1>1 DEF OnlyLastIsOpen
  <2>1. objects[i].key = objects[j].key
        BY <1>2
  <2>2. ~objects[i].open
        BY <2>1 DEF IInv, OnlyLastIsOpen
  <2> QED BY <1>2, <2>2
<1>9. SessionsAreOrderly'
      BY <1>1, <1>2, SessionFacts DEF SessionsAreOrderly
<1> QED BY <1>1, <1>2, <1>3, <1>6, <1>7, <1>8, <1>9

(* What was handed out are segments. *)
LEMMA HandedOutType ==
    ASSUME IInv
    PROVE  HandedOut \in Seq(Segment)
<1>1. log \in Seq(Segment) /\ poller.batch \in Seq(Segment) /\ <<>> \in Seq(Segment)
      BY DEF IInv, TypeOK
<1> QED BY <1>1 DEF HandedOut

(* What was handed out stays over. *)
LEMMA HandedOutStays ==
    ASSUME IInv, ObjectsEvolve, HandedOut' = HandedOut
    PROVE  HandedOutIsOver'
<1>1. InSequence(HandedOut')
      BY DEF IInv, HandedOutIsOver
<1>2. ASSUME NEW a \in DOMAIN HandedOut
      PROVE  /\ HandedOut[a].of \in DOMAIN objects'
             /\ objects'[HandedOut[a].of].key = HandedOut[a].key
             /\ objects'[HandedOut[a].of].open =>
                   Over(HandedOut[a].end_ms, objects'[HandedOut[a].of])
  <2> DEFINE p == HandedOut[a]
  <2>1. p \in Segment
        BY HandedOutType
  <2>2. p.end_ms \in Nat
        BY <2>1 DEF Segment
  <2>3. /\ p.of \in DOMAIN objects /\ objects[p.of].key = p.key
        /\ objects[p.of].open => Over(p.end_ms, objects[p.of])
        BY DEF IInv, HandedOutIsOver
  <2> HIDE DEF p
  <2>4. Evolves(objects[p.of], objects'[p.of]) /\ DOMAIN objects' = DOMAIN objects
        BY <2>3 DEF ObjectsEvolve
  <2>5. /\ p.of \in DOMAIN objects' /\ objects'[p.of].key = p.key
        /\ objects'[p.of].open => Over(p.end_ms, objects'[p.of])
        BY <2>2, <2>3, <2>4 DEF Evolves
  <2> QED BY <2>5 DEF p
<1> QED BY <1>1, <1>2 DEF HandedOutIsOver

(* The parts of the state's type that a step of the sessions leaves alone. *)
LEMMA TypeStays ==
    ASSUME IInv, ObjectsEvolve, UNCHANGED <<sessions, poller, subscriptions, log>>,
           \A i \in DOMAIN objects' : Len(objects'[i].request) <= 1,
           \A k \in DOMAIN sessions' : sessions'[k] \in DOMAIN objects',
           \/ worker' = worker
           \/ worker' = Idle
           \/ \E i \in DOMAIN objects, n \in Packet : worker' = [pc |-> "send", object |-> i, pcm |-> n],
           packets' \in 0 .. MaxPackets
    PROVE  TypeOK' /\ PollerInPhase' /\ HandedOut' = HandedOut
<1>1. /\ worker'.pc \in {"idle", "insert", "remove", "send"}
      /\ worker'.pc \in {"insert", "remove"} => worker'.key \in Keys
      /\ worker'.pc = "send" => worker'.object \in DOMAIN objects' /\ worker'.pcm \in Packet
  <2>1. CASE worker' = worker
        BY <2>1 DEF IInv, TypeOK, ObjectsEvolve
  <2>2. CASE worker' = Idle
        BY <2>2 DEF Idle
  <2>3. CASE \E i \in DOMAIN objects, n \in Packet : worker' = [pc |-> "send", object |-> i, pcm |-> n]
        BY <2>3 DEF ObjectsEvolve
  <2> QED BY <2>1, <2>2, <2>3
<1>2. objects' \in Seq(SessionObject) /\ Len(objects') <= MaxSessions
      BY DEF IInv, TypeOK, ObjectsEvolve
<1>3. TypeOK'
      BY <1>1, <1>2 DEF IInv, TypeOK, subscriptions
<1>4. PollerInPhase'
      BY DEF IInv, PollerInPhase
<1>5. HandedOut' = HandedOut
      BY DEF HandedOut
<1> QED BY <1>3, <1>4, <1>5

(* A step of one session, of its thread or of the worker. *)
LEMMA SessionStep ==
    ASSUME IInv, NEW i \in DOMAIN objects, NEW t, Evolves(objects[i], t),
           objects' = [objects EXCEPT ![i] = t],
           UNCHANGED <<sessions, poller, subscriptions, log>>,
           \/ worker' = worker
           \/ worker.pc # "insert" /\ worker' = Idle
           \/ worker.pc # "insert"
              /\ \E j \in DOMAIN objects, n \in Packet : worker' = [pc |-> "send", object |-> j, pcm |-> n],
           packets' \in 0 .. MaxPackets
    PROVE  IInv'
<1>1. ObjectsEvolve
      BY OneEvolves
<1>2. poller'.todo \subseteq DOMAIN sessions
      BY DEF IInv, SessionsAreOpen
<1>3. worker' = worker \/ (worker.pc # "insert" /\ worker'.pc # "insert")
      BY DEF Idle
<1>4. /\ SessionsAreOpen' /\ OpenAreKept' /\ OnlyLastIsOpen' /\ SessionsAreOrderly'
      /\ \A j \in DOMAIN objects' : Len(objects'[j].request) <= 1
      /\ \A k \in DOMAIN sessions' : sessions'[k] \in DOMAIN objects'
      BY <1>1, <1>2, <1>3, MapStays
<1>5. TypeOK' /\ PollerInPhase' /\ HandedOut' = HandedOut
      BY <1>1, <1>4, TypeStays
<1>6. HandedOutIsOver'
      BY <1>1, <1>5, HandedOutStays
<1> QED BY <1>4, <1>5, <1>6 DEF IInv

(* The count of packets stays in its bound. *)
LEMMA PacketsType ==
    ASSUME IInv, packets' = packets
    PROVE  packets' \in 0 .. MaxPackets
BY DEF IInv, TypeOK

(* The steps of the backends' threads and servers. *)
LEMMA ThreadSteps ==
    ASSUME IInv, NEW i \in DOMAIN objects,
           Backend(i) \/ server_line(i) \/ server_closes(i)
    PROVE  IInv'
<1>1. /\ objects[i] \in SessionObject /\ Len(objects[i].request) <= 1
      /\ Orderly(objects[i])
      BY SessionFacts
<1>2. ASSUME NEW t, Evolves(objects[i], t), Becomes(i, t)
      PROVE  IInv'
  <2>1. /\ objects' = [objects EXCEPT ![i] = t] /\ worker' = worker
        /\ UNCHANGED <<sessions, poller, subscriptions, log>> /\ packets' = packets
        BY <1>2 DEF Becomes
  <2>2. packets' \in 0 .. MaxPackets
        BY <2>1, PacketsType
  <2> QED BY <1>2, <2>1, <2>2, SessionStep
<1>3. CASE server_line(i)
  <2>1. Evolves(objects[i], read_results(objects[i]))
        BY <1>1, <1>3, ReadResultsEvolves DEF server_line
  <2> QED BY <1>2, <1>3, <2>1 DEF server_line
<1>4. CASE server_closes(i)
  <2>1. Evolves(objects[i], read_ends(objects[i]))
        BY <1>1, ReadEndsEvolves
  <2> QED BY <1>2, <1>4, <2>1 DEF server_closes
<1>5. ASSUME NEW elapsed \in BOOLEAN, openai_loop(i, elapsed)
      PROVE  IInv'
  <2>1. Evolves(objects[i], worker_loop(objects[i], elapsed))
        BY <1>1, <1>5, LoopEvolves DEF openai_loop
  <2> QED BY <1>2, <1>5, <2>1 DEF openai_loop
<1>6. CASE openai_response(i)
  <2>1. PICK t \in transcribe_chunk_sync(objects[i]) : Becomes(i, t)
        BY <1>6 DEF openai_response
  <2>2. Evolves(objects[i], t)
        BY <1>1, TranscribeEvolves
  <2> QED BY <1>2, <2>1, <2>2
<1>7. \/ openai_loop(i, TRUE) \/ openai_loop(i, FALSE) \/ openai_response(i)
      \/ server_line(i) \/ server_closes(i)
      BY DEF Backend
<1> QED BY <1>3, <1>4, <1>5, <1>6, <1>7

(* The steps of the worker with a packet of audio. *)
LEMMA AudioSteps ==
    ASSUME IInv,
           \/ \E k \in Keys, frame \in FrameSizes : process_audio(k, frame)
           \/ send_to_session
    PROVE  IInv'
<1>1. ASSUME NEW k \in Keys, NEW frame \in FrameSizes, process_audio(k, frame)
      PROVE  IInv'
  <2> DEFINE i == sessions[k]
             n == [at |-> Decoded(objects[i]), samples |-> decode(objects[i], frame).pcm]
  <2>1. i \in DOMAIN objects
        BY <1>1 DEF process_audio, IInv, TypeOK
  <2>2. /\ objects[i] \in SessionObject /\ Len(objects[i].request) <= 1
        /\ Orderly(objects[i])
        BY <2>1, SessionFacts
  <2>3. Evolves(objects[i], Fed(objects[i], frame)) /\ n \in Packet
        BY <2>2, FedEvolves
  <2>4. /\ objects' = [objects EXCEPT ![i] = Fed(objects[i], frame)]
        /\ worker.pc = "idle" /\ worker' = [pc |-> "send", object |-> i, pcm |-> n]
        /\ UNCHANGED <<sessions, poller, subscriptions, log>>
        /\ packets < MaxPackets /\ packets' = packets + 1
        BY <1>1 DEF process_audio
  <2>5. packets' \in 0 .. MaxPackets
        BY <2>4, TranscriptsAssumption DEF IInv, TypeOK
  <2>6. /\ worker.pc # "insert"
        /\ \E j \in DOMAIN objects, m \in Packet : worker' = [pc |-> "send", object |-> j, pcm |-> m]
        BY <2>1, <2>3, <2>4
  <2> HIDE DEF i, n
  <2> QED BY <2>1, <2>3, <2>4, <2>5, <2>6, SessionStep
<1>2. CASE send_to_session
  <2> DEFINE i == worker.object
  <2>1. i \in DOMAIN objects /\ worker.pcm \in Packet
        BY <1>2 DEF send_to_session, IInv, TypeOK
  <2>2. /\ objects[i] \in SessionObject /\ Len(objects[i].request) <= 1
        /\ Orderly(objects[i])
        BY <2>1, SessionFacts
  <2>3. PICK t \in send_audio(objects[i], worker.pcm) : objects' = [objects EXCEPT ![i] = t]
        BY <1>2 DEF send_to_session
  <2>4. Evolves(objects[i], t)
        BY <2>1, <2>2, SendEvolves
  <2>5. /\ worker.pc # "insert" /\ worker' = Idle
        /\ UNCHANGED <<sessions, poller, subscriptions, log>> /\ packets' = packets
        BY <1>2 DEF send_to_session
  <2>6. packets' \in 0 .. MaxPackets
        BY <2>5, PacketsType
  <2> HIDE DEF i
  <2> QED BY <2>1, <2>3, <2>4, <2>5, <2>6, SessionStep
<1> QED BY <1>1, <1>2

-----------------------------------------------------------------------------
(* The worker's changes of the map. *)

(* The new session is not in the map, and the key's earlier ones are closed. *)
LEMMA StartStep ==
    ASSUME IInv, NEW k \in Keys, start_session(k)
    PROVE  IInv'
<1> DEFINE n == Len(objects)
           new == Session(k, KindOf[k], n + 1)
<1>1. objects \in Seq(SessionObject) /\ n \in Nat /\ DOMAIN objects = 1 .. n
      BY SessionFacts
<1>2. KindOf[k] \in {"simul", "openai"} /\ MaxSessions \in Nat
      BY TranscriptsAssumption
<1>3. /\ new \in SessionObject /\ new.request = <<>> /\ new.results = <<>>
      /\ new.key = k /\ new.of = n + 1 /\ new.open
  <2>1. n + 1 \in Nat
        BY <1>1
  <2> HIDE DEF n
  <2> QED BY <1>2, <2>1, SessionType
<1>4. /\ objects' = Append(objects, new) /\ n < MaxSessions /\ k \notin DOMAIN sessions
      /\ worker.pc = "idle" /\ worker' = [pc |-> "insert", key |-> k]
      /\ sessions' = sessions /\ poller' = poller /\ log' = log /\ packets' = packets
      /\ subscribers' = subscribers /\ topic' = topic /\ queue' = queue
      BY DEF start_session, subscriptions
<1> HIDE DEF new
<1>5. /\ objects' \in Seq(SessionObject) /\ Len(objects') = n + 1 /\ DOMAIN objects' = 1 .. n + 1
      /\ objects'[n + 1] = new /\ \A i \in 1 .. n : objects'[i] = objects[i]
      BY <1>1, <1>3, <1>4
<1> HIDE DEF n
<1>6. ASSUME NEW i \in DOMAIN objects'
      PROVE  i \in 1 .. n \/ i = n + 1
      BY <1>1, <1>5
<1>7. TypeOK'
  <2>1. Len(objects') <= MaxSessions
        BY <1>1, <1>2, <1>4, <1>5
  <2>2. \A i \in DOMAIN objects' : Len(objects'[i].request) <= 1
    <3>1. Len(new.request) <= 1
          BY <1>3
    <3> QED BY <1>1, <1>5, <1>6, <3>1, SessionFacts
  <2>3. \A l \in DOMAIN sessions : sessions[l] \in DOMAIN objects'
    <3>1. \A l \in DOMAIN sessions : sessions[l] \in 1 .. n
          BY <1>1 DEF IInv, TypeOK
    <3> QED BY <1>1, <1>5, <3>1
  <2> QED BY <1>4, <1>5, <2>1, <2>2, <2>3 DEF IInv, TypeOK
<1>8. PollerInPhase' /\ HandedOut' = HandedOut
      BY <1>4 DEF IInv, PollerInPhase, HandedOut
<1>9. SessionsAreOpen'
  <2>1. \A l \in DOMAIN sessions : sessions[l] \in 1 .. n
        BY <1>1 DEF IInv, TypeOK
  <2>2. n + 1 \in DOMAIN objects'
        BY <1>1, <1>5
  <2>3. \A l \in DOMAIN sessions : objects'[sessions[l]].open /\ objects'[sessions[l]].key = l
        BY <1>5, <2>1 DEF IInv, SessionsAreOpen
  <2>4. objects'[n + 1].open /\ objects'[n + 1].key = k
        BY <1>3, <1>5
  <2>5. poller'.todo \subseteq DOMAIN sessions'
        BY <1>4 DEF IInv, SessionsAreOpen
  <2> QED BY <1>4, <1>5, <2>2, <2>3, <2>4, <2>5 DEF SessionsAreOpen
<1>10. ASSUME NEW i \in 1 .. n, objects[i].open
       PROVE  objects[i].key \in DOMAIN sessions /\ sessions[objects[i].key] = i
       BY <1>1, <1>4, <1>10 DEF IInv, OpenAreKept
<1>11. OpenAreKept'
  <2> SUFFICES ASSUME NEW i \in DOMAIN objects', objects'[i].open
               PROVE  \/ objects'[i].key \in DOMAIN sessions /\ sessions[objects'[i].key] = i
                      \/ i = n + 1
      BY <1>4, <1>5 DEF OpenAreKept
  <2> QED BY <1>5, <1>6, <1>10
<1>12. OnlyLastIsOpen'
  <2> SUFFICES ASSUME NEW i \in DOMAIN objects', NEW j \in DOMAIN objects',
                      i < j, objects'[i].key = objects'[j].key
               PROVE  ~objects'[i].open
      BY DEF OnlyLastIsOpen
  <2>1. i \in 1 .. n
        BY <1>1, <1>5
  <2>2. CASE j \in 1 .. n
        BY <1>1, <1>5, <2>1, <2>2 DEF IInv, OnlyLastIsOpen
  <2>3. CASE j = n + 1
    <3>1. objects[i].key = k
          BY <1>3, <1>5, <2>1, <2>3
    <3>2. ~objects[i].open
          BY <1>4, <1>10, <2>1, <3>1
    <3> QED BY <1>5, <2>1, <3>2
  <2> QED BY <1>6, <2>2, <2>3
<1>13. SessionsAreOrderly'
  <2>1. Orderly(new)
        BY <1>3, QuietIsOrderly
  <2> QED BY <1>1, <1>3, <1>5, <1>6, <2>1, SessionFacts DEF SessionsAreOrderly
<1>14. HandedOutIsOver'
  <2>1. ASSUME NEW a \in DOMAIN HandedOut
        PROVE  /\ HandedOut[a].of \in DOMAIN objects'
               /\ objects'[HandedOut[a].of] = objects[HandedOut[a].of]
    <3>1. HandedOut[a].of \in 1 .. n
          BY <1>1 DEF IInv, HandedOutIsOver
    <3> QED BY <1>1, <1>5, <3>1
  <2> QED BY <1>8, <2>1 DEF IInv, HandedOutIsOver
<1> QED BY <1>7, <1>8, <1>9, <1>11, <1>12, <1>13, <1>14 DEF IInv

(* The new session gets into the map. *)
LEMMA InsertStep ==
    ASSUME IInv, insert
    PROVE  IInv'
<1> DEFINE k == worker.key
           n == Len(objects)
<1>1. /\ worker.pc = "insert" /\ poller.pc # "poll" /\ worker' = Idle
      /\ sessions' = [l \in DOMAIN sessions \cup {k} |-> IF l = k THEN n ELSE sessions[l]]
      /\ objects' = objects /\ poller' = poller /\ log' = log /\ packets' = packets
      /\ subscribers' = subscribers /\ topic' = topic /\ queue' = queue
      BY DEF insert, subscriptions, WriteLock
<1>2. k \in Keys /\ DOMAIN sessions \subseteq Keys
      BY <1>1 DEF IInv, TypeOK
<1>3. /\ k \notin DOMAIN sessions /\ n \in DOMAIN objects
      /\ objects[n].open /\ objects[n].key = k
      BY <1>1 DEF IInv, SessionsAreOpen
<1> HIDE DEF k, n
<1>4. /\ DOMAIN sessions' = DOMAIN sessions \cup {k} /\ sessions'[k] = n
      /\ \A l \in DOMAIN sessions : sessions'[l] = sessions[l]
      BY <1>1, <1>3
<1>5. worker'.pc = "idle"
      BY <1>1 DEF Idle
<1>6. TypeOK'
  <2>1. DOMAIN sessions' \subseteq Keys
        BY <1>2, <1>4
  <2>2. \A l \in DOMAIN sessions' : sessions'[l] \in DOMAIN objects
        BY <1>3, <1>4 DEF IInv, TypeOK
  <2> QED BY <1>1, <1>5, <2>1, <2>2 DEF IInv, TypeOK
<1>7. PollerInPhase' /\ OnlyLastIsOpen' /\ SessionsAreOrderly' /\ HandedOut' = HandedOut
      BY <1>1 DEF IInv, PollerInPhase, OnlyLastIsOpen, SessionsAreOrderly, HandedOut
<1>8. SessionsAreOpen'
  <2>1. poller'.todo \subseteq DOMAIN sessions'
        BY <1>1, <1>4 DEF IInv, SessionsAreOpen
  <2>2. \A l \in DOMAIN sessions' : objects[sessions'[l]].open /\ objects[sessions'[l]].key = l
        BY <1>3, <1>4 DEF IInv, SessionsAreOpen
  <2> QED BY <1>1, <1>5, <2>1, <2>2 DEF SessionsAreOpen
<1>9. OpenAreKept'
  <2> SUFFICES ASSUME NEW i \in DOMAIN objects, objects[i].open
               PROVE  objects[i].key \in DOMAIN sessions' /\ sessions'[objects[i].key] = i
      BY <1>1 DEF OpenAreKept
  <2>1. \/ objects[i].key \in DOMAIN sessions /\ sessions[objects[i].key] = i
        \/ i = n
        BY DEF IInv, OpenAreKept, n
  <2> QED BY <1>3, <1>4, <2>1
<1>10. HandedOutIsOver'
       BY <1>1, <1>7, NoneEvolves, HandedOutStays
<1> QED BY <1>6, <1>7, <1>8, <1>9, <1>10 DEF IInv

(* The worker begins to wait for the write lock. *)
LEMMA StopStep ==
    ASSUME IInv, NEW k \in Keys, stop_session(k)
    PROVE  IInv'
<1>1. /\ worker.pc = "idle" /\ worker' = [pc |-> "remove", key |-> k]
      /\ objects' = objects /\ sessions' = sessions
      /\ poller' = poller /\ log' = log /\ packets' = packets
      /\ subscribers' = subscribers /\ topic' = topic /\ queue' = queue
      BY DEF stop_session, subscriptions, manager
<1>2. ObjectsEvolve
      BY <1>1, NoneEvolves
<1>3. TypeOK' /\ PollerInPhase' /\ HandedOut' = HandedOut
      BY <1>1 DEF IInv, TypeOK, PollerInPhase, HandedOut
<1>4. poller'.todo \subseteq DOMAIN sessions
      BY <1>1 DEF IInv, SessionsAreOpen
<1>5. SessionsAreOpen' /\ OpenAreKept' /\ OnlyLastIsOpen' /\ SessionsAreOrderly'
      BY <1>1, <1>2, <1>4, MapStays
<1> QED BY <1>2, <1>3, <1>5, HandedOutStays DEF IInv

(* Only the session of the key is dropped, and no poll is under way. *)
LEMMA RemoveStep ==
    ASSUME IInv, remove
    PROVE  IInv'
<1> DEFINE k == worker.key
           Gone(i) == k \in DOMAIN sessions /\ i = sessions[k]
<1>1. /\ worker.pc = "remove" /\ poller.pc # "poll" /\ worker' = Idle
      /\ objects' = [i \in DOMAIN objects |-> IF Gone(i) THEN Dropped(objects[i]) ELSE objects[i]]
      /\ sessions' = [l \in DOMAIN sessions \ {k} |-> sessions[l]]
      /\ poller' = poller /\ log' = log /\ packets' = packets
      /\ subscribers' = subscribers /\ topic' = topic /\ queue' = queue
      BY DEF remove, subscriptions, WriteLock
<1>2. /\ DOMAIN sessions' = DOMAIN sessions \ {k}
      /\ \A l \in DOMAIN sessions' : sessions'[l] = sessions[l]
      BY <1>1
<1>3. ASSUME NEW i \in DOMAIN objects
      PROVE  /\ objects'[i] \in SessionObject /\ Len(objects'[i].request) <= 1
             /\ objects'[i].key = objects[i].key /\ objects'[i].of = i
             /\ Orderly(objects'[i])
             /\ objects'[i].open => objects'[i] = objects[i] /\ ~Gone(i)
             /\ ~Gone(i) => objects'[i] = objects[i]
  <2>1. /\ objects[i] \in SessionObject /\ Len(objects[i].request) <= 1
        /\ Orderly(objects[i]) /\ objects[i].of = i
        BY SessionFacts
  <2>2. CASE Gone(i)
    <3>1. objects'[i] = Dropped(objects[i])
          BY <1>1, <2>2
    <3> QED BY <2>1, <2>2, <3>1, DroppedIsClosed
  <2>3. CASE ~Gone(i)
    <3>1. objects'[i] = objects[i]
          BY <1>1, <2>3
    <3> QED BY <2>1, <2>3, <3>1
  <2> QED BY <2>2, <2>3
<1>4. /\ DOMAIN objects' = DOMAIN objects /\ Len(objects') = Len(objects)
      /\ objects' \in Seq(SessionObject)
  <2> DEFINE n == Len(objects)
  <2>1. n \in Nat /\ DOMAIN objects = 1 .. n
        BY SessionFacts
  <2>2. DOMAIN objects' = 1 .. n
        BY <1>1, <2>1
  <2>3. objects' = [i \in 1 .. n |-> objects'[i]]
        BY <1>1, <2>1
  <2>4. \A i \in 1 .. n : objects'[i] \in SessionObject
        BY <1>3, <2>1
  <2> HIDE DEF n
  <2>5. objects' \in Seq(SessionObject)
        BY <2>1, <2>3, <2>4
  <2>6. Len(objects') = n
        BY <2>1, <2>2, <2>5
  <2> QED BY <2>1, <2>2, <2>5, <2>6 DEF n
<1>5. worker'.pc = "idle"
      BY <1>1 DEF Idle
<1>6. \A l \in DOMAIN sessions : sessions[l] \in DOMAIN objects
      BY DEF IInv, TypeOK
<1>7. TypeOK'
  <2>1. DOMAIN sessions' \subseteq Keys
        BY <1>2 DEF IInv, TypeOK
  <2>2. \A l \in DOMAIN sessions' : sessions'[l] \in DOMAIN objects'
        BY <1>2, <1>4, <1>6
  <2>3. \A i \in DOMAIN objects' : Len(objects'[i].request) <= 1
        BY <1>3, <1>4
  <2> QED BY <1>1, <1>4, <1>5, <2>1, <2>2, <2>3 DEF IInv, TypeOK
<1>8. PollerInPhase' /\ HandedOut' = HandedOut
      BY <1>1 DEF IInv, PollerInPhase, HandedOut
<1>9. SessionsAreOpen'
  <2>1. poller'.todo \subseteq DOMAIN sessions'
        BY <1>1 DEF IInv, PollerInPhase
  <2>2. ASSUME NEW l \in DOMAIN sessions'
        PROVE  objects'[sessions'[l]].open /\ objects'[sessions'[l]].key = l
    <3>1. l \in DOMAIN sessions /\ l # k /\ sessions'[l] = sessions[l]
          BY <1>2
    <3>2. objects[sessions[l]].open /\ objects[sessions[l]].key = l
          BY <3>1 DEF IInv, SessionsAreOpen
    <3>3. k \in DOMAIN sessions => objects[sessions[k]].key = k
          BY DEF IInv, SessionsAreOpen
    <3>4. ~Gone(sessions[l])
          BY <3>1, <3>2, <3>3
    <3>5. objects'[sessions[l]] = objects[sessions[l]]
          BY <1>3, <1>6, <3>1, <3>4
    <3> QED BY <3>1, <3>2, <3>5
  <2> QED BY <1>5, <2>1, <2>2 DEF SessionsAreOpen
<1>10. OpenAreKept'
  <2> SUFFICES ASSUME NEW i \in DOMAIN objects, objects'[i].open
               PROVE  objects'[i].key \in DOMAIN sessions' /\ sessions'[objects'[i].key] = i
      BY <1>4 DEF OpenAreKept
  <2>1. objects'[i] = objects[i] /\ ~Gone(i)
        BY <1>3
  <2>2. objects[i].key \in DOMAIN sessions /\ sessions[objects[i].key] = i
        BY <1>1, <2>1 DEF IInv, OpenAreKept
  <2> QED BY <1>2, <2>1, <2>2
<1>11. OnlyLastIsOpen'
  <2> SUFFICES ASSUME NEW i \in DOMAIN objects, NEW j \in DOMAIN objects,
                      i < j, objects'[i].key = objects'[j].key, objects'[i].open
               PROVE  FALSE
      BY <1>4 DEF OnlyLastIsOpen
  <2>1. objects[i].key = objects[j].key /\ objects[i].open
        BY <1>3
  <2> QED BY <2>1 DEF IInv, OnlyLastIsOpen
<1>12. SessionsAreOrderly'
       BY <1>3, <1>4 DEF SessionsAreOrderly
<1>13. HandedOutIsOver'
  <2>1. ASSUME NEW a \in DOMAIN HandedOut
        PROVE  /\ HandedOut[a].of \in DOMAIN objects'
               /\ objects'[HandedOut[a].of].key = HandedOut[a].key
               /\ objects'[HandedOut[a].of].open =>
                     Over(HandedOut[a].end_ms, objects'[HandedOut[a].of])
    <3> DEFINE p == HandedOut[a]
    <3>1. /\ p.of \in DOMAIN objects /\ objects[p.of].key = p.key
          /\ objects[p.of].open => Over(p.end_ms, objects[p.of])
          BY DEF IInv, HandedOutIsOver
    <3> HIDE DEF p
    <3>2. /\ p.of \in DOMAIN objects' /\ objects'[p.of].key = p.key
          /\ objects'[p.of].open => Over(p.end_ms, objects'[p.of])
          BY <1>3, <1>4, <3>1
    <3> QED BY <3>2 DEF p
  <2> QED BY <1>8, <2>1 DEF IInv, HandedOutIsOver
<1> QED BY <1>7, <1>8, <1>9, <1>10, <1>11, <1>12, <1>13 DEF IInv

-----------------------------------------------------------------------------
(* The poller. *)

(* What the invariant says of the poller. *)
LEMMA PollerType ==
    ASSUME IInv
    PROVE  /\ poller \in [pc : {"sleep", "poll", "hand", "give"}, todo : SUBSET Keys,
                          batch : Seq(Segment), to : Seq(Subs)]
           /\ poller.batch \in Seq(Segment) /\ poller.to \in Seq(Subs)
           /\ poller.todo \subseteq Keys
BY DEF IInv, TypeOK

(* A step of the poller that takes nothing from the sessions. *)
LEMMA PollerStep ==
    ASSUME IInv, UNCHANGED <<manager, worker, subscribers, topic, log, packets>>,
           poller' \in [pc : {"sleep", "poll", "hand", "give"}, todo : SUBSET Keys,
                        batch : Seq(Segment), to : Seq(Subs)],
           PollerInPhase', poller'.todo \subseteq DOMAIN sessions, HandedOut' = HandedOut,
           queue' \in [Subs -> Seq(Segment)], \A s \in Subs : Len(queue'[s]) <= Capacity
    PROVE  IInv'
<1>1. objects' = objects /\ sessions' = sessions
      BY DEF manager
<1>2. ObjectsEvolve
      BY <1>1, NoneEvolves
<1>3. TypeOK'
      BY <1>1 DEF IInv, TypeOK
<1>4. SessionsAreOpen' /\ OpenAreKept' /\ OnlyLastIsOpen' /\ SessionsAreOrderly'
      BY <1>1, <1>2, MapStays
<1> QED BY <1>2, <1>3, <1>4, HandedOutStays DEF IInv

(* The poller takes the read lock. *)
LEMMA PollStep ==
    ASSUME IInv, poll_results
    PROVE  IInv'
<1>1. /\ poller.pc = "sleep" /\ DOMAIN sessions \subseteq Keys /\ poller.batch = <<>>
      /\ UNCHANGED <<manager, worker, subscribers, topic, log, packets>> /\ queue' = queue
      /\ poller' = [poller EXCEPT !.pc = "poll", !.todo = DOMAIN sessions]
      BY DEF poll_results, IInv, TypeOK, PollerInPhase, subscriptions
<1>2. /\ poller' \in [pc : {"sleep", "poll", "hand", "give"}, todo : SUBSET Keys,
                      batch : Seq(Segment), to : Seq(Subs)]
      /\ poller'.pc = "poll" /\ poller'.todo = DOMAIN sessions /\ poller'.batch = <<>>
      BY <1>1, PollerType
<1>3. PollerInPhase'
      BY <1>2 DEF PollerInPhase
<1>4. HandedOut' = HandedOut
      BY <1>1, <1>2 DEF HandedOut
<1>5. queue' \in [Subs -> Seq(Segment)] /\ \A s \in Subs : Len(queue'[s]) <= Capacity
      BY <1>1 DEF IInv, TypeOK
<1> QED BY <1>1, <1>2, <1>3, <1>4, <1>5, PollerStep

(* The results of a session come after what was handed out before. *)
LEMMA ResultsFollow ==
    ASSUME IInv, NEW i \in DOMAIN objects
    PROVE  AllPrecede(HandedOut, objects[i].results)
<1> SUFFICES ASSUME NEW a \in DOMAIN HandedOut, NEW b \in DOMAIN objects[i].results,
                    HandedOut[a].key = objects[i].results[b].key
             PROVE  \/ HandedOut[a].of < objects[i].results[b].of
                    \/ /\ HandedOut[a].of = objects[i].results[b].of
                       /\ HandedOut[a].end_ms <= objects[i].results[b].start_ms
    BY DEF AllPrecede, Precedes
<1> DEFINE p == HandedOut[a]
           q == objects[i].results[b]
<1>1. objects[i].open /\ q.key = objects[i].key /\ q.of = i
  <2>1. Orderly(objects[i]) /\ objects[i].of = i
        BY SessionFacts
  <2>2. objects[i].results # <<>>
        OBVIOUS
  <2> QED BY <2>1, <2>2 DEF Orderly
<1>2. /\ p.of \in DOMAIN objects /\ objects[p.of].key = p.key
      /\ objects[p.of].open => Over(p.end_ms, objects[p.of])
      BY DEF IInv, HandedOutIsOver
<1>3. p.of \in Nat /\ i \in Nat
      BY <1>2, SessionFacts
<1>4. ~(i < p.of)
      BY <1>1, <1>2 DEF IInv, OnlyLastIsOpen
<1>5. CASE p.of = i
      BY <1>1, <1>2, <1>5 DEF Over
<1>6. CASE p.of < i
      BY <1>1, <1>6
<1> HIDE DEF p, q
<1>7. p.of = i \/ p.of < i
      BY <1>3, <1>4
<1> QED BY <1>5, <1>6, <1>7 DEF p, q

(* Two sequences in order, one after the other. *)
LEMMA SequencesJoin ==
    ASSUME NEW r \in Seq(Segment), NEW q \in Seq(Segment),
           InSequence(r), InSequence(q), AllPrecede(r, q)
    PROVE  InSequence(r \o q)
<1> DEFINE n == Len(r)
           m == Len(q)
           w == r \o q
<1>1. /\ n \in Nat /\ m \in Nat /\ DOMAIN r = 1 .. n /\ DOMAIN q = 1 .. m /\ DOMAIN w = 1 .. n + m
      /\ \A i \in 1 .. n : w[i] = r[i]
      /\ \A i \in n + 1 .. n + m : w[i] = q[i - n]
      OBVIOUS
<1> HIDE DEF n, m, w
<1> SUFFICES ASSUME NEW j \in DOMAIN w, NEW i \in 1 .. j - 1
             PROVE  Precedes(w[i], w[j])
    BY DEF InSequence, w
<1>2. i \in Int /\ j \in Int /\ i < j /\ i >= 1 /\ j <= n + m
      BY <1>1
<1>3. CASE j <= n
  <2>1. j \in 1 .. n /\ i \in 1 .. n
        BY <1>1, <1>2, <1>3
  <2> QED BY <1>1, <2>1 DEF InSequence
<1>4. CASE i <= n /\ j > n
  <2>1. i \in 1 .. n /\ j \in n + 1 .. n + m /\ j - n \in 1 .. m
        BY <1>1, <1>2, <1>4
  <2> QED BY <1>1, <2>1 DEF AllPrecede
<1>5. CASE i > n
  <2>1. /\ i \in n + 1 .. n + m /\ j \in n + 1 .. n + m
        /\ j - n \in 1 .. m /\ i - n \in 1 .. (j - n) - 1
        BY <1>1, <1>2, <1>5
  <2>2. w[i] = q[i - n] /\ w[j] = q[j - n]
        BY <1>1, <2>1
  <2> QED BY <1>1, <2>1, <2>2 DEF InSequence
<1> QED BY <1>1, <1>2, <1>3, <1>4, <1>5

(* What is taken from a session is then over for it. *)
LEMMA TakenIsOver ==
    ASSUME IInv, ObjectsEvolve, NEW i \in DOMAIN objects,
           objects'[i] = [objects[i] EXCEPT !.results = <<>>],
           HandedOut' = HandedOut \o objects[i].results
    PROVE  HandedOutIsOver'
<1> DEFINE r == objects[i].results
           h == HandedOut
           n == Len(h)
           w == h \o r
<1>1. objects[i] \in SessionObject /\ Orderly(objects[i]) /\ objects[i].of = i
      BY SessionFacts
<1>2. h \in Seq(Segment) /\ r \in Seq(Segment)
      BY <1>1, HandedOutType DEF SessionObject
<1>3. InSequence(w)
  <2>1. InSequence(h) /\ InSequence(r) /\ AllPrecede(h, r)
        BY <1>1, ResultsFollow DEF IInv, HandedOutIsOver, Orderly
  <2> QED BY <1>2, <2>1, SequencesJoin
<1>4. DOMAIN objects' = DOMAIN objects
      BY DEF ObjectsEvolve
<1>5. ASSUME NEW a \in DOMAIN h
      PROVE  /\ h[a].of \in DOMAIN objects' /\ objects'[h[a].of].key = h[a].key
             /\ objects'[h[a].of].open => Over(h[a].end_ms, objects'[h[a].of])
  <2> DEFINE p == h[a]
  <2>1. p \in Segment
        BY <1>2
  <2>2. p.end_ms \in Nat
        BY <2>1 DEF Segment
  <2>3. /\ p.of \in DOMAIN objects /\ objects[p.of].key = p.key
        /\ objects[p.of].open => Over(p.end_ms, objects[p.of])
        BY DEF IInv, HandedOutIsOver
  <2> HIDE DEF p
  <2>4. Evolves(objects[p.of], objects'[p.of])
        BY <2>3 DEF ObjectsEvolve
  <2>5. /\ p.of \in DOMAIN objects' /\ objects'[p.of].key = p.key
        /\ objects'[p.of].open => Over(p.end_ms, objects'[p.of])
        BY <1>4, <2>2, <2>3, <2>4 DEF Evolves
  <2> QED BY <2>5 DEF p
<1>6. ASSUME NEW b \in DOMAIN r
      PROVE  /\ r[b].of \in DOMAIN objects' /\ objects'[r[b].of].key = r[b].key
             /\ Over(r[b].end_ms, objects'[r[b].of])
  <2> DEFINE t == objects'[i]
  <2>1. /\ r[b].key = objects[i].key /\ r[b].of = i
        /\ r[b].end_ms <= objects[i].stream_time_ms
        /\ \A c \in DOMAIN objects[i].request : r[b].end_ms <= objects[i].request[c].start_ms
        BY <1>1 DEF Orderly
  <2>2. /\ t.key = objects[i].key /\ t.results = <<>>
        /\ t.request = objects[i].request /\ t.stream_time_ms = objects[i].stream_time_ms
        BY <1>1 DEF SessionObject
  <2>3. DOMAIN t.results = {}
        BY <2>2
  <2> HIDE DEF t, r
  <2>4. Over(r[b].end_ms, t)
        BY <2>1, <2>2, <2>3 DEF Over
  <2> QED BY <1>4, <2>1, <2>2, <2>4 DEF t
<1>7. ASSUME NEW a \in DOMAIN w
      PROVE  (\E c \in DOMAIN h : w[a] = h[c]) \/ (\E c \in DOMAIN r : w[a] = r[c])
  <2> HIDE DEF h, r
  <2>1. /\ a \in 1 .. n + Len(r)
        /\ a \in 1 .. n => a \in DOMAIN h /\ w[a] = h[a]
        /\ a \in n + 1 .. n + Len(r) => a - n \in DOMAIN r /\ w[a] = r[a - n]
        BY <1>2
  <2>2. n \in Nat /\ Len(r) \in Nat
        BY <1>2
  <2>3. a \in 1 .. n \/ a \in n + 1 .. n + Len(r)
        BY <2>1, <2>2
  <2> QED BY <2>1, <2>3
<1>8. HandedOut' = w
      OBVIOUS
<1> HIDE DEF w, h, r
<1>9. ASSUME NEW a \in DOMAIN w
      PROVE  /\ w[a].of \in DOMAIN objects' /\ objects'[w[a].of].key = w[a].key
             /\ objects'[w[a].of].open => Over(w[a].end_ms, objects'[w[a].of])
      BY <1>5, <1>6, <1>7
<1> QED BY <1>3, <1>8, <1>9 DEF HandedOutIsOver

(* Joining sequences of segments is associative. *)
LEMMA JoinsAssociate ==
    ASSUME NEW p \in Seq(Segment), NEW q \in Seq(Segment), NEW r \in Seq(Segment)
    PROVE  (p \o q) \o r = p \o (q \o r)
<1> DEFINE v == (p \o q) \o r
           w == p \o (q \o r)
<1>1. v \in Seq(Segment) /\ w \in Seq(Segment)
      OBVIOUS
<1>2. Len(v) = Len(w)
      OBVIOUS
<1>3. \A i \in 1 .. Len(v) : v[i] = w[i]
      OBVIOUS
<1> HIDE DEF v, w
<1> QED BY <1>1, <1>2, <1>3 DEF v, w

(* The poller takes the results of one session. *)
LEMMA PollSessionStep ==
    ASSUME IInv, NEW k \in Keys, poll_session(k)
    PROVE  IInv'
<1> DEFINE i == sessions[k]
           r == objects[i].results
           t == [objects[i] EXCEPT !.results = <<>>]
           batch == poller.batch \o r
           last == poller.todo = {k}
           pc == IF ~last THEN "poll" ELSE IF batch = <<>> THEN "sleep" ELSE "hand"
<1>1. /\ poller.pc = "poll" /\ k \in poller.todo /\ sessions' = sessions /\ worker' = worker
      /\ subscribers' = subscribers /\ topic' = topic /\ queue' = queue /\ packets' = packets
      /\ poller' = [poller EXCEPT !.todo = @ \ {k}, !.batch = batch, !.pc = pc]
      /\ log' = IF last THEN log \o batch ELSE log
      /\ objects' = [objects EXCEPT ![i] = t]
      BY DEF poll_session, Polled, subscriptions
<1>2. k \in DOMAIN sessions /\ i \in DOMAIN objects
      BY <1>1 DEF IInv, SessionsAreOpen, TypeOK
<1>3. objects[i] \in SessionObject /\ Len(objects[i].request) <= 1 /\ Orderly(objects[i])
      BY <1>2, SessionFacts
<1>4. Evolves(objects[i], t)
      BY <1>3, TakenEvolves
<1>5. ObjectsEvolve /\ objects'[i] = t
      BY <1>1, <1>2, <1>4, OneEvolves
<1>6. log \in Seq(Segment) /\ poller.batch \in Seq(Segment) /\ r \in Seq(Segment)
      BY <1>3 DEF IInv, TypeOK, SessionObject
<1>7. batch \in Seq(Segment)
      BY <1>6
<1>8. pc \in {"sleep", "poll", "hand"} /\ (pc = "poll" <=> ~last)
      OBVIOUS
<1>9. /\ poller' \in [pc : {"sleep", "poll", "hand", "give"}, todo : SUBSET Keys,
                      batch : Seq(Segment), to : Seq(Subs)]
      /\ poller'.pc = pc /\ poller'.todo = poller.todo \ {k} /\ poller'.batch = batch
  <2> HIDE DEF batch, pc
  <2> QED BY <1>1, <1>7, <1>8, PollerType
<1>10. PollerInPhase'
  <2>1. pc # "poll" => poller.todo \ {k} = {}
        BY <1>8
  <2>2. (pc = "sleep" => batch = <<>>) /\ (pc \in {"hand", "give"} => batch # <<>>) /\ pc # "give"
        OBVIOUS
  <2> HIDE DEF batch, pc, last
  <2> QED BY <1>9, <2>1, <2>2 DEF PollerInPhase
<1>11. HandedOut' = HandedOut \o r /\ log' \in Seq(Segment)
  <2>1. HandedOut = log \o poller.batch
        BY <1>1 DEF HandedOut
  <2>2. log \o batch = HandedOut \o r
    <3> HIDE DEF r
    <3>1. (log \o poller.batch) \o r = log \o (poller.batch \o r)
          BY <1>6, JoinsAssociate
    <3> QED BY <2>1, <3>1
  <2>3. CASE last
    <3>1. log' = log \o batch
          BY <1>1, <2>3
    <3>2. log \o batch \in Seq(Segment)
          BY <1>6, <1>7
    <3>3. HandedOut' = (log \o batch) \o <<>>
          BY <1>8, <1>9, <2>3, <3>1 DEF HandedOut
    <3>4. (log \o batch) \o <<>> = log \o batch
          BY <3>2
    <3> QED BY <2>2, <3>1, <3>2, <3>3, <3>4
  <2>4. CASE ~last
    <3>1. log' = log
          BY <1>1, <2>4
    <3>2. HandedOut' = log \o batch
          BY <1>8, <1>9, <2>4, <3>1 DEF HandedOut
    <3> QED BY <1>6, <2>2, <3>1, <3>2
  <2> QED BY <2>3, <2>4
<1>12. HandedOutIsOver'
       BY <1>2, <1>5, <1>11, TakenIsOver
<1>13. poller'.todo \subseteq DOMAIN sessions
       BY <1>9 DEF IInv, SessionsAreOpen
<1>14. /\ SessionsAreOpen' /\ OpenAreKept' /\ OnlyLastIsOpen' /\ SessionsAreOrderly'
       /\ \A j \in DOMAIN objects' : Len(objects'[j].request) <= 1
       /\ \A l \in DOMAIN sessions' : sessions'[l] \in DOMAIN objects'
       BY <1>1, <1>5, <1>13, MapStays
<1>15. TypeOK'
  <2>1. /\ objects' \in Seq(SessionObject) /\ Len(objects') <= MaxSessions
        /\ DOMAIN objects' = DOMAIN objects
        BY <1>5 DEF IInv, TypeOK, ObjectsEvolve
  <2> HIDE DEF batch, pc, last, r, t, i
  <2> QED BY <1>1, <1>9, <1>11, <1>14, <2>1 DEF IInv, TypeOK
<1> QED BY <1>10, <1>12, <1>14, <1>15 DEF IInv

(* The poller goes on to the next subscriber, result or sleep. *)
LEMMA DistributedType ==
    ASSUME IInv, poller.pc \in {"hand", "give"}, NEW to \in Seq(Subs), Distributed(to)
    PROVE  /\ poller' \in [pc : {"sleep", "poll", "hand", "give"}, todo : SUBSET Keys,
                           batch : Seq(Segment), to : Seq(Subs)]
           /\ PollerInPhase' /\ poller'.todo \subseteq DOMAIN sessions /\ poller'.pc # "poll"
<1>1. poller.todo = {} /\ poller.batch # <<>> /\ poller.batch \in Seq(Segment)
      BY DEF IInv, PollerInPhase, TypeOK
<1>2. CASE to # <<>>
  <2>1. poller' = [poller EXCEPT !.pc = "give", !.to = to]
        BY <1>2 DEF Distributed
  <2>2. /\ poller' \in [pc : {"sleep", "poll", "hand", "give"}, todo : SUBSET Keys,
                        batch : Seq(Segment), to : Seq(Subs)]
        /\ poller'.pc = "give" /\ poller'.to = to
        /\ poller'.todo = {} /\ poller'.batch = poller.batch
        BY <1>1, <2>1, PollerType
  <2>3. PollerInPhase'
        BY <1>1, <1>2, <2>2 DEF PollerInPhase
  <2> QED BY <2>2, <2>3
<1>3. CASE to = <<>>
  <2> DEFINE pc == IF Len(poller.batch) = 1 THEN "sleep" ELSE "hand"
             rest == Tail(poller.batch)
  <2>1. poller' = [poller EXCEPT !.pc = pc, !.to = <<>>, !.batch = rest]
        BY <1>3 DEF Distributed
  <2>2. rest \in Seq(Segment) /\ Len(rest) = Len(poller.batch) - 1 /\ <<>> \in Seq(Subs)
        BY <1>1
  <2>3. pc \in {"sleep", "hand"} /\ (pc = "sleep" => rest = <<>>) /\ (pc = "hand" => rest # <<>>)
    <3>1. Len(poller.batch) = 1 <=> rest = <<>>
      <4>1. Len(poller.batch) \in Nat
            BY <1>1
      <4>2. Len(rest) = 0 <=> rest = <<>>
            BY <2>2, EmptySeq, Zenon
      <4> HIDE DEF rest
      <4> QED BY <2>2, <4>1, <4>2
    <3> HIDE DEF rest
    <3> QED BY <3>1
  <2> HIDE DEF pc, rest
  <2>4. /\ poller' \in [pc : {"sleep", "poll", "hand", "give"}, todo : SUBSET Keys,
                        batch : Seq(Segment), to : Seq(Subs)]
        /\ poller'.pc = pc /\ poller'.todo = {} /\ poller'.batch = rest
        BY <1>1, <2>1, <2>2, <2>3, PollerType
  <2>5. PollerInPhase'
        BY <2>3, <2>4 DEF PollerInPhase
  <2> QED BY <2>3, <2>4, <2>5
<1> QED BY <1>2, <1>3

(* The distribution of one result. *)
LEMMA DistributeSteps ==
    ASSUME IInv, distribute \/ try_send
    PROVE  IInv'
<1>0. queue \in [Subs -> Seq(Segment)] /\ \A s \in Subs : Len(queue[s]) <= Capacity
      BY DEF IInv, TypeOK
<1>1. ASSUME poller.pc \in {"hand", "give"}, NEW to \in Seq(Subs), Distributed(to),
             UNCHANGED <<manager, worker, subscribers, topic, log, packets>>,
             queue' \in [Subs -> Seq(Segment)], \A s \in Subs : Len(queue'[s]) <= Capacity
      PROVE  IInv'
  <2>1. /\ poller' \in [pc : {"sleep", "poll", "hand", "give"}, todo : SUBSET Keys,
                        batch : Seq(Segment), to : Seq(Subs)]
        /\ PollerInPhase' /\ poller'.todo \subseteq DOMAIN sessions /\ poller'.pc # "poll"
        BY <1>1, DistributedType
  <2>2. HandedOut' = HandedOut
        BY <1>1, <2>1 DEF HandedOut
  <2> QED BY <1>1, <2>1, <2>2, PollerStep
<1>2. Head(poller.batch) \in Segment \/ poller.pc \notin {"hand", "give"}
  <2>1. poller.batch \in Seq(Segment) /\ (poller.pc \in {"hand", "give"} => poller.batch # <<>>)
        BY DEF IInv, PollerInPhase, TypeOK
  <2> QED BY <2>1
<1>3. CASE distribute
  <2> DEFINE to == subscribers[Head(poller.batch).key[1]]
  <2>1. /\ poller.pc = "hand" /\ Distributed(to) /\ queue' = queue
        /\ UNCHANGED <<manager, worker, subscribers, topic, log, packets>>
        BY <1>3 DEF distribute, subscriptions
  <2>2. Head(poller.batch).key \in Keys
        BY <1>2, <2>1 DEF Segment
  <2>3. Head(poller.batch).key[1] \in SessionIds
        BY <2>2 DEF SessionIds
  <2>4. to \in Seq(Subs)
        BY <2>3 DEF IInv, TypeOK
  <2> HIDE DEF to
  <2> QED BY <1>0, <1>1, <2>1, <2>4
<1>4. CASE try_send
  <2> DEFINE s == Head(poller.to)
             q == Head(poller.batch)
  <2>1. /\ poller.pc = "give" /\ Distributed(Tail(poller.to))
        /\ UNCHANGED <<manager, worker, subscribers, topic, log, packets>>
        /\ queue' = IF topic[s] = "closed" \/ Len(queue[s]) = Capacity THEN queue
                    ELSE [queue EXCEPT ![s] = Append(@, q)]
        BY <1>4 DEF try_send
  <2>2. poller.to \in Seq(Subs) /\ poller.to # <<>>
        BY <2>1 DEF IInv, PollerInPhase, TypeOK
  <2>3. s \in Subs /\ Tail(poller.to) \in Seq(Subs)
        BY <2>2
  <2>4. q \in Segment
        BY <1>2, <2>1
  <2> HIDE DEF s, q
  <2>5. queue[s] \in Seq(Segment) /\ Capacity \in Nat /\ Len(queue[s]) <= Capacity
        BY <1>0, <2>3, TranscriptsAssumption
  <2>6. queue' \in [Subs -> Seq(Segment)] /\ \A u \in Subs : Len(queue'[u]) <= Capacity
    <3>1. CASE topic[s] = "closed" \/ Len(queue[s]) = Capacity
          BY <1>0, <2>1, <3>1
    <3>2. CASE ~(topic[s] = "closed" \/ Len(queue[s]) = Capacity)
      <4>1. Append(queue[s], q) \in Seq(Segment) /\ Len(Append(queue[s], q)) <= Capacity
            BY <2>4, <2>5, <3>2
      <4>2. queue' = [queue EXCEPT ![s] = Append(queue[s], q)]
            BY <2>1, <3>2
      <4> QED BY <1>0, <4>1, <4>2
    <3> QED BY <3>1, <3>2
  <2> QED BY <1>1, <2>1, <2>3, <2>6
<1> QED BY <1>3, <1>4

(* The steps of the subscribers. *)
LEMMA SubscriberSteps ==
    ASSUME IInv, NEW s \in Subs, subscribe_transcription(s) \/ take(s) \/ hang_up(s)
    PROVE  IInv'
<1>1. /\ objects' = objects /\ sessions' = sessions /\ worker' = worker
      /\ poller' = poller /\ log' = log /\ packets' = packets
      BY DEF subscribe_transcription, take, hang_up, manager
<1>2. ObjectsEvolve
      BY <1>1, NoneEvolves
<1>3. PollerInPhase' /\ HandedOut' = HandedOut
      BY <1>1 DEF IInv, PollerInPhase, HandedOut
<1>4. poller'.todo \subseteq DOMAIN sessions
      BY <1>1 DEF IInv, SessionsAreOpen
<1>5. SessionsAreOpen' /\ OpenAreKept' /\ OnlyLastIsOpen' /\ SessionsAreOrderly'
      BY <1>1, <1>2, <1>4, MapStays
<1>6. /\ subscribers \in [SessionIds -> Seq(Subs)]
      /\ topic \in [Subs -> SessionIds \cup {"none", "closed"}]
      /\ queue \in [Subs -> Seq(Segment)] /\ \A u \in Subs : Len(queue[u]) <= Capacity
      BY DEF IInv, TypeOK
<1>7. TopicOf[s] \in SessionIds /\ Capacity \in Nat
      BY TranscriptsAssumption
<1>8. /\ subscribers' \in [SessionIds -> Seq(Subs)]
      /\ topic' \in [Subs -> SessionIds \cup {"none", "closed"}]
      /\ queue' \in [Subs -> Seq(Segment)] /\ \A u \in Subs : Len(queue'[u]) <= Capacity
  <2>1. CASE subscribe_transcription(s)
    <3>1. Append(subscribers[TopicOf[s]], s) \in Seq(Subs)
          BY <1>6, <1>7
    <3> QED BY <1>6, <1>7, <2>1, <3>1 DEF subscribe_transcription
  <2>2. CASE take(s)
    <3>1. queue[s] \in Seq(Segment) /\ queue[s] # <<>> /\ Len(queue[s]) <= Capacity
          BY <1>6, <2>2 DEF take
    <3>2. Tail(queue[s]) \in Seq(Segment) /\ Len(Tail(queue[s])) <= Capacity
          BY <1>7, <3>1
    <3>3. /\ subscribers' = subscribers /\ topic' = topic
          /\ queue' = [queue EXCEPT ![s] = Tail(queue[s])]
          BY <2>2 DEF take
    <3> QED BY <1>6, <3>2, <3>3
  <2>3. CASE hang_up(s)
    <3>1. <<>> \in Seq(Segment) /\ Len(<<>>) <= Capacity
          BY <1>7
    <3>2. /\ subscribers' = subscribers /\ topic' = [topic EXCEPT ![s] = "closed"]
          /\ queue' = [queue EXCEPT ![s] = <<>>]
          BY <2>3 DEF hang_up
    <3> QED BY <1>6, <3>1, <3>2
  <2> QED BY <2>1, <2>2, <2>3
<1>9. TypeOK'
      BY <1>1, <1>8 DEF IInv, TypeOK
<1> QED BY <1>2, <1>3, <1>5, <1>9, HandedOutStays DEF IInv

-----------------------------------------------------------------------------
(* There are no sessions at the start. *)
LEMMA InitHolds == Init => IInv
<1> SUFFICES ASSUME Init PROVE IInv
    OBVIOUS
<1>1. /\ objects = <<>> /\ sessions = [k \in {} |-> 0] /\ worker = Idle
      /\ poller = [pc |-> "sleep", todo |-> {}, batch |-> <<>>, to |-> <<>>]
      /\ subscribers = [t \in SessionIds |-> <<>>] /\ topic = [s \in Subs |-> "none"]
      /\ queue = [s \in Subs |-> <<>>] /\ log = <<>> /\ packets = 0
      BY DEF Init
<1>2. /\ <<>> \in Seq(SessionObject) /\ <<>> \in Seq(Segment) /\ <<>> \in Seq(Subs)
      /\ Len(objects) = 0 /\ DOMAIN objects = {} /\ DOMAIN sessions = {} /\ Len(<<>>) = 0
      BY <1>1
<1>3. worker.pc = "idle"
      BY <1>1 DEF Idle
<1>4. /\ poller \in [pc : {"sleep", "poll", "hand", "give"}, todo : SUBSET Keys,
                     batch : Seq(Segment), to : Seq(Subs)]
      /\ poller.pc = "sleep" /\ poller.todo = {} /\ poller.batch = <<>>
  <2>1. {} \in SUBSET Keys
        OBVIOUS
  <2> QED BY <1>1, <1>2, <2>1
<1>5. TypeOK
  <2>1. 0 <= MaxSessions /\ 0 \in 0 .. MaxPackets /\ 0 <= Capacity
        BY TranscriptsAssumption
  <2>2. /\ subscribers \in [SessionIds -> Seq(Subs)]
        /\ topic \in [Subs -> SessionIds \cup {"none", "closed"}]
        /\ queue \in [Subs -> Seq(Segment)]
        BY <1>1, <1>2
  <2>3. \A s \in Subs : Len(queue[s]) <= Capacity
        BY <1>1, <1>2, <2>1
  <2> QED BY <1>1, <1>2, <1>3, <1>4, <2>1, <2>2, <2>3 DEF TypeOK
<1>6. PollerInPhase
      BY <1>4 DEF PollerInPhase
<1>7. SessionsAreOpen /\ OpenAreKept /\ OnlyLastIsOpen /\ SessionsAreOrderly
      BY <1>2, <1>3, <1>4 DEF SessionsAreOpen, OpenAreKept, OnlyLastIsOpen, SessionsAreOrderly
<1>8. HandedOutIsOver
  <2>1. HandedOut = <<>>
        BY <1>1, <1>4 DEF HandedOut
  <2>2. DOMAIN HandedOut = {}
        BY <2>1
  <2> QED BY <2>1, <2>2 DEF HandedOutIsOver, InSequence
<1> QED BY <1>5, <1>6, <1>7, <1>8 DEF IInv

(* Every step preserves the invariant. *)
LEMMA NextHolds == IInv /\ [Next]_vars => IInv'
<1> SUFFICES ASSUME IInv, [Next]_vars PROVE IInv'
    OBVIOUS
<1>1. CASE Command
      BY <1>1, StartStep, StopStep, AudioSteps DEF Command
<1>2. CASE send_to_session
      BY <1>2, AudioSteps
<1>3. CASE Writing
      BY <1>3, InsertStep, RemoveStep DEF Writing
<1>4. CASE Polling
      BY <1>4, PollStep, DistributeSteps DEF Polling
<1>5. CASE \E k \in Keys : poll_session(k)
      BY <1>5, PollSessionStep
<1>6. CASE \E i \in DOMAIN objects : Backend(i) \/ server_line(i) \/ server_closes(i)
      BY <1>6, ThreadSteps
<1>7. CASE \E s \in Subs : subscribe_transcription(s) \/ take(s) \/ hang_up(s)
      BY <1>7, SubscriberSteps
<1>8. CASE UNCHANGED vars
  <2>1. /\ objects' = objects /\ sessions' = sessions /\ worker' = worker
        /\ poller' = poller /\ log' = log /\ packets' = packets
        /\ subscribers' = subscribers /\ topic' = topic /\ queue' = queue
        BY <1>8 DEF vars, manager, subscriptions
  <2> QED BY <2>1 DEF IInv, TypeOK, PollerInPhase, SessionsAreOpen, OpenAreKept, OnlyLastIsOpen,
                      SessionsAreOrderly, HandedOutIsOver, HandedOut
<1> QED BY <1>1, <1>2, <1>3, <1>4, <1>5, <1>6, <1>7, <1>8 DEF Next

(* The inductive invariant holds: the sessions of the map are the open     *)
(* ones, and what was handed out is over for its session.                  *)
THEOREM Invariance == Spec => []IInv
BY InitHolds, NextHolds, PTL DEF Spec

(* The type invariant of the manager, the sessions and the distribution:   *)
(* in particular, one request of a session at a time is under way, and no  *)
(* subscriber's queue exceeds its capacity.                                *)
THEOREM TypeCorrect == Spec => []TypeOK
<1>1. IInv => TypeOK
      BY DEF IInv
<1> QED BY <1>1, Invariance, PTL

(* The transcript of an endpoint is in order, through failed requests,     *)
(* sessions stopped and started again, and polls in any order.             *)
THEOREM TranscriptOrdered == Spec => []TranscriptInOrder
<1>1. ASSUME IInv PROVE TranscriptInOrder
  <2>1. InSequence(HandedOut)
        BY <1>1 DEF IInv, HandedOutIsOver
  <2>2. ASSUME NEW i \in DOMAIN objects
        PROVE  /\ InSequence(objects[i].results)
               /\ AllPrecede(HandedOut, objects[i].results)
        BY <1>1, ResultsFollow, SessionFacts DEF Orderly
  <2>3. ASSUME NEW i \in DOMAIN objects, NEW j \in DOMAIN objects, i < j,
               NEW a \in DOMAIN objects[i].results, NEW b \in DOMAIN objects[j].results
        PROVE  objects[i].results[a].of < objects[j].results[b].of
    <3>1. objects[i].results[a].of = i /\ objects[j].results[b].of = j
          BY <1>1, SessionFacts DEF Orderly
    <3> QED BY <2>3, <3>1
  <2>4. ASSUME NEW i \in DOMAIN objects, NEW j \in DOMAIN objects, i < j
        PROVE  AllPrecede(objects[i].results, objects[j].results)
        BY <2>3, <2>4 DEF AllPrecede, Precedes
  <2> QED BY <2>1, <2>2, <2>4 DEF TranscriptInOrder
<1> QED BY <1>1, Invariance, PTL

(* No session that a poll has yet to look at is taken away meanwhile: the  *)
(* worker removes sessions under the write lock only.                      *)
THEOREM PolledStay == Spec => []PolledSessionsStay
<1>1. IInv => PolledSessionsStay
      BY DEF IInv, SessionsAreOpen, PolledSessionsStay
<1> QED BY <1>1, Invariance, PTL

-----------------------------------------------------------------------------
(* The accounting of the audio. *)

(* The rest of a packet stays; what leaves is whole chunks of the stream. *)
LEMMA ChunksLeave ==
    ASSUME NEW fed \in Nat, NEW b \in Nat, NEW frame \in Nat,
           b <= fed, (fed - b) % 960 = 0
    PROVE  /\ (b + frame) % 960 <= fed + frame
           /\ ((fed + frame) - ((b + frame) % 960)) % 960 = 0
           /\ (((fed + frame) - ((b + frame) % 960)) \div 960) * 320
                = ((fed - b) \div 960) * 320 + ((b + frame) \div 960) * 320
           /\ ((b + frame) \div 960) * 320 \in Nat
           /\ (((b + frame) \div 960) * 320) % 16 = 0
<1> DEFINE k == (b + frame) \div 960
           r == (b + frame) % 960
           c == (fed - b) \div 960
<1>1. k \in Nat /\ r \in 0 .. 959 /\ b + frame = 960 * k + r
      OBVIOUS
<1>2. c \in Nat /\ fed - b = 960 * c
      OBVIOUS
<1> HIDE DEF k, r, c
<1>3. (fed + frame) - r = 960 * (c + k) /\ r <= fed + frame
      BY <1>1, <1>2
<1>4. ((fed + frame) - r) \div 960 = c + k /\ ((fed + frame) - r) % 960 = 0
  <2> DEFINE d == c + k
  <2>1. d \in Nat
        BY <1>1, <1>2
  <2> HIDE DEF d
  <2>2. (960 * d) \div 960 = d /\ (960 * d) % 960 = 0
        BY <2>1
  <2> QED BY <1>3, <2>2 DEF d
<1>5. (c + k) * 320 = c * 320 + k * 320
      BY <1>1, <1>2
<1>6. k * 320 \in Nat /\ (k * 320) % 16 = 0
      BY <1>1
<1> QED BY <1>3, <1>4, <1>5, <1>6 DEF k, r, c

(* A whole number of milliseconds is added to the clock exactly. *)
LEMMA ClockIsExact ==
    ASSUME NEW b \in Nat, NEW ms \in Nat, b % 16 = 0
    PROVE  /\ ((ms + duration_ms(b)) * SAMPLE_RATE) \div 1000 = b + (ms * SAMPLE_RATE) \div 1000
           /\ (ms * SAMPLE_RATE) \div 1000 \in Nat
<1> DEFINE k == b \div 16
<1>1. k \in Nat /\ b = 16 * k
      OBVIOUS
<1>2. (b * 1000) \div 16000 = k
  <2> HIDE DEF k
  <2>1. b * 1000 = 16000 * k
        BY <1>1
  <2>2. (16000 * k) \div 16000 = k
        BY <1>1
  <2> QED BY <2>1, <2>2
<1> HIDE DEF k
<1>3. \A m \in Nat : (m * 16000) \div 1000 = m * 16
      OBVIOUS
<1>4. ms + k \in Nat /\ (ms + k) * 16 = b + ms * 16
      BY <1>1
<1> QED BY <1>2, <1>3, <1>4 DEF duration_ms, SAMPLE_RATE

(* Whole milliseconds add up to whole milliseconds. *)
LEMMA WholeSum ==
    ASSUME NEW a \in Nat, NEW b \in Nat, a % 16 = 0, b % 16 = 0
    PROVE  (a + b) % 16 = 0
OBVIOUS

(* The numbers of a session. *)
LEMMA NumbersOf ==
    ASSUME NEW s \in SessionObject
    PROVE  /\ s.buffer \in Nat /\ s.stream_time_ms \in Nat /\ s.fed \in Nat
           /\ s.input_buffer \in Nat /\ s.audio \in Seq(Packet)
           /\ s.kind \in {"simul", "openai"} /\ s.open \in BOOLEAN
           /\ Taken(s) \in Nat /\ Decoded(s) \in Int
           /\ (s.stream_time_ms * SAMPLE_RATE) \div 1000 \in Nat
<1>1. /\ s.buffer \in Nat /\ s.stream_time_ms \in Nat /\ s.fed \in Nat
      /\ s.input_buffer \in 0 .. 959 /\ s.audio \in Seq(Packet)
      /\ s.kind \in {"simul", "openai"} /\ s.open \in BOOLEAN
      BY DEF SessionObject, chunk_size
<1>2. s.input_buffer \in Nat
  <2> DEFINE b == s.input_buffer
  <2>1. b \in 0 .. 959
        BY <1>1
  <2> HIDE DEF b
  <2>2. b \in Nat
        BY <2>1
  <2> QED BY <2>2 DEF b
<1>3. (s.stream_time_ms * SAMPLE_RATE) \div 1000 \in Nat
      BY <1>1 DEF SAMPLE_RATE
<1>4. Taken(s) \in Nat
      BY <1>1, <1>3 DEF Taken
<1>5. Decoded(s) \in Int
      BY <1>1, <1>2 DEF Decoded, chunk_size, resampled
<1> QED BY <1>1, <1>2, <1>3, <1>4, <1>5

(* The first packet is taken out of the channel. *)
LEMMA LeadsOn ==
    ASSUME NEW q \in Seq(Packet), q # <<>>, NEW from \in Int, NEW to, Leads(from, q, to)
    PROVE  Leads(from + Head(q).samples, Tail(q), to)
<1> DEFINE n == Len(q)
           r == Tail(q)
<1>1. /\ n \in Nat /\ n > 0 /\ DOMAIN q = 1 .. n /\ Head(q) = q[1] /\ 1 \in DOMAIN q
      /\ r \in Seq(Packet) /\ Len(r) = n - 1 /\ DOMAIN r = 1 .. n - 1
      /\ \A j \in 1 .. n - 1 : r[j] = q[j + 1]
      OBVIOUS
<1>2. r = <<>> <=> n = 1
  <2>1. Len(r) = 0 <=> r = <<>>
        BY <1>1, EmptySeq, Zenon
  <2> HIDE DEF r, n
  <2> QED BY <1>1, <2>1
<1> HIDE DEF n, r
<1>3. q[1].at = from
      BY <1>1 DEF Leads
<1>4. ASSUME NEW j \in DOMAIN r
      PROVE  r[j].at = IF j = 1 THEN from + q[1].samples ELSE r[j - 1].at + r[j - 1].samples
  <2>1. j \in 1 .. n - 1 /\ j + 1 \in DOMAIN q /\ j + 1 # 1 /\ (j + 1) - 1 = j /\ r[j] = q[j + 1]
        BY <1>1
  <2>2. q[j + 1].at = q[j].at + q[j].samples
        BY <2>1 DEF Leads
  <2>3. CASE j = 1
        BY <1>3, <2>1, <2>2, <2>3
  <2>4. CASE j # 1
    <3>1. j - 1 \in 1 .. n - 1 /\ (j - 1) + 1 = j
          BY <1>1, <2>1, <2>4
    <3>2. r[j - 1] = q[j]
          BY <1>1, <3>1
    <3> QED BY <2>1, <2>2, <2>4, <3>2
  <2> QED BY <2>3, <2>4
<1>5. to = q[n].at + q[n].samples
      BY DEF Leads, Last, n
<1>6. CASE n = 1
      BY <1>1, <1>2, <1>3, <1>4, <1>5, <1>6 DEF Leads, r
<1>7. CASE n # 1
  <2>1. n - 1 \in 1 .. n - 1 /\ (n - 1) + 1 = n
        BY <1>1, <1>7
  <2>2. Last(r) = q[n]
        BY <1>1, <2>1 DEF Last
  <2> QED BY <1>1, <1>2, <1>4, <1>5, <1>7, <2>2 DEF Leads, r
<1> QED BY <1>6, <1>7

(* The next packet is put into the channel. *)
LEMMA LeadsFurther ==
    ASSUME NEW q \in Seq(Packet), NEW p \in Packet, NEW from, Leads(from, q, p.at)
    PROVE  Leads(from, Append(q, p), p.at + p.samples)
<1> DEFINE n == Len(q)
           r == Append(q, p)
<1>1. /\ n \in Nat /\ DOMAIN q = 1 .. n /\ r \in Seq(Packet) /\ Len(r) = n + 1 /\ DOMAIN r = 1 .. n + 1
      /\ r[n + 1] = p /\ \A j \in 1 .. n : r[j] = q[j]
      OBVIOUS
<1>2. r # <<>> /\ (q = <<>> <=> n = 0)
  <2>1. Len(r) # 0 /\ Len(<<>>) = 0
        BY <1>1
  <2>2. q = <<>> <=> Len(q) = 0
        BY EmptySeq, Zenon
  <2> QED BY <2>1, <2>2
<1> HIDE DEF n, r
<1>3. ASSUME NEW j \in DOMAIN r
      PROVE  r[j].at = IF j = 1 THEN from ELSE r[j - 1].at + r[j - 1].samples
  <2>1. CASE j \in 1 .. n
    <3>1. j # 1 => j - 1 \in 1 .. n
          BY <1>1, <2>1
    <3> QED BY <1>1, <2>1, <3>1 DEF Leads
  <2>2. CASE j = n + 1 /\ n = 0
        BY <1>1, <1>2, <2>2 DEF Leads
  <2>3. CASE j = n + 1 /\ n # 0
    <3>1. n \in 1 .. n /\ j # 1 /\ j - 1 = n
          BY <1>1, <2>3
    <3>2. p.at = q[n].at + q[n].samples
          BY <1>2, <2>3 DEF Leads, Last, n
    <3> QED BY <1>1, <2>3, <3>1, <3>2
  <2> QED BY <1>1, <2>1, <2>2, <2>3
<1>4. Last(r) = p
      BY <1>1 DEF Last
<1> QED BY <1>2, <1>3, <1>4 DEF Leads, r

(* A session goes on: its audio stays accounted for, and an open one stays *)
(* open and has decoded as much as before.                                 *)
Keeps(s, t) ==
    /\ \A h \in Nat : Accounted(s, h) => Accounted(t, h)
    /\ s.open => t.open /\ Decoded(t) = Decoded(s)

(* Two such steps are one. *)
LEMMA KeepsOn ==
    ASSUME NEW s, NEW t, NEW u, Keeps(s, t), Keeps(t, u)
    PROVE  Keeps(s, u)
BY DEF Keeps

(* A step that leaves the audio alone. *)
LEMMA QuietKeeps ==
    ASSUME NEW s \in SessionObject, NEW t \in SessionObject,
           t.kind = s.kind, t.open = s.open, t.input_buffer = s.input_buffer,
           t.fed = s.fed, t.audio = s.audio, t.buffer = s.buffer,
           t.stream_time_ms = s.stream_time_ms
    PROVE  Keeps(s, t)
<1>1. Taken(t) = Taken(s) /\ Decoded(t) = Decoded(s) /\ (Exact(t) <=> Exact(s))
      BY DEF Taken, Decoded, Exact
<1>2. ASSUME NEW h \in Nat, Accounted(s, h) PROVE Accounted(t, h)
      BY <1>1, <1>2 DEF Accounted
<1> QED BY <1>1, <1>2 DEF Keeps

(* Forgetting a dropped session, for which there is nothing in hand. *)
LEMMA ForgottenKeeps ==
    ASSUME NEW s \in SessionObject
    PROVE  Keeps(s, Forgotten(s))
<1>1. CASE s.open \/ s.thread # "ended"
  <2>1. Forgotten(s) = s
        BY <1>1 DEF Forgotten
  <2> QED BY <2>1 DEF Keeps
<1>2. CASE ~s.open /\ s.thread = "ended"
  <2> DEFINE t == Forgotten(s)
  <2>1. /\ t.input_buffer = 0 /\ t.fed = 0 /\ t.audio = <<>> /\ t.buffer = 0
        /\ t.stream_time_ms = 0 /\ t.kind = s.kind
        BY <1>2 DEF Forgotten, Session
  <2> HIDE DEF t
  <2>2. Taken(t) = 0 /\ Decoded(t) = 0
        BY <2>1 DEF Taken, Decoded, SAMPLE_RATE, chunk_size, resampled
  <2>3. Exact(t)
    <3>1. DOMAIN t.audio = {}
          BY <2>1
    <3> QED BY <2>1, <3>1 DEF Exact, chunk_size
  <2>4. ASSUME NEW h \in Nat, Accounted(s, h) PROVE Accounted(t, h)
    <3>1. h = 0
          BY <1>2, <2>4 DEF Accounted
    <3>2. Leads(0, t.audio, 0)
      <4>1. DOMAIN t.audio = {}
            BY <2>1
      <4> QED BY <2>1, <4>1 DEF Leads
    <3> QED BY <2>2, <2>3, <3>1, <3>2 DEF Accounted
  <2> QED BY <1>2, <2>4 DEF Keeps, t
<1> QED BY <1>1, <1>2

(* The buffered audio is sent off, and the clock moves on by its length. *)
LEMMA ClockKeeps ==
    ASSUME NEW s \in SessionObject, NEW t \in SessionObject,
           t.kind = s.kind, t.open = s.open, t.input_buffer = s.input_buffer,
           t.fed = s.fed, t.audio = s.audio, t.buffer = 0,
           t.stream_time_ms = s.stream_time_ms + duration_ms(s.buffer)
    PROVE  Keeps(s, t)
<1>1. Decoded(t) = Decoded(s)
      BY DEF Decoded
<1>2. ASSUME NEW h \in Nat, Accounted(s, h) PROVE Accounted(t, h)
  <2>1. s.buffer \in Nat /\ s.stream_time_ms \in Nat /\ s.buffer % 16 = 0
        BY <1>2, NumbersOf DEF Accounted, Exact
  <2>2. Taken(t) = Taken(s)
    <3>1. /\ (t.stream_time_ms * SAMPLE_RATE) \div 1000
               = s.buffer + (s.stream_time_ms * SAMPLE_RATE) \div 1000
          /\ (s.stream_time_ms * SAMPLE_RATE) \div 1000 \in Nat
          BY <2>1, ClockIsExact
    <3>2. Taken(t) = 0 + (t.stream_time_ms * SAMPLE_RATE) \div 1000
          BY DEF Taken
    <3> QED BY <2>1, <3>1, <3>2 DEF Taken
  <2>3. Exact(t)
        BY <1>2 DEF Accounted, Exact
  <2> QED BY <1>1, <1>2, <2>2, <2>3 DEF Accounted
<1> QED BY <1>1, <1>2 DEF Keeps

(* A request of the OpenAI worker. *)
LEMMA FlushKeeps ==
    ASSUME NEW s \in SessionObject, NEW elapsed \in BOOLEAN, flush(s, elapsed) \in SessionObject
    PROVE  Keeps(s, flush(s, elapsed))
<1>1. CASE ~should_flush(s, elapsed)
      BY <1>1, QuietKeeps DEF flush
<1>2. CASE should_flush(s, elapsed)
  <2> DEFINE t == flush(s, elapsed)
  <2>1. /\ t.kind = s.kind /\ t.open = s.open /\ t.input_buffer = s.input_buffer
        /\ t.fed = s.fed /\ t.audio = s.audio /\ t.buffer = 0
        /\ t.stream_time_ms = s.stream_time_ms + duration_ms(s.buffer)
        BY <1>2 DEF flush, SessionObject
  <2> HIDE DEF t
  <2>2. t \in SessionObject
        BY DEF t
  <2> QED BY <2>1, <2>2, ClockKeeps DEF t
<1> QED BY <1>1, <1>2

(* A turn of the OpenAI worker's loop. *)
LEMMA LoopKeeps ==
    ASSUME NEW s \in SessionObject, Len(s.request) <= 1, Orderly(s), s.kind = "openai",
           NEW elapsed \in BOOLEAN
    PROVE  Keeps(s, worker_loop(s, elapsed))
<1>1. CASE s.audio # <<>>
  <2> DEFINE p == Head(s.audio)
             t == [s EXCEPT !.buffer = @ + p.samples, !.audio = Tail(@)]
  <2>1. s.audio \in Seq(Packet) /\ s.buffer \in Nat /\ s.stream_time_ms \in Nat
        BY NumbersOf
  <2>2. p \in Packet /\ Tail(s.audio) \in Seq(Packet)
        BY <1>1, <2>1
  <2>3. p.samples \in Nat /\ s.buffer + p.samples \in Nat
        BY <2>1, <2>2 DEF Packet
  <2>4. /\ t \in SessionObject
        /\ t.key = s.key /\ t.kind = s.kind /\ t.of = s.of /\ t.open = s.open
        /\ t.results = s.results /\ t.request = s.request /\ t.stream_time_ms = s.stream_time_ms
        /\ t.input_buffer = s.input_buffer /\ t.fed = s.fed
        /\ t.buffer = s.buffer + p.samples /\ t.audio = Tail(s.audio)
        BY <2>2, <2>3 DEF SessionObject
  <2>5. worker_loop(s, elapsed) = flush(t, elapsed)
        BY <1>1 DEF worker_loop
  <2> HIDE DEF t
  <2>6. Decoded(t) = Decoded(s)
        BY <2>4 DEF Decoded
  <2>7. ASSUME NEW h \in Nat, Accounted(s, h) PROVE Accounted(t, h)
    <3>1. Exact(t)
      <4>1. 1 \in DOMAIN s.audio /\ p = s.audio[1]
            BY <1>1, <2>1
      <4>2. p.samples % 16 = 0 /\ s.buffer % 16 = 0
            BY <2>7, <4>1 DEF Accounted, Exact
      <4>3. (s.buffer + p.samples) % 16 = 0
        <5> HIDE DEF p
        <5> QED BY <2>1, <2>3, <4>2, WholeSum
      <4>4. ASSUME NEW j \in DOMAIN t.audio PROVE t.audio[j].samples % 16 = 0
        <5>1. j + 1 \in DOMAIN s.audio /\ t.audio[j] = s.audio[j + 1]
              BY <1>1, <2>1, <2>4
        <5> QED BY <2>7, <5>1 DEF Accounted, Exact
      <4> QED BY <2>4, <2>7, <4>3, <4>4 DEF Accounted, Exact
    <3>2. Taken(t) = Taken(s) + p.samples
      <4>1. (s.stream_time_ms * SAMPLE_RATE) \div 1000 \in Nat
            BY NumbersOf
      <4> HIDE DEF p
      <4> QED BY <2>1, <2>3, <2>4, <4>1 DEF Taken
    <3>3. Leads(Taken(s), s.audio, Decoded(s) - h)
          BY <2>7 DEF Accounted
    <3>4. Leads(Taken(s) + p.samples, Tail(s.audio), Decoded(s) - h)
      <4>1. Taken(s) \in Int
            BY NumbersOf
      <4> QED BY <1>1, <2>1, <3>3, <4>1, LeadsOn
    <3> QED BY <2>4, <2>6, <2>7, <3>1, <3>2, <3>4 DEF Accounted
  <2>8. Keeps(s, t)
        BY <2>4, <2>6, <2>7 DEF Keeps
  <2>9. Evolves(s, t)
        BY <2>4, QuietStep
  <2>10. flush(t, elapsed) \in SessionObject
         BY <2>4, <2>9, FlushEvolves DEF Evolves
  <2>11. Keeps(t, flush(t, elapsed))
         BY <2>4, <2>10, FlushKeeps
  <2> QED BY <2>5, <2>8, <2>11, KeepsOn
<1>2. CASE s.audio = <<>> /\ s.open
  <2>1. flush(s, elapsed) \in SessionObject
        BY FlushEvolves DEF Evolves
  <2> QED BY <1>2, <2>1, FlushKeeps DEF worker_loop
<1>3. CASE s.audio = <<>> /\ ~s.open
  <2> DEFINE t == [s EXCEPT !.thread = "ended"]
  <2>1. /\ t \in SessionObject /\ t.kind = s.kind /\ t.open = s.open
        /\ t.input_buffer = s.input_buffer /\ t.fed = s.fed /\ t.audio = s.audio
        /\ t.buffer = s.buffer /\ t.stream_time_ms = s.stream_time_ms
        BY DEF SessionObject
  <2>2. worker_loop(s, elapsed) = Forgotten(t)
        BY <1>3 DEF worker_loop
  <2> HIDE DEF t
  <2>3. Keeps(s, t) /\ Keeps(t, Forgotten(t))
        BY <2>1, QuietKeeps, ForgottenKeeps
  <2> QED BY <2>2, <2>3, KeepsOn
<1> QED BY <1>1, <1>2, <1>3

(* The answer to a request. *)
LEMMA TranscribeKeeps ==
    ASSUME NEW s \in SessionObject, NEW t \in transcribe_chunk_sync(s), t \in SessionObject
    PROVE  Keeps(s, t)
<1>1. PICK text \in {s.request, <<>>} :
         t = [s EXCEPT !.results = Sent(s, text), !.request = <<>>, !.thread = "loop"]
      BY DEF transcribe_chunk_sync
<1>2. /\ t.kind = s.kind /\ t.open = s.open /\ t.input_buffer = s.input_buffer
      /\ t.fed = s.fed /\ t.audio = s.audio /\ t.buffer = s.buffer
      /\ t.stream_time_ms = s.stream_time_ms
      BY <1>1 DEF SessionObject
<1> QED BY <1>2, QuietKeeps

(* A line of the SimulStreaming server. *)
LEMMA ReadResultsKeeps ==
    ASSUME NEW s \in SessionObject
    PROVE  Keeps(s, read_results(s))
<1> DEFINE q == NextSegment(s, s.buffer)
           t == [s EXCEPT !.results = Sent(s, <<q>>),
                          !.stream_time_ms = @ + duration_ms(s.buffer),
                          !.buffer = 0,
                          !.thread = IF s.open THEN "loop" ELSE "ended"]
<1>1. s.buffer \in Nat /\ s.results \in Seq(Segment)
      BY DEF SessionObject
<1>2. q \in Segment /\ s.stream_time_ms + duration_ms(s.buffer) \in Nat
      BY <1>1, NextSegmentType
<1> HIDE DEF q
<1>3. Sent(s, <<q>>) \in Seq(Segment)
      BY <1>1, <1>2 DEF Sent
<1>4. /\ t \in SessionObject
      /\ t.kind = s.kind /\ t.open = s.open /\ t.input_buffer = s.input_buffer
      /\ t.fed = s.fed /\ t.audio = s.audio /\ t.buffer = 0
      /\ t.stream_time_ms = s.stream_time_ms + duration_ms(s.buffer)
      BY <1>2, <1>3 DEF SessionObject
<1>5. read_results(s) = Forgotten(t)
      BY DEF read_results, q
<1> HIDE DEF t
<1>6. Keeps(s, t) /\ Keeps(t, Forgotten(t))
      BY <1>4, ClockKeeps, ForgottenKeeps
<1> QED BY <1>5, <1>6, KeepsOn

(* The server goes, with the audio it has not answered. *)
LEMMA ReadEndsKeeps ==
    ASSUME NEW s \in SessionObject, s.kind = "simul"
    PROVE  Keeps(s, read_ends(s))
<1> DEFINE t == [s EXCEPT !.thread = "ended", !.buffer = 0]
<1>1. /\ t \in SessionObject
      /\ t.kind = s.kind /\ t.open = s.open /\ t.input_buffer = s.input_buffer
      /\ t.fed = s.fed /\ t.audio = s.audio /\ t.buffer = 0
      /\ t.stream_time_ms = s.stream_time_ms
      BY DEF SessionObject
<1>2. read_ends(s) = Forgotten(t)
      BY DEF read_ends
<1> HIDE DEF t
<1>3. Decoded(t) = Decoded(s)
      BY <1>1 DEF Decoded
<1>4. ASSUME NEW h \in Nat, Accounted(s, h) PROVE Accounted(t, h)
  <2>1. Exact(t)
        BY <1>1, <1>4 DEF Accounted, Exact
  <2>2. Taken(t) <= Taken(s)
    <3>1. s.buffer \in Nat /\ (s.stream_time_ms * SAMPLE_RATE) \div 1000 \in Nat
          BY NumbersOf
    <3> QED BY <1>1, <3>1 DEF Taken
  <2>3. Taken(s) <= Decoded(s) - h
        BY <1>4 DEF Accounted
  <2>4. Taken(t) <= Decoded(t) - h
    <3>1. Taken(t) \in Nat /\ Taken(s) \in Nat /\ Decoded(s) \in Int
          BY <1>1, NumbersOf
    <3> QED BY <1>3, <2>2, <2>3, <3>1
  <2> QED BY <1>1, <1>4, <2>1, <2>4 DEF Accounted
<1>5. Keeps(s, t)
      BY <1>1, <1>3, <1>4 DEF Keeps
<1>6. Keeps(t, Forgotten(t))
      BY <1>1, ForgottenKeeps
<1> QED BY <1>2, <1>5, <1>6, KeepsOn

(* A session is dropped while nothing is in hand for it. *)
LEMMA DroppedAccounted ==
    ASSUME NEW s \in SessionObject, Accounted(s, 0)
    PROVE  Accounted(Dropped(s), 0)
<1> DEFINE t == [s EXCEPT !.open = FALSE, !.results = <<>>]
<1>1. <<>> \in Seq(Segment)
      OBVIOUS
<1>2. /\ t \in SessionObject
      /\ t.kind = s.kind /\ t.input_buffer = s.input_buffer
      /\ t.fed = s.fed /\ t.audio = s.audio /\ t.buffer = s.buffer
      /\ t.stream_time_ms = s.stream_time_ms
      BY <1>1 DEF SessionObject
<1>3. Dropped(s) = Forgotten(t)
      BY DEF Dropped
<1> HIDE DEF t
<1>4. Taken(t) = Taken(s) /\ Decoded(t) = Decoded(s) /\ (Exact(t) <=> Exact(s))
      BY <1>2 DEF Taken, Decoded, Exact
<1>5. Accounted(t, 0)
      BY <1>2, <1>4 DEF Accounted
<1> QED BY <1>2, <1>3, <1>5, ForgottenKeeps DEF Keeps

(* A packet is decoded: what it makes is in hand. *)
LEMMA FedAccounted ==
    ASSUME NEW s \in SessionObject, s.open, Accounted(s, 0), NEW frame \in FrameSizes
    PROVE  /\ decode(s, frame).pcm \in Nat /\ decode(s, frame).pcm % 16 = 0
           /\ Decoded(s) + decode(s, frame).pcm = Decoded(Fed(s, frame))
           /\ Fed(s, frame).open
           /\ Accounted(Fed(s, frame), decode(s, frame).pcm)
<1> DEFINE t == Fed(s, frame)
           rest == (s.input_buffer + frame) % 960
           pcm == ((s.input_buffer + frame) \div 960) * 320
<1>1. s.input_buffer \in Nat /\ s.fed \in Nat /\ frame \in Nat /\ Decoded(s) \in Int /\ Taken(s) \in Nat
      BY NumbersOf, SamplesAssumption
<1>2. s.input_buffer <= s.fed /\ (s.fed - s.input_buffer) % 960 = 0
      BY DEF Accounted, Exact, chunk_size
<1>3. /\ rest <= s.fed + frame /\ ((s.fed + frame) - rest) % 960 = 0
      /\ (((s.fed + frame) - rest) \div 960) * 320
           = ((s.fed - s.input_buffer) \div 960) * 320 + pcm
      /\ pcm \in Nat /\ pcm % 16 = 0
  <2> DEFINE f == s.fed
             b == s.input_buffer
  <2>1. f \in Nat /\ b \in Nat /\ frame \in Nat /\ b <= f /\ (f - b) % 960 = 0
        BY <1>1, <1>2
  <2> HIDE DEF f, b
  <2>2. /\ (b + frame) % 960 <= f + frame
        /\ ((f + frame) - ((b + frame) % 960)) % 960 = 0
        /\ (((f + frame) - ((b + frame) % 960)) \div 960) * 320
             = ((f - b) \div 960) * 320 + ((b + frame) \div 960) * 320
        /\ ((b + frame) \div 960) * 320 \in Nat
        /\ (((b + frame) \div 960) * 320) % 16 = 0
        BY <2>1, ChunksLeave
  <2> QED BY <2>2 DEF f, b
<1>4. decode(s, frame).pcm = pcm /\ decode(s, frame).rest = rest
      BY DEF decode, chunk_size, resampled
<1>5. /\ t.kind = s.kind /\ t.open = s.open /\ t.input_buffer = rest /\ t.fed = s.fed + frame
      /\ t.audio = s.audio /\ t.buffer = s.buffer /\ t.stream_time_ms = s.stream_time_ms
  <2>1. t = [s EXCEPT !.input_buffer = rest, !.fed = @ + frame]
        BY <1>4 DEF Fed
  <2> HIDE DEF t, rest, pcm
  <2> QED BY <2>1 DEF SessionObject
<1> HIDE DEF t, rest, pcm
<1>6. Decoded(t) = Decoded(s) + pcm
      BY <1>3, <1>5 DEF Decoded, chunk_size, resampled
<1>7. Taken(t) = Taken(s)
      BY <1>5 DEF Taken
<1>8. Exact(t)
      BY <1>3, <1>5 DEF Accounted, Exact, chunk_size
<1>9. Decoded(t) - pcm = Decoded(s) - 0
      BY <1>1, <1>3, <1>6
<1>10. Accounted(t, pcm)
       BY <1>5, <1>7, <1>8, <1>9 DEF Accounted
<1> QED BY <1>3, <1>4, <1>5, <1>6, <1>10 DEF t

(* What is in hand is sent to the backend, or lost with its connection. *)
LEMMA SendAccounted ==
    ASSUME NEW s \in SessionObject, s.open, NEW pcm \in Packet, Accounted(s, pcm.samples),
           pcm.samples % 16 = 0, pcm.at + pcm.samples = Decoded(s),
           NEW t \in send_audio(s, pcm)
    PROVE  Accounted(t, 0)
<1>1. /\ pcm.samples \in Nat /\ pcm.at \in Int
      /\ s.buffer \in Nat /\ s.audio \in Seq(Packet) /\ Taken(s) \in Nat /\ Decoded(s) \in Int
      /\ (s.stream_time_ms * SAMPLE_RATE) \div 1000 \in Nat
      BY NumbersOf DEF Packet
<1>2. Decoded(s) - pcm.samples = pcm.at /\ Decoded(s) - 0 = Decoded(s)
      BY <1>1
<1>3. CASE s.kind = "simul"
  <2>1. Taken(s) <= Decoded(s) - pcm.samples /\ Exact(s)
        BY <1>3 DEF Accounted
  <2>2. CASE t = s
    <3>1. Taken(s) <= Decoded(s) - 0
          BY <1>1, <2>1
    <3> QED BY <1>3, <2>1, <2>2, <3>1 DEF Accounted
  <2>3. CASE t = [s EXCEPT !.buffer = @ + pcm.samples]
    <3>1. /\ t.kind = s.kind /\ t.open = s.open /\ t.input_buffer = s.input_buffer
          /\ t.fed = s.fed /\ t.audio = s.audio /\ t.buffer = s.buffer + pcm.samples
          /\ t.stream_time_ms = s.stream_time_ms
          BY <2>3 DEF SessionObject
    <3>2. Decoded(t) = Decoded(s)
          BY <3>1 DEF Decoded
    <3>3. Taken(t) = Taken(s) + pcm.samples
          BY <1>1, <3>1 DEF Taken
    <3>4. Exact(t)
      <4>1. (s.buffer + pcm.samples) % 16 = 0
        <5>1. s.buffer % 16 = 0
              BY <2>1 DEF Exact
        <5>2. s.buffer \in Nat /\ pcm.samples \in Nat
              BY <1>1
        <5>3. pcm.samples % 16 = 0
              OBVIOUS
        <5> QED BY <5>1, <5>2, <5>3, WholeSum
      <4> QED BY <2>1, <3>1, <4>1 DEF Exact
    <3>5. Taken(t) <= Decoded(t) - 0
          BY <1>1, <2>1, <3>2, <3>3
    <3> QED BY <1>3, <3>1, <3>4, <3>5 DEF Accounted
  <2>4. t = s \/ t = [s EXCEPT !.buffer = @ + pcm.samples]
        BY <1>3 DEF send_audio, simul_send_audio
  <2> QED BY <2>2, <2>3, <2>4
<1>4. CASE s.kind = "openai"
  <2>1. t = [s EXCEPT !.audio = Append(@, pcm)]
        BY <1>4 DEF send_audio, openai_send_audio
  <2>2. /\ t.kind = s.kind /\ t.open = s.open /\ t.input_buffer = s.input_buffer
        /\ t.fed = s.fed /\ t.audio = Append(s.audio, pcm) /\ t.buffer = s.buffer
        /\ t.stream_time_ms = s.stream_time_ms
        BY <2>1 DEF SessionObject
  <2>3. Decoded(t) = Decoded(s) /\ Taken(t) = Taken(s)
        BY <2>2 DEF Decoded, Taken
  <2>4. Leads(Taken(s), s.audio, pcm.at) /\ Exact(s)
        BY <1>2, <1>4 DEF Accounted
  <2>5. Leads(Taken(s), Append(s.audio, pcm), pcm.at + pcm.samples)
    <3> DEFINE q == s.audio
               from == Taken(s)
    <3>1. q \in Seq(Packet) /\ Leads(from, q, pcm.at)
          BY <1>1, <2>4
    <3> HIDE DEF q, from
    <3>2. Leads(from, Append(q, pcm), pcm.at + pcm.samples)
          BY <3>1, LeadsFurther
    <3> QED BY <3>2 DEF q, from
  <2>6. Exact(t)
    <3>1. ASSUME NEW j \in DOMAIN t.audio PROVE t.audio[j].samples % 16 = 0
      <4>1. t.audio[j] = pcm \/ (j \in DOMAIN s.audio /\ t.audio[j] = s.audio[j])
            BY <1>1, <2>2
      <4> QED BY <2>4, <4>1 DEF Exact
    <3> QED BY <2>2, <2>4, <3>1 DEF Exact
  <2> QED BY <1>2, <1>4, <2>2, <2>3, <2>5, <2>6 DEF Accounted
<1> QED BY <1>3, <1>4, NumbersOf

-----------------------------------------------------------------------------
(* What the worker has in hand is a number of samples. *)
LEMMA InHandType ==
    ASSUME IInv, NEW i
    PROVE  InHand(i) \in Nat
<1>1. worker.pc = "send" => worker.pcm.samples \in Nat
      BY DEF IInv, TypeOK, Packet
<1> QED BY <1>1 DEF InHand

(* The worker has nothing in hand after a step. *)
LEMMA HandsFree ==
    ASSUME worker'.pc # "send",
           \A i \in DOMAIN objects' : Accounted(objects'[i], 0)
    PROVE  AInv'
BY DEF AInv, HandHasLast, InHand

(* When it has nothing in hand the accounts are complete. *)
LEMMA NothingInHand ==
    ASSUME AInv, worker.pc # "send", NEW i \in DOMAIN objects
    PROVE  Accounted(objects[i], 0)
BY DEF AInv, InHand

(* One session goes on. *)
LEMMA OneKeeps ==
    ASSUME IInv, AInv, NEW i \in DOMAIN objects, NEW t, Keeps(objects[i], t),
           objects' = [objects EXCEPT ![i] = t], worker' = worker
    PROVE  AInv'
<1>1. objects \in Seq(SessionObject) /\ DOMAIN objects' = DOMAIN objects
      BY SessionFacts
<1>2. objects'[i] = t /\ \A j \in DOMAIN objects : j # i => objects'[j] = objects[j]
      BY <1>1
<1>3. ASSUME NEW j \in DOMAIN objects PROVE Accounted(objects'[j], InHand(j)')
  <2>1. InHand(j)' = InHand(j) /\ InHand(j) \in Nat
        BY InHandType DEF InHand
  <2>2. Accounted(objects[j], InHand(j))
        BY DEF AInv
  <2>3. CASE j = i
        BY <1>2, <2>1, <2>2, <2>3 DEF Keeps
  <2>4. CASE j # i
        BY <1>2, <2>1, <2>2, <2>4
  <2> QED BY <2>3, <2>4
<1>4. HandHasLast'
  <2> SUFFICES ASSUME worker.pc = "send"
               PROVE  /\ objects'[worker.object].open
                      /\ worker.pcm.samples % 16 = 0
                      /\ worker.pcm.at + worker.pcm.samples = Decoded(objects'[worker.object])
      BY DEF HandHasLast, Decoded
  <2>1. /\ objects[worker.object].open /\ worker.pcm.samples % 16 = 0
        /\ worker.pcm.at + worker.pcm.samples = Decoded(objects[worker.object])
        BY DEF AInv, HandHasLast
  <2>2. worker.object \in DOMAIN objects
        BY DEF IInv, TypeOK
  <2>3. CASE worker.object = i
        BY <1>2, <2>1, <2>3 DEF Keeps
  <2>4. CASE worker.object # i
        BY <1>2, <2>1, <2>2, <2>4
  <2> QED BY <2>3, <2>4
<1>5. \A j \in DOMAIN objects' : Accounted(objects'[j], InHand(j)')
      BY <1>1, <1>3
<1> QED BY <1>4, <1>5 DEF AInv, Accounted, Exact, Taken, Decoded, Leads

(* The steps of the backends' threads and servers keep the accounts. *)
LEMMA ThreadsAccount ==
    ASSUME IInv, AInv, NEW i \in DOMAIN objects,
           Backend(i) \/ server_line(i) \/ server_closes(i)
    PROVE  AInv'
<1>1. /\ objects[i] \in SessionObject /\ Len(objects[i].request) <= 1
      /\ Orderly(objects[i])
      BY SessionFacts
<1>2. ASSUME NEW t, Keeps(objects[i], t), Becomes(i, t)
      PROVE  AInv'
      BY <1>2, OneKeeps DEF Becomes
<1>3. CASE server_line(i)
      BY <1>1, <1>2, <1>3, ReadResultsKeeps DEF server_line
<1>4. CASE server_closes(i)
      BY <1>1, <1>2, <1>4, ReadEndsKeeps DEF server_closes
<1>5. ASSUME NEW elapsed \in BOOLEAN, openai_loop(i, elapsed)
      PROVE  AInv'
      BY <1>1, <1>2, <1>5, LoopKeeps DEF openai_loop
<1>6. CASE openai_response(i)
  <2>1. PICK t \in transcribe_chunk_sync(objects[i]) : Becomes(i, t)
        BY <1>6 DEF openai_response
  <2>2. Evolves(objects[i], t)
        BY <1>1, TranscribeEvolves
  <2>3. Keeps(objects[i], t)
        BY <1>1, <2>2, TranscribeKeeps DEF Evolves
  <2> QED BY <1>2, <2>1, <2>3
<1>7. \/ openai_loop(i, TRUE) \/ openai_loop(i, FALSE) \/ openai_response(i)
      \/ server_line(i) \/ server_closes(i)
      BY DEF Backend
<1> QED BY <1>3, <1>4, <1>5, <1>6, <1>7

(* The worker decodes a packet for a session of the map, which is open. *)
LEMMA DecodeAccounts ==
    ASSUME IInv, AInv, NEW k \in Keys, NEW frame \in FrameSizes, process_audio(k, frame)
    PROVE  AInv'
<1> DEFINE i == sessions[k]
           n == decode(objects[i], frame).pcm
           t == Fed(objects[i], frame)
<1>1. /\ worker.pc = "idle" /\ k \in DOMAIN sessions
      /\ objects' = [objects EXCEPT ![i] = t]
      /\ worker' = [pc |-> "send", object |-> i,
                    pcm |-> [at |-> Decoded(objects[i]), samples |-> n]]
      BY DEF process_audio
<1>2. i \in DOMAIN objects /\ objects[i].open
      BY <1>1 DEF IInv, TypeOK, SessionsAreOpen
<1>3. objects \in Seq(SessionObject) /\ objects[i] \in SessionObject
      BY <1>2, SessionFacts
<1>4. \A j \in DOMAIN objects : Accounted(objects[j], 0)
      BY <1>1, NothingInHand
<1>5. /\ n % 16 = 0 /\ Decoded(objects[i]) + n = Decoded(t) /\ t.open
      /\ Accounted(t, n)
      BY <1>2, <1>3, <1>4, FedAccounted
<1> HIDE DEF t, n
<1>6. /\ DOMAIN objects' = DOMAIN objects /\ objects'[i] = t
      /\ \A j \in DOMAIN objects : j # i => objects'[j] = objects[j]
      BY <1>1, <1>2, <1>3
<1>7. /\ worker'.pc = "send" /\ worker'.object = i
      /\ worker'.pcm.at = Decoded(objects[i]) /\ worker'.pcm.samples = n
      BY <1>1
<1> HIDE DEF i
<1>8. HandHasLast'
      BY <1>5, <1>6, <1>7 DEF HandHasLast, Decoded
<1>9. ASSUME NEW j \in DOMAIN objects PROVE Accounted(objects'[j], InHand(j)')
  <2>1. CASE j = i
    <3>1. InHand(j)' = n
          BY <1>7, <2>1 DEF InHand
    <3> QED BY <1>5, <1>6, <2>1, <3>1
  <2>2. CASE j # i
    <3>1. InHand(j)' = 0
          BY <1>7, <2>2 DEF InHand
    <3> QED BY <1>4, <1>6, <2>2, <3>1
  <2> QED BY <2>1, <2>2
<1>10. \A j \in DOMAIN objects' : Accounted(objects'[j], InHand(j)')
       BY <1>6, <1>9
<1> QED BY <1>8, <1>10 DEF AInv, Accounted, Exact, Taken, Decoded, Leads

(* The worker sends what it has in hand. *)
LEMMA SendAccounts ==
    ASSUME IInv, AInv, send_to_session
    PROVE  AInv'
<1> DEFINE i == worker.object
           pcm == worker.pcm
<1>1. worker.pc = "send" /\ worker' = Idle
      BY DEF send_to_session
<1>2. PICK t \in send_audio(objects[i], pcm) : objects' = [objects EXCEPT ![i] = t]
      BY DEF send_to_session
<1>3. i \in DOMAIN objects /\ pcm \in Packet
      BY <1>1 DEF IInv, TypeOK
<1>4. objects \in Seq(SessionObject) /\ objects[i] \in SessionObject
      BY <1>3, SessionFacts
<1>5. /\ objects[i].open /\ pcm.samples % 16 = 0
      /\ pcm.at + pcm.samples = Decoded(objects[i])
      BY <1>1 DEF AInv, HandHasLast
<1>6. /\ InHand(i) = pcm.samples
      /\ \A j \in DOMAIN objects : j # i => InHand(j) = 0
      BY <1>1 DEF InHand
<1>7. Accounted(objects[i], pcm.samples)
      BY <1>3, <1>6 DEF AInv
<1> HIDE DEF pcm, i
<1>8. Accounted(t, 0)
      BY <1>2, <1>3, <1>4, <1>5, <1>7, SendAccounted
<1>9. /\ DOMAIN objects' = DOMAIN objects /\ objects'[i] = t
      /\ \A j \in DOMAIN objects : j # i => objects'[j] = objects[j]
      BY <1>2, <1>3, <1>4
<1>10. ASSUME NEW j \in DOMAIN objects' PROVE Accounted(objects'[j], 0)
  <2>1. CASE j = i
        BY <1>8, <1>9, <2>1
  <2>2. CASE j # i
        BY <1>6, <1>9, <2>2 DEF AInv
  <2> QED BY <2>1, <2>2
<1>11. worker'.pc # "send"
       BY <1>1 DEF Idle
<1> QED BY <1>10, <1>11, HandsFree

(* A new session has no audio. *)
LEMMA StartAccounts ==
    ASSUME IInv, AInv, NEW k \in Keys, start_session(k)
    PROVE  AInv'
<1> DEFINE n == Len(objects)
           new == Session(k, KindOf[k], n + 1)
<1>1. objects \in Seq(SessionObject) /\ n \in Nat /\ DOMAIN objects = 1 .. n
      BY SessionFacts
<1>2. KindOf[k] \in {"simul", "openai"} /\ n + 1 \in Nat
      BY <1>1, TranscriptsAssumption
<1>3. new \in SessionObject
      BY <1>2, SessionType
<1>4. /\ worker.pc = "idle" /\ worker' = [pc |-> "insert", key |-> k]
      /\ objects' = Append(objects, new)
      BY DEF start_session
<1>5. Accounted(new, 0)
  <2>1. /\ new.input_buffer = 0 /\ new.fed = 0 /\ new.audio = <<>> /\ new.buffer = 0
        /\ new.stream_time_ms = 0
        BY DEF Session
  <2> HIDE DEF new
  <2>2. Taken(new) = 0 /\ Decoded(new) = 0 /\ DOMAIN new.audio = {}
        BY <2>1 DEF Taken, Decoded, SAMPLE_RATE, chunk_size, resampled
  <2>3. Exact(new) /\ Leads(0, new.audio, 0)
        BY <2>1, <2>2 DEF Exact, Leads, chunk_size
  <2> QED BY <2>2, <2>3 DEF Accounted
<1> HIDE DEF new
<1>6. /\ DOMAIN objects' = 1 .. n + 1
      /\ objects'[n + 1] = new /\ \A i \in 1 .. n : objects'[i] = objects[i]
      BY <1>1, <1>3, <1>4
<1> HIDE DEF n
<1>7. ASSUME NEW i \in DOMAIN objects' PROVE Accounted(objects'[i], 0)
  <2>1. i \in 1 .. n \/ i = n + 1
        BY <1>1, <1>6
  <2> QED BY <1>1, <1>4, <1>5, <1>6, <2>1, NothingInHand
<1>8. worker'.pc # "send"
      BY <1>4
<1> QED BY <1>7, <1>8, HandsFree

(* A session is dropped when the worker has its hands free. *)
LEMMA RemoveAccounts ==
    ASSUME IInv, AInv, remove
    PROVE  AInv'
<1>1. /\ worker.pc = "remove" /\ worker' = Idle /\ DOMAIN objects' = DOMAIN objects
      /\ \A i \in DOMAIN objects : objects'[i] \in {objects[i], Dropped(objects[i])}
      BY DEF remove
<1>2. ASSUME NEW i \in DOMAIN objects' PROVE Accounted(objects'[i], 0)
  <2>1. objects[i] \in SessionObject /\ Accounted(objects[i], 0)
        BY <1>1, NothingInHand, SessionFacts
  <2>2. Accounted(Dropped(objects[i]), 0)
        BY <2>1, DroppedAccounted
  <2> QED BY <1>1, <2>1, <2>2
<1>3. worker'.pc # "send"
      BY <1>1 DEF Idle
<1> QED BY <1>2, <1>3, HandsFree

(* The results of a session are taken, not its audio. *)
LEMMA PollAccounts ==
    ASSUME IInv, AInv, NEW k \in Keys, poll_session(k)
    PROVE  AInv'
<1> DEFINE i == sessions[k]
           t == [objects[i] EXCEPT !.results = <<>>]
<1>1. /\ k \in poller.todo /\ worker' = worker /\ objects' = [objects EXCEPT ![i] = t]
      BY DEF poll_session
<1>2. i \in DOMAIN objects
      BY <1>1 DEF IInv, SessionsAreOpen, TypeOK
<1>3. objects[i] \in SessionObject
      BY <1>2, SessionFacts
<1>4. /\ t \in SessionObject
      /\ t.kind = objects[i].kind /\ t.open = objects[i].open
      /\ t.input_buffer = objects[i].input_buffer /\ t.fed = objects[i].fed
      /\ t.audio = objects[i].audio /\ t.buffer = objects[i].buffer
      /\ t.stream_time_ms = objects[i].stream_time_ms
  <2>1. <<>> \in Seq(Segment)
        OBVIOUS
  <2> QED BY <1>3, <2>1 DEF SessionObject
<1> HIDE DEF t, i
<1>5. Keeps(objects[i], t)
      BY <1>3, <1>4, QuietKeeps
<1> QED BY <1>1, <1>2, <1>5, OneKeeps

(* Other steps of the worker leave the sessions alone. *)
LEMMA HandsStayFree ==
    ASSUME AInv, objects' = objects, worker.pc # "send", worker'.pc # "send"
    PROVE  AInv'
<1>1. \A i \in DOMAIN objects : Accounted(objects[i], 0)
      BY NothingInHand
<1> QED BY <1>1, HandsFree

(* And the others' steps the worker too. *)
LEMMA AccountsStay ==
    ASSUME AInv, objects' = objects, worker' = worker
    PROVE  AInv'
BY DEF AInv, HandHasLast, InHand, Accounted, Exact, Taken, Decoded, Leads

(* Every step keeps the accounts. *)
LEMMA NextAccounts == IInv /\ AInv /\ [Next]_vars => AInv'
<1> SUFFICES ASSUME IInv, AInv, [Next]_vars PROVE AInv'
    OBVIOUS
<1>1. ASSUME NEW k \in Keys, stop_session(k) PROVE AInv'
      BY <1>1, HandsStayFree DEF stop_session, manager
<1>2. CASE Command
      BY <1>1, <1>2, StartAccounts, DecodeAccounts DEF Command
<1>3. CASE send_to_session
      BY <1>3, SendAccounts
<1>4. CASE insert
      BY <1>4, HandsStayFree DEF insert, Idle
<1>5. CASE Writing
      BY <1>4, <1>5, RemoveAccounts DEF Writing
<1>6. CASE Polling
      BY <1>6, AccountsStay DEF Polling, poll_results, distribute, try_send, manager
<1>7. CASE \E k \in Keys : poll_session(k)
      BY <1>7, PollAccounts
<1>8. CASE \E i \in DOMAIN objects : Backend(i) \/ server_line(i) \/ server_closes(i)
      BY <1>8, ThreadsAccount
<1>9. CASE \E s \in Subs : subscribe_transcription(s) \/ take(s) \/ hang_up(s)
      BY <1>9, AccountsStay DEF subscribe_transcription, take, hang_up, manager
<1>10. CASE UNCHANGED vars
       BY <1>10, AccountsStay DEF vars, manager
<1> QED BY <1>2, <1>3, <1>5, <1>6, <1>7, <1>8, <1>9, <1>10 DEF Next

(* No sample is lost, doubled or moved between the decoder and the OpenAI  *)
(* backend's requests, and the SimulStreaming server's clock never runs    *)
(* ahead of the audio, whatever becomes of requests, connections and       *)
(* sessions.                                                               *)
THEOREM AudioAccounted == Spec => []AudioIsAccounted
<1>1. Init => AInv
  <2> SUFFICES ASSUME Init PROVE AInv
      OBVIOUS
  <2>1. DOMAIN objects = {} /\ worker.pc = "idle"
        BY DEF Init, Idle
  <2> QED BY <2>1 DEF AInv, HandHasLast
<1>2. AInv => AudioIsAccounted
      BY DEF AInv, Accounted, AudioIsAccounted
<1>3. Spec => []AInv
      BY <1>1, NextAccounts, Invariance, PTL DEF Spec
<1> QED BY <1>2, <1>3, PTL
=============================================================================
