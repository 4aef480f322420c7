------------------------------ MODULE Backends ------------------------------
(***************************************************************************)
(* One transcription session as an object: the resampler of                *)
(* src/transcription/decoder.rs and one of the two synchronous backends of *)
(* src/transcription/backends.  The module has no variables; module        *)
(* Transcripts keeps the objects and says who calls what, and when.        *)
(*                                                                         *)
(* Audio is counted in samples: 48 kHz before the resampler, 16 kHz after  *)
(* it.  Each backend has a thread of its own.  The one of SimulStreaming   *)
(* reads lines from the server's connection, the one of OpenAI collects    *)
(* audio and makes blocking requests.                                      *)
(***************************************************************************)
EXTENDS Integers, Sequences

CONSTANTS
    Keys,          \* pairs of session id and endpoint id
    FrameSizes,    \* samples in an OPUS packet at 48 kHz
    MinSamples,    \* less is not worth a periodic request (1600 in the code)
    FlushSamples   \* more is sent at once (80000 in the code)

ASSUME SamplesAssumption ==
    /\ FrameSizes \subseteq Nat \ {0}
    /\ MinSamples \in Nat \ {0}
    /\ FlushSamples \in Nat

chunk_size == 960      \* what the resampler takes at a time
resampled == 320       \* and what it makes of it
SAMPLE_RATE == 16000

duration_ms(samples) == (samples * 1000) \div SAMPLE_RATE

(* Samples at 16 kHz on their way to a backend.  at is history: their      *)
(* place in the stream that the session's decoder makes.                   *)
Packet == [at : Int, samples : Nat]

Segment == [key : Keys, of : Nat, start_ms : Nat, end_ms : Nat]

-----------------------------------------------------------------------------
(* A session.  fed is history: the samples at 48 kHz it was given.  For    *)
(* SimulStreaming, buffer is the audio at the server for which no line has *)
(* come, and thread the reader; request holds at most one segment, the one *)
(* that the OpenAI worker waits for.  open ends when the session is        *)
(* dropped, with the receivers of its results and the sender of its audio. *)
Session(key, kind, of) ==
    [key |-> key, kind |-> kind, of |-> of, open |-> TRUE,
     input_buffer |-> 0, audio |-> <<>>, buffer |-> 0,
     stream_time_ms |-> 0, request |-> <<>>, thread |-> "loop",
     results |-> <<>>, fed |-> 0]

SessionObject ==
    [key : Keys, kind : {"simul", "openai"}, of : Nat, open : BOOLEAN,
     input_buffer : 0 .. chunk_size - 1, audio : Seq(Packet), buffer : Nat,
     stream_time_ms : Nat, request : Seq(Segment), thread : {"loop", "request", "ended"},
     results : Seq(Segment), fed : Nat]

(* A session that is dropped and whose thread has ended is forgotten.      *)
Forgotten(s) ==
    IF s.open \/ s.thread # "ended" THEN s
    ELSE [Session(s.key, s.kind, s.of) EXCEPT !.open = FALSE, !.thread = "ended"]

(* Mistake: what does not fill a chunk is thrown away. *)
decode_whole(s, frame) ==
    [pcm |-> ((s.input_buffer + frame) \div chunk_size) * resampled,
     rest |-> 0]

(* Mistake: one chunk for each packet. *)
decode_once(s, frame) ==
    IF s.input_buffer + frame < chunk_size
    THEN [pcm |-> 0, rest |-> s.input_buffer + frame]
    ELSE [pcm |-> resampled, rest |-> s.input_buffer + frame - chunk_size]

(* AudioDecoder::decode and AudioResampler::resample: whole chunks leave,  *)
(* the rest waits in input_buffer.                                         *)
decode(s, frame) ==
    [pcm |-> ((s.input_buffer + frame) \div chunk_size) * resampled,
     rest |-> (s.input_buffer + frame) % chunk_size]

Fed(s, frame) == [s EXCEPT !.input_buffer = decode(s, frame).rest, !.fed = @ + frame]

(* The samples that the decoder has returned so far. *)
Decoded(s) == ((s.fed - s.input_buffer) \div chunk_size) * resampled

(* The span of the next samples of the stream. *)
NextSegment(s, samples) ==
    [key |-> s.key, of |-> s.of, start_ms |-> s.stream_time_ms,
     end_ms |-> s.stream_time_ms + duration_ms(samples)]

(* A result goes to whoever holds the receiver, if anybody does. *)
Sent(s, segments) == IF s.open THEN s.results \o segments ELSE <<>>

-----------------------------------------------------------------------------
(* SimulStreamingClient *)

(* Mistake: without a timeout the write waits until the server reads.      *)
simul_send_audio_waits(s, pcm) ==
    IF s.thread # "loop" THEN {s}
    ELSE IF s.buffer = 0 THEN {[s EXCEPT !.buffer = pcm.samples]} ELSE {}

(* send_audio: the write fails, after five seconds or because the server   *)
(* has gone, or the server has the samples.                                *)
simul_send_audio(s, pcm) ==
    {s} \cup (IF s.thread = "loop" THEN {[s EXCEPT !.buffer = @ + pcm.samples]} ELSE {})

(* read_results with a line: the server's times are the times of the audio *)
(* that it was sent.  The reader ends when nobody wants the segment.       *)
read_results(s) ==
    Forgotten([s EXCEPT !.results = Sent(s, <<NextSegment(s, s.buffer)>>),
                        !.stream_time_ms = @ + duration_ms(s.buffer),
                        !.buffer = 0,
                        !.thread = IF s.open THEN "loop" ELSE "ended"])

(* read_results at the end of the stream, or with an error. *)
read_ends(s) == Forgotten([s EXCEPT !.thread = "ended", !.buffer = 0])

-----------------------------------------------------------------------------
(* OpenAiSyncBackend *)

openai_send_audio(s, pcm) == {[s EXCEPT !.audio = Append(@, pcm)]}

(* The condition for a request; elapsed says whether the last one returned *)
(* five seconds ago or more.                                               *)
should_flush(s, elapsed) ==
    s.buffer > FlushSamples \/ (s.buffer >= MinSamples /\ elapsed)

(* Mistake: the clock of the stream stands still. *)
flush_timeless(s, elapsed) ==
    IF ~should_flush(s, elapsed) THEN s
    ELSE [s EXCEPT !.request = <<NextSegment(s, s.buffer)>>,
                   !.thread = "request",
                   !.buffer = 0]

(* Mistake: there is no periodic request. *)
flush_large(s, elapsed) ==
    IF s.buffer <= FlushSamples THEN s
    ELSE [s EXCEPT !.request = <<NextSegment(s, s.buffer)>>,
                   !.thread = "request",
                   !.stream_time_ms = @ + duration_ms(s.buffer),
                   !.buffer = 0]

(* The second half of the loop's body: a request for all that is buffered. *)
flush(s, elapsed) ==
    IF ~should_flush(s, elapsed) THEN s
    ELSE [s EXCEPT !.request = <<NextSegment(s, s.buffer)>>,
                   !.thread = "request",
                   !.stream_time_ms = @ + duration_ms(s.buffer),
                   !.buffer = 0]

(* Mistake: the end of the channel is taken for a timeout. *)
worker_loop_unending(s, elapsed) ==
    IF s.audio # <<>>
    THEN flush([s EXCEPT !.buffer = @ + Head(s.audio).samples, !.audio = Tail(@)], elapsed)
    ELSE flush(s, elapsed)

(* One turn of worker_loop: a packet of audio, or the timeout of 100 ms.   *)
(* The end of the channel comes after the audio that is left in it, and    *)
(* leaves without a request.                                               *)
worker_loop(s, elapsed) ==
    IF s.audio # <<>>
    THEN flush([s EXCEPT !.buffer = @ + Head(s.audio).samples, !.audio = Tail(@)], elapsed)
    ELSE IF s.open THEN flush(s, elapsed) ELSE Forgotten([s EXCEPT !.thread = "ended"])

(* transcribe_chunk_sync returns: a text, an empty one or an error.        *)
transcribe_chunk_sync(s) ==
    {[s EXCEPT !.results = Sent(s, text), !.request = <<>>,
               !.thread = "loop"] : text \in {s.request, <<>>}}

-----------------------------------------------------------------------------
(* The session is dropped: results that nobody took go with their          *)
(* receiver.  SimulStreamingClient also shuts down its writing half.       *)
Dropped(s) == Forgotten([s EXCEPT !.open = FALSE, !.results = <<>>])

send_audio(s, pcm) ==
    IF s.kind = "simul" THEN simul_send_audio(s, pcm) ELSE openai_send_audio(s, pcm)
=============================================================================
