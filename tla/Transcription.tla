--------------------------- MODULE Transcription ----------------------------
(***************************************************************************)
(* Switching transcription on and off: the RPC handlers of src/bin/sfu.rs, *)
(* the extractor state that a media worker keeps (src/signal/mod.rs and    *)
(* src/transcription/handler.rs), the transcription worker thread          *)
(* (handler.rs) and the manager's sessions (src/transcription/manager.rs). *)
(*                                                                         *)
(* An RPC has two halves.  It sends StartSession or StopSession to the     *)
(* transcription worker over an unbounded channel, and then, through the   *)
(* one-slot signalling channel, tells the media worker.  The media worker  *)
(* sends Audio over the same unbounded channel.  Handlers of different     *)
(* clients, the media worker and the transcription worker interleave.      *)
(*                                                                         *)
(* The module models one media port with the SimulStreaming backend.       *)
(***************************************************************************)
EXTENDS Integers, Sequences, FiniteSets

CONSTANTS
    SessionIds,   \* session ids of the port, numbers
    EndpointIds,  \* endpoint ids
    Ssrcs,        \* audio SSRCs on the wire
    Clients,      \* concurrent RPC handlers
    NumServers,   \* addresses in the default backend configuration
    MaxCmds       \* bound on the commands in flight

Keys == SessionIds \X EndpointIds

ASSUME TranscriptionAssumption ==
    /\ SessionIds \subseteq Nat
    /\ NumServers \in Nat \ {0}
    /\ MaxCmds \in Nat \ {0}

VARIABLES
    rpc,                \* what the note each handler still owes the media worker
    inbox,              \* the signalling channel of the port
    enabled,            \* extractor: transcription_sessions
    default_session,    \* extractor: default_session, at most one key
    ssrc_map,           \* extractor: SSRC -> key
    cmds,               \* the channel to the transcription worker
    decoders,           \* transcription worker: keys with a decoder
    sessions,           \* manager: key -> server the session is connected to
    next_server_index,  \* manager
    interrupted,        \* keys for which a stop was sent or a start failed
    missed              \* turns of a server without a session now, less the last one's

extractor == <<enabled, default_session, ssrc_map>>
manager == <<sessions, next_server_index>>
vars == <<rpc, inbox, extractor, cmds, decoders, manager, interrupted, missed>>

Note == [op : {"enable", "disable", "leave"}, key : Keys]
Servers == 0 .. NumServers - 1
OwnServer == NumServers  \* stands for a server named in the request

Command == [op : {"start", "stop", "audio"}, key : Keys, own : BOOLEAN]

TypeOK ==
    /\ rpc \in [Clients -> Seq(Note)] /\ \A c \in Clients : Len(rpc[c]) <= 1
    /\ inbox \in Seq(Note) /\ Len(inbox) <= 1
    /\ enabled \subseteq Keys
    /\ default_session \subseteq Keys /\ Cardinality(default_session) <= 1
    /\ DOMAIN ssrc_map \subseteq Ssrcs
    /\ \A x \in DOMAIN ssrc_map : ssrc_map[x] \in Keys
    /\ cmds \in Seq(Command) /\ Len(cmds) <= MaxCmds
    /\ decoders \subseteq Keys
    /\ DOMAIN sessions \subseteq Keys
    /\ \A k \in DOMAIN sessions : sessions[k] \in Servers \cup {OwnServer}
    /\ next_server_index \in Servers
    /\ interrupted \subseteq Keys
    /\ missed \in [Servers -> Int]

Init ==
    /\ rpc = [c \in Clients |-> <<>>]
    /\ inbox = <<>>
    /\ enabled = {}
    /\ default_session = {}
    /\ ssrc_map = [x \in {} |-> 0]
    /\ cmds = <<>>
    /\ decoders = {}
    /\ sessions = [k \in {} |-> 0]
    /\ next_server_index = 0
    /\ interrupted = {}
    /\ missed = [a \in Servers |-> 0]

-----------------------------------------------------------------------------
(* The RPC handlers. *)

(* tx.send on the unbounded channel, which never blocks; MaxCmds is the    *)
(* bound of the model.                                                     *)
Send(cmd) == Len(cmds) < MaxCmds /\ cmds' = Append(cmds, cmd)

(* Mistake: a request without a configuration of its own starts nothing.   *)
start_transcription_session_own(k, own) ==
    IF own THEN Send([op |-> "start", key |-> k, own |-> own]) ELSE UNCHANGED cmds

(* enable_transcription, or an offer with the flag: own is a configuration *)
(* in the request.                                                         *)
start_transcription_session(k, own) == Send([op |-> "start", key |-> k, own |-> own])

stop_transcription_session(k) ==
    /\ Send([op |-> "stop", key |-> k, own |-> FALSE])
    /\ interrupted' = interrupted \cup {k}

(* First half of enable_transcription. *)
enable_transcription(c, k) ==
    /\ rpc[c] = <<>>
    /\ \E own \in BOOLEAN : start_transcription_session(k, own)
    /\ rpc' = [rpc EXCEPT ![c] = <<[op |-> "enable", key |-> k]>>]
    /\ UNCHANGED <<inbox, extractor, decoders, manager, interrupted, missed>>

(* First half of disable_transcription and of leave. *)
disable_transcription(c, k) ==
    /\ rpc[c] = <<>>
    /\ stop_transcription_session(k)
    /\ \E op \in {"disable", "leave"} : rpc' = [rpc EXCEPT ![c] = <<[op |-> op, key |-> k]>>]
    /\ UNCHANGED <<inbox, extractor, decoders, manager, missed>>

(* Second half: the blocking send to the media worker. *)
notify(c) ==
    /\ rpc[c] # <<>>
    /\ inbox = <<>>
    /\ inbox' = rpc[c]
    /\ rpc' = [rpc EXCEPT ![c] = <<>>]
    /\ UNCHANGED <<extractor, cmds, decoders, manager, interrupted, missed>>

-----------------------------------------------------------------------------
(* The media worker. *)

(* handle_signaling_message_with_extractor. *)
enable_transcription_for_session(k) ==
    /\ enabled' = enabled \cup {k}
    /\ default_session' = {k}

disable_transcription_for_session(k) ==
    /\ enabled' = enabled \ {k}
    /\ UNCHANGED default_session

handle_signaling_message ==
    /\ inbox # <<>>
    /\ inbox' = Tail(inbox)
    /\ LET m == Head(inbox) IN
       \/ m.op = "enable" /\ enable_transcription_for_session(m.key)
       \/ m.op = "disable" /\ disable_transcription_for_session(m.key)
       \/ m.op = "leave" /\ UNCHANGED <<enabled, default_session>>
    /\ UNCHANGED <<rpc, ssrc_map, cmds, decoders, manager, interrupted, missed>>

(* Where the run loop sends the audio of an SSRC: its entry, else the      *)
(* default session, else nowhere.                                          *)
Target(x) == IF x \in DOMAIN ssrc_map THEN {ssrc_map[x]} ELSE default_session

(* An audio packet that the gateway passed on is mapped and forwarded.     *)
(* Session id 0 stands for "unknown" and is not forwarded.                 *)
forward_audio(x) ==
    /\ \E k \in Target(x) :
          /\ ssrc_map' = [y \in DOMAIN ssrc_map \cup {x} |->
                            IF y = x THEN k ELSE ssrc_map[y]]
          /\ IF k[1] # 0
             THEN Send([op |-> "audio", key |-> k, own |-> FALSE])
             ELSE UNCHANGED cmds
    /\ UNCHANGED <<rpc, inbox, enabled, default_session, decoders, manager,
                   interrupted, missed>>

-----------------------------------------------------------------------------
(* The transcription worker and the manager. *)

(* Mistakes: no modulo; no step. *)
advance_server_index_unbounded == next_server_index' = next_server_index + 1
advance_server_index_not == UNCHANGED next_server_index

(* The round robin is advanced by every new session of any configuration.  *)
advance_server_index == next_server_index' = (next_server_index + 1) % NumServers

(* History: the turn of a server came to nothing, or its session ends.     *)
(* Only the differences between the servers are kept.                      *)
Misses(a) ==
    missed' = [b \in Servers |-> missed[b] + (IF b = a THEN 1 ELSE 0)
                                           - (IF a = NumServers - 1 THEN 1 ELSE 0)]

(* start_session: nothing for a key that has a session; the connection may *)
(* fail, after the index was advanced.                                     *)
start_session(k, own) ==
    IF k \in DOMAIN sessions
    THEN UNCHANGED <<manager, interrupted, missed>>
    ELSE /\ advance_server_index
         /\ \/ /\ sessions' = [y \in DOMAIN sessions \cup {k} |->
                                 IF y # k THEN sessions[y]
                                 ELSE IF own THEN OwnServer ELSE next_server_index]
               /\ IF own THEN Misses(next_server_index) ELSE UNCHANGED missed
               /\ UNCHANGED interrupted
            \/ /\ UNCHANGED sessions
               /\ interrupted' = interrupted \cup {k}
               /\ Misses(next_server_index)

stop_session(k) ==
    /\ sessions' = [y \in DOMAIN sessions \ {k} |-> sessions[y]]
    /\ IF k \in DOMAIN sessions /\ sessions[k] \in Servers
       THEN Misses(sessions[k]) ELSE UNCHANGED missed
    /\ UNCHANGED <<next_server_index, interrupted>>

(* Audio creates a missing decoder; the manager ignores audio without a    *)
(* session and changes none.                                               *)
process_audio_packet(k) ==
    /\ decoders' = decoders \cup {k}
    /\ UNCHANGED <<manager, interrupted, missed>>

(* TranscriptionWorker::run takes one command.  A start replaces the       *)
(* decoder whether or not the session could be started.                    *)
run ==
    /\ cmds # <<>>
    /\ cmds' = Tail(cmds)
    /\ LET k == Head(cmds).key IN
       \/ /\ Head(cmds).op = "start"
          /\ start_session(k, Head(cmds).own)
          /\ decoders' = decoders \cup {k}
       \/ /\ Head(cmds).op = "stop"
          /\ stop_session(k)
          /\ decoders' = decoders \ {k}
       \/ Head(cmds).op = "audio" /\ process_audio_packet(k)
    /\ UNCHANGED <<rpc, inbox, extractor>>

-----------------------------------------------------------------------------
Next ==
    \/ \E c \in Clients, k \in Keys : enable_transcription(c, k) \/ disable_transcription(c, k)
    \/ \E c \in Clients : notify(c)
    \/ handle_signaling_message
    \/ \E x \in Ssrcs : forward_audio(x)
    \/ run

Spec == Init /\ [][Next]_vars

-----------------------------------------------------------------------------
(* The commands that start, stop or feed the key, by position. *)
Positions(op, k) == {i \in DOMAIN cmds : cmds[i].op = op /\ cmds[i].key = k}

(* Audio never reaches the manager ahead of the session it is meant for:   *)
(* as long as a key was never stopped and its session could be started,    *)
(* every audio command for it has the session, or a start before it in the *)
(* channel.  The handler sends StartSession before it tells the media      *)
(* worker, and both senders share one channel.                             *)
AudioFollowsStart ==
    \A k \in Keys \ interrupted : \A i \in Positions("audio", k) :
        \/ k \in DOMAIN sessions
        \/ \E j \in Positions("start", k) : j < i

(* The sessions that a server of the default configuration carries. *)
Load(a) == {k \in DOMAIN sessions : sessions[k] = a}

(* Two servers have had as many turns, but for one: what a server carries  *)
(* less than another it has lost by stopped sessions, by connections that  *)
(* failed and by requests with a server of their own, all of which use up  *)
(* a turn of the index, and by nothing else.                               *)
LoadIsBalanced ==
    \A a, b \in Servers :
        Cardinality(Load(a)) + missed[a] <= Cardinality(Load(b)) + missed[b] + 1

(* The audio of a session that is not enabled is not forwarded.            *)
ExtractionFollowsEnable == \A x \in Ssrcs : Target(x) \subseteq enabled
=============================================================================
