------------------------ MODULE TranscriptionProofs -------------------------
(***************************************************************************)
(* Proofs about Transcription for every set of sessions, endpoints, SSRCs  *)
(* and clients, every number of servers and every bound on the channel.    *)
(***************************************************************************)
EXTENDS Transcription, FiniteSetTheorems, TLAPS

(* The inductive invariant of the proofs.  A stop in the channel was       *)
(* counted as an interruption when it was sent.                            *)
StopsInterrupt == \A k \in Keys : Positions("stop", k) # {} => k \in interrupted

(* Whoever may yet direct audio to a key: a note on its way to the media   *)
(* worker, the default session, the map.                                   *)
Noted(k) ==
    \/ \E c \in Clients : rpc[c] = <<[op |-> "enable", key |-> k]>>
    \/ inbox = <<[op |-> "enable", key |-> k]>>
    \/ k \in default_session
    \/ \E x \in DOMAIN ssrc_map : ssrc_map[x] = k

(* Such a key has its session or a start in the channel, unless it was     *)
(* interrupted.                                                            *)
NotedIsStarted ==
    \A k \in Keys \ interrupted :
        Noted(k) => k \in DOMAIN sessions \/ Positions("start", k) # {}

(* The turns that a server has had: with a session now, or without. *)
Turns(a) == Cardinality(Load(a)) + missed[a]

(* The servers below the index have had one turn more than the last one,   *)
(* the others as many.                                                     *)
RoundRobin ==
    /\ IsFiniteSet(DOMAIN sessions)
    /\ \A a \in Servers :
          Turns(a) = Turns(NumServers - 1) + (IF a < next_server_index THEN 1 ELSE 0)

IInv == TypeOK /\ AudioFollowsStart /\ StopsInterrupt /\ NotedIsStarted /\ RoundRobin

(* A slot of the signalling channel holds nothing or one note. *)
LEMMA SlotShape ==
    ASSUME NEW q \in Seq(Note), Len(q) <= 1
    PROVE  q = <<>> \/ \E m \in Note : q = <<m>>
<1>0. Len(q) = 0 \/ Len(q) = 1
  <2> DEFINE n == Len(q)
  <2>1. n \in Nat /\ n <= 1
        OBVIOUS
  <2> HIDE DEF n
  <2>2. n = 0 \/ n = 1
        BY <2>1
  <2> QED BY <2>2 DEF n
<1>1. CASE Len(q) = 0
      BY <1>1
<1>2. CASE Len(q) = 1
  <2>1. q[1] \in Note /\ q = <<q[1]>>
        BY <1>2
  <2> QED BY <2>1
<1> QED BY <1>0, <1>1, <1>2

(* The index of the round robin stays below the number of servers. *)
LEMMA NextIndex ==
    ASSUME NEW i \in Servers
    PROVE  (i + 1) % NumServers = IF i = NumServers - 1 THEN 0 ELSE i + 1
BY TranscriptionAssumption DEF Servers

-----------------------------------------------------------------------------
(* The extractor and the manager start well typed. *)
LEMMA TypeInit == Init => TypeOK
<1>1. Cardinality({}) = 0
      BY FS_EmptySet
<1>2. 0 \in Servers
      BY TranscriptionAssumption DEF Servers
<1> SUFFICES ASSUME Init PROVE TypeOK
    OBVIOUS
<1>3. <<>> \in Seq(Note) /\ <<>> \in Seq(Command) /\ Len(<<>>) = 0
      OBVIOUS
<1>4. DOMAIN ssrc_map = {} /\ DOMAIN sessions = {}
      BY DEF Init
<1>5. Cardinality(default_session) <= 1
      BY <1>1 DEF Init
<1>6. rpc \in [Clients -> Seq(Note)] /\ \A c \in Clients : Len(rpc[c]) <= 1
      BY <1>3 DEF Init
<1>7. inbox \in Seq(Note) /\ Len(inbox) <= 1 /\ cmds \in Seq(Command) /\ Len(cmds) <= MaxCmds
      BY <1>3, TranscriptionAssumption DEF Init
<1> QED BY <1>2, <1>4, <1>5, <1>6, <1>7 DEF Init, TypeOK

(* What a sender to the transcription worker does to the channel. *)
LEMMA SendEffect ==
    ASSUME TypeOK, NEW cmd \in Command, Send(cmd)
    PROVE  /\ cmds' \in Seq(Command)
           /\ Len(cmds') <= MaxCmds
           /\ Len(cmds') = Len(cmds) + 1
           /\ DOMAIN cmds' = DOMAIN cmds \cup {Len(cmds) + 1}
           /\ \A i \in DOMAIN cmds : cmds'[i] = cmds[i]
           /\ cmds'[Len(cmds) + 1] = cmd
BY TranscriptionAssumption DEF TypeOK, Send

(* What the transcription worker leaves in the channel. *)
LEMMA TailEffect ==
    ASSUME TypeOK, cmds # <<>>, cmds' = Tail(cmds)
    PROVE  /\ cmds' \in Seq(Command)
           /\ Len(cmds') <= MaxCmds
           /\ Head(cmds) \in Command
           /\ Head(cmds) = cmds[1]
           /\ 1 \in DOMAIN cmds
           /\ \A i \in DOMAIN cmds' : i \in Nat \ {0} /\ i + 1 \in DOMAIN cmds /\ cmds'[i] = cmds[i + 1]
           /\ \A i \in DOMAIN cmds \ {1} : i \in Nat /\ i - 1 \in DOMAIN cmds' /\ cmds'[i - 1] = cmds[i]
BY TranscriptionAssumption DEF TypeOK

-----------------------------------------------------------------------------
(* The types, action by action. *)
LEMMA RpcType ==
    ASSUME TypeOK, NEW c \in Clients, NEW k \in Keys,
           enable_transcription(c, k) \/ disable_transcription(c, k)
    PROVE  TypeOK'
<1>1. PICK cmd \in Command : Send(cmd)
      BY DEF enable_transcription, disable_transcription, start_transcription_session,
             stop_transcription_session, Command
<1>2. PICK op \in {"enable", "disable", "leave"} :
         rpc' = [rpc EXCEPT ![c] = <<[op |-> op, key |-> k]>>]
      BY DEF enable_transcription, disable_transcription
<1>3. rpc' \in [Clients -> Seq(Note)] /\ \A d \in Clients : Len(rpc'[d]) <= 1
  <2>1. [op |-> op, key |-> k] \in Note
        BY DEF Note
  <2>2. /\ <<[op |-> op, key |-> k]>> \in Seq(Note)
        /\ Len(<<[op |-> op, key |-> k]>>) <= 1
        BY <2>1
  <2> QED BY <1>2, <2>2 DEF TypeOK
<1>4. interrupted' \subseteq Keys
      BY DEF TypeOK, enable_transcription, disable_transcription, stop_transcription_session
<1>5. UNCHANGED <<inbox, extractor, decoders, manager, missed>>
      BY DEF enable_transcription, disable_transcription
<1> QED BY <1>1, <1>3, <1>4, <1>5, SendEffect DEF TypeOK, extractor, manager

(* Types: the handler's second half. *)
LEMMA NotifyType ==
    ASSUME TypeOK, NEW c \in Clients, notify(c)
    PROVE  TypeOK'
<1>1. rpc' \in [Clients -> Seq(Note)] /\ \A d \in Clients : Len(rpc'[d]) <= 1
  <2>1. <<>> \in Seq(Note) /\ Len(<<>>) <= 1
        OBVIOUS
  <2> QED BY <2>1 DEF TypeOK, notify
<1>2. inbox' \in Seq(Note) /\ Len(inbox') <= 1
      BY DEF TypeOK, notify
<1> QED BY <1>1, <1>2 DEF TypeOK, notify, extractor, manager

(* A note is taken, and says what becomes of the default session. *)
LEMMA MessageEffect ==
    ASSUME TypeOK, handle_signaling_message
    PROVE  \E m \in Note :
              /\ inbox = <<m>>
              /\ inbox' = <<>>
              /\ enabled' \subseteq Keys
              /\ \/ m.op = "enable" /\ default_session' = {m.key}
                 \/ m.op # "enable" /\ default_session' = default_session
<1>1. PICK m \in Note : inbox = <<m>>
      BY SlotShape DEF TypeOK, handle_signaling_message
<1>2. Head(inbox) = m /\ Tail(inbox) = <<>> /\ m.key \in Keys
      BY <1>1 DEF Note
<1>3. inbox' = <<>>
      BY <1>2 DEF handle_signaling_message
<1>4. CASE m.op = "enable" /\ enable_transcription_for_session(m.key)
      BY <1>1, <1>2, <1>3, <1>4 DEF TypeOK, enable_transcription_for_session
<1>5. CASE m.op = "disable" /\ disable_transcription_for_session(m.key)
      BY <1>1, <1>2, <1>3, <1>5 DEF TypeOK, disable_transcription_for_session
<1>6. CASE m.op = "leave" /\ UNCHANGED <<enabled, default_session>>
      BY <1>1, <1>2, <1>3, <1>6 DEF TypeOK
<1> QED BY <1>2, <1>4, <1>5, <1>6 DEF handle_signaling_message

(* Types: the media worker takes a note. *)
LEMMA MessageType ==
    ASSUME TypeOK, handle_signaling_message
    PROVE  TypeOK'
<1>1. PICK m \in Note :
         /\ inbox' = <<>>
         /\ enabled' \subseteq Keys
         /\ \/ m.op = "enable" /\ default_session' = {m.key}
            \/ m.op # "enable" /\ default_session' = default_session
      BY MessageEffect
<1>2. default_session' \subseteq Keys /\ Cardinality(default_session') <= 1
  <2>0. Cardinality({m.key}) = 1
        BY FS_Singleton
  <2>1. Cardinality({m.key}) <= 1 /\ {m.key} \subseteq Keys
        BY <2>0 DEF Note
  <2>2. CASE default_session' = {m.key}
        BY <2>1, <2>2
  <2>3. CASE default_session' = default_session
        BY <2>3 DEF TypeOK
  <2> QED BY <1>1, <2>2, <2>3
<1>3. inbox' \in Seq(Note) /\ Len(inbox') <= 1
      BY <1>1
<1> QED BY <1>1, <1>2, <1>3 DEF TypeOK, handle_signaling_message, manager

(* An audio packet maps its SSRC to a key and may send one command. *)
LEMMA ForwardEffect ==
    ASSUME TypeOK, NEW x \in Ssrcs, forward_audio(x)
    PROVE  \E k \in Keys :
              /\ k \in default_session \/ \E y \in DOMAIN ssrc_map : ssrc_map[y] = k
              /\ ssrc_map' = [y \in DOMAIN ssrc_map \cup {x} |-> IF y = x THEN k ELSE ssrc_map[y]]
              /\ \/ Send([op |-> "audio", key |-> k, own |-> FALSE])
                 \/ cmds' = cmds
<1>1. PICK k \in Target(x) :
         /\ ssrc_map' = [y \in DOMAIN ssrc_map \cup {x} |-> IF y = x THEN k ELSE ssrc_map[y]]
         /\ Send([op |-> "audio", key |-> k, own |-> FALSE]) \/ cmds' = cmds
      BY DEF forward_audio
<1>2. k \in default_session \/ \E y \in DOMAIN ssrc_map : ssrc_map[y] = k
      BY DEF Target
<1>3. k \in Keys
      BY <1>2 DEF TypeOK
<1> QED BY <1>1, <1>2, <1>3

(* Types: the media worker hands over audio. *)
LEMMA ForwardType ==
    ASSUME TypeOK, NEW x \in Ssrcs, forward_audio(x)
    PROVE  TypeOK'
<1>1. PICK k \in Keys :
         /\ ssrc_map' = [y \in DOMAIN ssrc_map \cup {x} |-> IF y = x THEN k ELSE ssrc_map[y]]
         /\ Send([op |-> "audio", key |-> k, own |-> FALSE]) \/ cmds' = cmds
      BY ForwardEffect
<1>2. cmds' \in Seq(Command) /\ Len(cmds') <= MaxCmds
  <2>1. [op |-> "audio", key |-> k, own |-> FALSE] \in Command
        BY DEF Command
  <2> QED BY <1>1, <2>1, SendEffect DEF TypeOK
<1>3. DOMAIN ssrc_map' \subseteq Ssrcs /\ \A y \in DOMAIN ssrc_map' : ssrc_map'[y] \in Keys
      BY <1>1 DEF TypeOK
<1> QED BY <1>2, <1>3 DEF TypeOK, forward_audio, manager

(* The three outcomes of a command, with what each does to the manager.    *)
LEMMA RunEffect ==
    ASSUME TypeOK, run, NEW k, k = Head(cmds).key
    PROVE  \/ /\ Head(cmds).op = "start"
              /\ k \in DOMAIN sessions
              /\ UNCHANGED <<manager, interrupted, missed>>
           \/ /\ Head(cmds).op = "start"
              /\ k \notin DOMAIN sessions
              /\ advance_server_index
              /\ \E a \in {OwnServer, next_server_index} :
                    /\ sessions' = [y \in DOMAIN sessions \cup {k} |->
                                      IF y # k THEN sessions[y] ELSE a]
                    /\ \/ a = OwnServer /\ Misses(next_server_index)
                       \/ a = next_server_index /\ UNCHANGED missed
              /\ UNCHANGED interrupted
           \/ /\ Head(cmds).op = "start"
              /\ k \notin DOMAIN sessions
              /\ advance_server_index
              /\ UNCHANGED sessions
              /\ interrupted' = interrupted \cup {k}
              /\ Misses(next_server_index)
           \/ Head(cmds).op = "stop" /\ stop_session(k)
           \/ Head(cmds).op = "audio" /\ UNCHANGED <<manager, interrupted, missed>>
<1>1. CASE Head(cmds).op = "start" /\ start_session(k, Head(cmds).own)
  <2>1. CASE k \in DOMAIN sessions
        BY <1>1, <2>1 DEF start_session
  <2>2. CASE k \notin DOMAIN sessions
    <3>1. CASE Head(cmds).own
          BY <1>1, <2>2, <3>1 DEF start_session
    <3>2. CASE ~Head(cmds).own
          BY <1>1, <2>2, <3>2 DEF start_session
    <3> QED BY <3>1, <3>2
  <2> QED BY <2>1, <2>2
<1>2. CASE Head(cmds).op = "stop" /\ stop_session(k)
      BY <1>2
<1>3. CASE Head(cmds).op = "audio" /\ process_audio_packet(k)
      BY <1>3 DEF process_audio_packet
<1> QED BY <1>1, <1>2, <1>3 DEF run

(* What a missed turn does to the counts. *)
LEMMA MissesType ==
    ASSUME TypeOK, NEW a, Misses(a)
    PROVE  missed' \in [Servers -> Int]
<1>1. missed \in [Servers -> Int]
      BY DEF TypeOK
<1>2. \A b \in Servers : missed[b] + (IF b = a THEN 1 ELSE 0)
                                    - (IF a = NumServers - 1 THEN 1 ELSE 0) \in Int
      BY <1>1
<1> QED BY <1>2 DEF Misses

(* Types: the transcription worker runs a command. *)
LEMMA RunType ==
    ASSUME TypeOK, run
    PROVE  TypeOK'
<1> DEFINE k == Head(cmds).key
<1>1. /\ cmds' \in Seq(Command)
      /\ Len(cmds') <= MaxCmds
      /\ Head(cmds) \in Command
      BY TailEffect DEF run
<1>2. k \in Keys /\ Head(cmds).own \in BOOLEAN
      BY <1>1 DEF Command
<1>3. decoders' \subseteq Keys
      BY <1>2 DEF TypeOK, run, process_audio_packet
<1>4. UNCHANGED <<rpc, inbox, extractor>>
      BY DEF run
<1>5. ASSUME DOMAIN sessions' \subseteq Keys,
             \A y \in DOMAIN sessions' : sessions'[y] \in Servers \cup {OwnServer},
             next_server_index' \in Servers,
             interrupted' \subseteq Keys,
             missed' \in [Servers -> Int]
      PROVE  TypeOK'
      BY <1>1, <1>3, <1>4, <1>5 DEF TypeOK, extractor
<1>6. ASSUME advance_server_index
      PROVE  next_server_index' \in Servers
  <2>1. next_server_index \in Servers
        BY DEF TypeOK
  <2> QED BY <1>6, <2>1, NextIndex, TranscriptionAssumption DEF advance_server_index, Servers
<1>7. CASE UNCHANGED <<manager, interrupted, missed>>
      BY <1>5, <1>7 DEF TypeOK, manager
<1>8. ASSUME NEW a \in {OwnServer, next_server_index},
             advance_server_index,
             sessions' = [y \in DOMAIN sessions \cup {k} |-> IF y # k THEN sessions[y] ELSE a],
             Misses(next_server_index) \/ UNCHANGED missed,
             UNCHANGED interrupted
      PROVE  TypeOK'
  <2>1. missed' \in [Servers -> Int]
        BY <1>8, MissesType DEF TypeOK
  <2>2. DOMAIN sessions' \subseteq Keys
        BY <1>2, <1>8 DEF TypeOK
  <2>3. \A y \in DOMAIN sessions' : sessions'[y] \in Servers \cup {OwnServer}
        BY <1>8 DEF TypeOK
  <2>4. interrupted' \subseteq Keys
        BY <1>8 DEF TypeOK
  <2> HIDE DEF k
  <2> QED BY <1>5, <1>6, <1>8, <2>1, <2>2, <2>3, <2>4
<1>9. CASE /\ advance_server_index
           /\ UNCHANGED sessions
           /\ interrupted' = interrupted \cup {k}
           /\ Misses(next_server_index)
      BY <1>2, <1>5, <1>6, <1>9, MissesType DEF TypeOK
<1>10. CASE stop_session(k)
  <2>1. missed' \in [Servers -> Int]
    <3>1. (\E a : Misses(a)) \/ UNCHANGED missed
          BY <1>10 DEF stop_session
    <3> QED BY <3>1, MissesType DEF TypeOK
  <2>2. /\ DOMAIN sessions' \subseteq Keys
        /\ \A y \in DOMAIN sessions' : sessions'[y] \in Servers \cup {OwnServer}
        BY <1>10 DEF TypeOK, stop_session
  <2> QED BY <1>5, <1>10, <2>1, <2>2 DEF TypeOK, stop_session
<1> QED BY <1>7, <1>8, <1>9, <1>10, RunEffect

(* Every step preserves the types. *)
LEMMA TypeStep ==
    ASSUME TypeOK, [Next]_vars
    PROVE  TypeOK'
<1>1. CASE UNCHANGED vars
      BY <1>1 DEF TypeOK, vars, extractor, manager
<1> QED BY <1>1, RpcType, NotifyType, MessageType, ForwardType, RunType DEF Next

-----------------------------------------------------------------------------
(* What the invariant says of the channel and of those who write to it.    *)
Control == AudioFollowsStart /\ StopsInterrupt /\ NotedIsStarted

(* The positions of a kind of command after a send. *)
LEMMA PositionsSend ==
    ASSUME TypeOK, NEW cmd \in Command, Send(cmd), NEW op, NEW k
    PROVE  /\ Positions(op, k) \subseteq 1 .. Len(cmds)
           /\ cmd.op = op /\ cmd.key = k => Positions(op, k)' = Positions(op, k) \cup {Len(cmds) + 1}
           /\ ~(cmd.op = op /\ cmd.key = k) => Positions(op, k)' = Positions(op, k)
<1>1. /\ DOMAIN cmds' = DOMAIN cmds \cup {Len(cmds) + 1}
      /\ \A i \in DOMAIN cmds : cmds'[i] = cmds[i]
      /\ cmds'[Len(cmds) + 1] = cmd
      BY SendEffect
<1>2. Len(cmds) \in Nat /\ DOMAIN cmds = 1 .. Len(cmds)
      BY DEF TypeOK
<1> QED BY <1>1, <1>2 DEF Positions

(* The positions of a kind of command after a receive. *)
LEMMA PositionsTail ==
    ASSUME TypeOK, cmds # <<>>, cmds' = Tail(cmds), NEW op, NEW k
    PROVE  /\ \A i \in Positions(op, k)' : i \in Nat \ {0} /\ i + 1 \in Positions(op, k)
           /\ \A i \in Positions(op, k) \ {1} : i \in Nat /\ i - 1 \in Positions(op, k)'
           /\ 1 \in Positions(op, k) <=> Head(cmds).op = op /\ Head(cmds).key = k
BY TailEffect DEF Positions

(* Control: the first half of enable and disable. *)
LEMMA RpcControl ==
    ASSUME TypeOK, Control, NEW c \in Clients, NEW k \in Keys,
           enable_transcription(c, k) \/ disable_transcription(c, k)
    PROVE  Control'
<1>1. PICK cmd \in Command :
         /\ Send(cmd)
         /\ cmd.key = k
         /\ \/ cmd.op = "start" /\ interrupted' = interrupted
            \/ cmd.op = "stop" /\ interrupted' = interrupted \cup {k}
  <2>1. CASE enable_transcription(c, k)
    <3>1. PICK own \in BOOLEAN : start_transcription_session(k, own)
          BY <2>1 DEF enable_transcription
    <3>2. [op |-> "start", key |-> k, own |-> own] \in Command
          BY DEF Command
    <3> QED BY <2>1, <3>1, <3>2 DEF enable_transcription, start_transcription_session
  <2>2. CASE disable_transcription(c, k)
    <3>1. [op |-> "stop", key |-> k, own |-> FALSE] \in Command
          BY DEF Command
    <3> QED BY <2>2, <3>1 DEF disable_transcription, stop_transcription_session
  <2> QED BY <2>1, <2>2
<1>2. UNCHANGED <<inbox, default_session, ssrc_map, sessions>>
      BY DEF enable_transcription, disable_transcription, extractor, manager
<1>3. /\ \A y \in Keys : Positions("audio", y)' = Positions("audio", y)
      /\ \A y \in Keys : Positions("start", y) \subseteq Positions("start", y)'
      /\ \A y \in Keys \ {k} : Positions("stop", y)' = Positions("stop", y)
      /\ cmd.op = "start" => Positions("start", k)' # {} /\ Positions("stop", k)' = Positions("stop", k)
  <2>1. ASSUME NEW y \in Keys
        PROVE  Positions("audio", y)' = Positions("audio", y)
        BY <1>1, PositionsSend
  <2>2. ASSUME NEW y \in Keys
        PROVE  Positions("start", y) \subseteq Positions("start", y)'
        BY <1>1, PositionsSend
  <2>3. ASSUME NEW y \in Keys, y # k \/ cmd.op = "start"
        PROVE  Positions("stop", y)' = Positions("stop", y)
        BY <1>1, <2>3, PositionsSend
  <2>4. ASSUME cmd.op = "start"
        PROVE  Positions("start", k)' # {}
        BY <1>1, <2>4, PositionsSend
  <2> QED BY <2>1, <2>2, <2>3, <2>4
<1>4. AudioFollowsStart'
      BY <1>1, <1>2, <1>3 DEF Control, AudioFollowsStart
<1>5. StopsInterrupt'
      BY <1>1, <1>3 DEF Control, StopsInterrupt
<1>6. ASSUME NEW y \in Keys \ interrupted', Noted(y)'
      PROVE  y \in DOMAIN sessions' \/ Positions("start", y)' # {}
  <2>1. CASE Noted(y)
        BY <1>1, <1>2, <1>3, <1>6, <2>1 DEF Control, NotedIsStarted
  <2>2. CASE ~Noted(y)
    <3>1. PICK d \in Clients : rpc'[d] = <<[op |-> "enable", key |-> y]>>
          BY <1>2, <1>6, <2>2 DEF Noted
    <3>2. d = c
          BY <2>2, <3>1 DEF Noted, TypeOK, enable_transcription, disable_transcription
    <3>3. rpc'[c][1] = [op |-> "enable", key |-> y]
          BY <3>1, <3>2
    <3>4. rpc'[c][1].op = "enable" /\ rpc'[c][1].key = y
          BY <3>3
    <3>5. CASE enable_transcription(c, k)
      <4>1. rpc'[c] = <<[op |-> "enable", key |-> k]>>
            BY <3>5 DEF TypeOK, enable_transcription
      <4>2. y = k
            BY <3>4, <4>1
      <4>3. cmd.op = "start"
        <5>1. PICK own \in BOOLEAN : start_transcription_session(k, own)
              BY <3>5 DEF enable_transcription
        <5>2. [op |-> "start", key |-> k, own |-> own] \in Command
              BY DEF Command
        <5>3. /\ cmds'[Len(cmds) + 1] = [op |-> "start", key |-> k, own |-> own]
              /\ cmds'[Len(cmds) + 1] = cmd
              BY <1>1, <5>1, <5>2, SendEffect DEF start_transcription_session
        <5> QED BY <5>3
      <4> QED BY <1>3, <4>2, <4>3
    <3>6. CASE disable_transcription(c, k)
      <4>1. PICK op \in {"disable", "leave"} : rpc' = [rpc EXCEPT ![c] = <<[op |-> op, key |-> k]>>]
            BY <3>6 DEF disable_transcription
      <4>2. rpc'[c][1].op = op
            BY <4>1 DEF TypeOK
      <4> QED BY <3>4, <4>2
    <3> QED BY <3>5, <3>6
  <2> QED BY <2>1, <2>2
<1> QED BY <1>4, <1>5, <1>6 DEF Control, NotedIsStarted

(* A step of the signalling channel makes nobody known who was not.        *)
LEMMA NotesControl ==
    ASSUME Control, UNCHANGED <<cmds, sessions, interrupted>>,
           \A k \in Keys : Noted(k)' => Noted(k)
    PROVE  Control'
BY DEF Control, AudioFollowsStart, StopsInterrupt, NotedIsStarted, Positions

(* Control: the handler's second half. *)
LEMMA NotifyControl ==
    ASSUME TypeOK, Control, NEW c \in Clients, notify(c)
    PROVE  Control'
<1>1. ASSUME NEW k \in Keys, Noted(k)'
      PROVE  Noted(k)
  <2>1. CASE \E d \in Clients : rpc'[d] = <<[op |-> "enable", key |-> k]>>
    <3>1. PICK d \in Clients : rpc'[d] = <<[op |-> "enable", key |-> k]>>
          BY <2>1
    <3>2. rpc'[c] = <<>>
          BY DEF TypeOK, notify
    <3>3. d # c
          BY <3>1, <3>2
    <3>4. rpc'[d] = rpc[d]
          BY <3>3 DEF TypeOK, notify
    <3> QED BY <3>1, <3>4 DEF Noted
  <2> QED BY <1>1, <2>1 DEF Noted, notify, extractor
<1> QED BY <1>1, NotesControl DEF notify, manager

(* Control: the media worker takes a note. *)
LEMMA MessageControl ==
    ASSUME TypeOK, Control, handle_signaling_message
    PROVE  Control'
<1>1. PICK m \in Note :
         /\ inbox = <<m>>
         /\ inbox' = <<>>
         /\ \/ m.op = "enable" /\ default_session' = {m.key}
            \/ m.op # "enable" /\ default_session' = default_session
      BY MessageEffect
<1>2. UNCHANGED <<rpc, ssrc_map, cmds, sessions, interrupted>>
      BY DEF handle_signaling_message, manager
<1>3. ASSUME NEW k \in Keys, Noted(k)'
      PROVE  Noted(k)
  <2>1. inbox' # <<[op |-> "enable", key |-> k]>>
        BY <1>1
  <2>2. CASE k \in default_session' /\ k \notin default_session
    <3>1. m.op = "enable" /\ m.key = k
          BY <1>1, <2>2
    <3>2. m = [op |-> "enable", key |-> k]
          BY <3>1 DEF Note
    <3> QED BY <1>1, <3>2 DEF Noted
  <2> QED BY <1>2, <1>3, <2>1, <2>2 DEF Noted
<1> QED BY <1>2, <1>3, NotesControl

(* Control: the media worker hands over audio. *)
LEMMA ForwardControl ==
    ASSUME TypeOK, Control, NEW x \in Ssrcs, forward_audio(x)
    PROVE  Control'
<1>1. PICK k \in Keys :
         /\ k \in default_session \/ \E y \in DOMAIN ssrc_map : ssrc_map[y] = k
         /\ ssrc_map' = [y \in DOMAIN ssrc_map \cup {x} |-> IF y = x THEN k ELSE ssrc_map[y]]
         /\ Send([op |-> "audio", key |-> k, own |-> FALSE]) \/ cmds' = cmds
      BY ForwardEffect
<1>2. UNCHANGED <<rpc, inbox, default_session, sessions, interrupted>>
      BY DEF forward_audio, manager
<1>3. Noted(k)
      BY <1>1 DEF Noted
<1>4. \A y \in Keys : Noted(y)' => Noted(y)
      BY <1>1, <1>2, <1>3 DEF Noted
<1>5. CASE cmds' = cmds
      BY <1>2, <1>4, <1>5, NotesControl
<1>6. CASE Send([op |-> "audio", key |-> k, own |-> FALSE])
  <2> DEFINE cmd == [op |-> "audio", key |-> k, own |-> FALSE]
  <2>1. cmd \in Command /\ cmd.op = "audio" /\ cmd.key = k
        BY DEF Command
  <2> HIDE DEF cmd
  <2>2. ASSUME NEW op, NEW y
        PROVE  /\ Positions(op, y) \subseteq 1 .. Len(cmds)
               /\ op = "audio" /\ y = k => Positions(op, y)' = Positions(op, y) \cup {Len(cmds) + 1}
               /\ ~(op = "audio" /\ y = k) => Positions(op, y)' = Positions(op, y)
        BY <1>6, <2>1, PositionsSend DEF cmd
  <2>3. /\ \A y \in Keys : Positions("start", y)' = Positions("start", y)
        /\ \A y \in Keys : Positions("stop", y)' = Positions("stop", y)
        /\ \A y \in Keys \ {k} : Positions("audio", y)' = Positions("audio", y)
        /\ Positions("audio", k)' = Positions("audio", k) \cup {Len(cmds) + 1}
        /\ \A j \in Positions("start", k) : j < Len(cmds) + 1
    <3>1. Len(cmds) \in Nat
          BY DEF TypeOK
    <3> QED BY <2>1, <2>2, <3>1
  <2>4. AudioFollowsStart'
    <3>1. k \in interrupted \/ k \in DOMAIN sessions \/ Positions("start", k) # {}
          BY <1>3 DEF Control, NotedIsStarted
    <3> QED BY <1>2, <2>3, <3>1 DEF Control, AudioFollowsStart
  <2>5. StopsInterrupt'
        BY <1>2, <2>3 DEF Control, StopsInterrupt
  <2>6. NotedIsStarted'
        BY <1>2, <1>4, <2>3 DEF Control, NotedIsStarted
  <2> QED BY <2>4, <2>5, <2>6 DEF Control
<1> QED BY <1>1, <1>5, <1>6

(* Control: the transcription worker runs a command. *)
LEMMA RunControl ==
    ASSUME TypeOK, Control, run
    PROVE  Control'
<1> DEFINE k == Head(cmds).key
<1>1. cmds # <<>> /\ cmds' = Tail(cmds)
      BY DEF run
<1>2. Head(cmds) \in Command /\ k \in Keys
      BY <1>1, TailEffect DEF Command
<1>3. UNCHANGED <<rpc, inbox, default_session, ssrc_map>>
      BY DEF run, extractor
<1>4. /\ interrupted \subseteq interrupted'
      /\ DOMAIN sessions \ {k} \subseteq DOMAIN sessions'
      /\ Head(cmds).op = "start" => k \in DOMAIN sessions' \/ k \in interrupted'
      /\ Head(cmds).op # "stop" => DOMAIN sessions \subseteq DOMAIN sessions'
  <2>1. CASE UNCHANGED <<manager, interrupted, missed>> /\ (Head(cmds).op # "start" \/ k \in DOMAIN sessions)
        BY <2>1 DEF manager
  <2>2. CASE Head(cmds).op = "stop" /\ stop_session(k)
        BY <2>2 DEF stop_session
  <2> HIDE DEF k
  <2>3. ASSUME NEW a,
               sessions' = [y \in DOMAIN sessions \cup {k} |-> IF y # k THEN sessions[y] ELSE a],
               UNCHANGED interrupted
        PROVE  <1>4!1
        BY <2>3
  <2>4. CASE UNCHANGED sessions /\ interrupted' = interrupted \cup {k}
        BY <2>4
  <2> QED BY <2>1, <2>2, <2>3, <2>4, RunEffect DEF k
<1>5. Head(cmds).op = "stop" => k \in interrupted
  <2>1. 1 \in Positions("stop", k) <=> Head(cmds).op = "stop"
        BY <1>1, PositionsTail
  <2> QED BY <1>2, <2>1 DEF Control, StopsInterrupt
<1> HIDE DEF k
<1>6. ASSUME NEW op, NEW y
      PROVE  /\ \A i \in Positions(op, y)' : i \in Nat \ {0} /\ i + 1 \in Positions(op, y)
             /\ \A i \in Positions(op, y) \ {1} : i \in Nat /\ i - 1 \in Positions(op, y)'
             /\ 1 \in Positions(op, y) <=> Head(cmds).op = op /\ k = y
      BY <1>1, PositionsTail DEF k
(* A start that leaves the channel leaves a session or an interruption. *)
<1>7. ASSUME NEW y \in Keys \ interrupted', y \in DOMAIN sessions \/ 1 \in Positions("start", y)
      PROVE  y \in DOMAIN sessions'
      BY <1>4, <1>5, <1>6, <1>7
<1>8. AudioFollowsStart'
  <2> SUFFICES ASSUME NEW y \in Keys \ interrupted', NEW i \in Positions("audio", y)',
                      y \notin DOMAIN sessions'
               PROVE  \E j \in Positions("start", y)' : j < i
      BY DEF AudioFollowsStart
  <2>1. i \in Nat \ {0} /\ i + 1 \in Positions("audio", y)
        BY <1>6
  <2>2. PICK j \in Positions("start", y) : j < i + 1
        BY <1>4, <1>7, <2>1 DEF Control, AudioFollowsStart
  <2>3. j # 1
        BY <1>7, <2>2
  <2>4. j \in Nat /\ j - 1 \in Positions("start", y)'
        BY <1>6, <2>2, <2>3
  <2>5. j - 1 < i
        BY <2>1, <2>2, <2>4
  <2> QED BY <2>4, <2>5
<1>9. StopsInterrupt'
      BY <1>4, <1>6 DEF Control, StopsInterrupt
<1>10. NotedIsStarted'
  <2> SUFFICES ASSUME NEW y \in Keys \ interrupted', Noted(y)', y \notin DOMAIN sessions'
               PROVE  Positions("start", y)' # {}
      BY DEF NotedIsStarted
  <2>1. Noted(y)
        BY <1>3 DEF Noted
  <2>2. PICK j \in Positions("start", y) : TRUE
        BY <1>4, <1>7, <2>1 DEF Control, NotedIsStarted
  <2>3. j # 1
        BY <1>7, <2>2
  <2> QED BY <1>6, <2>2, <2>3
<1> QED BY <1>8, <1>9, <1>10 DEF Control

-----------------------------------------------------------------------------
(* The sessions and the round robin.  The loads are numbers. *)
LEMMA LoadsCount ==
    ASSUME RoundRobin, TypeOK, NEW a \in Servers
    PROVE  /\ IsFiniteSet(Load(a))
           /\ Cardinality(Load(a)) \in Nat
           /\ Turns(a) \in Int
<1>1. Load(a) \in SUBSET DOMAIN sessions
      BY DEF Load
<1>2. IsFiniteSet(Load(a)) /\ Cardinality(Load(a)) \in Nat
      BY <1>1, FS_Subset, FS_CardinalityType DEF RoundRobin
<1>3. missed[a] \in Int
      BY DEF TypeOK
<1> QED BY <1>2, <1>3 DEF Turns

(* One more turn of the server at the index, and the index moved on, keep  *)
(* the turns one apart.  off is what all counts are lowered by.            *)
LEMMA TurnTaken ==
    ASSUME TypeOK, RoundRobin, advance_server_index, NEW off \in Int,
           \A a \in Servers : Turns(a)' = Turns(a) + (IF a = next_server_index THEN 1 ELSE 0) - off
    PROVE  \A a \in Servers : Turns(a)' = Turns(NumServers - 1)'
                                            + (IF a < next_server_index' THEN 1 ELSE 0)
<1> DEFINE i == next_server_index
           last == NumServers - 1
           n == Turns(last)
<1>1. i \in Servers /\ last \in Servers
      BY TranscriptionAssumption DEF TypeOK, Servers
<1>2. n \in Int
      BY <1>1, LoadsCount
<1>3. next_server_index' = IF i = last THEN 0 ELSE i + 1
      BY <1>1, NextIndex DEF advance_server_index
<1> SUFFICES ASSUME NEW a \in Servers
             PROVE  Turns(a)' = Turns(NumServers - 1)' + (IF a < next_server_index' THEN 1 ELSE 0)
    OBVIOUS
<1>4. a \in Nat /\ i \in Nat /\ a <= last /\ i <= last /\ last \in Nat
      BY <1>1, TranscriptionAssumption DEF Servers
<1>5. Turns(a) = n + (IF a < i THEN 1 ELSE 0)
      BY DEF RoundRobin
<1> DEFINE m == Turns(NumServers - 1)'
           t == Turns(a)'
<1>6. /\ t = Turns(a) + (IF a = i THEN 1 ELSE 0) - off
      /\ m = n + (IF last = i THEN 1 ELSE 0) - off
      BY <1>1
<1> HIDE DEF n, m, t
<1>7. CASE i = last
  <2>1. t = n + 1 - off /\ m = n + 1 - off
        BY <1>2, <1>4, <1>5, <1>6, <1>7
  <2>2. ~(a < next_server_index')
        BY <1>3, <1>4, <1>7
  <2> QED BY <1>2, <2>1, <2>2 DEF m, t
<1>8. CASE i # last
  <2>1. m = n - off
        BY <1>2, <1>6, <1>8
  <2>2. next_server_index' = i + 1
        BY <1>3, <1>8
  <2>3. CASE a <= i
    <3>1. t = n + 1 - off
          BY <1>2, <1>4, <1>5, <1>6, <2>3
    <3>2. a < next_server_index'
          BY <1>4, <2>2, <2>3
    <3> QED BY <1>2, <2>1, <3>1, <3>2 DEF m, t
  <2>4. CASE ~(a <= i)
    <3>1. t = n - off
          BY <1>2, <1>4, <1>5, <1>6, <2>4
    <3>2. ~(a < next_server_index')
          BY <1>4, <2>2, <2>4
    <3> QED BY <1>2, <2>1, <3>1, <3>2 DEF m, t
  <2> QED BY <2>3, <2>4
<1> QED BY <1>7, <1>8

(* A missed turn of the server i counts as one of its turns. *)
LEMMA MissedTurn ==
    ASSUME TypeOK, RoundRobin, NEW i \in Servers, Misses(i), \A a \in Servers : Load(a)' = Load(a)
    PROVE  \E off \in Int : \A a \in Servers :
              Turns(a)' = Turns(a) + (IF a = i THEN 1 ELSE 0) - off
<1> DEFINE off == IF i = NumServers - 1 THEN 1 ELSE 0
<1>1. ASSUME NEW a \in Servers
      PROVE  Turns(a)' = Turns(a) + (IF a = i THEN 1 ELSE 0) - off
  <2> DEFINE c == Cardinality(Load(a))
             h == missed[a]
             one == IF a = i THEN 1 ELSE 0
  <2>1. c \in Nat /\ h \in Int /\ one \in Int /\ off \in Int
        BY LoadsCount DEF TypeOK
  <2>2. missed'[a] = h + one - off
        BY DEF Misses
  <2>3. Turns(a)' = c + (h + one - off)
        BY <2>2 DEF Turns
  <2>4. Turns(a) = c + h
        BY DEF Turns
  <2> HIDE DEF c, h, one, off
  <2>5. c + (h + one - off) = (c + h) + one - off
        BY <2>1
  <2> QED BY <2>3, <2>4, <2>5 DEF one
<1>2. off \in Int
      OBVIOUS
<1> QED BY <1>1, <1>2

(* A new session on the server i is one of its turns. *)
LEMMA SessionTurn ==
    ASSUME TypeOK, RoundRobin, NEW i \in Servers, NEW k, k \notin DOMAIN sessions,
           sessions' = [y \in DOMAIN sessions \cup {k} |-> IF y # k THEN sessions[y] ELSE i],
           UNCHANGED missed
    PROVE  \A a \in Servers : Turns(a)' = Turns(a) + (IF a = i THEN 1 ELSE 0) - 0
<1> SUFFICES ASSUME NEW a \in Servers
             PROVE  Turns(a)' = Turns(a) + (IF a = i THEN 1 ELSE 0) - 0
    OBVIOUS
<1>1. /\ IsFiniteSet(Load(a)) /\ Cardinality(Load(a)) \in Nat /\ missed[a] \in Int
      BY LoadsCount DEF TypeOK
<1>2. CASE a = i
  <2>1. Load(a)' = Load(a) \cup {k} /\ k \notin Load(a)
        BY <1>2 DEF Load
  <2>2. Cardinality(Load(a) \cup {k}) = Cardinality(Load(a)) + 1
        BY <1>1, <2>1, FS_AddElement
  <2>3. Turns(a)' = (Cardinality(Load(a)) + 1) + missed[a]
        BY <2>1, <2>2 DEF Turns
  <2> QED BY <1>1, <1>2, <2>3 DEF Turns
<1>3. CASE a # i
  <2>1. Load(a)' = Load(a)
        BY <1>3 DEF Load
  <2>2. Turns(a)' = Turns(a)
        BY <2>1 DEF Turns
  <2> QED BY <1>1, <1>3, <2>2 DEF Turns
<1> QED BY <1>2, <1>3

(* A session that ends leaves a missed turn. *)
LEMMA StopKeepsTurns ==
    ASSUME TypeOK, RoundRobin, NEW k, stop_session(k)
    PROVE  RoundRobin'
<1>1. IsFiniteSet(DOMAIN sessions')
      BY FS_RemoveElement DEF RoundRobin, stop_session
<1>2. next_server_index' = next_server_index
      BY DEF stop_session
<1>3. CASE ~(k \in DOMAIN sessions /\ sessions[k] \in Servers)
  <2>1. missed' = missed
        BY <1>3 DEF stop_session
  <2>2. \A a \in Servers : Load(a)' = Load(a)
        BY <1>3 DEF stop_session, Load
  <2>3. \A a \in Servers : Turns(a)' = Turns(a)
        BY <2>1, <2>2 DEF Turns
  <2>4. NumServers - 1 \in Servers
        BY TranscriptionAssumption DEF Servers
  <2> QED BY <1>1, <1>2, <2>3, <2>4 DEF RoundRobin
<1>4. CASE k \in DOMAIN sessions /\ sessions[k] \in Servers
  <2> DEFINE i == sessions[k]
             off == IF i = NumServers - 1 THEN 1 ELSE 0
  <2>1. Misses(i)
        BY <1>4 DEF stop_session
  <2>2. ASSUME NEW a \in Servers
        PROVE  Turns(a)' = Turns(a) - off
    <3> DEFINE c == Cardinality(Load(a))
               h == missed[a]
    <3>1. IsFiniteSet(Load(a)) /\ c \in Nat /\ h \in Int /\ off \in Int
          BY LoadsCount DEF TypeOK
    <3>2. CASE a = i
      <4>1. Load(a)' = Load(a) \ {k} /\ k \in Load(a)
            BY <1>4, <3>2 DEF stop_session, Load
      <4>2. Cardinality(Load(a) \ {k}) = c - 1
            BY <3>1, <4>1, FS_RemoveElement
      <4>3. missed'[a] = h + 1 - off
            BY <2>1, <3>2 DEF Misses
      <4>4. Turns(a)' = (c - 1) + (h + 1 - off) /\ Turns(a) = c + h
            BY <4>1, <4>2, <4>3 DEF Turns
      <4> HIDE DEF c, h, off
      <4> QED BY <3>1, <4>4
    <3>3. CASE a # i
      <4>1. Load(a)' = Load(a)
            BY <3>3 DEF stop_session, Load
      <4>2. missed'[a] = h + 0 - off
            BY <2>1, <3>3 DEF Misses
      <4>3. Turns(a)' = c + (h + 0 - off) /\ Turns(a) = c + h
            BY <4>1, <4>2 DEF Turns
      <4> HIDE DEF c, h, off
      <4> QED BY <3>1, <4>3
    <3> QED BY <3>2, <3>3
  <2>3. NumServers - 1 \in Servers
        BY TranscriptionAssumption DEF Servers
  <2>4. ASSUME NEW a \in Servers
        PROVE  Turns(a)' = Turns(NumServers - 1)' + (IF a < next_server_index' THEN 1 ELSE 0)
    <3> DEFINE n == Turns(NumServers - 1)
               one == IF a < next_server_index THEN 1 ELSE 0
               m == Turns(NumServers - 1)'
    <3>1. n \in Int /\ one \in Int /\ off \in Int
          BY <2>3, LoadsCount
    <3>2. Turns(a) = n + one
          BY DEF RoundRobin
    <3>3. Turns(a)' = (n + one) - off /\ m = n - off
          BY <2>2, <2>3, <3>2
    <3>4. (IF a < next_server_index' THEN 1 ELSE 0) = one
          BY <1>2
    <3>5. (n + one) - off = (n - off) + one
      <4> HIDE DEF n, one, off
      <4> QED BY <3>1
    <3> QED BY <3>3, <3>4, <3>5
  <2> QED BY <1>1, <2>4 DEF RoundRobin
<1> QED BY <1>3, <1>4

(* A new session is a turn of the server at the index, or a missed one. *)
LEMMA RoundRobinStep ==
    ASSUME TypeOK, RoundRobin, run
    PROVE  RoundRobin'
<1> DEFINE k == Head(cmds).key
           i == next_server_index
<1>0. i \in Servers
      BY DEF TypeOK
<1>1. CASE UNCHANGED <<manager, interrupted, missed>>
      BY <1>1 DEF RoundRobin, Turns, Load, manager
<1>2. ASSUME k \notin DOMAIN sessions, advance_server_index,
             NEW a \in {OwnServer, next_server_index},
             sessions' = [y \in DOMAIN sessions \cup {k} |-> IF y # k THEN sessions[y] ELSE a],
             \/ a = OwnServer /\ Misses(next_server_index)
             \/ a = next_server_index /\ UNCHANGED missed
      PROVE  RoundRobin'
  <2>1. IsFiniteSet(DOMAIN sessions')
        BY <1>2, FS_AddElement DEF RoundRobin
  <2>2. CASE a = OwnServer /\ Misses(i)
    <3>1. ASSUME NEW b \in Servers PROVE Load(b)' = Load(b)
      <4>1. b # OwnServer
            BY TranscriptionAssumption DEF Servers, OwnServer
      <4> HIDE DEF k
      <4> QED BY <1>2, <2>2, <4>1 DEF Load
    <3>2. PICK off \in Int : \A b \in Servers :
             Turns(b)' = Turns(b) + (IF b = i THEN 1 ELSE 0) - off
          BY <1>0, <2>2, <3>1, MissedTurn
    <3> QED BY <1>2, <2>1, <3>2, TurnTaken DEF RoundRobin
  <2>3. CASE a = i /\ UNCHANGED missed
    <3>1. \A b \in Servers : Turns(b)' = Turns(b) + (IF b = i THEN 1 ELSE 0) - 0
      <4> HIDE DEF k
      <4> QED BY <1>0, <1>2, <2>3, SessionTurn
    <3> QED BY <1>2, <2>1, <3>1, TurnTaken DEF RoundRobin
  <2> QED BY <1>2, <2>2, <2>3
<1>3. ASSUME UNCHANGED sessions, advance_server_index, Misses(next_server_index)
      PROVE  RoundRobin'
  <2>1. \A b \in Servers : Load(b)' = Load(b)
        BY <1>3 DEF Load
  <2>2. PICK off \in Int : \A b \in Servers :
           Turns(b)' = Turns(b) + (IF b = i THEN 1 ELSE 0) - off
        BY <1>0, <1>3, <2>1, MissedTurn
  <2> QED BY <1>3, <2>2, TurnTaken DEF RoundRobin
<1>4. CASE stop_session(k)
      BY <1>4, StopKeepsTurns
<1> QED BY <1>1, <1>2, <1>3, <1>4, RunEffect

-----------------------------------------------------------------------------
(* There is neither audio nor load at the start. *)
LEMMA InvInit == Init => IInv
<1> SUFFICES ASSUME Init PROVE IInv
    OBVIOUS
<1>1. \A op, k : Positions(op, k) = {}
      BY DEF Init, Positions
<1>2. \A k \in Keys : ~Noted(k)
      BY DEF Init, Noted
<1>3. DOMAIN sessions = {} /\ \A a : Load(a) = {}
      BY DEF Init, Load
<1>4. RoundRobin
  <2>1. \A a \in Servers : ~(a < next_server_index)
        BY DEF Init, Servers
  <2>2. IsFiniteSet({}) /\ Cardinality({}) = 0
        BY FS_EmptySet
  <2>3. \A a : Cardinality(Load(a)) = 0
        BY <1>3, <2>2
  <2>4. IsFiniteSet(DOMAIN sessions)
        BY <1>3, <2>2
  <2>5. NumServers - 1 \in Servers /\ \A a \in Servers : missed[a] = 0
        BY TranscriptionAssumption DEF Init, Servers
  <2> QED BY <2>1, <2>3, <2>4, <2>5 DEF RoundRobin, Turns
<1>5. AudioFollowsStart /\ StopsInterrupt /\ NotedIsStarted
      BY <1>1, <1>2 DEF AudioFollowsStart, StopsInterrupt, NotedIsStarted
<1> QED BY <1>4, <1>5, TypeInit DEF IInv

(* Every step preserves the invariant. *)
LEMMA InvStep ==
    ASSUME IInv, [Next]_vars
    PROVE  IInv'
<1>0. TypeOK /\ Control /\ RoundRobin
      BY DEF IInv, Control
<1>1. TypeOK'
      BY <1>0, TypeStep
<1>2. ASSUME Control', RoundRobin'
      PROVE  IInv'
      BY <1>1, <1>2 DEF IInv, Control
<1>3. ASSUME UNCHANGED <<manager, missed>>
      PROVE  RoundRobin'
      BY <1>0, <1>3 DEF RoundRobin, Turns, Load, manager
<1>4. CASE UNCHANGED vars
      BY <1>0, <1>2, <1>3, <1>4, NotesControl
      DEF vars, extractor, manager, Noted
<1>5. ASSUME NEW c \in Clients, NEW k \in Keys,
             enable_transcription(c, k) \/ disable_transcription(c, k)
      PROVE  IInv'
  <2>1. UNCHANGED <<manager, missed>>
        BY <1>5 DEF enable_transcription, disable_transcription
  <2> QED BY <1>0, <1>2, <1>3, <1>5, <2>1, RpcControl
<1>6. ASSUME NEW c \in Clients, notify(c)
      PROVE  IInv'
  <2>1. UNCHANGED <<manager, missed>>
        BY <1>6 DEF notify
  <2> QED BY <1>0, <1>2, <1>3, <1>6, <2>1, NotifyControl
<1>7. CASE handle_signaling_message
  <2>1. UNCHANGED <<manager, missed>>
        BY <1>7 DEF handle_signaling_message
  <2> QED BY <1>0, <1>2, <1>3, <1>7, <2>1, MessageControl
<1>8. ASSUME NEW x \in Ssrcs, forward_audio(x)
      PROVE  IInv'
  <2>1. UNCHANGED <<manager, missed>>
        BY <1>8 DEF forward_audio
  <2> QED BY <1>0, <1>2, <1>3, <1>8, <2>1, ForwardControl
<1>9. CASE run
      BY <1>0, <1>2, <1>9, RunControl, RoundRobinStep
<1> QED BY <1>4, <1>5, <1>6, <1>7, <1>8, <1>9 DEF Next

(* The inductive invariant holds: what is noted for extraction has been    *)
(* started, and the loads follow the index of the round robin.             *)
THEOREM Invariance == Spec => []IInv
BY InvInit, InvStep, PTL DEF Spec

(* The extractor, the channels and the manager keep their types; in        *)
(* particular the index of the round robin names a server.                 *)
THEOREM TypeCorrect == Spec => []TypeOK
<1>1. IInv => TypeOK
      BY DEF IInv
<1> QED BY <1>1, Invariance, PTL

(* In every interleaving of handlers, media worker and transcription       *)
(* worker, audio for a session that was not interrupted reaches the        *)
(* manager after the start of the session.                                 *)
THEOREM AudioAfterStart == Spec => []AudioFollowsStart
<1>1. IInv => AudioFollowsStart
      BY DEF IInv
<1> QED BY <1>1, Invariance, PTL

(* Whatever sessions started, failed, brought a server of their own or     *)
(* stopped, no server of any number of them is more than one turn ahead of *)
(* another.                                                                *)
THEOREM Balance == Spec => []LoadIsBalanced
<1>1. IInv => LoadIsBalanced
  <2> SUFFICES ASSUME IInv, NEW a \in Servers, NEW b \in Servers
               PROVE  Turns(a) <= Turns(b) + 1
      BY DEF LoadIsBalanced, Turns
  <2> DEFINE n == Turns(NumServers - 1)
             s == Turns(a)
             t == Turns(b)
  <2>1. NumServers - 1 \in Servers
        BY TranscriptionAssumption DEF Servers
  <2>2. n \in Int
        BY <2>1, LoadsCount DEF IInv
  <2>3. /\ s = n + (IF a < next_server_index THEN 1 ELSE 0)
        /\ t = n + (IF b < next_server_index THEN 1 ELSE 0)
        BY DEF IInv, RoundRobin
  <2> HIDE DEF n, s, t
  <2>4. s <= t + 1
        BY <2>2, <2>3
  <2> QED BY <2>4 DEF s, t
<1> QED BY <1>1, Invariance, PTL
=============================================================================
