----------------------- MODULE TranscriptsRefinement ------------------------
(***************************************************************************)
(* Proof that the distribution of transcripts (module Transcripts) is an   *)
(* implementation of Feed, for every set of keys and subscribers, every    *)
(* queue and every number of sessions.                                     *)
(***************************************************************************)
EXTENDS TranscriptsProofs

Distinct(list) == \A i, j \in DOMAIN list : list[i] = list[j] => i = j

(* The list of a session has the subscribers that came for it, each once,  *)
(* whether they are still there or not, and all that are there.            *)
SubscribersAreListed ==
    /\ \A t \in SessionIds :
          /\ Distinct(subscribers[t])
          /\ \A j \in DOMAIN subscribers[t] :
                TopicOf[subscribers[t][j]] = t /\ topic[subscribers[t][j]] # "none"
    /\ \A s \in Subs : topic[s] \in SessionIds =>
          /\ topic[s] = TopicOf[s]
          /\ \E j \in DOMAIN subscribers[topic[s]] : subscribers[topic[s]][j] = s

(* Those who are still to be given a result came for its session. *)
GivenToItsOwn ==
    poller.pc = "give" =>
        /\ Distinct(poller.to)
        /\ \A j \in DOMAIN poller.to :
              /\ TopicOf[poller.to[j]] = Head(poller.batch).key[1]
              /\ topic[poller.to[j]] # "none"

(* What is not distributed yet is the end of the log. *)
BatchEndsLog ==
    /\ Len(Undistributed) <= Len(log)
    /\ \A j \in DOMAIN Undistributed :
          Undistributed[j] = log[Len(log) - Len(Undistributed) + j]

RInv == SubscribersAreListed /\ GivenToItsOwn /\ BatchEndsLog

-----------------------------------------------------------------------------
(* The poller with a result in its hands. *)
LEMMA ResultInHand ==
    ASSUME IInv, RInv, poller.pc \in {"hand", "give"}
    PROVE  /\ poller.batch \in Seq(Segment) /\ log \in Seq(Segment) /\ Undistributed = poller.batch
           /\ Len(log) \in Nat /\ Len(poller.batch) \in Nat
           /\ 1 <= Len(poller.batch) /\ Len(poller.batch) <= Len(log)
           /\ log[(Len(log) - Len(poller.batch)) + 1] = Head(poller.batch)
           /\ Head(poller.batch).key[1] \in SessionIds
<1>1. poller.batch \in Seq(Segment) /\ log \in Seq(Segment) /\ poller.batch # <<>>
      BY DEF IInv, TypeOK, PollerInPhase
<1>2. Undistributed = poller.batch
      BY DEF Undistributed
<1>3. 1 \in DOMAIN poller.batch /\ Head(poller.batch) = poller.batch[1] /\ poller.batch[1] \in Segment
      BY <1>1
<1>4. poller.batch[1].key[1] \in SessionIds
  <2>1. poller.batch[1].key \in Keys
        BY <1>3 DEF Segment
  <2> QED BY <2>1 DEF SessionIds
<1>5. Len(log) \in Nat /\ Len(poller.batch) \in Nat /\ 1 <= Len(poller.batch)
      BY <1>1, <1>3
<1> QED BY <1>1, <1>2, <1>3, <1>4, <1>5 DEF RInv, BatchEndsLog

(* Where the subscribers are when the poller has gone on: past the result  *)
(* in its hands, but for those who are still to be given it.               *)
LEMMA PositionsAfter ==
    ASSUME IInv, RInv, poller.pc \in {"hand", "give"}, NEW to \in Seq(Subs), Distributed(to),
           log' = log, topic' = topic
    PROVE  /\ poller'.pc # "give" => poller'.to = <<>>
           /\ poller'.pc = "give" => poller'.to = to /\ poller'.batch = poller.batch
           /\ Undistributed' = IF to = <<>> THEN Tail(poller.batch) ELSE poller.batch
           /\ Offered' = [s \in Subs |->
                 IF topic[s] \notin SessionIds THEN 0
                 ELSE (Len(log) - Len(poller.batch)) + (IF s \in ToSet(to) THEN 0 ELSE 1)]
<1>1. /\ poller \in [pc : {"sleep", "poll", "hand", "give"}, todo : SUBSET Keys,
                     batch : Seq(Segment), to : Seq(Subs)]
      /\ poller.batch \in Seq(Segment)
      BY PollerType
<1>2. /\ Len(log) \in Nat /\ Len(poller.batch) \in Nat /\ 1 <= Len(poller.batch)
      BY ResultInHand
<1>3. CASE to # <<>>
  <2>1. poller' = [poller EXCEPT !.pc = "give", !.to = to]
        BY <1>3 DEF Distributed
  <2>2. poller'.pc = "give" /\ poller'.to = to /\ poller'.batch = poller.batch
        BY <1>1, <2>1
  <2>3. Undistributed' = poller.batch
        BY <2>2 DEF Undistributed
  <2>4. Offered' = [s \in Subs |->
                 IF topic[s] \notin SessionIds THEN 0
                 ELSE (Len(log) - Len(poller.batch)) + (IF s \in ToSet(to) THEN 0 ELSE 1)]
        BY <2>2, <2>3 DEF Offered
  <2> QED BY <1>3, <2>2, <2>3, <2>4
<1>4. CASE to = <<>>
  <2> DEFINE pc == IF Len(poller.batch) = 1 THEN "sleep" ELSE "hand"
             rest == Tail(poller.batch)
  <2>1. poller' = [poller EXCEPT !.pc = pc, !.to = <<>>, !.batch = rest]
        BY <1>4 DEF Distributed
  <2>2. rest \in Seq(Segment) /\ Len(rest) = Len(poller.batch) - 1
        BY <1>1, <1>2
  <2>3. pc \in {"sleep", "hand"} /\ (pc = "sleep" => rest = <<>>)
    <3>1. Len(rest) = 0 <=> rest = <<>>
          BY <2>2, EmptySeq, Zenon
    <3> HIDE DEF rest
    <3> QED BY <1>2, <2>2, <3>1
  <2> HIDE DEF pc, rest
  <2>4. poller'.pc = pc /\ poller'.to = <<>> /\ poller'.batch = rest
        BY <1>1, <2>1
  <2>5. Undistributed' = rest
        BY <2>3, <2>4 DEF Undistributed
  <2>6. ToSet(to) = {}
        BY <1>4 DEF ToSet
  <2>7. Offered' = [s \in Subs |->
                 IF topic[s] \notin SessionIds THEN 0
                 ELSE (Len(log) - Len(poller.batch)) + (IF s \in ToSet(to) THEN 0 ELSE 1)]
    <3>1. Len(log) - Len(rest) + 0 = (Len(log) - Len(poller.batch)) + 1
          BY <1>2, <2>2
    <3>2. poller'.pc # "give"
          BY <2>3, <2>4
    <3> QED BY <2>5, <2>6, <3>1, <3>2 DEF Offered
  <2> QED BY <1>4, <2>3, <2>4, <2>5, <2>7 DEF rest
<1> QED BY <1>3, <1>4

(* The end of the log is still the end of the log. *)
LEMMA EndsStay ==
    ASSUME IInv, RInv, poller.pc \in {"hand", "give"}, log' = log,
           \/ Undistributed' = poller.batch
           \/ Undistributed' = Tail(poller.batch)
    PROVE  BatchEndsLog'
<1> DEFINE n == Len(log)
           b == Len(poller.batch)
           u == Tail(poller.batch)
<1>1. /\ poller.batch \in Seq(Segment) /\ Undistributed = poller.batch
      /\ n \in Nat /\ b \in Nat /\ 1 <= b /\ b <= n
      BY ResultInHand
<1>2. \A j \in 1 .. b : poller.batch[j] = log[(n - b) + j]
  <2>1. DOMAIN poller.batch = 1 .. b
        BY <1>1
  <2>2. \A j \in DOMAIN poller.batch : poller.batch[j] = log[Len(log) - Len(poller.batch) + j]
        BY <1>1, Zenon DEF RInv, BatchEndsLog
  <2> QED BY <2>1, <2>2
<1>3. CASE Undistributed' = poller.batch
      BY <1>1, <1>3 DEF RInv, BatchEndsLog
<1>4. CASE Undistributed' = Tail(poller.batch)
  <2>1. Len(u) = b - 1 /\ DOMAIN u = 1 .. b - 1 /\ \A j \in 1 .. b - 1 : u[j] = poller.batch[j + 1]
        BY <1>1
  <2> HIDE DEF n, b, u
  <2>2. ASSUME NEW j \in 1 .. b - 1
        PROVE  u[j] = log[(n - (b - 1)) + j]
    <3>1. j + 1 \in 1 .. b /\ (n - (b - 1)) + j = (n - b) + (j + 1)
          BY <1>1
    <3> QED BY <1>2, <2>1, <3>1
  <2>3. b - 1 <= n
        BY <1>1
  <2> QED BY <1>4, <2>1, <2>2, <2>3 DEF BatchEndsLog, n, u
<1> QED BY <1>3, <1>4

-----------------------------------------------------------------------------
(* At the start there is nothing and nobody. *)
LEMMA ListedInit == Init => RInv
<1> SUFFICES ASSUME Init PROVE RInv
    OBVIOUS
<1>1. /\ subscribers = [t \in SessionIds |-> <<>>] /\ topic = [s \in Subs |-> "none"]
      /\ log = <<>> /\ poller.pc = "sleep"
      BY DEF Init
<1>2. "none" \notin SessionIds
      BY TranscriptsAssumption
<1>3. SubscribersAreListed
      BY <1>1, <1>2 DEF SubscribersAreListed, Distinct
<1>4. Undistributed = <<>>
      BY <1>1 DEF Undistributed
<1>5. BatchEndsLog
      BY <1>1, <1>4 DEF BatchEndsLog
<1> QED BY <1>1, <1>3, <1>5 DEF RInv, GivenToItsOwn

(* Steps that leave the subscriptions and the poller alone. *)
LEMMA ListedStays ==
    ASSUME RInv, UNCHANGED <<poller, subscribers, topic, log>>
    PROVE  RInv' /\ Offered' = Offered
BY DEF RInv, SubscribersAreListed, GivenToItsOwn, BatchEndsLog, Undistributed, Offered

(* The poller begins a poll, or goes on with it: nothing is in its hands. *)
LEMMA ListedPolls ==
    ASSUME IInv, RInv, poll_results \/ \E k \in Keys : poll_session(k)
    PROVE  /\ RInv' /\ Offered' = Offered /\ topic' = topic /\ queue' = queue
           /\ IsPrefix(log, log')
<1>1. /\ subscribers' = subscribers /\ topic' = topic /\ queue' = queue
      BY DEF poll_results, poll_session, subscriptions
<1>2. /\ poller \in [pc : {"sleep", "poll", "hand", "give"}, todo : SUBSET Keys,
                     batch : Seq(Segment), to : Seq(Subs)]
      /\ poller.batch \in Seq(Segment)
      BY PollerType
<1>3. log \in Seq(Segment) /\ Len(log) \in Nat
      BY DEF IInv, TypeOK
<1>4. poller.pc \in {"sleep", "poll"} /\ Undistributed = <<>>
      BY DEF poll_results, poll_session, Undistributed
<1>5. CASE poll_results
  <2>1. poller'.pc = "poll" /\ log' = log
        BY <1>2, <1>5 DEF poll_results
  <2>2. Undistributed' = <<>>
        BY <2>1 DEF Undistributed
  <2>3. Offered' = Offered
        BY <1>1, <1>4, <2>1, <2>2 DEF Offered
  <2>4. RInv'
        BY <1>1, <1>4, <2>1, <2>2 DEF RInv, SubscribersAreListed, GivenToItsOwn, BatchEndsLog
  <2>5. IsPrefix(log, log')
        BY <1>3, <2>1 DEF IsPrefix
  <2> QED BY <1>1, <2>3, <2>4, <2>5
<1>6. CASE \E k \in Keys : poll_session(k)
  <2>1. PICK k \in Keys : poll_session(k)
        BY <1>6
  <2> DEFINE r == objects[sessions[k]].results
             batch == poller.batch \o r
             last == poller.todo = {k}
             pc == IF ~last THEN "poll" ELSE IF batch = <<>> THEN "sleep" ELSE "hand"
  <2>2. /\ poller' = [poller EXCEPT !.todo = @ \ {k}, !.batch = batch, !.pc = pc]
        /\ log' = IF last THEN log \o batch ELSE log
        BY <2>1 DEF poll_session, Polled
  <2>3. r \in Seq(Segment)
    <3>1. sessions[k] \in DOMAIN objects
          BY <2>1 DEF poll_session, IInv, SessionsAreOpen, TypeOK
    <3> QED BY <3>1, SessionFacts DEF SessionObject
  <2>4. batch \in Seq(Segment) /\ Len(batch) \in Nat
        BY <1>2, <2>3
  <2>5. poller'.pc = pc /\ poller'.batch = batch
        BY <1>2, <2>2
  <2> HIDE DEF batch
  <2>6. /\ pc \in {"sleep", "poll", "hand"} /\ (pc = "hand" => last)
        /\ (last /\ pc # "hand" => batch = <<>>) /\ (~last => pc = "poll")
        OBVIOUS
  <2>7. Undistributed' = IF pc = "hand" THEN batch ELSE <<>>
        BY <2>5, <2>6 DEF Undistributed
  <2>8. Len(log') = Len(log) + Len(Undistributed')
    <3>1. CASE last
      <4>1. Undistributed' = batch
            BY <2>6, <2>7, <3>1
      <4>2. log' = log \o batch
            BY <2>2, <3>1
      <4> QED BY <1>3, <2>4, <4>1, <4>2
    <3>2. CASE ~last
      <4>1. Undistributed' = <<>> /\ log' = log
            BY <2>2, <2>6, <2>7, <3>2
      <4> QED BY <1>3, <4>1
    <3> QED BY <3>1, <3>2
  <2>9. Len(Undistributed') \in Nat
        BY <2>4, <2>7
  <2>10. BatchEndsLog'
    <3>1. Len(Undistributed') <= Len(log')
          BY <1>3, <2>8, <2>9
    <3>2. ASSUME NEW j \in DOMAIN Undistributed'
          PROVE  Undistributed'[j] = log'[Len(log') - Len(Undistributed') + j]
      <4>1. pc = "hand" /\ last /\ Undistributed' = batch /\ log' = log \o batch
        <5>1. CASE pc = "hand"
              BY <2>2, <2>6, <2>7, <5>1
        <5>2. CASE pc # "hand"
          <6>1. DOMAIN Undistributed' = {}
                BY <2>7, <5>2
          <6> QED BY <6>1
        <5> QED BY <5>1, <5>2
      <4>2. Len(log') - Len(Undistributed') = Len(log)
            BY <1>3, <2>8, <2>9
      <4>3. j \in 1 .. Len(batch) /\ (log \o batch)[Len(log) + j] = batch[j]
            BY <1>3, <2>4, <4>1
      <4> QED BY <4>1, <4>2, <4>3
    <3> QED BY <3>1, <3>2 DEF BatchEndsLog
  <2>11. poller'.pc # "give"
         BY <2>5, <2>6
  <2>12. RInv'
         BY <1>1, <2>10, <2>11 DEF RInv, SubscribersAreListed, GivenToItsOwn
  <2>13. Offered' = Offered
    <3>1. Len(log') - Len(Undistributed') + 0 = Len(log) - Len(Undistributed) + 0
          BY <1>3, <1>4, <2>8, <2>9
    <3> QED BY <1>1, <1>4, <2>11, <3>1 DEF Offered
  <2>14. IsPrefix(log, log')
    <3>1. CASE last
      <4>1. log' = log \o batch
            BY <2>2, <3>1
      <4>2. /\ Len(log) <= Len(log \o batch)
            /\ SubSeq(log, 1, Len(log)) = SubSeq(log \o batch, 1, Len(log))
            BY <1>3, <2>4
      <4> QED BY <4>1, <4>2 DEF IsPrefix
    <3>2. CASE ~last
          BY <1>3, <2>2, <3>2 DEF IsPrefix
    <3> QED BY <3>1, <3>2
  <2> QED BY <1>1, <2>12, <2>13, <2>14
<1> QED BY <1>5, <1>6

(* The first of a list, and the others. *)
LEMMA FirstOfList ==
    ASSUME NEW list \in Seq(Subs), list # <<>>, Distinct(list)
    PROVE  /\ Head(list) \in Subs /\ Tail(list) \in Seq(Subs)
           /\ ToSet(list) = {Head(list)} \cup ToSet(Tail(list))
           /\ Head(list) \notin ToSet(Tail(list))
           /\ Distinct(Tail(list))
           /\ \A j \in DOMAIN Tail(list) : \E i \in DOMAIN list : Tail(list)[j] = list[i]
<1> DEFINE n == Len(list)
           r == Tail(list)
<1>1. /\ n \in Nat /\ n > 0 /\ DOMAIN list = 1 .. n /\ Head(list) = list[1] /\ 1 \in 1 .. n
      /\ r \in Seq(Subs) /\ DOMAIN r = 1 .. n - 1 /\ \A j \in 1 .. n - 1 : r[j] = list[j + 1]
      /\ list[1] \in Subs
      OBVIOUS
<1> HIDE DEF n, r
<1>2. \A j \in 1 .. n - 1 : j + 1 \in 1 .. n /\ j + 1 # 1
      BY <1>1
<1>3. ToSet(list) = {list[1]} \cup ToSet(r)
  <2>1. ASSUME NEW i \in 1 .. n PROVE list[i] \in {list[1]} \cup ToSet(r)
    <3>1. CASE i = 1
          BY <3>1
    <3>2. CASE i # 1
      <4>1. i - 1 \in 1 .. n - 1 /\ (i - 1) + 1 = i
            BY <1>1, <3>2
      <4>2. r[i - 1] = list[i]
            BY <1>1, <4>1
      <4> QED BY <1>1, <4>1, <4>2 DEF ToSet
    <3> QED BY <3>1, <3>2
  <2>2. ASSUME NEW j \in 1 .. n - 1 PROVE r[j] \in ToSet(list)
        BY <1>1, <1>2 DEF ToSet
  <2>3. list[1] \in ToSet(list)
        BY <1>1 DEF ToSet
  <2> QED BY <1>1, <2>1, <2>2, <2>3 DEF ToSet
<1>4. list[1] \notin ToSet(r)
      BY <1>1, <1>2 DEF ToSet, Distinct
<1>5. Distinct(r)
  <2> SUFFICES ASSUME NEW i \in 1 .. n - 1, NEW j \in 1 .. n - 1, r[i] = r[j] PROVE i = j
      BY <1>1 DEF Distinct
  <2>1. list[i + 1] = list[j + 1] /\ i + 1 \in DOMAIN list /\ j + 1 \in DOMAIN list
        BY <1>1, <1>2
  <2>2. i + 1 = j + 1
        BY <2>1 DEF Distinct
  <2> QED BY <2>2
<1>6. \A j \in DOMAIN r : \E i \in DOMAIN list : r[j] = list[i]
      BY <1>1, <1>2
<1> QED BY <1>1, <1>3, <1>4, <1>5, <1>6 DEF r

(* A result is begun with: the subscribers of other sessions pass over it. *)
LEMMA DistributePasses ==
    ASSUME IInv, RInv, distribute
    PROVE  RInv' /\ F!Pass
<1> DEFINE t == Head(poller.batch).key[1]
           to == subscribers[t]
           base == Len(log) - Len(poller.batch)
           others == {s \in Subs : topic[s] \in SessionIds /\ s \notin ToSet(to)}
<1>1. /\ poller.pc = "hand" /\ Distributed(to) /\ log' = log /\ subscribers' = subscribers
      /\ topic' = topic /\ queue' = queue
      BY DEF distribute, subscriptions
<1>2. /\ Undistributed = poller.batch
      /\ Len(log) \in Nat /\ Len(poller.batch) \in Nat
      /\ 1 <= Len(poller.batch) /\ Len(poller.batch) <= Len(log)
      /\ log[base + 1] = Head(poller.batch) /\ t \in SessionIds
      BY <1>1, ResultInHand
<1>3. to \in Seq(Subs) /\ topic \in [Subs -> SessionIds \cup {"none", "closed"}]
      BY <1>2 DEF IInv, TypeOK
<1> HIDE DEF to
<1>4. /\ poller'.pc = "give" => poller'.to = to /\ poller'.batch = poller.batch
      /\ Undistributed' = IF to = <<>> THEN Tail(poller.batch) ELSE poller.batch
      /\ Offered' = [s \in Subs |->
            IF topic[s] \notin SessionIds THEN 0
            ELSE base + (IF s \in ToSet(to) THEN 0 ELSE 1)]
      BY <1>1, <1>3, PositionsAfter
<1>5. BatchEndsLog'
  <2>1. Undistributed' = poller.batch \/ Undistributed' = Tail(poller.batch)
        BY <1>4
  <2> QED BY <1>1, <2>1, EndsStay
<1>6. /\ Distinct(to)
      /\ \A j \in DOMAIN to : TopicOf[to[j]] = t /\ topic[to[j]] # "none"
      BY <1>2 DEF RInv, SubscribersAreListed, to
<1>7. GivenToItsOwn'
      BY <1>1, <1>4, <1>6 DEF GivenToItsOwn
<1>8. RInv'
      BY <1>1, <1>5, <1>7 DEF RInv, SubscribersAreListed
<1>9. base \in Int /\ base < Len(log) /\ base + 0 = base
      BY <1>2
<1>10. Offered = [s \in Subs |-> IF topic[s] \notin SessionIds THEN 0 ELSE base]
       BY <1>1, <1>2, <1>9 DEF Offered
<1> HIDE DEF base, t
<1>11. ASSUME NEW s \in others
       PROVE  s \in Subs /\ F!Behind(s) /\ F!NextResult(s).key[1] # topic[s]
  <2>1. s \in Subs /\ topic[s] \in SessionIds /\ s \notin ToSet(to) /\ Offered[s] = base
        BY <1>10
  <2>2. F!Behind(s)
        BY <1>9, <2>1 DEF F!Behind
  <2>3. F!NextResult(s) = Head(poller.batch)
        BY <1>2, <2>1 DEF F!NextResult
  <2>4. topic[s] # t
    <3>1. \E j \in DOMAIN subscribers[topic[s]] : subscribers[topic[s]][j] = s
          BY <2>1 DEF RInv, SubscribersAreListed
    <3> QED BY <2>1, <3>1 DEF ToSet, to
  <2> QED BY <2>1, <2>2, <2>3, <2>4 DEF t
<1>12. Offered' = [s \in Subs |-> IF s \in others THEN Offered[s] + 1 ELSE Offered[s]]
  <2> DEFINE off == [s \in Subs |-> IF s \in others THEN Offered[s] + 1 ELSE Offered[s]]
  <2>1. ASSUME NEW s \in Subs PROVE Offered'[s] = off[s]
    <3>1. CASE topic[s] \notin SessionIds
          BY <1>4, <1>10, <3>1
    <3>2. CASE topic[s] \in SessionIds /\ s \in ToSet(to)
          BY <1>4, <1>9, <1>10, <3>2
    <3>3. CASE topic[s] \in SessionIds /\ s \notin ToSet(to)
          BY <1>4, <1>10, <3>3
    <3> QED BY <3>1, <3>2, <3>3
  <2>2. off = [s \in Subs |-> off[s]] /\ Offered' = [s \in Subs |-> Offered'[s]]
        BY <1>4
  <2> HIDE DEF off
  <2> QED BY <2>1, <2>2 DEF off
<1> HIDE DEF others
<1>13. others \in SUBSET {s \in Subs : F!Behind(s) /\ F!NextResult(s).key[1] # topic[s]}
       BY <1>11
<1> QED BY <1>1, <1>8, <1>12, <1>13 DEF F!Pass

(* A result is given to one subscriber, or to one that has gone. *)
LEMMA TrySendOffers ==
    ASSUME IInv, RInv, try_send
    PROVE  RInv' /\ ((\E s \in Subs : F!Offer(s)) \/ UNCHANGED F!vars)
<1> DEFINE s == Head(poller.to)
           h == Head(poller.batch)
           rest == Tail(poller.to)
           base == Len(log) - Len(poller.batch)
<1>1. /\ poller.pc = "give" /\ Distributed(rest) /\ log' = log /\ subscribers' = subscribers
      /\ topic' = topic
      /\ queue' = IF topic[s] = "closed" \/ Len(queue[s]) = Capacity THEN queue
                  ELSE [queue EXCEPT ![s] = Append(@, h)]
      BY DEF try_send
<1>2. /\ Undistributed = poller.batch
      /\ Len(log) \in Nat /\ Len(poller.batch) \in Nat
      /\ 1 <= Len(poller.batch) /\ Len(poller.batch) <= Len(log)
      /\ log[base + 1] = h
      BY <1>1, ResultInHand
<1>3. /\ Distinct(poller.to) /\ poller.to \in Seq(Subs) /\ poller.to # <<>>
      /\ \A j \in DOMAIN poller.to : TopicOf[poller.to[j]] = h.key[1] /\ topic[poller.to[j]] # "none"
      BY <1>1 DEF RInv, GivenToItsOwn, IInv, TypeOK, PollerInPhase
<1>4. /\ s \in Subs /\ rest \in Seq(Subs)
      /\ ToSet(poller.to) = {s} \cup ToSet(rest) /\ s \notin ToSet(rest)
      /\ Distinct(rest)
      /\ \A j \in DOMAIN rest : \E i \in DOMAIN poller.to : rest[j] = poller.to[i]
      BY <1>3, FirstOfList
<1>5. TopicOf[s] = h.key[1] /\ topic[s] # "none"
  <2>1. 1 \in DOMAIN poller.to /\ s = poller.to[1]
        BY <1>3
  <2> QED BY <1>3, <2>1
<1>6. topic \in [Subs -> SessionIds \cup {"none", "closed"}] /\ queue \in [Subs -> Seq(Segment)]
      BY DEF IInv, TypeOK
<1>7. Len(queue[s]) \in Nat /\ Len(queue[s]) <= Capacity /\ Capacity \in Nat
      BY <1>4, <1>6, TranscriptsAssumption DEF IInv, TypeOK
<1> HIDE DEF s, rest
<1>8. /\ poller'.pc = "give" => poller'.to = rest /\ poller'.batch = poller.batch
      /\ Undistributed' = IF rest = <<>> THEN Tail(poller.batch) ELSE poller.batch
      /\ Offered' = [u \in Subs |->
            IF topic[u] \notin SessionIds THEN 0
            ELSE base + (IF u \in ToSet(rest) THEN 0 ELSE 1)]
      BY <1>1, <1>4, PositionsAfter
<1>9. BatchEndsLog'
  <2>1. Undistributed' = poller.batch \/ Undistributed' = Tail(poller.batch)
        BY <1>8
  <2> QED BY <1>1, <2>1, EndsStay
<1>10. GivenToItsOwn'
       BY <1>1, <1>3, <1>4, <1>8 DEF GivenToItsOwn
<1>11. RInv'
       BY <1>1, <1>9, <1>10 DEF RInv, SubscribersAreListed
<1>12. base \in Int /\ base < Len(log) /\ base + 0 = base
       BY <1>2
<1>13. Offered = [u \in Subs |->
            IF topic[u] \notin SessionIds THEN 0
            ELSE base + (IF u \in ToSet(poller.to) THEN 0 ELSE 1)]
       BY <1>1, <1>2 DEF Offered
<1> HIDE DEF base, h
<1>14. ASSUME NEW u \in Subs, u # s PROVE Offered'[u] = Offered[u]
       BY <1>4, <1>8, <1>13, <1>14
<1>15. Offered = [u \in Subs |-> Offered[u]] /\ Offered' = [u \in Subs |-> Offered'[u]]
       BY <1>8, <1>13
<1>16. CASE topic[s] = "closed"
  <2>1. "closed" \notin SessionIds
        BY TranscriptsAssumption
  <2>2. Offered'[s] = Offered[s]
        BY <1>4, <1>8, <1>13, <1>16, <2>1
  <2>3. Offered' = Offered
        BY <1>14, <1>15, <2>2
  <2>4. queue' = queue
        BY <1>1, <1>16
  <2> QED BY <1>1, <1>11, <2>3, <2>4 DEF F!vars
<1>17. CASE topic[s] # "closed"
  <2>1. topic[s] \in SessionIds
        BY <1>4, <1>5, <1>6, <1>17
  <2>2. topic[s] = h.key[1]
        BY <1>4, <1>5, <2>1 DEF RInv, SubscribersAreListed
  <2>3. Offered[s] = base /\ Offered'[s] = base + 1
        BY <1>4, <1>8, <1>12, <1>13, <2>1
  <2>4. F!Behind(s)
        BY <1>12, <2>1, <2>3 DEF F!Behind
  <2>5. F!NextResult(s) = h
        BY <1>2, <2>3 DEF F!NextResult
  <2>6. Offered' = [Offered EXCEPT ![s] = @ + 1]
    <3> DEFINE off == [Offered EXCEPT ![s] = @ + 1]
    <3>1. \A u \in Subs : Offered'[u] = off[u]
          BY <1>4, <1>14, <1>15, <2>3
    <3>2. off = [u \in Subs |-> off[u]]
          BY <1>15
    <3> HIDE DEF off
    <3>3. Offered' = off
          BY <1>15, <3>1, <3>2
    <3> QED BY <3>3 DEF off
  <2>7. queue' = IF Len(queue[s]) < Capacity
                 THEN [queue EXCEPT ![s] = Append(@, F!NextResult(s))] ELSE queue
        BY <1>1, <1>7, <1>17, <2>5
  <2>8. F!Offer(s)
        BY <1>1, <2>2, <2>4, <2>5, <2>6, <2>7 DEF F!Offer
  <2> QED BY <1>4, <1>11, <2>8
<1> QED BY <1>16, <1>17

(* A new subscriber is listed, and starts where the distribution stands. *)
LEMMA SubscribeJoins ==
    ASSUME IInv, RInv, NEW s \in Subs, subscribe_transcription(s)
    PROVE  RInv' /\ F!Subscribe(s)
<1> DEFINE t == TopicOf[s]
           list == subscribers[t]
           n == Len(list)
<1>1. /\ topic[s] = "none" /\ poller.pc # "give" /\ poller' = poller /\ log' = log
      /\ queue' = queue /\ topic' = [topic EXCEPT ![s] = t]
      /\ subscribers' = [subscribers EXCEPT ![t] = Append(list, s)]
      BY DEF subscribe_transcription
<1>2. /\ t \in SessionIds /\ "none" \notin SessionIds
      BY TranscriptsAssumption
<1>3. /\ topic \in [Subs -> SessionIds \cup {"none", "closed"}]
      /\ subscribers \in [SessionIds -> Seq(Subs)]
      BY DEF IInv, TypeOK
<1>4. list \in Seq(Subs) /\ n \in Nat /\ DOMAIN list = 1 .. n
      BY <1>2, <1>3
<1>5. /\ Distinct(list) /\ \A j \in 1 .. n : TopicOf[list[j]] = t /\ topic[list[j]] # "none"
      BY <1>2, <1>4 DEF RInv, SubscribersAreListed
<1> DEFINE new == Append(list, s)
<1>6. /\ DOMAIN new = 1 .. n + 1 /\ new[n + 1] = s /\ \A j \in 1 .. n : new[j] = list[j]
      BY <1>4
<1> HIDE DEF list, n, new
<1>7. /\ subscribers'[t] = new /\ \A x \in SessionIds : x # t => subscribers'[x] = subscribers[x]
      /\ topic'[s] = t /\ \A u \in Subs : u # s => topic'[u] = topic[u]
      BY <1>1, <1>2, <1>3 DEF new
<1> HIDE DEF t
<1>8. \A j \in 1 .. n : new[j] # s
      BY <1>1, <1>5, <1>6
<1>9. \A j \in DOMAIN new : j \in 1 .. n \/ j = n + 1
      BY <1>4, <1>6
<1>10. Distinct(new)
  <2> SUFFICES ASSUME NEW i \in DOMAIN new, NEW j \in DOMAIN new, new[i] = new[j] PROVE i = j
      BY DEF Distinct
  <2>1. CASE i \in 1 .. n /\ j \in 1 .. n
        BY <1>4, <1>5, <1>6, <2>1 DEF Distinct
  <2>2. CASE i = n + 1 \/ j = n + 1
        BY <1>6, <1>8, <1>9, <2>2
  <2> QED BY <1>9, <2>1, <2>2
<1>11. \A j \in DOMAIN new : TopicOf[new[j]] = t /\ topic'[new[j]] # "none"
  <2> SUFFICES ASSUME NEW j \in DOMAIN new
               PROVE  TopicOf[new[j]] = t /\ topic'[new[j]] # "none"
      OBVIOUS
  <2>1. CASE j = n + 1
        BY <1>2, <1>6, <1>7, <2>1 DEF t
  <2>2. CASE j \in 1 .. n
    <3>1. new[j] = list[j] /\ new[j] # s /\ list[j] \in Subs
          BY <1>4, <1>6, <1>8, <2>2
    <3> QED BY <1>5, <1>7, <2>2, <3>1
  <2> QED BY <1>9, <2>1, <2>2
<1>12. ASSUME NEW x \in SessionIds
       PROVE  /\ Distinct(subscribers'[x])
              /\ \A j \in DOMAIN subscribers'[x] :
                    TopicOf[subscribers'[x][j]] = x /\ topic'[subscribers'[x][j]] # "none"
  <2>1. CASE x = t
        BY <1>7, <1>10, <1>11, <2>1
  <2>2. CASE x # t
    <3>1. subscribers'[x] = subscribers[x] /\ subscribers[x] \in Seq(Subs)
          BY <1>3, <1>7, <2>2
    <3>2. /\ Distinct(subscribers[x])
          /\ \A j \in DOMAIN subscribers[x] :
                TopicOf[subscribers[x][j]] = x /\ topic[subscribers[x][j]] # "none"
          BY DEF RInv, SubscribersAreListed
    <3>3. ASSUME NEW j \in DOMAIN subscribers[x] PROVE topic'[subscribers[x][j]] # "none"
      <4>1. subscribers[x][j] \in Subs /\ subscribers[x][j] # s
            BY <1>1, <3>1, <3>2
      <4> QED BY <1>7, <3>2, <4>1
    <3> QED BY <3>1, <3>2, <3>3
  <2> QED BY <2>1, <2>2
<1>13. ASSUME NEW u \in Subs, topic'[u] \in SessionIds
       PROVE  /\ topic'[u] = TopicOf[u]
              /\ \E j \in DOMAIN subscribers'[topic'[u]] : subscribers'[topic'[u]][j] = u
  <2>1. CASE u = s
    <3>1. n + 1 \in DOMAIN new
          BY <1>4, <1>6
    <3> QED BY <1>6, <1>7, <2>1, <3>1 DEF t
  <2>2. CASE u # s
    <3> DEFINE x == topic[u]
    <3>1. topic'[u] = x /\ x \in SessionIds
          BY <1>7, <1>13, <2>2
    <3>2. x = TopicOf[u] /\ \E j \in DOMAIN subscribers[x] : subscribers[x][j] = u
          BY <3>1 DEF RInv, SubscribersAreListed
    <3> HIDE DEF x
    <3>3. CASE x # t
          BY <1>7, <3>1, <3>2, <3>3
    <3>4. CASE x = t
      <4>1. PICK j \in DOMAIN list : list[j] = u
            BY <3>2, <3>4 DEF list
      <4>2. j \in DOMAIN new /\ new[j] = u
            BY <1>4, <1>6, <4>1
      <4> QED BY <1>7, <3>1, <3>2, <3>4, <4>2
    <3> QED BY <3>3, <3>4
  <2> QED BY <2>1, <2>2
<1>14. SubscribersAreListed'
       BY <1>12, <1>13 DEF SubscribersAreListed
<1>15. RInv'
       BY <1>1, <1>14 DEF RInv, GivenToItsOwn, BatchEndsLog, Undistributed
<1>16. Len(log) \in Nat /\ Len(Undistributed) \in Nat /\ Len(Undistributed) <= Len(log)
       /\ Undistributed' = Undistributed
  <2>1. log \in Seq(Segment) /\ poller.batch \in Seq(Segment) /\ <<>> \in Seq(Segment)
        BY DEF IInv, TypeOK
  <2>2. Len(Undistributed) \in Nat
        BY <2>1 DEF Undistributed
  <2> QED BY <1>1, <2>1, <2>2 DEF RInv, BatchEndsLog, Undistributed
<1> DEFINE p == Len(log) - Len(Undistributed)
<1>17. p \in 0 .. Len(log) /\ p + 0 = p
       BY <1>16
<1>18. Offered' = [Offered EXCEPT ![s] = p]
       BY <1>1, <1>2, <1>3, <1>7, <1>16, <1>17 DEF Offered
<1> HIDE DEF p
<1>19. F!Subscribe(s)
       BY <1>1, <1>2, <1>17, <1>18 DEF F!Subscribe
<1> QED BY <1>15, <1>19

(* A subscriber goes; its sender stays in the list. *)
LEMMA HangUpCloses ==
    ASSUME IInv, RInv, NEW s \in Subs, hang_up(s)
    PROVE  RInv' /\ F!Close(s)
<1>1. /\ topic[s] \in SessionIds /\ poller' = poller /\ log' = log /\ subscribers' = subscribers
      /\ queue' = [queue EXCEPT ![s] = <<>>] /\ topic' = [topic EXCEPT ![s] = "closed"]
      BY DEF hang_up
<1>2. "closed" \notin SessionIds
      BY TranscriptsAssumption
<1>3. topic \in [Subs -> SessionIds \cup {"none", "closed"}]
      BY DEF IInv, TypeOK
<1>4. topic'[s] = "closed" /\ \A u \in Subs : u # s => topic'[u] = topic[u]
      BY <1>1, <1>3
<1>5. ASSUME NEW u \in Subs, topic[u] # "none" PROVE topic'[u] # "none"
      BY <1>4, <1>5
<1>6. \A u \in Subs : topic'[u] \in SessionIds => topic'[u] = topic[u]
      BY <1>2, <1>4
<1>7. /\ subscribers \in [SessionIds -> Seq(Subs)] /\ poller.to \in Seq(Subs)
      BY DEF IInv, TypeOK
<1>8. SubscribersAreListed'
  <2>1. ASSUME NEW x \in SessionIds
        PROVE  /\ Distinct(subscribers[x])
               /\ \A j \in DOMAIN subscribers[x] :
                     TopicOf[subscribers[x][j]] = x /\ topic'[subscribers[x][j]] # "none"
    <3>1. \A j \in DOMAIN subscribers[x] : subscribers[x][j] \in Subs
          BY <1>7
    <3> QED BY <1>5, <3>1 DEF RInv, SubscribersAreListed
  <2>2. ASSUME NEW u \in Subs, topic'[u] \in SessionIds
        PROVE  /\ topic'[u] = TopicOf[u]
               /\ \E j \in DOMAIN subscribers[topic'[u]] : subscribers[topic'[u]][j] = u
        BY <1>6, <2>2 DEF RInv, SubscribersAreListed
  <2> QED BY <1>1, <2>1, <2>2 DEF SubscribersAreListed
<1>9. GivenToItsOwn'
  <2>1. \A j \in DOMAIN poller.to : poller.to[j] \in Subs
        BY <1>7
  <2> QED BY <1>1, <1>5, <2>1 DEF RInv, GivenToItsOwn
<1>10. RInv'
       BY <1>1, <1>8, <1>9 DEF RInv, BatchEndsLog, Undistributed
<1>11. Undistributed' = Undistributed
       BY <1>1 DEF Undistributed
<1>12. Offered' = [Offered EXCEPT ![s] = 0]
       BY <1>1, <1>2, <1>4, <1>11 DEF Offered
<1> QED BY <1>1, <1>10, <1>12 DEF F!Close

(* Every step of the program is a step of the feed, or none. *)
LEMMA FeedStep ==
    IInv /\ RInv /\ [Next]_vars => RInv' /\ [F!Next]_(F!vars)
<1> SUFFICES ASSUME IInv, RInv, [Next]_vars PROVE RInv' /\ [F!Next]_(F!vars)
    OBVIOUS
<1>1. ASSUME UNCHANGED <<poller, subscriptions, log>>
      PROVE  RInv' /\ UNCHANGED F!vars
      BY <1>1, ListedStays DEF F!vars, subscriptions
<1>2. CASE Command \/ send_to_session \/ Writing \/ UNCHANGED vars
  <2>1. UNCHANGED <<poller, subscriptions, log>>
        BY <1>2 DEF Command, Writing, start_session, stop_session, process_audio,
                    send_to_session, insert, remove, vars
  <2> QED BY <1>1, <2>1
<1>3. CASE \E i \in DOMAIN objects : Backend(i) \/ server_line(i) \/ server_closes(i)
  <2>1. UNCHANGED <<poller, subscriptions, log>>
        BY <1>3 DEF Backend, openai_loop, openai_response, server_line, server_closes, Becomes
  <2> QED BY <1>1, <2>1
<1>4. CASE poll_results \/ \E k \in Keys : poll_session(k)
  <2>1. /\ RInv' /\ Offered' = Offered /\ topic' = topic /\ queue' = queue
        /\ IsPrefix(log, log')
        BY <1>4, ListedPolls
  <2>2. F!Emit
        BY <2>1 DEF F!Emit, IsPrefix, F!IsPrefix
  <2> QED BY <2>1, <2>2 DEF F!Next
<1>5. CASE distribute
      BY <1>5, DistributePasses DEF F!Next
<1>6. CASE try_send
      BY <1>6, TrySendOffers DEF F!Next
<1>7. ASSUME NEW s \in Subs, subscribe_transcription(s) PROVE RInv' /\ F!Next
      BY <1>7, SubscribeJoins DEF F!Next
<1>8. ASSUME NEW s \in Subs, take(s) PROVE RInv' /\ F!Next
  <2>1. RInv' /\ Offered' = Offered
        BY <1>8, ListedStays DEF take
  <2>2. F!Take(s)
        BY <1>8, <2>1 DEF take, F!Take
  <2> QED BY <2>1, <2>2 DEF F!Next
<1>9. ASSUME NEW s \in Subs, hang_up(s) PROVE RInv' /\ F!Next
      BY <1>9, HangUpCloses DEF F!Next
<1> QED BY <1>2, <1>3, <1>4, <1>5, <1>6, <1>7, <1>8, <1>9 DEF Next, Polling

(* The distribution of transcripts, with its polls in any order, its locks *)
(* and its queues, implements the feed: a subscriber is offered every      *)
(* result of its session that is distributed after it came, once and in    *)
(* order, and misses one only when its own queue is full.                  *)
THEOREM FeedImplemented == Spec => ImplementsFeed
<1>1. Init => F!Init
  <2> SUFFICES ASSUME Init PROVE F!Init
      OBVIOUS
  <2>1. /\ log = <<>> /\ topic = [s \in Subs |-> "none"] /\ queue = [s \in Subs |-> <<>>]
        BY DEF Init
  <2>2. Offered = [s \in Subs |-> 0]
        BY <2>1, TranscriptsAssumption DEF Offered
  <2> QED BY <2>1, <2>2 DEF F!Init
<1>2. Init => RInv
      BY ListedInit
<1>3. IInv /\ RInv /\ [Next]_vars => RInv' /\ [F!Next]_(F!vars)
      BY FeedStep
<1> QED BY <1>1, <1>2, <1>3, Invariance, PTL DEF Spec, ImplementsFeed, F!Spec
=============================================================================
