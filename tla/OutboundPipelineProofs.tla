----------------------- MODULE OutboundPipelineProofs -----------------------
(***************************************************************************)
(* Proofs about OutboundPipeline for every finite set of peers and every   *)
(* number of messages.                                                     *)
(***************************************************************************)
EXTENDS OutboundPipeline, FiniteSetTheorems, TLAPS

(* The inductive invariant of the proofs.  How far out the pull has come:  *)
(* the queues from this place inwards have been passed.                    *)
Level == [gateway |-> 6, interceptor |-> 5, srtp |-> 4, datachannel |-> 4, sctp |-> 3,
          dtls |-> 2, stun |-> 1, demuxer |-> 1, read |-> 1, timeout |-> 1]

(* The forms that the message on its way can have. *)
OutForms == [gateway     |-> {}, interceptor |-> FormsIn.gateway,
             srtp        |-> FormsIn.interceptor,
             datachannel |-> {"Stun", "DataChannel", "RtpRaw"},
             sctp        |-> FormsIn.datachannel, dtls |-> FormsIn.sctp,
             stun        |-> FormsIn.dtls,
             demuxer     |-> {"StunRaw", "DtlsRaw", "RtpRaw"},
             read        |-> {}, timeout |-> {}]

FormOfOut == out # <<>> => out[1].form \in OutForms[pc]

(* A message is made where it waits or further in. *)
FromInside ==
    /\ \A h \in Handlers : \A i \in DOMAIN transmits[h] :
          transmits[h][i].id <= queued /\ Place[transmits[h][i].from] >= Place[h]
    /\ out # <<>> => out[1].id <= queued /\ Place[out[1].from] >= Level[pc]

(* The first message may go ahead of the second. *)
MayPrecede(m, n) == n.id < m.id => Place[n.from] > Place[m.from]

(* The messages of a queue, of two queues, and the one on its way between  *)
(* the queues, stand in an order in which they may leave.                  *)
QueueInOrder ==
    \A h \in Handlers : \A i, j \in DOMAIN transmits[h] :
        i < j => MayPrecede(transmits[h][i], transmits[h][j])

QueuesInOrder ==
    \A g, h \in Handlers : Place[g] < Place[h] =>
        \A i \in DOMAIN transmits[g], j \in DOMAIN transmits[h] :
            MayPrecede(transmits[g][i], transmits[h][j])

OutInOrder ==
    out # <<>> => \A h \in Handlers : \A i \in DOMAIN transmits[h] :
        IF Place[h] < Level[pc] THEN MayPrecede(transmits[h][i], out[1])
                                ELSE MayPrecede(out[1], transmits[h][i])

(* As long as nothing failed, a pull that has no message left the queues   *)
(* it passed empty.                                                        *)
PassedAreEmpty ==
    out = <<>> /\ ~failed /\ pc # "timeout" =>
        \A h \in Handlers : Place[h] >= Level[pc] => transmits[h] = <<>>

IInv == /\ TypeOK /\ FormOfOut /\ FromInside
        /\ QueueInOrder /\ QueuesInOrder /\ OutInOrder /\ PassedAreEmpty

(* The places of the five queues. *)
LEMMA Places ==
    /\ Handlers = {"dtls", "sctp", "datachannel", "interceptor", "gateway"}
    /\ Place["dtls"] = 1 /\ Place["sctp"] = 2 /\ Place["datachannel"] = 3
    /\ Place["interceptor"] = 4 /\ Place["gateway"] = 5
    /\ \A h \in Handlers : Place[h] \in 1 .. 5
BY DEF Handlers, Place

(* No two handlers have the same place in the chain. *)
LEMMA DifferentPlaces ==
    ASSUME NEW g \in Handlers, NEW h \in Handlers, Place[g] = Place[h]
    PROVE  g = h
BY Places

(* How far out the pull has come at each handler. *)
LEMMA Levels ==
    /\ Level["gateway"] = 6 /\ Level["interceptor"] = 5 /\ Level["srtp"] = 4
    /\ Level["datachannel"] = 4 /\ Level["sctp"] = 3 /\ Level["dtls"] = 2
    /\ Level["stun"] = 1 /\ Level["demuxer"] = 1
    /\ Level["read"] = 1 /\ Level["timeout"] = 1
BY DEF Level

(* The forms that each handler's queue holds. *)
LEMMA QueueForms ==
    /\ FormsIn["gateway"] = {"Stun", "DataChannel", "Rtp"}
    /\ FormsIn["interceptor"] = {"Stun", "DataChannel", "Rtp"}
    /\ FormsIn["datachannel"] = {"Stun", "Sctp", "RtpRaw"}
    /\ FormsIn["sctp"] = {"Stun", "DtlsRaw", "RtpRaw"}
    /\ FormsIn["dtls"] = {"Stun", "DtlsRaw", "RtpRaw"}
    /\ \A h \in Handlers : FormsIn[h] \subseteq Forms
BY Places DEF FormsIn, Forms

(* The forms of the message between two handlers. *)
LEMMA PullForms ==
    /\ OutForms["gateway"] = {} /\ OutForms["read"] = {} /\ OutForms["timeout"] = {}
    /\ OutForms["interceptor"] = FormsIn["gateway"]
    /\ OutForms["srtp"] = FormsIn["interceptor"]
    /\ OutForms["datachannel"] = {"Stun", "DataChannel", "RtpRaw"}
    /\ OutForms["sctp"] = FormsIn["datachannel"]
    /\ OutForms["dtls"] = FormsIn["sctp"]
    /\ OutForms["stun"] = FormsIn["dtls"]
    /\ OutForms["demuxer"] = {"StunRaw", "DtlsRaw", "RtpRaw"}
BY DEF OutForms

(* At most one message is on its way. *)
LEMMA OutShape ==
    ASSUME TypeOK
    PROVE  out = <<>> \/ \E m \in Message : out = <<m>>
<1>t. out \in Seq(Message) /\ Len(out) <= 1
      BY DEF TypeOK
<1>0. Len(out) = 0 \/ Len(out) = 1
  <2> DEFINE n == Len(out)
  <2>1. n \in Nat /\ n <= 1
        BY <1>t
  <2> HIDE DEF n
  <2>2. n = 0 \/ n = 1
        BY <2>1
  <2> QED BY <2>2 DEF n
<1>1. CASE Len(out) = 0
      BY <1>t, <1>1
<1>2. CASE Len(out) = 1
  <2>1. out[1] \in Message /\ out = <<out[1]>>
        BY <1>t, <1>2
  <2> QED BY <2>1
<1> QED BY <1>0, <1>1, <1>2

(* What a converted message keeps. *)
LEMMA AsEffect ==
    ASSUME NEW m \in Message, out = <<m>>, NEW form \in Forms
    PROVE  \E n \in Message : /\ As(form) = <<n>>
                              /\ n.id = m.id /\ n.from = m.from /\ n.form = form
<1> DEFINE n == [m EXCEPT !.form = form]
<1>1. n \in Message /\ n.id = m.id /\ n.from = m.from /\ n.form = form
      BY DEF Message
<1>2. As(form) = <<n>>
      BY DEF As
<1> QED BY <1>1, <1>2

-----------------------------------------------------------------------------
(* What the invariant says of the order of messages.                       *)
Order == FromInside /\ QueueInOrder /\ QueuesInOrder /\ OutInOrder

(* What a handler may add to its queue of the message it was passed: it    *)
(* may have converted it.                                                  *)
Passed(m, h) ==
    /\ m \in Message
    /\ out # <<>>
    /\ m.id = out[1].id
    /\ m.from = out[1].from
    /\ m.form \in FormsIn[h]

(* A queue that would be in order, in itself and with the others, at the   *)
(* place of a handler.                                                     *)
FitsAt(h, all) ==
    /\ all \in Seq(Message)
    /\ \A i \in DOMAIN all : /\ all[i].form \in FormsIn[h]
                             /\ all[i].id <= queued
                             /\ Place[all[i].from] >= Place[h]
    /\ \A i, j \in DOMAIN all : i < j => MayPrecede(all[i], all[j])
    /\ \A i \in DOMAIN all : \A g \in Handlers : \A j \in DOMAIN transmits[g] :
          /\ Place[g] < Place[h] => MayPrecede(transmits[g][j], all[i])
          /\ Place[g] > Place[h] => MayPrecede(all[i], transmits[g][j])

(* The queue of a handler whose turn it is, with the message it was passed *)
(* at the end, is in order, and so are the others around it.               *)
LEMMA Joined ==
    ASSUME TypeOK, Order, NEW h \in Handlers, Level[pc] = Place[h] + 1,
           NEW in, in = <<>> \/ \E m \in Message : in = <<m>> /\ Passed(m, h),
           NEW all, all = transmits[h] \o in
    PROVE  FitsAt(h, all)
<1> DEFINE q == transmits[h]
<1>1. q \in Seq(Message) /\ \A i \in DOMAIN q : q[i].form \in FormsIn[h]
      BY DEF TypeOK
<1>2. /\ \A i \in DOMAIN q : q[i].id <= queued /\ Place[q[i].from] >= Place[h]
      /\ \A i, j \in DOMAIN q : i < j => MayPrecede(q[i], q[j])
      BY DEF Order, FromInside, QueueInOrder
<1>3. ASSUME NEW i \in DOMAIN q, NEW g \in Handlers, NEW j \in DOMAIN transmits[g]
      PROVE  /\ Place[g] < Place[h] => MayPrecede(transmits[g][j], q[i])
             /\ Place[g] > Place[h] => MayPrecede(q[i], transmits[g][j])
  <2>1. Place[g] \in 1 .. 5 /\ Place[h] \in 1 .. 5
        BY Places
  <2>2. Place[g] > Place[h] => Place[h] < Place[g]
        BY <2>1
  <2> QED BY <2>2 DEF Order, QueuesInOrder
<1> HIDE DEF q
<1>4. CASE in = <<>>
  <2>1. all = q
        BY <1>1, <1>4 DEF q
  <2> QED BY <1>1, <1>2, <1>3, <2>1 DEF FitsAt
<1>5. ASSUME NEW m \in Message, in = <<m>>, Passed(m, h)
      PROVE  FitsAt(h, all)
  <2> DEFINE n == Len(q)
  <2>1. /\ all \in Seq(Message)
        /\ n \in Nat
        /\ DOMAIN q = 1 .. n
        /\ DOMAIN all = 1 .. n + 1
        /\ all[n + 1] = m
        /\ \A i \in 1 .. n : all[i] = q[i]
        BY <1>1, <1>5 DEF q
  <2>2. Place[h] \in 1 .. 5
        BY Places
  <2>3. /\ m.id <= queued
        /\ Place[m.from] >= Place[h]
        /\ m.form \in FormsIn[h]
    <3>1. Place[m.from] >= Place[h] + 1 /\ m.id <= queued
          BY <1>5 DEF Passed, Order, FromInside
    <3>2. Place[m.from] \in 1 .. 5
          BY Places DEF Message
    <3> QED BY <1>5, <2>2, <3>1, <3>2 DEF Passed
  <2>4. ASSUME NEW g \in Handlers, NEW j \in DOMAIN transmits[g]
        PROVE  /\ Place[g] <= Place[h] => MayPrecede(transmits[g][j], m)
               /\ Place[g] > Place[h] => MayPrecede(m, transmits[g][j])
    <3>1. Place[g] \in 1 .. 5
          BY Places
    <3>2. IF Place[g] < Place[h] + 1 THEN MayPrecede(transmits[g][j], out[1])
                                     ELSE MayPrecede(out[1], transmits[g][j])
          BY <1>5 DEF Passed, Order, OutInOrder
    <3>3. /\ MayPrecede(transmits[g][j], out[1]) => MayPrecede(transmits[g][j], m)
          /\ MayPrecede(out[1], transmits[g][j]) => MayPrecede(m, transmits[g][j])
          BY <1>5 DEF MayPrecede, Passed
    <3> QED BY <2>2, <3>1, <3>2, <3>3
  <2> HIDE DEF n
  <2>c. ASSUME NEW i \in DOMAIN all
        PROVE  i \in Nat /\ (i = n + 1 \/ (i \in DOMAIN q /\ i <= n))
        BY <2>1
  <2>o. ASSUME NEW i \in DOMAIN q
        PROVE  all[i] = q[i]
        BY <2>1
  <2>5. ASSUME NEW i \in DOMAIN all
        PROVE  all[i].form \in FormsIn[h] /\ all[i].id <= queued /\ Place[all[i].from] >= Place[h]
    <3>1. CASE i = n + 1
      <4>1. all[i] = m
            BY <2>1, <3>1
      <4> QED BY <2>3, <4>1
    <3>2. CASE i \in DOMAIN q
      <4>1. all[i] = q[i]
            BY <2>o, <3>2
      <4> QED BY <1>1, <1>2, <3>2, <4>1
    <3> QED BY <2>c, <3>1, <3>2
  <2>6. \A i \in DOMAIN q : MayPrecede(q[i], m)
        BY <2>2, <2>4 DEF q
  <2>7. ASSUME NEW i \in DOMAIN all, NEW j \in DOMAIN all, i < j
        PROVE  MayPrecede(all[i], all[j])
    <3>0. i \in DOMAIN q
          BY <2>1, <2>7, <2>c
    <3>1. all[i] = q[i]
          BY <2>o, <3>0
    <3>2. CASE j = n + 1
      <4>1. all[j] = m
            BY <2>1, <3>2
      <4> QED BY <2>6, <3>0, <3>1, <4>1
    <3>3. CASE j \in DOMAIN q
      <4>1. all[j] = q[j]
            BY <2>o, <3>3
      <4> QED BY <1>2, <2>7, <3>0, <3>1, <3>3, <4>1
    <3> QED BY <2>c, <3>2, <3>3
  <2>8. ASSUME NEW i \in DOMAIN all, NEW g \in Handlers, NEW j \in DOMAIN transmits[g]
        PROVE  /\ Place[g] < Place[h] => MayPrecede(transmits[g][j], all[i])
               /\ Place[g] > Place[h] => MayPrecede(all[i], transmits[g][j])
    <3>1. Place[g] \in 1 .. 5
          BY Places
    <3>2. CASE i = n + 1
      <4>1. all[i] = m
            BY <2>1, <3>2
      <4> QED BY <2>2, <2>4, <3>1, <4>1
    <3>3. CASE i \in DOMAIN q
      <4>1. all[i] = q[i]
            BY <2>o, <3>3
      <4> QED BY <1>3, <3>3, <4>1
    <3> QED BY <2>c, <3>2, <3>3
  <2> QED BY <2>1, <2>5, <2>7, <2>8 DEF FitsAt
<1> QED BY <1>4, <1>5

(* One turn of a handler with a queue.  Level is the place it takes the    *)
(* message from, or, on the way out, its own.                              *)
LEMMA PopStep ==
    ASSUME TypeOK, Order, NEW h \in Handlers, Level[pc] = Place[h] + 1,
           NEW in, in = <<>> \/ \E m \in Message : in = <<m>> /\ Passed(m, h),
           NEW next \in Handlers \cup {"srtp", "stun"}, Level[next] = Place[h],
           OutForms[next] = FormsIn[h],
           failed' \in BOOLEAN, PopFront(h, in, next)
    PROVE  /\ TypeOK'
           /\ FormOfOut'
           /\ Order'
           /\ \A g \in Handlers : g # h => transmits'[g] = transmits[g]
           /\ out' = <<>> => in = <<>> /\ transmits'[h] = <<>>
<1> DEFINE all == transmits[h] \o in
<1>1. FitsAt(h, all)
      BY Joined
<1>2. /\ pc' = next
      /\ UNCHANGED <<phase, queued>>
      /\ IF all = <<>> THEN out' = <<>> /\ UNCHANGED transmits
         ELSE out' = <<Head(all)>> /\ transmits' = [transmits EXCEPT ![h] = Tail(all)]
      BY DEF PopFront
<1>3. CASE all = <<>>
  <2>1. transmits[h] = <<>> /\ in = <<>>
    <3>1. transmits[h] \in Seq(Message)
          BY DEF TypeOK
    <3>2. in \in Seq(Message)
      <4>1. CASE in = <<>>
            BY <4>1
      <4>2. ASSUME NEW m \in Message, in = <<m>>
            PROVE  in \in Seq(Message)
            BY <4>2
      <4> QED BY <4>1, <4>2
    <3> QED BY <1>3, <3>1, <3>2
  <2>2. out' = <<>> /\ transmits' = transmits
        BY <1>2, <1>3
  <2>3. TypeOK'
        BY <1>2, <2>2 DEF TypeOK
  <2>4. Order'
        BY <1>2, <2>2 DEF Order, FromInside, QueueInOrder, QueuesInOrder, OutInOrder
  <2> QED BY <2>1, <2>2, <2>3, <2>4 DEF FormOfOut
<1>4. CASE all # <<>>
  <2> HIDE DEF all
  <2>1. /\ out' = <<Head(all)>>
        /\ transmits' = [transmits EXCEPT ![h] = Tail(all)]
        BY <1>2, <1>4
  <2>2. all \in Seq(Message)
        BY <1>1 DEF FitsAt
  <2>3. /\ Head(all) = all[1]
        /\ 1 \in DOMAIN all
        /\ all[1] \in Message
        /\ Tail(all) \in Seq(Message)
        /\ \A i \in DOMAIN Tail(all) : i \in Nat \ {0} /\ i + 1 \in DOMAIN all /\ Tail(all)[i] = all[i + 1]
        BY <1>4, <2>2
  <2>4. out' = <<all[1]>> /\ out'[1] = all[1] /\ out' \in Seq(Message) /\ Len(out') <= 1 /\ out' # <<>>
        BY <2>1, <2>3
  <2>5. DOMAIN transmits = Handlers /\ DOMAIN transmits' = Handlers
        BY <2>1 DEF TypeOK
  <2>6. transmits'[h] = Tail(all) /\ \A g \in Handlers : g # h => transmits'[g] = transmits[g]
        BY <2>1, <2>5
  <2>7. ASSUME NEW i \in DOMAIN transmits'[h]
        PROVE  i \in Nat \ {0} /\ i + 1 \in DOMAIN all /\ transmits'[h][i] = all[i + 1]
        BY <2>3, <2>6
  <2>8. TypeOK'
    <3>1. ASSUME NEW g \in Handlers
          PROVE  /\ transmits'[g] \in Seq(Message)
                 /\ \A i \in DOMAIN transmits'[g] : transmits'[g][i].form \in FormsIn[g]
      <4>1. CASE g = h
        <5>1. \A i \in DOMAIN all : all[i].form \in FormsIn[h]
              BY <1>1 DEF FitsAt
        <5> QED BY <2>3, <2>6, <2>7, <4>1, <5>1
      <4>2. CASE g # h
            BY <2>6, <4>2 DEF TypeOK
      <4> QED BY <4>1, <4>2
    <3> QED BY <1>2, <2>4, <2>5, <3>1 DEF TypeOK
  <2>9. FormOfOut'
        BY <1>1, <1>2, <2>3, <2>4 DEF FormOfOut, FitsAt
  <2>10. FromInside'
    <3>1. ASSUME NEW g \in Handlers, NEW i \in DOMAIN transmits'[g]
          PROVE  transmits'[g][i].id <= queued /\ Place[transmits'[g][i].from] >= Place[g]
      <4>1. CASE g = h
            BY <1>1, <2>7, <4>1 DEF FitsAt
      <4>2. CASE g # h
            BY <2>6, <4>2 DEF Order, FromInside
      <4> QED BY <4>1, <4>2
    <3>2. out'[1].id <= queued /\ Place[out'[1].from] >= Level[next]
          BY <1>1, <2>3, <2>4 DEF FitsAt
    <3> QED BY <1>2, <3>1, <3>2 DEF FromInside
  <2>11. QueueInOrder'
    <3> SUFFICES ASSUME NEW g \in Handlers, NEW i \in DOMAIN transmits'[g],
                        NEW j \in DOMAIN transmits'[g], i < j
                 PROVE  MayPrecede(transmits'[g][i], transmits'[g][j])
        BY DEF QueueInOrder, MayPrecede
    <3>1. CASE g = h
      <4>1. i + 1 < j + 1
            BY <2>7, <3>1
      <4> QED BY <1>1, <2>7, <3>1, <4>1 DEF FitsAt
    <3>2. CASE g # h
          BY <2>6, <3>2 DEF Order, QueueInOrder
    <3> QED BY <3>1, <3>2
  <2>12. QueuesInOrder'
    <3> SUFFICES ASSUME NEW f \in Handlers, NEW g \in Handlers, Place[f] < Place[g],
                        NEW i \in DOMAIN transmits'[f], NEW j \in DOMAIN transmits'[g]
                 PROVE  MayPrecede(transmits'[f][i], transmits'[g][j])
        BY DEF QueuesInOrder, MayPrecede
    <3>0. f # g /\ (Place[f] < Place[g] <=> Place[g] > Place[f])
          BY Places
    <3>1. CASE f = h
      <4>1. transmits'[g] = transmits[g]
            BY <2>6, <3>0, <3>1
      <4> QED BY <1>1, <2>7, <3>0, <3>1, <4>1 DEF FitsAt
    <3>2. CASE g = h
      <4>1. transmits'[f] = transmits[f]
            BY <2>6, <3>0, <3>2
      <4> QED BY <1>1, <2>7, <3>0, <3>2, <4>1 DEF FitsAt
    <3>3. CASE f # h /\ g # h
          BY <2>6, <3>3 DEF Order, QueuesInOrder
    <3> QED BY <3>1, <3>2, <3>3
  <2>13. OutInOrder'
    <3> SUFFICES ASSUME NEW g \in Handlers, NEW i \in DOMAIN transmits'[g]
                 PROVE  IF Place[g] < Place[h] THEN MayPrecede(transmits'[g][i], all[1])
                                               ELSE MayPrecede(all[1], transmits'[g][i])
        BY <1>2, <2>4 DEF OutInOrder, MayPrecede
    <3>1. CASE g = h
      <4>1. 1 < i + 1 /\ ~(Place[g] < Place[h])
            BY <2>7, <3>1, Places
      <4> QED BY <1>1, <2>3, <2>7, <3>1, <4>1 DEF FitsAt
    <3>2. CASE g # h
      <4>1. Place[g] < Place[h] \/ Place[g] > Place[h]
        <5>1. Place[g] # Place[h]
              BY <3>2, DifferentPlaces
        <5> QED BY <5>1, Places
      <4>2. transmits'[g] = transmits[g]
            BY <2>6, <3>2
      <4>3. ~(Place[g] < Place[h] /\ Place[g] > Place[h])
            BY Places
      <4> QED BY <1>1, <2>3, <4>1, <4>2, <4>3 DEF FitsAt
    <3> QED BY <3>1, <3>2
  <2> QED BY <2>4, <2>6, <2>8, <2>9, <2>10, <2>11, <2>12, <2>13 DEF Order
<1> QED BY <1>3, <1>4

(* A turn of a handler without a queue, which may convert the message or   *)
(* drop it.                                                                *)
LEMMA ReturnStep ==
    ASSUME TypeOK, Order, NEW next \in Handlers \cup {"demuxer"}, Level[next] = Level[pc],
           NEW result,
           \/ result = <<>>
           \/ \E m \in Message : /\ result = <<m>>
                                 /\ out # <<>>
                                 /\ m.id = out[1].id /\ m.from = out[1].from
                                 /\ m.form \in OutForms[next],
           failed' \in BOOLEAN, Return(result, next)
    PROVE  TypeOK' /\ FormOfOut' /\ Order'
<1>1. out' = result /\ pc' = next /\ UNCHANGED <<transmits, phase, queued>>
      BY DEF Return
<1>2. CASE result = <<>>
  <2>1. TypeOK'
        BY <1>1, <1>2 DEF TypeOK
  <2>2. Order'
        BY <1>1, <1>2 DEF Order, FromInside, QueueInOrder, QueuesInOrder, OutInOrder
  <2> QED BY <1>1, <1>2, <2>1, <2>2 DEF FormOfOut
<1>3. ASSUME NEW m \in Message, result = <<m>>, out # <<>>,
             m.id = out[1].id, m.from = out[1].from, m.form \in OutForms[next]
      PROVE  TypeOK' /\ FormOfOut' /\ Order'
  <2>1. out' \in Seq(Message) /\ Len(out') <= 1 /\ out'[1] = m /\ out' # <<>>
        BY <1>1, <1>3
  <2>2. TypeOK'
        BY <1>1, <2>1 DEF TypeOK
  <2>3. FormOfOut'
        BY <1>1, <1>3, <2>1 DEF FormOfOut
  <2>4. FromInside' /\ QueueInOrder' /\ QueuesInOrder'
        BY <1>1, <1>3, <2>1 DEF Order, FromInside, QueueInOrder, QueuesInOrder
  <2>5. OutInOrder'
    <3> SUFFICES ASSUME NEW h \in Handlers, NEW i \in DOMAIN transmits[h]
                 PROVE  IF Place[h] < Level[pc] THEN MayPrecede(transmits[h][i], m)
                                                ELSE MayPrecede(m, transmits[h][i])
        BY <1>1, <2>1 DEF OutInOrder, MayPrecede
    <3>1. IF Place[h] < Level[pc] THEN MayPrecede(transmits[h][i], out[1])
                                  ELSE MayPrecede(out[1], transmits[h][i])
          BY <1>3 DEF Order, OutInOrder
    <3> QED BY <1>3, <3>1 DEF MayPrecede
  <2> QED BY <2>2, <2>3, <2>4, <2>5 DEF Order
<1> QED BY <1>2, <1>3

-----------------------------------------------------------------------------
(* Queueing. *)

(* What may be queued in one step: by each handler, forms of its own.      *)
Batch ==
    {new \in [Handlers -> Seq(Forms \X Peers)] :
        \A h \in Handlers : \A i \in DOMAIN new[h] : new[h][i][1] \in FormsIn[h]}

(* The messages that a handler adds: made by itself, and numbered upwards  *)
(* from what was queued before.                                            *)
Fresh(h, q, n) ==
    /\ q \in Seq(Message)
    /\ \A i \in DOMAIN q : /\ q[i].form \in FormsIn[h]
                           /\ q[i].from = h
                           /\ q[i].id > queued /\ q[i].id <= n
    /\ \A i, j \in DOMAIN q : i < j => q[i].id < q[j].id

(* A handler's new messages are numbered above the earlier ones. *)
LEMMA Numbered ==
    ASSUME TypeOK, NEW h \in Handlers, NEW new \in Batch,
           NEW b \in Nat, queued + b + Len(new[h]) <= MaxMsgs,
           NEW q, q = [k \in DOMAIN new[h] |-> [id   |-> queued + b + k,
                                               from |-> h,
                                               form |-> new[h][k][1],
                                               to   |-> new[h][k][2]]]
    PROVE  Fresh(h, q, queued + b + Len(new[h]))
<1> DEFINE n == Len(new[h])
<1>1. /\ new[h] \in Seq(Forms \X Peers)
      /\ \A i \in DOMAIN new[h] : new[h][i][1] \in FormsIn[h]
      BY DEF Batch
<1>2. n \in Nat /\ DOMAIN new[h] = 1 .. n /\ queued \in Nat
      BY <1>1, PipelineAssumption DEF TypeOK
<1>3. \A k \in 1 .. n : new[h][k] \in Forms \X Peers
      BY <1>1
<1> HIDE DEF n
<1>4. ASSUME NEW k \in 1 .. n
      PROVE  /\ q[k] \in Message
             /\ q[k].id = queued + b + k /\ q[k].from = h /\ q[k].form \in FormsIn[h]
             /\ q[k].id > queued /\ q[k].id <= queued + b + n
  <2>1. new[h][k][1] \in Forms /\ new[h][k][2] \in Peers /\ new[h][k][1] \in FormsIn[h]
        BY <1>1, <1>2, <1>3
  <2>2. q[k] = [id |-> queued + b + k, from |-> h, form |-> new[h][k][1], to |-> new[h][k][2]]
        BY <1>2
  <2>3. queued + b + n <= MaxMsgs
        BY DEF n
  <2>4. queued + b + k \in 1 .. MaxMsgs /\ queued + b + k > queued /\ queued + b + k <= queued + b + n
        BY <1>2, <2>3, PipelineAssumption
  <2> QED BY <2>1, <2>2, <2>4 DEF Message
<1>5. DOMAIN q = 1 .. n
      BY <1>2
<1>6. q \in Seq(Message)
  <2>1. q = [k \in 1 .. n |-> q[k]]
        BY <1>2
  <2>2. q \in [1 .. n -> Message]
        BY <1>4, <2>1
  <2> QED BY <1>2, <2>2
<1>7. \A i, j \in 1 .. n : i < j => q[i].id < q[j].id
      BY <1>2, <1>4
<1> QED BY <1>4, <1>5, <1>6, <1>7 DEF Fresh, n

(* The messages of each handler end before the next number is given.       *)
LEMMA Offsets ==
    ASSUME NEW len \in [Handlers -> Nat], NEW g, NEW d, NEW s, NEW i, NEW t,
           g = len["datachannel"], d = g + len["gateway"], s = d + len["dtls"],
           i = s + len["sctp"], t = i + len["interceptor"],
           NEW before,
           before["datachannel"] = 0, before["gateway"] = g, before["dtls"] = d,
           before["sctp"] = s, before["interceptor"] = i
    PROVE  /\ t \in Nat
           /\ \A h \in Handlers : before[h] \in Nat /\ before[h] + len[h] <= t
<1>1. \A h \in Handlers : len[h] \in Nat
      OBVIOUS
<1>2. /\ len["datachannel"] \in Nat /\ len["gateway"] \in Nat /\ len["dtls"] \in Nat
      /\ len["sctp"] \in Nat /\ len["interceptor"] \in Nat
      BY <1>1, Places
<1>3. g \in Nat /\ d \in Nat
      BY <1>2
<1>4. s \in Nat /\ i \in Nat
      BY <1>2, <1>3
<1>5. t \in Nat
      BY <1>2, <1>4
<1>6. d <= t /\ s <= t /\ i <= t /\ g <= t
      BY <1>2, <1>3, <1>4, <1>5
<1>7. ASSUME NEW h \in Handlers
      PROVE  before[h] \in Nat /\ before[h] + len[h] <= t
      BY <1>2, <1>3, <1>4, <1>5, <1>6, Places
<1> QED BY <1>5, <1>7

(* Queue adds fresh messages to each queue. *)
LEMMA QueueEffect ==
    ASSUME TypeOK, NEW new \in Batch, Queue(new)
    PROVE  /\ queued' \in 0 .. MaxMsgs
           /\ queued <= queued'
           /\ \E add \in [Handlers -> Seq(Message)] :
                 /\ transmits' = [h \in Handlers |-> transmits[h] \o add[h]]
                 /\ \A h \in Handlers : Fresh(h, add[h], queued')
<1> DEFINE g == Len(new.datachannel)
           d == g + Len(new.gateway)
           s == d + Len(new.dtls)
           i == s + Len(new.sctp)
           t == i + Len(new.interceptor)
           before == [datachannel |-> 0, gateway |-> g, dtls |-> d, sctp |-> s, interceptor |-> i]
           add == [h \in Handlers |->
                     [k \in DOMAIN new[h] |-> [id   |-> queued + before[h] + k,
                                              from |-> h,
                                              form |-> new[h][k][1],
                                              to   |-> new[h][k][2]]]]
<1>1. /\ queued + t <= MaxMsgs
      /\ queued' = queued + t
      /\ transmits' = [h \in Handlers |-> transmits[h] \o add[h]]
      BY DEF Queue
<1>2. queued \in Nat
      BY PipelineAssumption DEF TypeOK
<1>3. \A h \in Handlers : Len(new[h]) \in Nat
      BY DEF Batch
<1>4. /\ before["datachannel"] = 0 /\ before["gateway"] = g /\ before["dtls"] = d
      /\ before["sctp"] = s /\ before["interceptor"] = i
      OBVIOUS
<1>5. t \in Nat /\ \A h \in Handlers : before[h] \in Nat /\ before[h] + Len(new[h]) <= t
  <2> DEFINE len == [h \in Handlers |-> Len(new[h])]
  <2>1. len \in [Handlers -> Nat]
        BY <1>3
  <2>2. /\ g = len["datachannel"] /\ d = g + len["gateway"] /\ s = d + len["dtls"]
        /\ i = s + len["sctp"] /\ t = i + len["interceptor"]
        BY Places
  <2> HIDE DEF g, d, s, i, t, before, len
  <2>3. t \in Nat /\ \A h \in Handlers : before[h] \in Nat /\ before[h] + len[h] <= t
        BY <1>4, <2>1, <2>2, Offsets
  <2> QED BY <2>3 DEF len
<1> HIDE DEF g, d, s, i, t, before
<1>6. t \in Nat
      BY <1>5
<1>7. ASSUME NEW h \in Handlers
      PROVE  before[h] \in Nat /\ before[h] + Len(new[h]) <= t
      BY <1>5
<1>8. ASSUME NEW h \in Handlers
      PROVE  Fresh(h, add[h], queued')
  <2>1. before[h] \in Nat /\ Len(new[h]) \in Nat
        BY <1>3, <1>7
  <2>2. queued + before[h] + Len(new[h]) <= queued + t
        BY <1>2, <1>6, <1>7, <2>1
  <2>3. queued + before[h] + Len(new[h]) <= MaxMsgs
        BY <1>1, <1>2, <1>6, <2>1, <2>2, PipelineAssumption
  <2>4. add[h] = [k \in DOMAIN new[h] |-> [id   |-> queued + before[h] + k,
                                              from |-> h,
                                              form |-> new[h][k][1],
                                              to   |-> new[h][k][2]]]
        OBVIOUS
  <2> HIDE DEF add
  <2>5. Fresh(h, add[h], queued + before[h] + Len(new[h]))
        BY <2>1, <2>3, <2>4, Numbered
  <2>6. \A k \in DOMAIN add[h] : add[h][k].id \in Nat
    <3>1. \A k \in DOMAIN add[h] : add[h][k] \in Message
          BY <2>5 DEF Fresh
    <3> QED BY <3>1, PipelineAssumption DEF Message
  <2>7. \A k \in DOMAIN add[h] : add[h][k].id <= queued'
    <3>1. \A k \in DOMAIN add[h] : add[h][k].id <= queued + before[h] + Len(new[h])
          BY <2>5 DEF Fresh
    <3> QED BY <1>1, <1>2, <1>6, <2>1, <2>2, <2>6, <3>1
  <2> QED BY <2>5, <2>7 DEF Fresh
<1>9. add \in [Handlers -> Seq(Message)]
  <2>1. \A h \in Handlers : add[h] \in Seq(Message)
        BY <1>8 DEF Fresh
  <2>2. DOMAIN add = Handlers
        OBVIOUS
  <2>3. add = [h \in Handlers |-> add[h]]
        OBVIOUS
  <2> HIDE DEF add
  <2> QED BY <2>1, <2>3
<1>10. queued' \in 0 .. MaxMsgs /\ queued <= queued'
      BY <1>1, <1>2, <1>6, PipelineAssumption
<1> HIDE DEF add
<1> QED BY <1>1, <1>8, <1>9, <1>10

(* Messages that are queued stand behind what waited before, and what is   *)
(* further in was made further in.                                         *)
LEMMA QueueStep ==
    ASSUME TypeOK, Order, out = <<>>, NEW new \in Batch, Queue(new),
           phase' \in [Peers -> Phases], UNCHANGED <<out, failed>>,
           pc' \in {"timeout", "gateway"}
    PROVE  TypeOK' /\ FormOfOut' /\ Order'
<1>1. queued' \in 0 .. MaxMsgs /\ queued <= queued'
      BY QueueEffect
<1>2. PICK add \in [Handlers -> Seq(Message)] :
         /\ transmits' = [h \in Handlers |-> transmits[h] \o add[h]]
         /\ \A h \in Handlers : Fresh(h, add[h], queued')
      BY QueueEffect
<1>t. queued \in Nat /\ queued' \in Nat
      BY <1>1, PipelineAssumption DEF TypeOK
<1>3. ASSUME NEW h \in Handlers
      PROVE  /\ transmits'[h] \in Seq(Message)
             /\ \A i \in DOMAIN transmits'[h] :
                   \/ /\ i \in DOMAIN transmits[h]
                      /\ transmits'[h][i] = transmits[h][i]
                   \/ /\ i - Len(transmits[h]) \in DOMAIN add[h]
                      /\ transmits'[h][i] = add[h][i - Len(transmits[h])]
                      /\ i > Len(transmits[h])
             /\ \A i \in DOMAIN transmits'[h] : i \in Nat
             /\ DOMAIN transmits[h] = 1 .. Len(transmits[h]) /\ Len(transmits[h]) \in Nat
  <2>1. transmits[h] \in Seq(Message) /\ add[h] \in Seq(Message)
        BY DEF TypeOK
  <2>2. transmits'[h] = transmits[h] \o add[h]
        BY <1>2
  <2> QED BY <2>1, <2>2
(* A message after the step waited before, or is new. *)
<1>4. ASSUME NEW h \in Handlers, NEW i \in DOMAIN transmits'[h]
      PROVE  /\ transmits'[h][i] \in Message
             /\ transmits'[h][i].form \in FormsIn[h]
             /\ transmits'[h][i].id \in Nat /\ transmits'[h][i].id <= queued'
             /\ Place[transmits'[h][i].from] >= Place[h]
             /\ \/ i \in DOMAIN transmits[h] /\ transmits'[h][i] = transmits[h][i] /\ transmits'[h][i].id <= queued
                \/ transmits'[h][i].from = h /\ transmits'[h][i].id > queued
  <2> DEFINE m == transmits'[h][i]
  <2>1. m \in Message
        BY <1>3
  <2>2. m.id \in Nat
        BY <2>1, PipelineAssumption DEF Message
  <2>3. CASE i \in DOMAIN transmits[h] /\ m = transmits[h][i]
    <3>1. m.form \in FormsIn[h] /\ m.id <= queued /\ Place[m.from] >= Place[h]
          BY <2>3 DEF TypeOK, Order, FromInside
    <3>2. m.id <= queued'
          BY <1>1, <1>t, <2>2, <3>1
    <3> QED BY <2>1, <2>2, <2>3, <3>1, <3>2
  <2>4. CASE i - Len(transmits[h]) \in DOMAIN add[h] /\ m = add[h][i - Len(transmits[h])]
    <3>1. m.form \in FormsIn[h] /\ m.from = h /\ m.id > queued /\ m.id <= queued'
          BY <1>2, <2>4 DEF Fresh
    <3>2. Place[m.from] >= Place[h]
          BY <3>1, Places
    <3> QED BY <2>1, <2>2, <3>1, <3>2
  <2> QED BY <1>3, <2>3, <2>4
<1>5. TypeOK'
  <2>1. DOMAIN transmits' = Handlers
        BY <1>2
  <2>2. pc' \in Handlers \cup {"srtp", "stun", "demuxer", "read", "timeout"}
        BY Places
  <2> QED BY <1>1, <1>3, <1>4, <2>1, <2>2 DEF TypeOK
<1>6. FromInside'
      BY <1>4 DEF FromInside
<1>7. QueueInOrder'
  <2> SUFFICES ASSUME NEW h \in Handlers, NEW i \in DOMAIN transmits'[h],
                      NEW j \in DOMAIN transmits'[h], i < j
               PROVE  MayPrecede(transmits'[h][i], transmits'[h][j])
      BY DEF QueueInOrder, MayPrecede
  <2> DEFINE l == Len(transmits[h])
  <2>1. i \in Nat /\ j \in Nat /\ l \in Nat
        BY <1>3
  <2>2. CASE j \in DOMAIN transmits[h] /\ transmits'[h][j] = transmits[h][j]
    <3>1. i \in DOMAIN transmits[h] /\ ~(i > l)
          BY <1>3, <2>1, <2>2
    <3>2. transmits'[h][i] = transmits[h][i]
          BY <1>3, <3>1
    <3> QED BY <2>2, <3>1, <3>2 DEF Order, QueueInOrder
  <2>3. CASE j - l \in DOMAIN add[h] /\ transmits'[h][j] = add[h][j - l]
    <3>1. transmits'[h][j].id > queued
          BY <1>2, <2>3 DEF Fresh
    <3>2. CASE i \in DOMAIN transmits[h] /\ transmits'[h][i] = transmits[h][i]
      <4>1. transmits'[h][i].id <= queued
            BY <3>2 DEF Order, FromInside
      <4>2. ~(transmits'[h][j].id < transmits'[h][i].id)
            BY <1>4, <1>t, <3>1, <4>1
      <4> QED BY <4>2 DEF MayPrecede
    <3>3. CASE i - l \in DOMAIN add[h] /\ transmits'[h][i] = add[h][i - l]
      <4>1. i - l < j - l
            BY <2>1
      <4>2. add[h][i - l].id < add[h][j - l].id
            BY <1>2, <2>3, <3>3, <4>1 DEF Fresh
      <4>3. ~(transmits'[h][j].id < transmits'[h][i].id)
            BY <1>4, <2>3, <3>3, <4>2
      <4> QED BY <4>3 DEF MayPrecede
    <3> QED BY <1>3, <3>2, <3>3
  <2> QED BY <1>3, <2>2, <2>3
<1>8. QueuesInOrder'
  <2> SUFFICES ASSUME NEW g \in Handlers, NEW h \in Handlers, Place[g] < Place[h],
                      NEW i \in DOMAIN transmits'[g], NEW j \in DOMAIN transmits'[h],
                      transmits'[h][j].id < transmits'[g][i].id
               PROVE  Place[transmits'[h][j].from] > Place[transmits'[g][i].from]
      BY DEF QueuesInOrder, MayPrecede
  <2>1. CASE i \in DOMAIN transmits[g] /\ transmits'[g][i] = transmits[g][i] /\ transmits'[g][i].id <= queued
    <3>1. transmits'[h][j].id <= queued /\ ~(transmits'[h][j].id > queued)
          BY <1>4, <1>t, <2>1
    <3>2. j \in DOMAIN transmits[h] /\ transmits'[h][j] = transmits[h][j]
          BY <1>4, <3>1
    <3> QED BY <2>1, <3>2 DEF Order, QueuesInOrder, MayPrecede
  <2>2. CASE transmits'[g][i].from = g
    <3>1. Place[transmits'[h][j].from] >= Place[h] /\ transmits'[h][j].from \in Handlers
          BY <1>4 DEF Message
    <3> QED BY <2>2, <3>1, Places
  <2> QED BY <1>4, <2>1, <2>2
<1>9. OutInOrder' /\ FormOfOut'
      BY DEF OutInOrder, FormOfOut
<1> QED BY <1>5, <1>6, <1>7, <1>8, <1>9 DEF Order

-----------------------------------------------------------------------------
(* What the actions queue. *)
LEMMA OrderOfPeers ==
    ASSUME NEW S \in SUBSET Peers, NEW order \in SetToSeqs(S)
    PROVE  order \in Seq(Peers)
<1>1. IsFiniteSet(S)
      BY PipelineAssumption, FS_Subset
<1>2. Cardinality(S) \in Nat
      BY <1>1, FS_CardinalityType
<1>3. order \in [1 .. Cardinality(S) -> S]
      BY DEF SetToSeqs
<1>4. order \in [1 .. Cardinality(S) -> Peers]
      BY <1>3
<1> QED BY <1>2, <1>4

(* One form for each of some receivers is a sequence of them. *)
LEMMA Addressed ==
    ASSUME NEW h \in Handlers, NEW form \in FormsIn[h], NEW receivers \in Seq(Peers),
           NEW q, q = [i \in DOMAIN receivers |-> <<form, receivers[i]>>]
    PROVE  q \in Seq(Forms \X Peers) /\ \A i \in DOMAIN q : q[i][1] \in FormsIn[h]
<1>1. form \in Forms
      BY QueueForms
<1> DEFINE n == Len(receivers)
<1>2. n \in Nat /\ DOMAIN receivers = 1 .. n /\ \A i \in 1 .. n : receivers[i] \in Peers
      OBVIOUS
<1> HIDE DEF n
<1>3. q \in [1 .. n -> Forms \X Peers]
      BY <1>1, <1>2
<1>4. q \in Seq(Forms \X Peers)
      BY <1>2, <1>3
<1>5. \A i \in DOMAIN q : q[i][1] = form
      OBVIOUS
<1> QED BY <1>4, <1>5

(* A handler's share of a batch can be replaced. *)
LEMMA BatchPut ==
    ASSUME NEW new \in Batch, NEW h \in Handlers, NEW q \in Seq(Forms \X Peers),
           \A i \in DOMAIN q : q[i][1] \in FormsIn[h]
    PROVE  [new EXCEPT ![h] = q] \in Batch
BY DEF Batch

(* Adding nothing is a batch. *)
LEMMA NothingIsBatch == Nothing \in Batch
<1>1. <<>> \in Seq(Forms \X Peers) /\ DOMAIN <<>> = {}
      OBVIOUS
<1> QED BY <1>1 DEF Nothing, Batch

(* One handler adding to its queue is a batch. *)
LEMMA OnlyIsBatch ==
    ASSUME NEW h \in Handlers, NEW form \in FormsIn[h], NEW receivers \in Seq(Peers)
    PROVE  Only(h, form, receivers) \in Batch
<1> DEFINE q == [i \in DOMAIN receivers |-> <<form, receivers[i]>>]
<1>1. q \in Seq(Forms \X Peers) /\ \A i \in DOMAIN q : q[i][1] \in FormsIn[h]
      BY Addressed
<1>2. Only(h, form, receivers) = [Nothing EXCEPT ![h] = q]
      BY DEF Only
<1> HIDE DEF q
<1> QED BY <1>1, <1>2, BatchPut, NothingIsBatch

(* One message. *)
LEMMA OneMessage ==
    ASSUME NEW h \in Handlers, NEW form \in FormsIn[h], NEW p \in Peers
    PROVE  /\ <<p>> \in Seq(Peers)
           /\ <<<<form, p>>>> \in Seq(Forms \X Peers)
           /\ \A i \in DOMAIN <<<<form, p>>>> : <<<<form, p>>>>[i][1] \in FormsIn[h]
<1>1. form \in Forms
      BY QueueForms
<1> QED BY <1>1

(* No message at all fits every queue. *)
LEMMA NoMessage ==
    /\ <<>> \in Seq(Forms \X Peers)
    /\ \A h \in Handlers : \A i \in DOMAIN <<>> : <<>>[i][1] \in FormsIn[h]
OBVIOUS

(* A read queues a batch and leaves phases of transports. *)
LEMMA ReadEffect ==
    ASSUME TypeOK, read_socket_input
    PROVE  /\ phase' \in [Peers -> Phases]
           /\ \/ UNCHANGED <<transmits, queued>>
              \/ \E new \in Batch : Queue(new)
<1>f. /\ "Stun" \in FormsIn["gateway"] /\ "DtlsRaw" \in FormsIn["dtls"]
      /\ "DtlsRaw" \in FormsIn["sctp"] /\ "DataChannel" \in FormsIn["gateway"]
      /\ "Rtp" \in FormsIn["gateway"] /\ "Sctp" \in FormsIn["datachannel"]
      /\ "gateway" \in Handlers /\ "dtls" \in Handlers /\ "sctp" \in Handlers
      /\ "datachannel" \in Handlers
      BY QueueForms, Places
<1>p. phase \in [Peers -> Phases]
      BY DEF TypeOK
<1>1. CASE UNCHANGED <<transmits, phase, queued>>
      BY <1>1, <1>p
<1>2. ASSUME NEW p \in Peers, read_stun(p)
      PROVE  phase' \in [Peers -> Phases] /\ \E new \in Batch : Queue(new)
  <2>1. Only("gateway", "Stun", <<p>>) \in Batch
        BY <1>f, OnlyIsBatch, OneMessage
  <2>2. phase' \in [Peers -> Phases]
        BY <1>2, <1>p DEF read_stun, Phases
  <2> QED BY <1>2, <2>1, <2>2 DEF read_stun
<1>3. ASSUME NEW p \in Peers, read_handshake(p)
      PROVE  phase' \in [Peers -> Phases] /\ \E new \in Batch : Queue(new)
  <2>1. Only("dtls", "DtlsRaw", <<p>>) \in Batch
        BY <1>f, OnlyIsBatch, OneMessage
  <2>2. phase' \in [Peers -> Phases]
        BY <1>3, <1>p DEF read_handshake, Phases
  <2> QED BY <1>3, <2>1, <2>2 DEF read_handshake
<1>4. ASSUME NEW p \in Peers, read_alert(p)
      PROVE  phase' \in [Peers -> Phases] /\ UNCHANGED <<transmits, queued>>
      BY <1>4, <1>p DEF read_alert, Phases
<1>5. ASSUME NEW p \in Peers, read_sctp(p)
      PROVE  phase' \in [Peers -> Phases] /\ \E new \in Batch : Queue(new)
  <2>1. Only("sctp", "DtlsRaw", <<p>>) \in Batch
        BY <1>f, OnlyIsBatch, OneMessage
  <2>2. phase' \in [Peers -> Phases]
        BY <1>5, <1>p DEF read_sctp, Phases
  <2> QED BY <1>5, <2>1, <2>2 DEF read_sctp
<1>6. ASSUME NEW p \in Peers, read_open(p)
      PROVE  phase' \in [Peers -> Phases] /\ \E new \in Batch : Queue(new)
  <2>1. PICK offer \in {<<>>, <<<<"DataChannel", p>>>>} :
           Queue([Nothing EXCEPT !.datachannel = <<<<"Sctp", p>>>>,
                                 !.gateway = offer,
                                 !.sctp = <<<<"DtlsRaw", p>>>>])
        BY <1>6 DEF read_open
  <2>2. /\ offer \in Seq(Forms \X Peers)
        /\ \A i \in DOMAIN offer : offer[i][1] \in FormsIn["gateway"]
    <3>1. CASE offer = <<>>
          BY <1>f, <3>1, NoMessage
    <3>2. CASE offer = <<<<"DataChannel", p>>>>
          BY <1>f, <3>2, OneMessage
    <3> QED BY <3>1, <3>2
  <2>3. [Nothing EXCEPT !["datachannel"] = <<<<"Sctp", p>>>>] \in Batch
        BY <1>f, NothingIsBatch, OneMessage, BatchPut
  <2>4. [[Nothing EXCEPT !["datachannel"] = <<<<"Sctp", p>>>>] EXCEPT !["gateway"] = offer] \in Batch
        BY <1>f, <2>2, <2>3, BatchPut
  <2>5. [[[Nothing EXCEPT !["datachannel"] = <<<<"Sctp", p>>>>] EXCEPT !["gateway"] = offer]
            EXCEPT !["sctp"] = <<<<"DtlsRaw", p>>>>] \in Batch
        BY <1>f, <2>4, OneMessage, BatchPut
  <2>6. [Nothing EXCEPT !.datachannel = <<<<"Sctp", p>>>>,
                        !.gateway = offer,
                        !.sctp = <<<<"DtlsRaw", p>>>>] \in Batch
        BY <2>5
  <2> QED BY <1>6, <1>p, <2>1, <2>6 DEF read_open
<1>7. ASSUME NEW p \in Peers, read_message(p)
      PROVE  phase' \in [Peers -> Phases] /\ \E new \in Batch : Queue(new)
  <2>1. CASE Queue(Only("sctp", "DtlsRaw", <<p>>))
    <3>1. Only("sctp", "DtlsRaw", <<p>>) \in Batch
          BY <1>f, OnlyIsBatch, OneMessage
    <3> QED BY <1>7, <1>p, <2>1, <3>1 DEF read_message
  <2>2. ASSUME NEW others \in SUBSET {o \in Peers \ {p} : phase[o] = "associated"},
               NEW order \in SetToSeqs(others),
               Queue([Only("gateway", "DataChannel", <<p>> \o order) EXCEPT
                         !.sctp = <<<<"DtlsRaw", p>>>>])
        PROVE  phase' \in [Peers -> Phases] /\ \E new \in Batch : Queue(new)
    <3>1. <<p>> \o order \in Seq(Peers)
      <4>1. order \in Seq(Peers)
            BY OrderOfPeers
      <4> QED BY <4>1
    <3>2. Only("gateway", "DataChannel", <<p>> \o order) \in Batch
          BY <1>f, <3>1, OnlyIsBatch
    <3>3. [Only("gateway", "DataChannel", <<p>> \o order) EXCEPT
             !["sctp"] = <<<<"DtlsRaw", p>>>>] \in Batch
          BY <1>f, <3>2, OneMessage, BatchPut
    <3> QED BY <1>7, <1>p, <2>2, <3>3 DEF read_message
  <2> QED BY <1>7, <2>1, <2>2 DEF read_message
<1>8. ASSUME NEW p \in Peers, read_rtp(p)
      PROVE  phase' \in [Peers -> Phases] /\ \E new \in Batch : Queue(new)
  <2>1. PICK order \in SetToSeqs({o \in Peers \ {p} : Keyed(o)}) : Queue(Only("gateway", "Rtp", order))
        BY <1>8 DEF read_rtp
  <2>2. order \in Seq(Peers)
        BY OrderOfPeers
  <2>3. Only("gateway", "Rtp", order) \in Batch
        BY <1>f, <2>2, OnlyIsBatch
  <2> QED BY <1>8, <1>p, <2>1, <2>3 DEF read_rtp
<1> QED BY <1>1, <1>2, <1>3, <1>4, <1>5, <1>6, <1>7, <1>8 DEF read_socket_input

(* So do the timers. *)
LEMMA TimeoutEffect ==
    ASSUME TypeOK, handle_timeout
    PROVE  phase' \in [Peers -> Phases] /\ \E new \in Batch : Queue(new)
<1>f. /\ "DtlsRaw" \in FormsIn["dtls"] /\ "DtlsRaw" \in FormsIn["sctp"]
      /\ "dtls" \in Handlers /\ "sctp" \in Handlers /\ "interceptor" \in Handlers
      BY QueueForms, Places
<1>1. phase' \in [Peers -> Phases]
  <2>1. PICK idle \in SUBSET Peers, drained \in SUBSET Peers :
          phase' = [p \in Peers |-> IF p \in idle THEN "none"
                                    ELSE IF p \in drained /\ phase[p] = "associated" THEN "keyed"
                                    ELSE phase[p]]
        BY DEF handle_timeout
  <2> QED BY <2>1 DEF TypeOK, Phases
<1>2. PICK records \in Dtls_handle_timeout, packets \in Sctp_handle_timeout,
           reports \in Interceptor_handle_timeout :
             Queue([Nothing EXCEPT !.dtls = records, !.sctp = packets, !.interceptor = reports])
      BY DEF handle_timeout
<1>3. ASSUME NEW due \in SUBSET Peers, NEW q \in Expired(due)
      PROVE  q \in Seq(Forms \X Peers) /\ \A i \in DOMAIN q : q[i][1] = "DtlsRaw"
  <2>1. PICK order \in UNION {SetToSeqs(some) : some \in SUBSET due} :
           q = [i \in DOMAIN order |-> <<"DtlsRaw", order[i]>>]
        BY DEF Expired
  <2>2. PICK some \in SUBSET due : order \in SetToSeqs(some)
        OBVIOUS
  <2>3. order \in Seq(Peers)
        BY <2>2, OrderOfPeers
  <2> QED BY <1>f, <2>1, <2>3, Addressed
<1>4. records \in Seq(Forms \X Peers) /\ \A i \in DOMAIN records : records[i][1] = "DtlsRaw"
      BY <1>3 DEF Dtls_handle_timeout
<1>5. packets \in Seq(Forms \X Peers) /\ \A i \in DOMAIN packets : packets[i][1] = "DtlsRaw"
      BY <1>3 DEF Sctp_handle_timeout
<1>6. reports = <<>>
      BY DEF Interceptor_handle_timeout
<1>7. [Nothing EXCEPT !["dtls"] = records] \in Batch
      BY <1>f, <1>4, NothingIsBatch, BatchPut
<1>8. [[Nothing EXCEPT !["dtls"] = records] EXCEPT !["sctp"] = packets] \in Batch
      BY <1>f, <1>5, <1>7, BatchPut
<1>9. [[[Nothing EXCEPT !["dtls"] = records] EXCEPT !["sctp"] = packets]
          EXCEPT !["interceptor"] = reports] \in Batch
      BY <1>f, <1>6, <1>8, NoMessage, BatchPut
<1> QED BY <1>1, <1>2, <1>9

-----------------------------------------------------------------------------
(* The invariant, handler by handler. *)

(* A pull that had no message, and has none after a turn without a         *)
(* failure, left the queue of the turn empty as well.                      *)
LEMMA PassedStep ==
    ASSUME PassedAreEmpty, NEW h \in Handlers, Level[pc] = Place[h] + 1, pc # "timeout",
           Level[pc'] = Place[h],
           \A g \in Handlers : g # h => transmits'[g] = transmits[g],
           out' = <<>> /\ ~failed' => out = <<>> /\ ~failed /\ transmits'[h] = <<>>
    PROVE  PassedAreEmpty'
<1> SUFFICES ASSUME out' = <<>>, ~failed', NEW g \in Handlers, Place[g] >= Place[h]
             PROVE  transmits'[g] = <<>>
    BY DEF PassedAreEmpty
<1>1. CASE g = h
      BY <1>1
<1>2. CASE g # h
  <2>1. Place[g] # Place[h]
        BY <1>2, DifferentPlaces
  <2>2. Place[g] >= Level[pc]
        BY <2>1, Places
  <2> QED BY <1>2, <2>2 DEF PassedAreEmpty
<1> QED BY <1>1, <1>2

(* The same for a turn of a handler without a queue. *)
LEMMA PassedReturn ==
    ASSUME PassedAreEmpty, pc # "timeout", Level[pc'] = Level[pc], UNCHANGED transmits,
           out' = <<>> /\ ~failed' => out = <<>> /\ ~failed
    PROVE  PassedAreEmpty'
BY DEF PassedAreEmpty

(* The pull begins at the gateway, the innermost handler. *)
LEMMA GatewayStep ==
    ASSUME IInv, Gateway_poll_write
    PROVE  IInv'
<1>1. /\ TypeOK /\ Order /\ pc = "gateway" /\ out = <<>>
      BY PullForms DEF IInv, Order, Gateway_poll_write, FormOfOut
<1>2. /\ "gateway" \in Handlers /\ "interceptor" \in Handlers
      /\ Level[pc] = Place["gateway"] + 1 /\ Level["interceptor"] = Place["gateway"]
      /\ OutForms["interceptor"] = FormsIn["gateway"]
      BY <1>1, Places, Levels, PullForms
<1>3. PopFront("gateway", <<>>, "interceptor") /\ failed' = FALSE /\ pc' = "interceptor"
      BY DEF Gateway_poll_write, PopFront
<1>4. /\ TypeOK' /\ FormOfOut' /\ Order'
      /\ \A g \in Handlers : g # "gateway" => transmits'[g] = transmits[g]
      /\ out' = <<>> => transmits'["gateway"] = <<>>
      BY <1>1, <1>2, <1>3, PopStep
<1>5. PassedAreEmpty'
  <2> SUFFICES ASSUME out' = <<>>, NEW g \in Handlers, Place[g] >= 5
               PROVE  transmits'[g] = <<>>
      BY <1>3, Levels DEF PassedAreEmpty
  <2>1. g = "gateway"
        BY Places
  <2> QED BY <1>4, <2>1
<1> QED BY <1>4, <1>5 DEF IInv, Order

(* A turn of one of the four other handlers with a queue. *)
LEMMA HandlerStep ==
    ASSUME IInv, NEW h \in Handlers, Level[pc] = Place[h] + 1, pc # "timeout",
           NEW in, in = <<>> \/ \E m \in Message : in = <<m>> /\ Passed(m, h),
           NEW next \in Handlers \cup {"srtp", "stun"}, Level[next] = Place[h],
           OutForms[next] = FormsIn[h], PopFront(h, in, next),
           failed' = TRUE \/ (UNCHANGED failed /\ (in = <<>> => out = <<>>))
    PROVE  IInv'
<1>1. TypeOK /\ Order /\ PassedAreEmpty /\ pc' = next
      BY DEF IInv, Order, PopFront
<1>2. failed' \in BOOLEAN
      BY <1>1 DEF TypeOK
<1>3. /\ TypeOK' /\ FormOfOut' /\ Order'
      /\ \A g \in Handlers : g # h => transmits'[g] = transmits[g]
      /\ out' = <<>> => in = <<>> /\ transmits'[h] = <<>>
      BY <1>1, <1>2, PopStep
<1>4. out' = <<>> /\ ~failed' => out = <<>> /\ ~failed /\ transmits'[h] = <<>>
      BY <1>3
<1>5. PassedAreEmpty'
      BY <1>1, <1>3, <1>4, PassedStep
<1> QED BY <1>3, <1>5 DEF IInv, Order

(* The message a handler was passed, as it is or converted. *)
LEMMA PassedOn ==
    ASSUME TypeOK, NEW h \in Handlers, out # <<>> => out[1].form \in FormsIn[h]
    PROVE  out = <<>> \/ \E m \in Message : out = <<m>> /\ Passed(m, h)
BY OutShape DEF Passed

(* A message in another form keeps its place in the order. *)
LEMMA PassedAs ==
    ASSUME TypeOK, out # <<>>, NEW h \in Handlers, NEW form \in FormsIn[h]
    PROVE  \E m \in Message : As(form) = <<m>> /\ Passed(m, h)
<1>1. PICK m \in Message : out = <<m>>
      BY OutShape
<1>2. form \in Forms
      BY QueueForms
<1>3. PICK n \in Message : As(form) = <<n>> /\ n.id = m.id /\ n.from = m.from /\ n.form = form
      BY <1>1, <1>2, AsEffect
<1> QED BY <1>1, <1>3 DEF Passed

(* The interceptor puts what it was passed behind its own queue. *)
LEMMA InterceptorStep ==
    ASSUME IInv, Interceptor_poll_write
    PROVE  IInv'
<1>1. /\ TypeOK /\ pc = "interceptor"
      /\ out # <<>> => out[1].form \in FormsIn["gateway"]
      BY PullForms DEF IInv, FormOfOut, Interceptor_poll_write
<1>2. /\ "interceptor" \in Handlers /\ Level[pc] = Place["interceptor"] + 1
      /\ Level["srtp"] = Place["interceptor"] /\ OutForms["srtp"] = FormsIn["interceptor"]
      /\ FormsIn["gateway"] = FormsIn["interceptor"]
      BY <1>1, Places, Levels, PullForms, QueueForms
<1>3. out = <<>> \/ \E m \in Message : out = <<m>> /\ Passed(m, "interceptor")
      BY <1>1, <1>2, PassedOn
<1>4. PopFront("interceptor", out, "srtp") /\ UNCHANGED failed
      BY DEF Interceptor_poll_write
<1> QED BY <1>1, <1>2, <1>3, <1>4, HandlerStep

(* SRTP encrypts the message, passes it on or drops it. *)
LEMMA SrtpStep ==
    ASSUME IInv, Srtp_poll_write
    PROVE  IInv'
<1>1. /\ TypeOK /\ Order /\ PassedAreEmpty /\ pc = "srtp"
      /\ out # <<>> => out[1].form \in {"Stun", "DataChannel", "Rtp"}
      BY PullForms, QueueForms DEF IInv, Order, FormOfOut, Srtp_poll_write
<1>2. /\ "datachannel" \in Handlers /\ Level["datachannel"] = Level[pc]
      /\ OutForms["datachannel"] = {"Stun", "DataChannel", "RtpRaw"}
      BY <1>1, Places, Levels, PullForms
<1>3. ASSUME NEW result, Return(result, "datachannel"),
             \/ result = <<>>
             \/ \E m \in Message : /\ result = <<m>>
                                   /\ out # <<>>
                                   /\ m.id = out[1].id /\ m.from = out[1].from
                                   /\ m.form \in OutForms["datachannel"],
             failed' = TRUE \/ (UNCHANGED failed /\ (result = <<>> => out = <<>>))
      PROVE  IInv'
  <2>1. failed' \in BOOLEAN
        BY <1>1, <1>3 DEF TypeOK
  <2>2. TypeOK' /\ FormOfOut' /\ Order'
        BY <1>1, <1>2, <1>3, <2>1, ReturnStep
  <2>3. PassedAreEmpty'
    <3>1. out' = result /\ pc' = "datachannel" /\ UNCHANGED transmits
          BY <1>3 DEF Return
    <3>2. out' = <<>> /\ ~failed' => out = <<>> /\ ~failed
          BY <1>3, <3>1
    <3> QED BY <1>1, <1>2, <3>1, <3>2, PassedReturn
  <2> QED BY <2>2, <2>3 DEF IInv, Order
<1>4. CASE ~Has("Rtp") /\ Return(out, "datachannel") /\ UNCHANGED failed
  <2>1. CASE out = <<>>
        BY <1>3, <1>4, <2>1
  <2>2. ASSUME NEW m \in Message, out = <<m>>
        PROVE  IInv'
    <3>1. m.form \in OutForms["datachannel"] /\ out # <<>> /\ out[1] = m
          BY <1>1, <1>2, <1>4, <2>2 DEF Has
    <3> QED BY <1>3, <1>4, <2>2, <3>1
  <2> QED BY <1>1, <2>1, <2>2, OutShape
<1>5. CASE Has("Rtp") /\ Return(As("RtpRaw"), "datachannel") /\ UNCHANGED failed
  <2>1. PICK m \in Message : out = <<m>>
        BY <1>1, <1>5, OutShape DEF Has
  <2>2. PICK n \in Message : As("RtpRaw") = <<n>> /\ n.id = m.id /\ n.from = m.from /\ n.form = "RtpRaw"
        BY <2>1, AsEffect DEF Forms
  <2>3. out # <<>> /\ out[1] = m
        BY <2>1
  <2>4. As("RtpRaw") # <<>>
        BY <2>2
  <2>5. n.form \in OutForms["datachannel"]
        BY <1>2, <2>2
  <2> QED BY <1>3, <1>5, <2>2, <2>3, <2>4, <2>5
<1>6. CASE Return(<<>>, "datachannel") /\ failed' = TRUE
      BY <1>3, <1>6
<1> QED BY <1>4, <1>5, <1>6 DEF Srtp_poll_write

(* The data channel handler puts what it was passed behind its queue. *)
LEMMA DataChannelStep ==
    ASSUME IInv, DataChannel_poll_write
    PROVE  IInv'
<1>1. /\ TypeOK /\ pc = "datachannel"
      /\ out # <<>> => out[1].form \in {"Stun", "DataChannel", "RtpRaw"}
      BY PullForms DEF IInv, FormOfOut, DataChannel_poll_write
<1>2. /\ "datachannel" \in Handlers /\ "sctp" \in Handlers
      /\ Level[pc] = Place["datachannel"] + 1 /\ Level["sctp"] = Place["datachannel"]
      /\ OutForms["sctp"] = FormsIn["datachannel"]
      /\ FormsIn["datachannel"] = {"Stun", "Sctp", "RtpRaw"}
      BY <1>1, Places, Levels, PullForms, QueueForms
<1>3. CASE Has("DataChannel")
  <2>1. out # <<>>
        BY <1>3 DEF Has
  <2>2. \E m \in Message : As("Sctp") = <<m>> /\ Passed(m, "datachannel")
        BY <1>1, <1>2, <2>1, PassedAs
  <2>3. As("Sctp") # <<>>
        BY <2>2
  <2>4. PopFront("datachannel", As("Sctp"), "sctp") /\ UNCHANGED failed
        BY <1>3 DEF DataChannel_poll_write
  <2> QED BY <1>1, <1>2, <2>2, <2>3, <2>4, HandlerStep
<1>4. CASE ~Has("DataChannel")
  <2>1. out = <<>> \/ \E m \in Message : out = <<m>> /\ Passed(m, "datachannel")
        BY <1>1, <1>2, <1>4, PassedOn DEF Has
  <2>2. PopFront("datachannel", out, "sctp") /\ UNCHANGED failed
        BY <1>4 DEF DataChannel_poll_write
  <2> QED BY <1>1, <1>2, <2>1, <2>2, HandlerStep
<1> QED BY <1>3, <1>4

(* SCTP turns the message into a packet, holds it back or drops it. *)
LEMMA SctpStep ==
    ASSUME IInv, Sctp_poll_write
    PROVE  IInv'
<1>1. /\ TypeOK /\ pc = "sctp"
      /\ out # <<>> => out[1].form \in {"Stun", "Sctp", "RtpRaw"}
      BY PullForms, QueueForms DEF IInv, FormOfOut, Sctp_poll_write
<1>2. /\ "sctp" \in Handlers /\ "dtls" \in Handlers
      /\ Level[pc] = Place["sctp"] + 1 /\ Level["dtls"] = Place["sctp"]
      /\ OutForms["dtls"] = FormsIn["sctp"]
      /\ FormsIn["sctp"] = {"Stun", "DtlsRaw", "RtpRaw"}
      BY <1>1, Places, Levels, PullForms, QueueForms
<1>3. CASE ~Has("Sctp") /\ PopFront("sctp", out, "dtls") /\ UNCHANGED failed
  <2>1. out = <<>> \/ \E m \in Message : out = <<m>> /\ Passed(m, "sctp")
        BY <1>1, <1>2, <1>3, PassedOn DEF Has
  <2> QED BY <1>1, <1>2, <1>3, <2>1, HandlerStep
<1>4. CASE Has("Sctp") /\ PopFront("sctp", As("DtlsRaw"), "dtls") /\ UNCHANGED failed
  <2>1. out # <<>>
        BY <1>4 DEF Has
  <2>2. \E m \in Message : As("DtlsRaw") = <<m>> /\ Passed(m, "sctp")
        BY <1>1, <1>2, <2>1, PassedAs
  <2>3. As("DtlsRaw") # <<>>
        BY <2>2
  <2> QED BY <1>1, <1>2, <1>4, <2>2, <2>3, HandlerStep
<1>5. CASE PopFront("sctp", <<>>, "dtls") /\ failed' = TRUE
      BY <1>1, <1>2, <1>5, HandlerStep
<1> QED BY <1>3, <1>4, <1>5 DEF Sctp_poll_write

(* DTLS puts the message behind its own queue or drops it. *)
LEMMA DtlsStep ==
    ASSUME IInv, Dtls_poll_write
    PROVE  IInv'
<1>1. /\ TypeOK /\ pc = "dtls"
      /\ out # <<>> => out[1].form \in FormsIn["sctp"]
      BY PullForms DEF IInv, FormOfOut, Dtls_poll_write
<1>2. /\ "dtls" \in Handlers
      /\ Level[pc] = Place["dtls"] + 1 /\ Level["stun"] = Place["dtls"]
      /\ OutForms["stun"] = FormsIn["dtls"]
      /\ FormsIn["dtls"] = FormsIn["sctp"]
      BY <1>1, Places, Levels, PullForms, QueueForms
<1>3. CASE PopFront("dtls", out, "stun") /\ UNCHANGED failed
  <2>1. out = <<>> \/ \E m \in Message : out = <<m>> /\ Passed(m, "dtls")
        BY <1>1, <1>2, PassedOn
  <2> QED BY <1>1, <1>2, <1>3, <2>1, HandlerStep
<1>4. CASE PopFront("dtls", <<>>, "stun") /\ failed' = TRUE
      BY <1>1, <1>2, <1>4, HandlerStep
<1> QED BY <1>3, <1>4 DEF Dtls_poll_write

(* The STUN handler encodes its own and passes on the rest. *)
LEMMA StunStep ==
    ASSUME IInv, Stun_poll_write
    PROVE  IInv'
<1>1. /\ TypeOK /\ Order /\ PassedAreEmpty /\ pc = "stun"
      /\ out # <<>> => out[1].form \in {"Stun", "DtlsRaw", "RtpRaw"}
      BY PullForms, QueueForms DEF IInv, Order, FormOfOut, Stun_poll_write
<1>2. /\ Level["demuxer"] = Level[pc]
      /\ OutForms["demuxer"] = {"StunRaw", "DtlsRaw", "RtpRaw"}
      BY <1>1, Levels, PullForms
<1> DEFINE result == IF Has("Stun") THEN As("StunRaw") ELSE out
<1>3. Return(result, "demuxer") /\ UNCHANGED failed
      BY DEF Stun_poll_write
<1>4. /\ \/ result = <<>>
         \/ \E m \in Message : /\ result = <<m>>
                               /\ out # <<>>
                               /\ m.id = out[1].id /\ m.from = out[1].from
                               /\ m.form \in OutForms["demuxer"]
      /\ result = <<>> => out = <<>>
  <2>1. CASE out = <<>>
        BY <2>1 DEF Has
  <2>2. ASSUME NEW m \in Message, out = <<m>>, m.form = "Stun"
        PROVE  <1>4!:
    <3>1. Has("Stun") /\ out # <<>> /\ out[1] = m
          BY <2>2 DEF Has
    <3>2. PICK n \in Message : As("StunRaw") = <<n>> /\ n.id = m.id /\ n.from = m.from /\ n.form = "StunRaw"
          BY <2>2, AsEffect DEF Forms
    <3>3. result = <<n>> /\ <<n>> # <<>>
          BY <3>1, <3>2
    <3> HIDE DEF result
    <3> QED BY <1>2, <3>1, <3>2, <3>3
  <2>3. ASSUME NEW m \in Message, out = <<m>>, m.form # "Stun"
        PROVE  <1>4!:
    <3>1. out # <<>> /\ out[1] = m
          BY <2>3
    <3>2. result = out /\ m.form \in OutForms["demuxer"]
          BY <1>1, <1>2, <2>3, <3>1 DEF Has
    <3> HIDE DEF result
    <3> QED BY <2>3, <3>1, <3>2
  <2> QED BY <1>1, <2>1, <2>2, <2>3, OutShape
<1> HIDE DEF result
<1>5. failed' \in BOOLEAN
      BY <1>1, <1>3 DEF TypeOK
<1>6. TypeOK' /\ FormOfOut' /\ Order'
      BY <1>1, <1>2, <1>3, <1>4, <1>5, ReturnStep
<1>7. PassedAreEmpty'
  <2>1. out' = result /\ pc' = "demuxer" /\ UNCHANGED transmits
        BY <1>3 DEF Return
  <2> QED BY <1>1, <1>2, <1>3, <1>4, <2>1, PassedReturn
<1> QED BY <1>6, <1>7 DEF IInv, Order

(* The message leaves for the socket, and the loop goes on. *)
LEMMA DemuxerStep ==
    ASSUME IInv, Demuxer_poll_write
    PROVE  IInv'
<1>1. /\ pc = "demuxer" /\ out' = <<>> /\ UNCHANGED <<transmits, phase, failed>>
      /\ pc' \in {"gateway", "read"}
      /\ queued' = IF \A h \in Handlers : transmits[h] = <<>> THEN 0 ELSE queued
      BY DEF Demuxer_poll_write
<1>2. queued' \in 0 .. MaxMsgs
      BY <1>1, PipelineAssumption DEF IInv, TypeOK
<1>3. TypeOK'
      BY <1>1, <1>2, Places DEF IInv, TypeOK
<1>4. FromInside'
  <2>1. CASE \A h \in Handlers : transmits[h] = <<>>
        BY <1>1, <2>1 DEF FromInside
  <2>2. CASE queued' = queued
        BY <1>1, <2>2 DEF IInv, FromInside
  <2> QED BY <1>1, <2>1, <2>2
<1>5. QueueInOrder' /\ QueuesInOrder'
      BY <1>1 DEF IInv, QueueInOrder, QueuesInOrder
<1>6. FormOfOut' /\ OutInOrder'
      BY <1>1 DEF FormOfOut, OutInOrder
<1>7. PassedAreEmpty'
  <2>1. CASE pc' = "gateway"
        BY <2>1, Levels, Places DEF PassedAreEmpty
  <2>2. CASE pc' = "read"
    <3>1. ~Has("StunRaw") /\ ~Has("DtlsRaw") /\ ~Has("RtpRaw")
          BY <2>2 DEF Demuxer_poll_write
    <3>2. out = <<>>
          BY <1>1, <3>1, PullForms DEF IInv, FormOfOut, Has
    <3> QED BY <1>1, <2>2, <3>2, Levels DEF IInv, PassedAreEmpty
  <2> QED BY <1>1, <2>1, <2>2
<1> QED BY <1>3, <1>4, <1>5, <1>6, <1>7 DEF IInv

(* A datagram queues its messages behind all that wait. *)
LEMMA ReadStep ==
    ASSUME IInv, read_socket_input
    PROVE  IInv'
<1>1. TypeOK /\ Order /\ pc = "read" /\ out = <<>>
      BY PullForms DEF IInv, Order, FormOfOut, read_socket_input
<1>2. pc' = "timeout" /\ UNCHANGED <<out, failed>>
      BY DEF read_socket_input
<1>3. PassedAreEmpty'
      BY <1>2 DEF PassedAreEmpty
<1>4. CASE UNCHANGED <<transmits, queued>>
  <2>1. phase' \in [Peers -> Phases]
        BY <1>1, ReadEffect
  <2>2. TypeOK'
        BY <1>1, <1>2, <1>4, <2>1 DEF TypeOK
  <2>3. FormOfOut' /\ Order'
        BY <1>1, <1>2, <1>4 DEF FormOfOut, Order, FromInside, QueueInOrder, QueuesInOrder, OutInOrder
  <2> QED BY <1>3, <2>2, <2>3 DEF IInv, Order
<1>5. ASSUME NEW new \in Batch, Queue(new)
      PROVE  IInv'
  <2>1. phase' \in [Peers -> Phases]
        BY <1>1, ReadEffect
  <2>2. TypeOK' /\ FormOfOut' /\ Order'
        BY <1>1, <1>2, <1>5, <2>1, QueueStep
  <2> QED BY <1>3, <2>2 DEF IInv, Order
<1> QED BY <1>1, <1>4, <1>5, ReadEffect

(* The timers queue their messages behind all that wait. *)
LEMMA TimeoutStep ==
    ASSUME IInv, handle_timeout
    PROVE  IInv'
<1>1. TypeOK /\ Order /\ pc = "timeout" /\ out = <<>>
      BY PullForms DEF IInv, Order, FormOfOut, handle_timeout
<1>2. pc' = "gateway" /\ UNCHANGED <<out, failed>>
      BY DEF handle_timeout
<1>3. PassedAreEmpty'
      BY <1>2, Levels, Places DEF PassedAreEmpty
<1>4. PICK new \in Batch : Queue(new)
      BY <1>1, TimeoutEffect
<1>5. phase' \in [Peers -> Phases]
      BY <1>1, TimeoutEffect
<1>6. TypeOK' /\ FormOfOut' /\ Order'
      BY <1>1, <1>2, <1>4, <1>5, QueueStep
<1> QED BY <1>3, <1>6 DEF IInv, Order

-----------------------------------------------------------------------------
(* Nothing is queued at the start. *)
LEMMA InvInit == Init => IInv
<1> SUFFICES ASSUME Init PROVE IInv
    OBVIOUS
<1>1. \A h \in Handlers : transmits[h] = <<>> /\ DOMAIN transmits[h] = {}
      BY DEF Init
<1>2. TypeOK
  <2>1. <<>> \in Seq(Message) /\ Len(<<>>) <= 1
        OBVIOUS
  <2>2. DOMAIN transmits = Handlers /\ \A h \in Handlers : transmits[h] \in Seq(Message)
        BY <2>1 DEF Init
  <2>3. out \in Seq(Message) /\ Len(out) <= 1
        BY <2>1 DEF Init
  <2>4. phase \in [Peers -> Phases] /\ failed \in BOOLEAN
        BY DEF Init, Phases
  <2>5. queued \in 0 .. MaxMsgs
        BY PipelineAssumption DEF Init
  <2>6. pc \in Handlers \cup {"srtp", "stun", "demuxer", "read", "timeout"}
        BY Places DEF Init
  <2> QED BY <1>1, <2>2, <2>3, <2>4, <2>5, <2>6 DEF TypeOK
<1>3. FormOfOut /\ FromInside /\ QueueInOrder /\ QueuesInOrder /\ OutInOrder
      BY <1>1 DEF Init, FormOfOut, FromInside, QueueInOrder, QueuesInOrder, OutInOrder
<1>4. PassedAreEmpty
      BY <1>1 DEF PassedAreEmpty
<1> QED BY <1>2, <1>3, <1>4 DEF IInv

(* Every handler, read and timer preserves the invariant. *)
LEMMA InvStep ==
    ASSUME IInv, [Next]_vars
    PROVE  IInv'
<1>1. CASE UNCHANGED vars
      BY <1>1 DEF vars, IInv, TypeOK, FormOfOut, FromInside, QueueInOrder, QueuesInOrder,
                  OutInOrder, PassedAreEmpty
<1> QED BY <1>1, GatewayStep, InterceptorStep, SrtpStep, DataChannelStep, SctpStep, DtlsStep,
           StunStep, DemuxerStep, ReadStep, TimeoutStep DEF Next, write_socket_output

(* The inductive invariant holds: at every point of a pull the queues and  *)
(* the message between them stand in an order in which they may leave.     *)
THEOREM Invariance == Spec => []IInv
BY InvInit, InvStep, PTL DEF Spec

(* Every queue holds only forms that its handler can pass on. *)
THEOREM TypeCorrect == Spec => []TypeOK
<1>1. IInv => TypeOK
      BY DEF IInv
<1> QED BY <1>1, Invariance, PTL

(* However messages are queued, dropped and held back, one that reaches    *)
(* the socket overtakes none made before it in its handler or further out. *)
THEOREM OrderKept == Spec => []NoOvertaking
<1>1. IInv => NoOvertaking
  <2> SUFFICES ASSUME IInv, pc = "demuxer", out # <<>>, NEW m \in Waiting, m.id < out[1].id
               PROVE  Place[m.from] > Place[out[1].from]
      BY DEF NoOvertaking
  <2>1. PICK h \in Handlers : \E i \in DOMAIN transmits[h] : m = transmits[h][i]
        BY DEF Waiting
  <2>2. PICK i \in DOMAIN transmits[h] : m = transmits[h][i]
        BY <2>1
  <2>3. ~(Place[h] < Level[pc])
        BY Levels, Places
  <2> QED BY <2>2, <2>3 DEF IInv, OutInOrder, MayPrecede
<1> QED BY <1>1, Invariance, PTL

(* The worker turns to its socket only when every queue is empty, unless a *)
(* message was dropped with an error or held back.                         *)
THEOREM Drained == Spec => []DrainedUnlessFailed
<1>1. IInv => DrainedUnlessFailed
  <2> SUFFICES ASSUME IInv, pc = "read", ~failed
               PROVE  Waiting = {}
      BY DEF DrainedUnlessFailed
  <2>1. out = <<>>
        BY PullForms DEF IInv, FormOfOut
  <2>2. ASSUME NEW h \in Handlers
        PROVE  transmits[h] = <<>>
    <3>1. Place[h] >= Level[pc]
          BY Levels, Places
    <3> QED BY <2>1, <3>1 DEF IInv, PassedAreEmpty
  <2>3. \A h \in Handlers : DOMAIN transmits[h] = {}
        BY <2>2
  <2> QED BY <2>3 DEF Waiting
<1> QED BY <1>1, Invariance, PTL
=============================================================================
