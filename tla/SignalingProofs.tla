-------------------------- MODULE SignalingProofs ---------------------------
(***************************************************************************)
(* Proofs about Signaling for every set of calls and ports, every thread   *)
(* count and every combination of worker failures.                         *)
(***************************************************************************)
EXTENDS Signaling, TLAPS

(* The inductive invariant.  The slot of a worker that is there holds a    *)
(* request for its own port whose handler is still waiting, and a worker   *)
(* that is gone has no slot.                                               *)
SlotIsWaitedFor ==
    \A p \in Ports : queue[p] # <<>> =>
        /\ ~Gone(p)
        /\ PortOf[Head(queue[p])[1]] = p
        /\ IsOffer(Head(queue[p])[1]) /\ Head(queue[p])[2] = "request" =>
              /\ call[Head(queue[p])[1]] = "recv"
              /\ reply[Head(queue[p])[1]] = "empty"

(* The reply of an offer follows its progress: nothing before the request  *)
(* is sent, a reply from a worker exactly when one has processed it.       *)
RepliesFollowCalls ==
    \A c \in Calls :
        /\ call[c] \in {"recv", "send2"} => IsOffer(c)
        /\ call[c] = "streaming" => ~IsOffer(c)
        /\ IsOffer(c) =>
              /\ c \in handled <=> reply[c] \in {"answer", "err"}
              /\ call[c] \in {"idle", "send"} => reply[c] = "empty"
              /\ call[c] = "send2" => c \in handled

(* With the properties themselves. *)
IInv ==
    /\ TypeOK
    /\ SlotIsWaitedFor
    /\ RepliesFollowCalls
    /\ WaitingCallIsQueued
    /\ HandledOfferIsAnswered

Message == Calls \X {"request", "enable"}

(* A slot holds nothing or one message. *)
LEMMA SlotShape ==
    ASSUME TypeOK, NEW p \in Ports
    PROVE  \/ queue[p] = <<>>
           \/ \E m \in Message : queue[p] = <<m>>
<1>1. queue[p] \in Seq(Message) /\ Len(queue[p]) <= 1
      BY DEF TypeOK, Message
<1>2. CASE Len(queue[p]) = 0
      BY <1>1, <1>2
<1>3. CASE Len(queue[p]) = 1
  <2>1. queue[p][1] \in Message /\ queue[p] = <<queue[p][1]>>
        BY <1>1, <1>3
  <2> QED BY <2>1
<1> QED BY <1>1, <1>2, <1>3

(* The server starts well typed. *)
LEMMA TypeInit == Init => TypeOK
BY DEF Init, TypeOK

(* Types alone are not inductive: that send_enable returns a proper result *)
(* rests on the reply it read earlier.                                     *)
LEMMA TypeStep ==
    ASSUME TypeOK, RepliesFollowCalls, [Next]_vars
    PROVE  TypeOK'
<1> USE CallsAssumption
<1>1. CASE UNCHANGED vars
      BY <1>1 DEF TypeOK, vars
<1>2. ASSUME NEW c \in Calls, Handler(c) \/ hang_up(c)
      PROVE  TypeOK'
  <2>1. CASE start_call(c)
        BY <2>1 DEF TypeOK, start_call, Return
  <2>2. CASE send_fails(c)
        BY <2>2 DEF TypeOK, send_fails, Return
  <2>3. CASE send(c)
    <3>1. <<<<c, "request">>>> \in Seq(Message) /\ Len(<<<<c, "request">>>>) <= 1
          BY DEF Message
    <3>2. /\ queue' \in [Ports -> Seq(Calls \X {"request", "enable"})]
          /\ \A p \in Ports : Len(queue'[p]) <= 1
          BY <2>3, <3>1 DEF TypeOK, send, Message
    <3>3. /\ call' \in [Calls -> {"idle", "send", "recv", "send2", "streaming", "returned"}]
          /\ result' \in [Calls -> {"none", "answer", "err", "ok", "refused", "status"}]
      <4>1. CASE IsOffer(c)
            BY <2>3, <4>1 DEF TypeOK, send
      <4>2. CASE ~IsOffer(c)
        <5>1. /\ call' = [call EXCEPT ![c] = "returned"]
              /\ result' = [result EXCEPT ![c] = "ok"]
              BY <2>3, <4>2 DEF send, Return
        <5> QED BY <5>1 DEF TypeOK
      <4> QED BY <4>1, <4>2
    <3> QED BY <2>3, <3>2, <3>3 DEF TypeOK, send
  <2>4. CASE recv(c)
        BY <2>4 DEF TypeOK, recv, Return
  <2>5. CASE send_enable(c)
    <3>1. <<<<c, "enable">>>> \in Seq(Message) /\ Len(<<<<c, "enable">>>>) <= 1
          BY DEF Message
    <3>2. queue' = queue \/ queue' = [queue EXCEPT ![PortOf[c]] = <<<<c, "enable">>>>]
          BY <2>5 DEF send_enable
    <3>3. /\ queue' \in [Ports -> Seq(Message)]
          /\ \A p \in Ports : Len(queue'[p]) <= 1
      <4>1. CASE queue' = queue
            BY <4>1 DEF TypeOK, Message
      <4>2. CASE queue' = [queue EXCEPT ![PortOf[c]] = <<<<c, "enable">>>>]
            BY <3>1, <4>2 DEF TypeOK, Message
      <4> QED BY <3>2, <4>1, <4>2
    <3>4. reply[c] \in {"answer", "err"}
          BY <2>5 DEF RepliesFollowCalls, send_enable
    <3>5. /\ call' = [call EXCEPT ![c] = "returned"]
          /\ result' = [result EXCEPT ![c] = reply[c]]
          /\ UNCHANGED <<reply, worker, tokens, senders, meter, metrics, main, handled>>
          BY <2>5 DEF send_enable, Return
    <3> QED BY <3>3, <3>4, <3>5 DEF TypeOK, Message
  <2>6. CASE hang_up(c)
        BY <2>6 DEF TypeOK, hang_up, Return
  <2> QED BY <1>2, <2>1, <2>2, <2>3, <2>4, <2>5, <2>6 DEF Handler
<1>3. ASSUME NEW p \in Ports, Loop(p) \/ send_to_fails(p) \/ panic(p)
      PROVE  TypeOK'
  <2>0. <<>> \in Seq(Message) /\ Len(<<>>) <= 1
        OBVIOUS
  <2>1. CASE stop(p)
        BY <2>0, <2>1 DEF TypeOK, stop, Exit, Message
  <2>2. CASE go_on(p)
        BY <2>2 DEF TypeOK, go_on
  <2>3. CASE serve(p)
    <3>1. CASE queue[p] = <<>>
          BY <2>3, <3>1 DEF TypeOK, serve
    <3>2. ASSUME NEW m \in Message, queue[p] = <<m>>
          PROVE  TypeOK'
      <4>1. Head(queue[p]) = m /\ Tail(queue[p]) = <<>> /\ m[1] \in Calls
            BY <3>2 DEF Message
      <4>2. queue' = [queue EXCEPT ![p] = <<>>]
            BY <2>3, <3>2, <4>1 DEF serve
      <4>3. /\ reply' \in [Calls -> {"empty", "answer", "err", "dropped"}]
            /\ handled' \subseteq Calls
        <5>1. handle_offer_message(m[1]) \/ handle_leave_message(m[1])
              BY <2>3, <3>2, <4>1 DEF serve, handle_signaling_message
        <5>2. CASE handle_offer_message(m[1])
          <6>1. PICK r \in {"answer", "err"} : reply' = [reply EXCEPT ![m[1]] = r]
                BY <5>2 DEF handle_offer_message
          <6> QED BY <4>1, <5>2, <6>1 DEF TypeOK, handle_offer_message
        <5>3. CASE handle_leave_message(m[1])
              BY <5>3 DEF TypeOK, handle_leave_message
        <5> QED BY <5>1, <5>2, <5>3
      <4> QED BY <2>0, <2>3, <4>2, <4>3 DEF TypeOK, serve, Message
    <3> QED BY <3>1, <3>2, SlotShape
  <2>4. CASE send_to_fails(p)
        BY <2>0, <2>4 DEF TypeOK, send_to_fails, Exit, Message
  <2>5. CASE panic(p)
        BY <2>0, <2>5 DEF TypeOK, panic, Exit, Message
  <2> QED BY <1>3, <2>1, <2>2, <2>3, <2>4, <2>5 DEF Loop
<1>4. CASE meter_down \/ ctrl_c \/ Main
  <2>1. UNCHANGED <<call, result, reply, queue, worker, handled>>
        BY <1>4 DEF meter_down, ctrl_c, Main, drained, second_send, broadcast, wait
  <2>2. tokens' \in 0 .. 1 /\ meter' \in 0 .. 1
        BY <1>4 DEF TypeOK, meter_down, ctrl_c, Main, drained, second_send, broadcast, wait
  <2>3. /\ senders' \subseteq {"main", "shutdown"}
        /\ metrics' \in {"up", "done"}
        BY <1>4 DEF TypeOK, meter_down, ctrl_c, Main, drained, second_send, broadcast, wait
  <2>4. main' \in {"serving", "draining", "second_send", "broadcast", "waiting", "exited"}
        BY <1>4 DEF TypeOK, meter_down, ctrl_c, Main, drained, second_send, broadcast, wait
  <2> QED BY <2>1, <2>2, <2>3, <2>4 DEF TypeOK
<1> QED BY <1>1, <1>2, <1>3, <1>4 DEF Next

(* A step that touches no handler and no worker keeps what IInv says. *)
LEMMA RestStep ==
    ASSUME IInv, UNCHANGED <<call, result, reply, queue, worker, handled>>
    PROVE  /\ SlotIsWaitedFor'
           /\ RepliesFollowCalls'
           /\ WaitingCallIsQueued'
           /\ HandledOfferIsAnswered'
BY DEF IInv, SlotIsWaitedFor, RepliesFollowCalls, WaitingCallIsQueued,
       HandledOfferIsAnswered, Gone

(* A handler returns, or goes on, without touching a channel or a worker.  *)
LEMMA ReturnStep ==
    ASSUME IInv, NEW c \in Calls,
           UNCHANGED <<reply, queue, worker, handled>>,
           NEW s, NEW r,
           call' = [call EXCEPT ![c] = s],
           result' = [result EXCEPT ![c] = r],
           s \in {"send", "send2", "streaming", "returned"},
           call[c] # "recv" \/ reply[c] # "empty",
           s = "send2" => c \in handled /\ IsOffer(c),
           s = "streaming" => ~IsOffer(c),
           s = "send" => call[c] = "idle",
           s = "returned" /\ IsOffer(c) => (c \in handled <=> r \in {"answer", "err"})
    PROVE  /\ SlotIsWaitedFor'
           /\ RepliesFollowCalls'
           /\ WaitingCallIsQueued'
           /\ HandledOfferIsAnswered'
<1>0. call \in [Calls -> {"idle", "send", "recv", "send2", "streaming", "returned"}]
      BY DEF IInv, TypeOK
<1>1. SlotIsWaitedFor'
  <2> SUFFICES ASSUME NEW p \in Ports, queue[p] # <<>>
               PROVE  /\ ~Gone(p)
                      /\ PortOf[Head(queue[p])[1]] = p
                      /\ IsOffer(Head(queue[p])[1]) /\ Head(queue[p])[2] = "request" =>
                            /\ call'[Head(queue[p])[1]] = "recv"
                            /\ reply[Head(queue[p])[1]] = "empty"
      BY DEF SlotIsWaitedFor, Gone
  <2>1. PICK m \in Message : queue[p] = <<m>>
        BY SlotShape DEF IInv
  <2>2. Head(queue[p]) = m /\ m[1] \in Calls
        BY <2>1 DEF Message
  <2> QED BY <2>2, <1>0 DEF IInv, SlotIsWaitedFor
<1>2. RepliesFollowCalls'
      BY <1>0 DEF IInv, RepliesFollowCalls, IsOffer
<1>3. WaitingCallIsQueued'
      BY <1>0 DEF IInv, WaitingCallIsQueued, Gone
<1>4. HandledOfferIsAnswered'
  <2>1. result \in [Calls -> {"none", "answer", "err", "ok", "refused", "status"}]
        BY DEF IInv, TypeOK
  <2> QED BY <1>0, <2>1 DEF IInv, HandledOfferIsAnswered
<1> QED BY <1>1, <1>2, <1>3, <1>4

(* A worker that ends drops the request in its slot: the handler that      *)
(* waits for it, and nobody else, is told.                                 *)
LEMMA ExitStep ==
    ASSUME IInv, NEW p \in Ports, NEW how \in {"done", "failed", "panicked"},
           Exit(p, how), UNCHANGED <<call, result, handled>>
    PROVE  /\ SlotIsWaitedFor'
           /\ RepliesFollowCalls'
           /\ WaitingCallIsQueued'
           /\ HandledOfferIsAnswered'
<1> USE CallsAssumption
<1>0. /\ queue \in [Ports -> Seq(Message)]
      /\ worker \in [Ports -> {"top", "serve", "done", "failed", "panicked"}]
      /\ reply \in [Calls -> {"empty", "answer", "err", "dropped"}]
      BY DEF IInv, TypeOK, Message
<1>1. /\ queue' = [queue EXCEPT ![p] = <<>>]
      /\ worker' = [worker EXCEPT ![p] = how]
      BY DEF Exit
<1>2. /\ \A q \in Ports : q # p => queue'[q] = queue[q] /\ (Gone(q)' <=> Gone(q))
      /\ queue'[p] = <<>> /\ Gone(p)'
      BY <1>0, <1>1 DEF Gone
(* whose reply channel is dropped *)
<1>3. ASSUME NEW c \in Calls
      PROVE  reply'[c] = IF queue[p] = <<<<c, "request">>>> THEN "dropped" ELSE reply[c]
  <2>1. reply'[c] = IF <<c, "request">> \in {queue[p][i] : i \in DOMAIN queue[p]}
                    THEN "dropped" ELSE reply[c]
        BY DEF Exit
  <2>2. CASE queue[p] = <<>>
        BY <2>1, <2>2
  <2>3. ASSUME NEW m \in Message, queue[p] = <<m>>
        PROVE  reply'[c] = IF queue[p] = <<<<c, "request">>>> THEN "dropped" ELSE reply[c]
    <3>1. DOMAIN queue[p] = {1} /\ queue[p][1] = m
          BY <2>3
    <3>2. {queue[p][i] : i \in DOMAIN queue[p]} = {m}
          BY <3>1
    <3>3. <<m>> = <<<<c, "request">>>> <=> m = <<c, "request">>
          OBVIOUS
    <3> QED BY <2>1, <2>3, <3>2, <3>3
  <2> QED BY <2>2, <2>3, SlotShape DEF IInv
<1>4. ASSUME NEW c \in Calls, queue[p] = <<<<c, "request">>>>, IsOffer(c)
      PROVE  call[c] = "recv" /\ reply[c] = "empty" /\ PortOf[c] = p
      BY <1>4 DEF IInv, SlotIsWaitedFor
<1>5. SlotIsWaitedFor'
  <2> SUFFICES ASSUME NEW q \in Ports, queue'[q] # <<>>
               PROVE  /\ ~Gone(q)'
                      /\ PortOf[Head(queue'[q])[1]] = q
                      /\ IsOffer(Head(queue'[q])[1]) /\ Head(queue'[q])[2] = "request" =>
                            /\ call[Head(queue'[q])[1]] = "recv"
                            /\ reply'[Head(queue'[q])[1]] = "empty"
      BY DEF SlotIsWaitedFor
  <2>1. q # p /\ queue'[q] = queue[q]
        BY <1>2
  <2>2. PICK m \in Message : queue[q] = <<m>>
        BY <2>1, SlotShape DEF IInv
  <2>3. Head(queue[q]) = m /\ m[1] \in Calls
        BY <2>2 DEF Message
  <2>4. PortOf[m[1]] = q /\ ~Gone(q)
        BY <2>1, <2>3 DEF IInv, SlotIsWaitedFor
  <2>5. ASSUME IsOffer(m[1]) PROVE reply'[m[1]] = reply[m[1]]
        BY <1>3, <1>4, <2>1, <2>3, <2>4, <2>5
  <2> QED BY <1>2, <2>1, <2>3, <2>4, <2>5 DEF IInv, SlotIsWaitedFor
<1>6. RepliesFollowCalls'
      BY <1>3, <1>4 DEF IInv, RepliesFollowCalls, IsOffer
<1>7. WaitingCallIsQueued'
      BY <1>2, <1>3 DEF IInv, WaitingCallIsQueued
<1>8. HandledOfferIsAnswered'
      BY DEF IInv, HandledOfferIsAnswered
<1> QED BY <1>5, <1>6, <1>7, <1>8

(* An offer enters the slot of its port and waits there. *)
LEMMA SendStep ==
    ASSUME IInv, NEW c \in Calls, send(c)
    PROVE  /\ SlotIsWaitedFor'
           /\ RepliesFollowCalls'
           /\ WaitingCallIsQueued'
           /\ HandledOfferIsAnswered'
<1> USE CallsAssumption
<1>0. /\ queue \in [Ports -> Seq(Message)]
      /\ call \in [Calls -> {"idle", "send", "recv", "send2", "streaming", "returned"}]
      /\ result \in [Calls -> {"none", "answer", "err", "ok", "refused", "status"}]
      BY DEF IInv, TypeOK, Message
<1> DEFINE p == PortOf[c]
<1>1. /\ p \in Ports /\ ~Gone(p) /\ queue[p] = <<>> /\ call[c] = "send"
      /\ queue' = [queue EXCEPT ![p] = <<<<c, "request">>>>]
      /\ call' = [call EXCEPT ![c] = IF IsOffer(c) THEN "recv" ELSE "returned"]
      /\ UNCHANGED <<reply, worker, handled>>
      BY DEF send, Return
<1>2. \A x \in Calls : x # c => call'[x] = call[x] /\ result'[x] = result[x]
      BY <1>0 DEF send, Return
<1>3. \A q \in Ports : q # p => queue'[q] = queue[q]
      BY <1>0, <1>1
<1>4. queue'[p] = <<<<c, "request">>>>
      BY <1>0, <1>1
<1>5. \A q \in Ports : Gone(q)' <=> Gone(q)
      BY <1>1 DEF Gone
<1> HIDE DEF p
<1>6. IsOffer(c) => reply[c] = "empty" /\ c \notin handled
      BY <1>1 DEF IInv, RepliesFollowCalls
<1>7. SlotIsWaitedFor'
  <2> SUFFICES ASSUME NEW q \in Ports, queue'[q] # <<>>
               PROVE  /\ ~Gone(q)
                      /\ PortOf[Head(queue'[q])[1]] = q
                      /\ IsOffer(Head(queue'[q])[1]) /\ Head(queue'[q])[2] = "request" =>
                            /\ call'[Head(queue'[q])[1]] = "recv"
                            /\ reply[Head(queue'[q])[1]] = "empty"
      BY <1>1, <1>5 DEF SlotIsWaitedFor
  <2>1. CASE q = p
    <3>1. Head(queue'[q]) = <<c, "request">>
          BY <1>4, <2>1
    <3> QED BY <1>0, <1>1, <1>6, <2>1, <3>1 DEF p
  <2>2. CASE q # p
    <3>1. PICK m \in Message : queue[q] = <<m>>
          BY <1>3, <2>2, SlotShape DEF IInv
    <3>2. Head(queue'[q]) = m /\ m[1] \in Calls
          BY <1>3, <2>2, <3>1 DEF Message
    <3>3. /\ ~Gone(q)
          /\ PortOf[m[1]] = q
          /\ IsOffer(m[1]) /\ m[2] = "request" => call[m[1]] = "recv" /\ reply[m[1]] = "empty"
          BY <1>3, <2>2, <3>2 DEF IInv, SlotIsWaitedFor
    <3> QED BY <1>1, <1>2, <3>2, <3>3
  <2> QED BY <2>1, <2>2
<1>8. RepliesFollowCalls'
      BY <1>0, <1>1, <1>6 DEF IInv, RepliesFollowCalls, IsOffer
<1>9. WaitingCallIsQueued'
  <2> SUFFICES ASSUME NEW x \in Calls, call'[x] = "recv", reply[x] = "empty"
               PROVE  ~Gone(PortOf[x]) /\ queue'[PortOf[x]] = <<<<x, "request">>>>
      BY <1>1, <1>5 DEF WaitingCallIsQueued
  <2>1. CASE x = c
        BY <1>1, <1>4, <2>1 DEF p
  <2>2. CASE x # c
    <3>1. ~Gone(PortOf[x]) /\ queue[PortOf[x]] = <<<<x, "request">>>>
          BY <1>2, <2>2 DEF IInv, WaitingCallIsQueued
    <3> QED BY <1>1, <1>3, <3>1
  <2> QED BY <2>1, <2>2
<1>10. HandledOfferIsAnswered'
       BY <1>0, <1>1, <1>2 DEF IInv, HandledOfferIsAnswered
<1> QED BY <1>7, <1>8, <1>9, <1>10

(* The second message of an offer with transcription waits for nobody. *)
LEMMA SendEnableStep ==
    ASSUME IInv, NEW c \in Calls, send_enable(c)
    PROVE  /\ SlotIsWaitedFor'
           /\ RepliesFollowCalls'
           /\ WaitingCallIsQueued'
           /\ HandledOfferIsAnswered'
<1> USE CallsAssumption
<1>0. /\ queue \in [Ports -> Seq(Message)]
      /\ call \in [Calls -> {"idle", "send", "recv", "send2", "streaming", "returned"}]
      /\ result \in [Calls -> {"none", "answer", "err", "ok", "refused", "status"}]
      BY DEF IInv, TypeOK, Message
<1>1. /\ call[c] = "send2"
      /\ call' = [call EXCEPT ![c] = "returned"]
      /\ result' = [result EXCEPT ![c] = reply[c]]
      /\ UNCHANGED <<reply, worker, handled>>
      BY DEF send_enable, Return
<1>2. c \in handled /\ reply[c] \in {"answer", "err"} /\ IsOffer(c)
      BY <1>1 DEF IInv, RepliesFollowCalls
<1>3. CASE queue' = queue
      BY <1>1, <1>2, <1>3, ReturnStep
<1>4. CASE /\ ~Gone(PortOf[c])
           /\ queue[PortOf[c]] = <<>>
           /\ queue' = [queue EXCEPT ![PortOf[c]] = <<<<c, "enable">>>>]
  <2> DEFINE p == PortOf[c]
  <2>1. /\ p \in Ports /\ queue'[p] = <<<<c, "enable">>>>
        /\ \A q \in Ports : q # p => queue'[q] = queue[q]
        BY <1>0, <1>4
  <2>2. \A q \in Ports : Gone(q)' <=> Gone(q)
        BY <1>1 DEF Gone
  <2>3. SlotIsWaitedFor'
    <3> SUFFICES ASSUME NEW q \in Ports, queue'[q] # <<>>
                 PROVE  /\ ~Gone(q)
                        /\ PortOf[Head(queue'[q])[1]] = q
                        /\ IsOffer(Head(queue'[q])[1]) /\ Head(queue'[q])[2] = "request" =>
                              /\ call'[Head(queue'[q])[1]] = "recv"
                              /\ reply[Head(queue'[q])[1]] = "empty"
        BY <1>1, <2>2 DEF SlotIsWaitedFor
    <3>1. CASE q = p
      <4>1. Head(queue'[q]) = <<c, "enable">>
            BY <2>1, <3>1
      <4> QED BY <1>4, <3>1, <4>1
    <3>2. CASE q # p
      <4>1. PICK m \in Message : queue[q] = <<m>>
            BY <2>1, <3>2, SlotShape DEF IInv
      <4>2. Head(queue'[q]) = m /\ m[1] \in Calls
            BY <2>1, <3>2, <4>1 DEF Message
      <4>3. /\ ~Gone(q)
            /\ PortOf[m[1]] = q
            /\ IsOffer(m[1]) /\ m[2] = "request" => call[m[1]] = "recv" /\ reply[m[1]] = "empty"
            BY <2>1, <3>2, <4>2 DEF IInv, SlotIsWaitedFor
      <4> QED BY <1>0, <1>1, <4>2, <4>3
    <3> QED BY <3>1, <3>2
  <2>4. RepliesFollowCalls'
        BY <1>0, <1>1 DEF IInv, RepliesFollowCalls, IsOffer
  <2>5. WaitingCallIsQueued'
    <3> SUFFICES ASSUME NEW x \in Calls, call'[x] = "recv", reply[x] = "empty"
                 PROVE  ~Gone(PortOf[x]) /\ queue'[PortOf[x]] = <<<<x, "request">>>>
        BY <1>1, <2>2 DEF WaitingCallIsQueued
    <3>1. ~Gone(PortOf[x]) /\ queue[PortOf[x]] = <<<<x, "request">>>>
          BY <1>0, <1>1 DEF IInv, WaitingCallIsQueued
    <3> QED BY <1>4, <2>1, <3>1
  <2>6. HandledOfferIsAnswered'
        BY <1>0, <1>1, <1>2 DEF IInv, HandledOfferIsAnswered
  <2> QED BY <2>3, <2>4, <2>5, <2>6
<1> QED BY <1>1, <1>3, <1>4 DEF send_enable

(* A worker takes the message out of its slot; an offer is answered in the *)
(* same step.                                                              *)
LEMMA ServeStep ==
    ASSUME IInv, NEW p \in Ports, serve(p)
    PROVE  /\ SlotIsWaitedFor'
           /\ RepliesFollowCalls'
           /\ WaitingCallIsQueued'
           /\ HandledOfferIsAnswered'
<1> USE CallsAssumption
<1>0. /\ queue \in [Ports -> Seq(Message)]
      /\ worker \in [Ports -> {"top", "serve", "done", "failed", "panicked"}]
      /\ reply \in [Calls -> {"empty", "answer", "err", "dropped"}]
      BY DEF IInv, TypeOK, Message
<1>1. /\ worker[p] = "serve"
      /\ worker' = [worker EXCEPT ![p] = "top"]
      /\ UNCHANGED <<call, result>>
      BY DEF serve
<1>2. \A q \in Ports : Gone(q)' <=> Gone(q)
      BY <1>0, <1>1 DEF Gone
<1>3. CASE queue[p] = <<>>
  <2>1. UNCHANGED <<queue, reply, handled>>
        BY <1>3 DEF serve
  <2> QED BY <1>1, <1>2, <2>1 DEF IInv, SlotIsWaitedFor, RepliesFollowCalls,
          WaitingCallIsQueued, HandledOfferIsAnswered
<1>4. ASSUME NEW m \in Message, queue[p] = <<m>>
      PROVE  /\ SlotIsWaitedFor'
             /\ RepliesFollowCalls'
             /\ WaitingCallIsQueued'
             /\ HandledOfferIsAnswered'
  <2>1. Head(queue[p]) = m /\ Tail(queue[p]) = <<>> /\ m[1] \in Calls
        BY <1>4 DEF Message
  <2>2. queue' = [queue EXCEPT ![p] = <<>>] /\ handle_signaling_message(m[1], m[2])
        BY <1>4, <2>1 DEF serve
  <2>3. /\ queue'[p] = <<>>
        /\ \A q \in Ports : q # p => queue'[q] = queue[q]
        BY <1>0, <2>2
  <2>4. PortOf[m[1]] = p
        BY <1>4, <2>1 DEF IInv, SlotIsWaitedFor
  <2>5. \A c \in Calls : c # m[1] => reply'[c] = reply[c] /\ (c \in handled' <=> c \in handled)
        BY <1>0, <2>2 DEF handle_signaling_message, handle_offer_message, handle_leave_message
  <2>6. SlotIsWaitedFor'
    <3> SUFFICES ASSUME NEW q \in Ports, queue'[q] # <<>>
                 PROVE  /\ ~Gone(q)
                        /\ PortOf[Head(queue'[q])[1]] = q
                        /\ IsOffer(Head(queue'[q])[1]) /\ Head(queue'[q])[2] = "request" =>
                              /\ call[Head(queue'[q])[1]] = "recv"
                              /\ reply'[Head(queue'[q])[1]] = "empty"
        BY <1>1, <1>2 DEF SlotIsWaitedFor
    <3>1. q # p /\ queue'[q] = queue[q]
          BY <2>3
    <3>2. PICK x \in Message : queue[q] = <<x>>
          BY <3>1, SlotShape DEF IInv
    <3>3. Head(queue'[q]) = x /\ x[1] \in Calls
          BY <3>1, <3>2 DEF Message
    <3>4. /\ ~Gone(q)
          /\ PortOf[x[1]] = q
          /\ IsOffer(x[1]) /\ x[2] = "request" => call[x[1]] = "recv" /\ reply[x[1]] = "empty"
          BY <3>1, <3>3 DEF IInv, SlotIsWaitedFor
    <3> QED BY <2>4, <2>5, <3>1, <3>3, <3>4
  <2>7. CASE IsOffer(m[1]) /\ m[2] = "request"
    <3>1. /\ handled' = handled \cup {m[1]}
          /\ reply'[m[1]] \in {"answer", "err"}
          BY <1>0, <2>1, <2>2, <2>7 DEF handle_signaling_message, handle_offer_message
    <3>2. call[m[1]] = "recv"
          BY <1>4, <2>1, <2>7 DEF IInv, SlotIsWaitedFor
    <3>3. RepliesFollowCalls'
          BY <1>1, <2>5, <3>1, <3>2 DEF IInv, RepliesFollowCalls, IsOffer
    <3>4. WaitingCallIsQueued'
      <4> SUFFICES ASSUME NEW x \in Calls, call[x] = "recv", reply'[x] = "empty"
                   PROVE  ~Gone(PortOf[x]) /\ queue'[PortOf[x]] = <<<<x, "request">>>>
          BY <1>1, <1>2 DEF WaitingCallIsQueued
      <4>1. x # m[1] /\ reply[x] = "empty"
            BY <2>5, <3>1
      <4>2. ~Gone(PortOf[x]) /\ queue[PortOf[x]] = <<<<x, "request">>>>
            BY <4>1 DEF IInv, WaitingCallIsQueued
      <4>3. PortOf[x] # p
            BY <1>4, <4>1, <4>2
      <4> QED BY <2>3, <4>2, <4>3
    <3>5. HandledOfferIsAnswered'
          BY <1>1, <2>5, <3>2 DEF IInv, HandledOfferIsAnswered
    <3> QED BY <2>6, <3>3, <3>4, <3>5
  <2>8. CASE ~(IsOffer(m[1]) /\ m[2] = "request")
    <3>1. UNCHANGED <<reply, handled>>
          BY <2>2, <2>8 DEF handle_signaling_message, handle_leave_message
    <3>2. RepliesFollowCalls' /\ HandledOfferIsAnswered'
          BY <1>1, <3>1 DEF IInv, RepliesFollowCalls, HandledOfferIsAnswered
    <3>3. WaitingCallIsQueued'
      <4> SUFFICES ASSUME NEW x \in Calls, call[x] = "recv", reply[x] = "empty"
                   PROVE  ~Gone(PortOf[x]) /\ queue'[PortOf[x]] = <<<<x, "request">>>>
          BY <1>1, <1>2, <3>1 DEF WaitingCallIsQueued
      <4>1. ~Gone(PortOf[x]) /\ queue[PortOf[x]] = <<<<x, "request">>>> /\ IsOffer(x)
            BY DEF IInv, WaitingCallIsQueued, RepliesFollowCalls
      <4>2. PortOf[x] # p
            BY <1>4, <2>8, <4>1
      <4> QED BY <2>3, <4>1, <4>2
    <3> QED BY <2>6, <3>2, <3>3
  <2> QED BY <2>7, <2>8
<1> QED BY <1>3, <1>4, SlotShape DEF IInv

(* A handler that starts, fails to send, reads its reply or ends a stream. *)
LEMMA HandlerStep ==
    ASSUME IInv, NEW c \in Calls,
           start_call(c) \/ send_fails(c) \/ recv(c) \/ hang_up(c)
    PROVE  /\ SlotIsWaitedFor'
           /\ RepliesFollowCalls'
           /\ WaitingCallIsQueued'
           /\ HandledOfferIsAnswered'
<1>0. /\ result = [result EXCEPT ![c] = result[c]]
      /\ reply[c] \in {"empty", "answer", "err", "dropped"}
      /\ UNCHANGED <<reply, queue, worker, handled>>
      BY DEF IInv, TypeOK, start_call, send_fails, recv, hang_up
<1>1. CASE start_call(c)
  <2>1. call[c] = "idle"
        BY <1>1 DEF start_call
  <2>2. CASE /\ ~IsOffer(c)
             /\ call' = [call EXCEPT ![c] = "returned"]
             /\ result' = [result EXCEPT ![c] = "refused"]
        BY <1>0, <2>1, <2>2, ReturnStep
  <2>3. CASE /\ ~IsOffer(c)
             /\ call' = [call EXCEPT ![c] = "streaming"]
             /\ result' = result
        BY <1>0, <2>1, <2>3, ReturnStep
  <2>4. CASE call' = [call EXCEPT ![c] = "send"] /\ result' = result
        BY <1>0, <2>1, <2>4, ReturnStep
  <2> QED BY <1>1, <2>2, <2>3, <2>4 DEF start_call, Return, IsOffer
<1>2. CASE send_fails(c)
  <2>1. IsOffer(c) => c \notin handled
        BY <1>2 DEF IInv, RepliesFollowCalls, send_fails
  <2>2. PICK r \in {"ok", "status"} : /\ call' = [call EXCEPT ![c] = "returned"]
                                      /\ result' = [result EXCEPT ![c] = r]
        BY <1>2 DEF send_fails, Return
  <2>3. call[c] = "send"
        BY <1>2 DEF send_fails
  <2> QED BY <1>0, <2>1, <2>2, <2>3, ReturnStep
<1>3. CASE recv(c)
  <2>1. /\ call[c] = "recv" /\ reply[c] # "empty" /\ IsOffer(c)
        /\ c \in handled <=> reply[c] \in {"answer", "err"}
        BY <1>3 DEF IInv, RepliesFollowCalls, recv
  <2>2. CASE reply[c] = "dropped" /\ Return(c, "status")
        BY <1>0, <2>1, <2>2, ReturnStep DEF Return
  <2>3. CASE /\ reply[c] # "dropped"
             /\ call' = [call EXCEPT ![c] = "send2"] /\ UNCHANGED result
    <3>1. c \in handled
          BY <1>0, <2>1, <2>3
    <3> QED BY <1>0, <2>1, <2>3, <3>1, ReturnStep
  <2>4. CASE reply[c] # "dropped" /\ Return(c, reply[c])
        BY <1>0, <2>1, <2>4, ReturnStep DEF Return
  <2> QED BY <1>3, <2>2, <2>3, <2>4 DEF recv
<1>4. CASE hang_up(c)
  <2>1. call[c] = "streaming" /\ ~IsOffer(c)
        BY <1>4 DEF IInv, RepliesFollowCalls, hang_up
  <2> QED BY <1>0, <1>4, <2>1, ReturnStep DEF hang_up, Return
<1> QED BY <1>1, <1>2, <1>3, <1>4

(* The inductive invariant holds in every reachable state. *)
THEOREM Invariance == Spec => []IInv
<1>1. Init => IInv
  <2> SUFFICES ASSUME Init PROVE IInv
      OBVIOUS
  <2>1. TypeOK
        BY TypeInit
  <2> QED BY <2>1 DEF Init, IInv, SlotIsWaitedFor, RepliesFollowCalls,
          WaitingCallIsQueued, HandledOfferIsAnswered
<1>2. IInv /\ [Next]_vars => IInv'
  <2> SUFFICES ASSUME IInv, [Next]_vars PROVE IInv'
      OBVIOUS
  <2> DEFINE Rest == SlotIsWaitedFor /\ RepliesFollowCalls /\ WaitingCallIsQueued
                     /\ HandledOfferIsAnswered
  <2>1. TypeOK'
        BY TypeStep DEF IInv
  <2>2. CASE UNCHANGED vars
        BY <2>1, <2>2, RestStep DEF vars, IInv
  <2>3. ASSUME NEW c \in Calls, Handler(c) \/ hang_up(c)
        PROVE  Rest'
        BY <2>3, HandlerStep, SendStep, SendEnableStep DEF Handler
  <2>4. ASSUME NEW p \in Ports, Loop(p) \/ send_to_fails(p) \/ panic(p)
        PROVE  Rest'
    <3>1. CASE stop(p)
          BY <3>1, ExitStep DEF stop
    <3>2. CASE go_on(p)
      <4>1. \A q \in Ports : Gone(q)' <=> Gone(q)
            BY <3>2 DEF IInv, TypeOK, go_on, Gone
      <4> QED BY <3>2, <4>1, CallsAssumption DEF go_on, IInv, SlotIsWaitedFor,
              RepliesFollowCalls, WaitingCallIsQueued, HandledOfferIsAnswered
    <3>3. CASE serve(p)
          BY <3>3, ServeStep
    <3>4. CASE send_to_fails(p)
          BY <3>4, ExitStep DEF send_to_fails
    <3>5. CASE panic(p)
          BY <3>5, ExitStep DEF panic
    <3> QED BY <2>4, <3>1, <3>2, <3>3, <3>4, <3>5 DEF Loop
  <2>5. CASE meter_down \/ ctrl_c \/ Main
    <3>1. UNCHANGED <<call, result, reply, queue, worker, handled>>
          BY <2>5 DEF meter_down, ctrl_c, Main, drained, second_send, broadcast, wait
    <3> QED BY <2>1, <3>1, RestStep DEF IInv
  <2> QED BY <2>1, <2>2, <2>3, <2>4, <2>5 DEF Next, IInv
<1> QED BY <1>1, <1>2, PTL DEF Spec

(* The service and its workers are well typed in every reachable state; in *)
(* particular no signalling channel ever holds more than its one slot and  *)
(* no RPC returns the content of an empty reply channel.                   *)
THEOREM TypeCorrect == Spec => []TypeOK
<1>1. IInv => TypeOK
      BY DEF IInv
<1> QED BY <1>1, Invariance, PTL

(* Whatever workers fail, panic or are stopped, and in whatever order, a   *)
(* handler that waits for a reply waits for a live worker that has its     *)
(* request: the exit of a worker drops the reply channel with the request. *)
THEOREM NobodyWaitsForNobody == Spec => []WaitingCallIsQueued
<1>1. IInv => WaitingCallIsQueued
      BY DEF IInv
<1> QED BY <1>1, Invariance, PTL

(* An offer is answered with the worker's reply exactly if a worker has    *)
(* processed it, even if that worker fails before the handler reads the    *)
(* reply or sends the second message.                                      *)
THEOREM HandledAnswered == Spec => []HandledOfferIsAnswered
<1>1. IInv => HandledOfferIsAnswered
      BY DEF IInv
<1> QED BY <1>1, Invariance, PTL
=============================================================================
