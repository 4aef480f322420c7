----------------------------- MODULE Signaling ------------------------------
(***************************************************************************)
(* The gRPC signalling service, the media workers and the shutdown of the  *)
(* process: src/bin/sfu.rs and the run loop of src/signal/mod.rs.          *)
(*                                                                         *)
(* An RPC handler hands its request to the worker of the session's port    *)
(* over a one-slot blocking channel and, for an offer, blocks on a private *)
(* reply channel.  A worker looks at the stop channel before each message. *)
(* One bounded(1) stop channel serves all the workers: a token stops one   *)
(* of them, only the disconnect stops the rest.  What a worker answers is  *)
(* the registry's business (module ServerStates); here it is a choice.     *)
(***************************************************************************)
EXTENDS Naturals, Sequences, FiniteSets

CONSTANTS
    Calls,          \* RPCs that clients make; each is made at most once
    Kind,           \* Calls -> Kinds
    Ports,          \* media ports, one worker thread for each
    PortOf,         \* Calls -> Ports: sorted_ports[session_id % len]
    Transcription,  \* was the server started with a transcription manager?
    Threads,        \* executor threads that blocking handlers can occupy
    Failures        \* what may befall a worker: "send_to", "panic"

Kinds == {"offer", "offer_transcribe", "leave", "enable", "disable", "subscribe"}

ASSUME CallsAssumption ==
    /\ Kind \in [Calls -> Kinds]
    /\ PortOf \in [Calls -> Ports]
ASSUME OptionsAssumption ==
    /\ Transcription \in BOOLEAN
    /\ Threads \in Nat \ {0}
    /\ Failures \subseteq {"send_to", "panic"}

VARIABLES
    call,     \* progress of each RPC handler
    result,   \* what the RPC returned
    reply,    \* the reply channel of an offer
    queue,    \* the signalling channel of each port
    worker,   \* state of each media worker
    tokens,   \* messages in the stop channel, of capacity 1
    senders,  \* who still holds a sender of the stop channel
    meter,    \* messages in the metrics stop channel, of capacity 1
    metrics,  \* the metrics thread
    main,     \* the main task
    handled   \* offers a worker has processed

vars == <<call, result, reply, queue, worker, tokens, senders, meter, metrics,
          main, handled>>

IsOffer(c) == Kind[c] \in {"offer", "offer_transcribe"}
Gone(p) == worker[p] \in {"done", "failed", "panicked"}
Blocking == {c \in Calls : call[c] \in {"send", "recv", "send2"}}

TypeOK ==
    /\ call \in [Calls -> {"idle", "send", "recv", "send2", "streaming", "returned"}]
    /\ result \in [Calls -> {"none", "answer", "err", "ok", "refused", "status"}]
    /\ reply \in [Calls -> {"empty", "answer", "err", "dropped"}]
    /\ queue \in [Ports -> Seq(Calls \X {"request", "enable"})]
    /\ \A p \in Ports : Len(queue[p]) <= 1
    /\ worker \in [Ports -> {"top", "serve", "done", "failed", "panicked"}]
    /\ tokens \in 0 .. 1 /\ meter \in 0 .. 1
    /\ senders \subseteq {"main", "shutdown"}
    /\ metrics \in {"up", "done"}
    /\ main \in {"serving", "draining", "second_send", "broadcast", "waiting", "exited"}
    /\ handled \subseteq Calls

Init ==
    /\ call = [c \in Calls |-> "idle"]
    /\ result = [c \in Calls |-> "none"]
    /\ reply = [c \in Calls |-> "empty"]
    /\ queue = [p \in Ports |-> <<>>]
    /\ worker = [p \in Ports |-> "top"]
    /\ tokens = 0 /\ meter = 0
    /\ senders = {"main", "shutdown"}
    /\ metrics = "up"
    /\ main = "serving"
    /\ handled = {}

-----------------------------------------------------------------------------
(* The RPC handlers. *)

Return(c, r) ==
    /\ call' = [call EXCEPT ![c] = "returned"]
    /\ result' = [result EXCEPT ![c] = r]

(* A handler starts while the server accepts requests and has a thread for *)
(* it.  Without a manager the transcription RPCs are refused at once.      *)
start_call(c) ==
    /\ main = "serving"
    /\ call[c] = "idle"
    /\ Cardinality(Blocking) < Threads
    /\ IF Kind[c] \in {"enable", "disable", "subscribe"} /\ ~Transcription
       THEN Return(c, "refused")
       ELSE /\ call' = [call EXCEPT ![c] =
                           IF Kind[c] = "subscribe" THEN "streaming" ELSE "send"]
            /\ UNCHANGED result
    /\ UNCHANGED <<reply, queue, worker, tokens, senders, meter, metrics, main, handled>>

(* tx.send to a worker that is gone: an offer or a leave returns a status, *)
(* enable and disable ignore it and report ok.                             *)
send_fails(c) ==
    /\ call[c] = "send"
    /\ Gone(PortOf[c])
    /\ Return(c, IF Kind[c] \in {"enable", "disable"} THEN "ok" ELSE "status")
    /\ UNCHANGED <<reply, queue, worker, tokens, senders, meter, metrics, main, handled>>

(* Mistake: the channel has no bound. *)
send_unbounded(c) ==
    /\ call[c] = "send"
    /\ ~Gone(PortOf[c])
    /\ queue' = [queue EXCEPT ![PortOf[c]] = Append(@, <<c, "request">>)]
    /\ IF IsOffer(c)
       THEN call' = [call EXCEPT ![c] = "recv"] /\ UNCHANGED result
       ELSE Return(c, "ok")
    /\ UNCHANGED <<reply, worker, tokens, senders, meter, metrics, main, handled>>

(* tx.send once the slot is free.  Only an offer waits for the reply.      *)
send(c) ==
    /\ call[c] = "send"
    /\ ~Gone(PortOf[c])
    /\ queue[PortOf[c]] = <<>>
    /\ queue' = [queue EXCEPT ![PortOf[c]] = <<<<c, "request">>>>]
    /\ IF IsOffer(c)
       THEN call' = [call EXCEPT ![c] = "recv"] /\ UNCHANGED result
       ELSE Return(c, "ok")
    /\ UNCHANGED <<reply, worker, tokens, senders, meter, metrics, main, handled>>

(* response_rx.recv: the reply, or an error when the worker dropped the    *)
(* request with its reply channel.                                         *)
recv(c) ==
    /\ call[c] = "recv"
    /\ reply[c] # "empty"
    /\ IF reply[c] = "dropped" THEN Return(c, "status")
       ELSE IF Kind[c] = "offer_transcribe" /\ Transcription
            THEN call' = [call EXCEPT ![c] = "send2"] /\ UNCHANGED result
            ELSE Return(c, reply[c])
    /\ UNCHANGED <<reply, queue, worker, tokens, senders, meter, metrics, main, handled>>

(* Mistake: the failure of the second send fails the call. *)
send_enable_strict(c) ==
    /\ call[c] = "send2"
    /\ \/ Gone(PortOf[c]) /\ Return(c, "status") /\ UNCHANGED queue
       \/ /\ ~Gone(PortOf[c])
          /\ queue[PortOf[c]] = <<>>
          /\ queue' = [queue EXCEPT ![PortOf[c]] = <<<<c, "enable">>>>]
          /\ Return(c, reply[c])
    /\ UNCHANGED <<reply, worker, tokens, senders, meter, metrics, main, handled>>

(* An offer with transcription sends EnableTranscription after the reply   *)
(* and ignores a failure.                                                  *)
send_enable(c) ==
    /\ call[c] = "send2"
    /\ \/ Gone(PortOf[c]) /\ UNCHANGED queue
       \/ /\ ~Gone(PortOf[c])
          /\ queue[PortOf[c]] = <<>>
          /\ queue' = [queue EXCEPT ![PortOf[c]] = <<<<c, "enable">>>>]
    /\ Return(c, reply[c])
    /\ UNCHANGED <<reply, worker, tokens, senders, meter, metrics, main, handled>>

(* The client of a subscription hangs up; the server never ends a stream.  *)
hang_up(c) ==
    /\ call[c] = "streaming"
    /\ Return(c, "ok")
    /\ UNCHANGED <<reply, queue, worker, tokens, senders, meter, metrics, main, handled>>

-----------------------------------------------------------------------------
(* The media workers. *)

(* Mistake: somebody keeps the queued request, with its reply channel.     *)
Exit_keeps_reply(p, how) ==
    /\ worker' = [worker EXCEPT ![p] = how]
    /\ queue' = [queue EXCEPT ![p] = <<>>]
    /\ UNCHANGED reply

(* The thread ends: its receiver goes, with it the request in the slot and *)
(* the reply channel in the request; later sends fail.                     *)
Exit(p, how) ==
    /\ worker' = [worker EXCEPT ![p] = how]
    /\ queue' = [queue EXCEPT ![p] = <<>>]
    /\ reply' = [c \in Calls |->
                   IF <<c, "request">> \in {queue[p][i] : i \in DOMAIN queue[p]}
                   THEN "dropped" ELSE reply[c]]

(* stop_rx.try_recv at the top of the loop yields a token or, once every   *)
(* sender is dropped, a disconnect: break and worker.done().               *)
stop(p) ==
    /\ worker[p] = "top"
    /\ \/ tokens > 0 /\ tokens' = tokens - 1
       \/ tokens = 0 /\ senders = {} /\ UNCHANGED tokens
    /\ Exit(p, "done")
    /\ UNCHANGED <<call, result, senders, meter, metrics, main, handled>>

(* No stop: write_socket_output and on. *)
go_on(p) ==
    /\ worker[p] = "top"
    /\ tokens = 0 /\ senders # {}
    /\ worker' = [worker EXCEPT ![p] = "serve"]
    /\ UNCHANGED <<call, result, reply, queue, tokens, senders, meter, metrics, main, handled>>

(* socket.send_to fails: the loop returns the error, the thread prints it  *)
(* and calls worker.done().                                                *)
send_to_fails(p) ==
    /\ "send_to" \in Failures
    /\ worker[p] = "top"
    /\ tokens = 0 /\ senders # {}
    /\ Exit(p, "failed")
    /\ UNCHANGED <<call, result, tokens, senders, meter, metrics, main, handled>>

(* Mistake: an offer that fails gets no reply while its channel is open.   *)
handle_offer_message_silent(c) ==
    /\ UNCHANGED reply \/ reply' = [reply EXCEPT ![c] = "answer"]
    /\ handled' = handled \cup {c}

(* An offer is answered, with an answer or an error, into its one-slot     *)
(* channel without blocking.                                               *)
handle_offer_message(c) ==
    /\ \E r \in {"answer", "err"} : reply' = [reply EXCEPT ![c] = r]
    /\ handled' = handled \cup {c}

(* A leave changes nothing; its reply channel is closed, which is logged.  *)
handle_leave_message(c) == UNCHANGED <<reply, handled>>

(* The dispatch on the message.  What enabling and disabling do in the     *)
(* worker is in module Transcription.                                      *)
handle_signaling_message(c, what) ==
    IF IsOffer(c) /\ what = "request" THEN handle_offer_message(c)
    ELSE handle_leave_message(c)

(* rx.try_recv, then the socket is read, or not, and the loop starts again *)
(* whether or not the message was handled without an error.                *)
serve(p) ==
    /\ worker[p] = "serve"
    /\ worker' = [worker EXCEPT ![p] = "top"]
    /\ \/ queue[p] = <<>> /\ UNCHANGED <<queue, reply, handled>>
       \/ /\ queue[p] # <<>>
          /\ queue' = [queue EXCEPT ![p] = Tail(@)]
          /\ handle_signaling_message(Head(queue[p])[1], Head(queue[p])[2])
    /\ UNCHANGED <<call, result, tokens, senders, meter, metrics, main>>

(* recv_from fails: the thread panics and worker.done() is never called.   *)
panic(p) ==
    /\ "panic" \in Failures
    /\ worker[p] = "serve"
    /\ Exit(p, "panicked")
    /\ UNCHANGED <<call, result, tokens, senders, meter, metrics, main, handled>>

(* The metrics thread: stop_rx.recv, shutdown, worker.done(). *)
meter_down ==
    /\ metrics = "up" /\ meter > 0
    /\ metrics' = "done"
    /\ meter' = meter - 1
    /\ UNCHANGED <<call, result, reply, queue, worker, tokens, senders, main, handled>>

-----------------------------------------------------------------------------
(* Shutdown. *)

(* The shutdown future after Ctrl-C; the stop channel is still empty.      *)
ctrl_c ==
    /\ main = "serving"
    /\ tokens' = 1
    /\ meter' = 1
    /\ main' = "draining"
    /\ UNCHANGED <<call, result, reply, queue, worker, senders, metrics, handled>>

(* serve_with_shutdown returns when no request is in flight; the future    *)
(* and its stop sender are dropped.                                        *)
drained ==
    /\ main = "draining"
    /\ \A c \in Calls : call[c] \in {"idle", "returned"}
    /\ senders' = senders \ {"shutdown"}
    /\ main' = "second_send"
    /\ UNCHANGED <<call, result, reply, queue, worker, tokens, meter, metrics, handled>>

(* The second stop_tx.send blocks while the first token is not taken: main *)
(* itself keeps a receiver, so the channel never disconnects.              *)
second_send ==
    /\ main = "second_send"
    /\ tokens = 0
    /\ tokens' = 1
    /\ main' = "broadcast"
    /\ UNCHANGED <<call, result, reply, queue, worker, senders, meter, metrics, handled>>

(* Mistake: drop(stop_tx) is missing. *)
broadcast_keeps_sender ==
    /\ main = "broadcast"
    /\ \/ metrics = "done" /\ UNCHANGED meter
       \/ metrics = "up" /\ meter = 0 /\ meter' = 1
    /\ main' = "waiting"
    /\ UNCHANGED <<call, result, reply, queue, worker, tokens, senders, metrics, handled>>

(* The second broadcast fails at once if the metrics thread has gone, else *)
(* waits for room; then drop(stop_tx).                                     *)
broadcast ==
    /\ main = "broadcast"
    /\ \/ metrics = "done" /\ UNCHANGED meter
       \/ metrics = "up" /\ meter = 0 /\ meter' = 1
    /\ senders' = {}
    /\ main' = "waiting"
    /\ UNCHANGED <<call, result, reply, queue, worker, tokens, metrics, handled>>

(* wg.wait returns when every done() has been called. *)
wait ==
    /\ main = "waiting"
    /\ metrics = "done"
    /\ \A p \in Ports : worker[p] \in {"done", "failed"}
    /\ main' = "exited"
    /\ UNCHANGED <<call, result, reply, queue, worker, tokens, senders, meter, metrics, handled>>

-----------------------------------------------------------------------------
Handler(c) == start_call(c) \/ send_fails(c) \/ send(c) \/ recv(c) \/ send_enable(c)
Loop(p) == stop(p) \/ go_on(p) \/ serve(p)
Main == drained \/ second_send \/ broadcast \/ wait

Next ==
    \/ \E c \in Calls : Handler(c) \/ hang_up(c)
    \/ \E p \in Ports : Loop(p) \/ send_to_fails(p) \/ panic(p)
    \/ meter_down \/ ctrl_c \/ Main

Spec == Init /\ [][Next]_vars

(* Threads are scheduled: the loops, the handlers that have started, the   *)
(* main task and the metrics thread.  No call need be made, no failure     *)
(* happen, nobody need press Ctrl-C or hang up.                            *)
FairSpec ==
    /\ Spec
    /\ \A c \in Calls : WF_vars(send_fails(c) \/ send(c) \/ recv(c) \/ send_enable(c))
    /\ \A p \in Ports : WF_vars(Loop(p))
    /\ WF_vars(meter_down) /\ WF_vars(Main)

(* And subscribers hang up in the end. *)
PoliteSpec == FairSpec /\ \A c \in Calls : WF_vars(hang_up(c))

-----------------------------------------------------------------------------
(* A handler that waits for a reply waits for a worker that is there and   *)
(* has its request: no handler waits for nobody.                           *)
WaitingCallIsQueued ==
    \A c \in Calls : call[c] = "recv" /\ reply[c] = "empty" =>
        /\ ~Gone(PortOf[c])
        /\ queue[PortOf[c]] = <<<<c, "request">>>>

(* An offer that a worker processed (and that may have changed the         *)
(* registry) is answered with the worker's reply, never with an internal   *)
(* error, even if the worker stops right after it.                         *)
HandledOfferIsAnswered ==
    \A c \in Calls : IsOffer(c) /\ call[c] = "returned" =>
        (c \in handled <=> result[c] \in {"answer", "err"})

(* Every RPC that blocks on a worker returns, whatever the workers do.     *)
EveryCallReturns ==
    \A c \in Calls :
        call[c] \in {"send", "recv", "send2"} ~> call[c] = "returned"

(* After Ctrl-C, once the subscribers have gone, the process ends: the     *)
(* calls drain, one worker takes the first token and the disconnect stops  *)
(* the others, in whatever order workers fail meanwhile.  It does not only *)
(* if a worker panicked, or if none was left to take the first token.      *)
ShutdownNeedsAWorker ==
    main = "draining" ~> \/ main = "exited"
                         \/ \E p \in Ports : worker[p] = "panicked"
                         \/ \A p \in Ports : worker[p] = "failed"

(* Ctrl-C stops gRPC, the media threads and metrics, and the process ends. *)
ShutdownCompletes == main = "draining" ~> main = "exited"
=============================================================================
