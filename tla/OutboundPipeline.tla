-------------------------- MODULE OutboundPipeline --------------------------
(***************************************************************************)
(* How messages leave a media worker: the poll_write chain of the          *)
(* pipeline that build_pipeline of src/signal/mod.rs makes from the        *)
(* handlers of vendor/sfu/src/handler, and the run loop that drives it.    *)
(*                                                                         *)
(* Five handlers queue messages: what they are asked to send, and in       *)
(* front of that what they make themselves.  The loop pulls one message    *)
(* after the other through all of them until the pipeline returns None;    *)
(* then it reads one datagram, runs the timers and pulls again.  A handler *)
(* that fails to encrypt a message also returns None, or the front of its  *)
(* own queue, and None ends the pulling whatever is queued behind.         *)
(*                                                                         *)
(* The peers are the transports of one session, one for each endpoint.     *)
(* What the registry does is in ServerStates; here a transport goes        *)
(* through its phases, and is removed by an alert or by the sweep.         *)
(***************************************************************************)
EXTENDS Naturals, Sequences, FiniteSets, SequencesExt

CONSTANTS
    Peers,   \* four tuples
    MaxMsgs  \* bound on the messages queued since all queues were empty

ASSUME PipelineAssumption == MaxMsgs \in Nat /\ IsFiniteSet(Peers)

VARIABLES
    transmits,  \* handler -> its queue
    phase,      \* peer -> state of its transport
    queued,     \* history: how many messages were queued since all queues were empty
    pc,         \* where the run loop is: whose poll_write is next, or what
    out,        \* the message that the last poll_write returned, if any
    failed      \* did this or the last poll_transmit drop or hold back a message?

vars == <<transmits, phase, queued, pc, out, failed>>

(* The handlers with a queue, from the socket inwards, by their place. *)
Place == [dtls |-> 1, sctp |-> 2, datachannel |-> 3, interceptor |-> 4, gateway |-> 5]
Handlers == DOMAIN Place

(* The variants of MessageEvent, of which the socket takes the raw ones.   *)
Forms == {"Stun", "StunRaw", "DataChannel", "Sctp", "DtlsRaw", "Rtp", "RtpRaw"}

(* A message, with its number and the handler that made it. *)
Message == [id : 1 .. MaxMsgs, from : Handlers, to : Peers, form : Forms]

(* No transport; one without keys; one with DTLS and SRTP keys; one with   *)
(* an SCTP association as well.                                            *)
Phases == {"none", "new", "keyed", "associated"}
Keyed(p) == phase[p] \in {"keyed", "associated"}

(* What can be in each queue: conversions are done on the way into it.     *)
FormsIn == [gateway     |-> {"Stun", "DataChannel", "Rtp"},
            interceptor |-> {"Stun", "DataChannel", "Rtp"},
            datachannel |-> {"Stun", "Sctp", "RtpRaw"},
            sctp        |-> {"Stun", "DtlsRaw", "RtpRaw"},
            dtls        |-> {"Stun", "DtlsRaw", "RtpRaw"}]

TypeOK ==
    /\ DOMAIN transmits = Handlers
    /\ \A h \in Handlers :
          /\ transmits[h] \in Seq(Message)
          /\ \A i \in DOMAIN transmits[h] : transmits[h][i].form \in FormsIn[h]
    /\ phase \in [Peers -> Phases]
    /\ queued \in 0 .. MaxMsgs
    /\ pc \in Handlers \cup {"srtp", "stun", "demuxer", "read", "timeout"}
    /\ out \in Seq(Message) /\ Len(out) <= 1
    /\ failed \in BOOLEAN

Init ==
    /\ transmits = [h \in Handlers |-> <<>>]
    /\ phase = [p \in Peers |-> "none"]
    /\ queued = 0
    /\ pc = "gateway"
    /\ out = <<>>
    /\ failed = FALSE

-----------------------------------------------------------------------------
(* poll_transmit, one step for each handler, from the gateway outwards:    *)
(* in is what the handler adds to its queue of the message it was passed.  *)

PopFront(h, in, next) ==
    LET all == transmits[h] \o in
    IN /\ IF all = <<>> THEN out' = <<>> /\ UNCHANGED transmits
          ELSE out' = <<Head(all)>> /\ transmits' = [transmits EXCEPT ![h] = Tail(all)]
       /\ pc' = next
       /\ UNCHANGED <<phase, queued>>

(* A handler without a queue returns a message or None. *)
Return(result, next) ==
    /\ out' = result
    /\ pc' = next
    /\ UNCHANGED <<transmits, phase, queued>>

Has(form) == out # <<>> /\ out[1].form = form
As(form) == [out EXCEPT ![1].form = form]
To == out[1].to

(* The ExceptionHandler, last of the pipeline, never has a message. *)
Gateway_poll_write ==
    /\ pc = "gateway"
    /\ PopFront("gateway", <<>>, "interceptor")
    /\ failed' = FALSE

Interceptor_poll_write ==
    /\ pc = "interceptor"
    /\ PopFront("interceptor", out, "srtp")
    /\ UNCHANGED failed

(* Without a transport or its keys there is an error and None. *)
Srtp_poll_write ==
    /\ pc = "srtp"
    /\ \/ ~Has("Rtp") /\ Return(out, "datachannel") /\ UNCHANGED failed
       \/ Has("Rtp") /\ Keyed(To) /\ Return(As("RtpRaw"), "datachannel") /\ UNCHANGED failed
       \/ Has("Rtp") /\ ~Keyed(To) /\ Return(<<>>, "datachannel") /\ failed' = TRUE

(* Mistakes: an application message keeps its form; a message from further *)
(* in is returned at once, ahead of the queue.                             *)
DataChannel_poll_write_bypass ==
    /\ pc = "datachannel"
    /\ PopFront("datachannel", out, "sctp")
    /\ UNCHANGED failed

DataChannel_poll_write_direct ==
    /\ pc = "datachannel"
    /\ \/ out = <<>> /\ PopFront("datachannel", <<>>, "sctp")
       \/ out # <<>> /\ Return(IF Has("DataChannel") THEN As("Sctp") ELSE out, "sctp")
    /\ UNCHANGED failed

DataChannel_poll_write ==
    /\ pc = "datachannel"
    /\ PopFront("datachannel", IF Has("DataChannel") THEN As("Sctp") ELSE out, "sctp")
    /\ UNCHANGED failed

(* Mistake: the own queue is not polled when nothing comes from further in.*)
Sctp_poll_write_eager ==
    /\ pc = "sctp"
    /\ \/ out = <<>> /\ Return(<<>>, "dtls") /\ UNCHANGED failed
       \/ out # <<>> /\ ~Has("Sctp") /\ PopFront("sctp", out, "dtls") /\ UNCHANGED failed
       \/ /\ Has("Sctp") /\ phase[To] = "associated"
          /\ PopFront("sctp", As("DtlsRaw"), "dtls") /\ UNCHANGED failed
       \/ Has("Sctp") /\ PopFront("sctp", <<>>, "dtls") /\ failed' = TRUE

(* A message is written to its stream and the packet of the association    *)
(* is queued.  Without an association, or if it cannot be written, the     *)
(* message is dropped; a full window holds its packet back, which the      *)
(* association sends on a later read or timer.  The queue goes on.         *)
Sctp_poll_write ==
    /\ pc = "sctp"
    /\ \/ ~Has("Sctp") /\ PopFront("sctp", out, "dtls") /\ UNCHANGED failed
       \/ /\ Has("Sctp") /\ phase[To] = "associated"
          /\ PopFront("sctp", As("DtlsRaw"), "dtls") /\ UNCHANGED failed
       \/ Has("Sctp") /\ PopFront("sctp", <<>>, "dtls") /\ failed' = TRUE

(* Mistake: as before. *)
Dtls_poll_write_eager ==
    /\ pc = "dtls"
    /\ \/ out = <<>> /\ Return(<<>>, "stun") /\ UNCHANGED failed
       \/ /\ out # <<>> /\ (Has("DtlsRaw") => Keyed(To))
          /\ PopFront("dtls", out, "stun") /\ UNCHANGED failed
       \/ /\ Has("DtlsRaw") /\ ~Keyed(To)
          /\ PopFront("dtls", <<>>, "stun") /\ failed' = TRUE

(* The same with the DTLS connection, which makes records of packets.      *)
Dtls_poll_write ==
    /\ pc = "dtls"
    /\ \/ (Has("DtlsRaw") => Keyed(To)) /\ PopFront("dtls", out, "stun") /\ UNCHANGED failed
       \/ Has("DtlsRaw") /\ ~Keyed(To) /\ PopFront("dtls", <<>>, "stun") /\ failed' = TRUE

Stun_poll_write ==
    /\ pc = "stun"
    /\ Return(IF Has("Stun") THEN As("StunRaw") ELSE out, "demuxer")
    /\ UNCHANGED failed

(* What is not raw is dropped, silently.  A message goes to the socket and *)
(* the next is polled for; None ends write_socket_output.  The numbers     *)
(* start afresh when every queue is empty.                                 *)
Demuxer_poll_write ==
    /\ pc = "demuxer"
    /\ pc' = IF Has("StunRaw") \/ Has("DtlsRaw") \/ Has("RtpRaw") THEN "gateway" ELSE "read"
    /\ out' = <<>>
    /\ queued' = IF \A h \in Handlers : transmits[h] = <<>> THEN 0 ELSE queued
    /\ UNCHANGED <<transmits, phase, failed>>

-----------------------------------------------------------------------------
(* The rest of the run loop. *)

(* What nobody adds to, and what one handler adds to, its queue: a         *)
(* sequence of forms and receivers.                                        *)
Nothing == [h \in Handlers |-> <<>>]
Only(h, form, receivers) ==
    [Nothing EXCEPT ![h] = [i \in DOMAIN receivers |-> <<form, receivers[i]>>]]

(* Messages are queued, and numbered in the order in which the handlers    *)
(* queue in one step: data channel, gateway, DTLS, SCTP, interceptor.      *)
Queue(new) ==
    LET gateway == Len(new.datachannel)
        dtls == gateway + Len(new.gateway)
        sctp == dtls + Len(new.dtls)
        interceptor == sctp + Len(new.sctp)
        total == interceptor + Len(new.interceptor)
        before == [datachannel |-> 0, gateway |-> gateway, dtls |-> dtls, sctp |-> sctp,
                   interceptor |-> interceptor]
    IN /\ queued + total <= MaxMsgs
       /\ queued' = queued + total
       /\ transmits' = [h \in Handlers |-> transmits[h] \o
              [k \in DOMAIN new[h] |-> [id   |-> queued + before[h] + k,
                                       from |-> h,
                                       form |-> new[h][k][1],
                                       to   |-> new[h][k][2]]]]

(* A binding request is answered, with or without a candidate; with one it *)
(* may make a transport.                                                   *)
read_stun(p) ==
    /\ Queue(Only("gateway", "Stun", <<p>>))
    /\ \/ phase[p] = "none" /\ phase' = [phase EXCEPT ![p] = "new"]
       \/ UNCHANGED phase

(* A handshake record: the DTLS endpoint answers, and may be done. *)
read_handshake(p) ==
    /\ phase[p] # "none"
    /\ Queue(Only("dtls", "DtlsRaw", <<p>>))
    /\ \/ phase[p] = "new" /\ phase' = [phase EXCEPT ![p] = "keyed"]
       \/ UNCHANGED phase

(* An alert: the transport is removed. *)
read_alert(p) ==
    /\ phase[p] # "none"
    /\ phase' = [phase EXCEPT ![p] = "none"]
    /\ UNCHANGED <<transmits, queued>>

(* An SCTP packet without data for the application, after which there is   *)
(* an association or, when it is drained, none; the association answers.   *)
read_sctp(p) ==
    /\ Keyed(p)
    /\ \E after \in {"keyed", "associated"} : phase' = [phase EXCEPT ![p] = after]
    /\ Queue(Only("sctp", "DtlsRaw", <<p>>))

(* A data channel is opened: first the acknowledgement is queued, then the *)
(* gateway is told and may queue an offer, then the association's packet   *)
(* is queued.                                                              *)
read_open(p) ==
    /\ phase[p] = "associated"
    /\ \E offer \in {<<>>, <<<<"DataChannel", p>>>>} :
          Queue([Nothing EXCEPT !.datachannel = <<<<"Sctp", p>>>>,
                                !.gateway = offer,
                                !.sctp = <<<<"DtlsRaw", p>>>>])
    /\ UNCHANGED phase

(* A message over the data channel: for an offer, unless it fails, an      *)
(* answer and then offers to others.                                       *)
read_message(p) ==
    /\ phase[p] = "associated"
    /\ \/ Queue(Only("sctp", "DtlsRaw", <<p>>))
       \/ \E others \in SUBSET {o \in Peers \ {p} : phase[o] = "associated"} :
          \E order \in SetToSeqs(others) :
             Queue([Only("gateway", "DataChannel", <<p>> \o order) EXCEPT
                       !.sctp = <<<<"DtlsRaw", p>>>>])
    /\ UNCHANGED phase

(* A media packet goes to all other peers with keys, in the order of a     *)
(* hash map, as above.                                                     *)
read_rtp(p) ==
    /\ Keyed(p)
    /\ \E order \in SetToSeqs({o \in Peers \ {p} : Keyed(o)}) :
          Queue(Only("gateway", "Rtp", order))
    /\ UNCHANGED phase

(* read_socket_input and pipeline.read, or nothing until the read times    *)
(* out (or no time to read at all).                                        *)
read_socket_input ==
    /\ pc = "read"
    /\ pc' = "timeout"
    /\ UNCHANGED <<out, failed>>
    /\ \/ UNCHANGED <<transmits, phase, queued>>
       \/ \E p \in Peers :
             \/ read_stun(p) \/ read_handshake(p) \/ read_alert(p)
             \/ read_sctp(p) \/ read_open(p) \/ read_message(p) \/ read_rtp(p)

(* What the timers of some peers send, in the order of a hash map. *)
Expired(due) ==
    {[i \in DOMAIN order |-> <<"DtlsRaw", order[i]>>] :
        order \in UNION {SetToSeqs(some) : some \in SUBSET due}}

(* Retransmissions of handshakes; retransmissions and packets held back    *)
(* by associations.                                                        *)
Dtls_handle_timeout == Expired({p \in Peers : phase[p] = "new"})
Sctp_handle_timeout == Expired({p \in Peers : phase[p] = "associated"})

(* The interceptors would report about their streams, but nothing ever     *)
(* adds one to ReceiverReport.streams.                                     *)
Interceptor_handle_timeout == {<<>>}

(* pipeline.handle_timeout: DTLS, then SCTP, where an association may end, *)
(* then the interceptors, then the sweep of the gateway.                   *)
handle_timeout ==
    /\ pc = "timeout"
    /\ pc' = "gateway"
    /\ UNCHANGED <<out, failed>>
    /\ \E records \in Dtls_handle_timeout, packets \in Sctp_handle_timeout,
          reports \in Interceptor_handle_timeout :
             Queue([Nothing EXCEPT !.dtls = records, !.sctp = packets, !.interceptor = reports])
    /\ \E idle, drained \in SUBSET Peers :
          phase' = [p \in Peers |-> IF p \in idle THEN "none"
                                    ELSE IF p \in drained /\ phase[p] = "associated" THEN "keyed"
                                    ELSE phase[p]]

write_socket_output ==
    \/ Gateway_poll_write \/ Interceptor_poll_write \/ Srtp_poll_write
    \/ DataChannel_poll_write \/ Sctp_poll_write \/ Dtls_poll_write
    \/ Stun_poll_write \/ Demuxer_poll_write

Next == write_socket_output \/ read_socket_input \/ handle_timeout

Spec == Init /\ [][Next]_vars

(* The loop goes on: a read ends after 100 ms at the latest. *)
FairSpec == Spec /\ WF_vars(Next)

-----------------------------------------------------------------------------
(* The messages that wait in a queue. *)
Waiting == UNION {{transmits[h][i] : i \in DOMAIN transmits[h]} : h \in Handlers}

(* A message that reaches the socket overtakes none that was queued before *)
(* it in the same handler or further out: the acknowledgement of a data    *)
(* channel leaves before the offer ("first outbound message", "then        *)
(* inbound message"), answers, offers and media leave in the order in      *)
(* which the gateway made them, also if others had to wait behind a        *)
(* failed one.                                                             *)
NoOvertaking ==
    pc = "demuxer" /\ out # <<>> =>
        \A m \in Waiting : m.id < out[1].id => Place[m.from] > Place[out[1].from]

(* When the worker turns to its socket, nothing is left in any queue,      *)
(* unless the last message pulled was dropped with an error or held back.  *)
DrainedUnlessFailed == pc = "read" /\ ~failed => Waiting = {}

(* A message that was left behind by an error, or that was queued while    *)
(* others failed, leaves its queue in the end.                             *)
NothingIsForgotten ==
    \A i \in 1 .. MaxMsgs :
        (\E m \in Waiting : m.id = i) ~> ~(\E m \in Waiting : m.id = i)
=============================================================================
