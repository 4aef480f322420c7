---------------------------- MODULE Negotiation -----------------------------
(***************************************************************************)
(* Renegotiation inside one session: how the tracks that an endpoint       *)
(* offers reach the other endpoints as transceivers and offers, from       *)
(* vendor/sfu/src/session/mod.rs, the data channel handlers of             *)
(* handler/gateway.rs and the direction rules of description/mod.rs.       *)
(*                                                                         *)
(* A handler is one step of the media thread.  Clients join, open a data   *)
(* channel, offer and leave in any order.  An SDP is reduced to its media  *)
(* sections; the format and the order of the sections are left out, so     *)
(* the vector of mids is a bag.  Every endpoint has one transport here.    *)
(***************************************************************************)
EXTENDS Naturals, Sequences, FiniteSets

CONSTANTS
    EndpointIds,  \* endpoint ids of the session
    OwnMids,      \* mids a client gives its own media sections
    Offered,      \* EndpointIds -> directions that its clients offer
    Senderless,   \* endpoints whose sections may lack cname or msid (simulcast)
    MaxJoins      \* EndpointIds -> how often the endpoint id is used

Directions == {"sendrecv", "sendonly", "recvonly", "inactive"}

ASSUME NegotiationAssumption ==
    /\ Offered \in [EndpointIds -> SUBSET Directions]
    /\ Senderless \subseteq EndpointIds
    /\ MaxJoins \in [EndpointIds -> Nat]

VARIABLES
    live,                  \* endpoints in the session
    ready,                 \* those whose data channel is open
    joins,                 \* connections each endpoint id has had
    transceivers,          \* endpoint -> mid -> Transceiver
    mids,                  \* endpoint -> mid -> 1 or 2 (two or more times)
    renegotiation_needed,  \* endpoints with the flag set
    told,                  \* endpoint -> mids in the last offer sent to it
    answer,                \* endpoint -> fate of its last offer
    sendonly,              \* history: endpoint -> own mids offered as sendonly
    flaws                  \* history: whether "senderless" sections came, and
                           \* whether offers to peers were "dropped"

vars == <<live, ready, joins, transceivers, mids, renegotiation_needed, told,
          answer, sendonly, flaws>>

(* The name of a section: a client's own mid, or with the name of an       *)
(* endpoint in front (format!("{}-{}")) the mirror of that endpoint's.     *)
Names == Seq(EndpointIds \cup OwnMids) \ {<<>>}
Own == {<<m>> : m \in OwnMids}
Mirror(e, mid) == <<e>> \o mid

(* The sender (cname, msid, SSRCs) of a client's connection is told by the *)
(* number of the connection; 0 is None.                                    *)
Transceiver == [direction : Directions, sender : Nat]

Empty == [mid \in {} |-> 0]

TypeOK ==
    /\ live \subseteq EndpointIds /\ ready \subseteq live
    /\ joins \in [EndpointIds -> Nat] /\ \A e \in EndpointIds : joins[e] <= MaxJoins[e]
    /\ DOMAIN transceivers = EndpointIds /\ DOMAIN mids = EndpointIds
    /\ DOMAIN told = EndpointIds /\ DOMAIN sendonly = EndpointIds
    /\ \A e \in EndpointIds :
          /\ DOMAIN transceivers[e] \subseteq Names
          /\ \A mid \in DOMAIN transceivers[e] : transceivers[e][mid] \in Transceiver
          /\ mids[e] \in [DOMAIN transceivers[e] -> 1 .. 2]
          /\ told[e] \subseteq DOMAIN transceivers[e]
    /\ renegotiation_needed \subseteq live
    /\ answer \in [EndpointIds -> {"none", "sent", "refused", "lost"}]
    /\ \A e \in EndpointIds : sendonly[e] \subseteq DOMAIN transceivers[e] \cap Own
    /\ flaws \subseteq {"senderless", "dropped"}

-----------------------------------------------------------------------------
(* RTCRtpTransceiverDirection *)

has_send(d) == d \in {"sendrecv", "sendonly"}
has_recv(d) == d \in {"sendrecv", "recvonly"}

from_send_recv(send, recv) ==
    CASE send /\ recv   -> "sendrecv"
      [] send /\ ~recv  -> "sendonly"
      [] ~send /\ recv  -> "recvonly"
      [] ~send /\ ~recv -> "inactive"

reverse(d) ==
    CASE d = "sendonly" -> "recvonly"
      [] d = "recvonly" -> "sendonly"
      [] OTHER          -> d

intersect(d, e) ==
    from_send_recv(has_send(d) /\ has_send(e), has_recv(d) /\ has_recv(e))

(* add_transceiver_sdp: the direction in the answer to an offered one.     *)
AnswerDirection(offered, d) ==
    CASE offered \in {"sendonly", "recvonly"} -> intersect(reverse(offered), d)
      [] offered = "sendrecv"                 -> d
      [] offered = "inactive"                 -> "inactive"

(* add_transceiver_sdp: a section written as sendonly needs a sender.      *)
Unwritable(direction, t) == direction = "sendonly" /\ t.sender = 0

(* create_offer writes every transceiver with its own direction. *)
CannotOffer(ts) == \E mid \in DOMAIN ts : Unwritable(ts[mid].direction, ts[mid])

-----------------------------------------------------------------------------
(* An offer: the client's own sections, chosen freely, and with them the   *)
(* sections that the server's offers gave it, which it receives.           *)
Section(e) == [direction : Offered[e], sender : IF e \in Senderless THEN BOOLEAN ELSE {TRUE}]

Offers(e) ==
    UNION {{[mid \in S \cup (told[e] \ Own) |->
               IF mid \in S THEN own[mid] ELSE [direction |-> "recvonly", sender |-> FALSE]]
             : own \in [S -> Section(e)]} : S \in SUBSET Own}

(* Mistake: the sender is not kept with the transceiver. *)
SenderOf_none(e, section) == 0

SenderOf(e, section) == IF section.sender THEN joins[e] ELSE 0

(* The sections that set_remote_description acts on: a mid the endpoint    *)
(* has already is passed over, whatever its direction is now.              *)
NewMids(e, offer) == DOMAIN offer \ DOMAIN transceivers[e]

(* Mistake: a mirror is updated, never added. *)
Mirrored_existing(e, offer, o) ==
    {mid \in NewMids(e, offer) : Mirror(e, mid) \in DOMAIN transceivers[o]}

(* The new sections that have a mirror at o or are given one. *)
Mirrored(e, offer, o) ==
    {mid \in NewMids(e, offer) : \/ Mirror(e, mid) \in DOMAIN transceivers[o]
                                 \/ offer[mid].direction = "sendonly"}

(* Mistake: the flag is set for a changed mirror only, not for a new one.  *)
Changed_existing(e, offer, o) ==
    {mid \in Mirrored(e, offer, o) :
        /\ Mirror(e, mid) \in DOMAIN transceivers[o]
        /\ transceivers[o][Mirror(e, mid)].direction # offer[mid].direction}

(* Of these, the ones that change o and set its flag. *)
Changed(e, offer, o) ==
    {mid \in Mirrored(e, offer, o) :
        Mirror(e, mid) \in DOMAIN transceivers[o] =>
            transceivers[o][Mirror(e, mid)].direction # offer[mid].direction}

(* The transceivers after set_remote_description of an offer from e: its   *)
(* own new ones, and their mirrors at the other endpoints.  A mirror that  *)
(* exists takes the offered direction and keeps its sender.                *)
OwnTransceivers(e, offer) ==
    [mid \in DOMAIN transceivers[e] \cup NewMids(e, offer) |->
        IF mid \in DOMAIN transceivers[e] THEN transceivers[e][mid]
        ELSE [direction |-> IF offer[mid].direction = "recvonly" THEN "sendonly" ELSE "recvonly",
              sender    |-> SenderOf(e, offer[mid])]]

MirrorTransceivers(e, offer, o) ==
    LET touched == {Mirror(e, mid) : mid \in Mirrored(e, offer, o)} IN
    [mid \in DOMAIN transceivers[o] \cup touched |->
        IF mid \notin touched THEN transceivers[o][mid]
        ELSE [direction |-> offer[Tail(mid)].direction,
              sender    |-> IF mid \in DOMAIN transceivers[o] THEN transceivers[o][mid].sender
                            ELSE SenderOf(e, offer[Tail(mid)])]]

Applied(e, offer) ==
    [o \in EndpointIds |-> IF o = e THEN OwnTransceivers(e, offer)
                           ELSE IF o \in live THEN MirrorTransceivers(e, offer, o)
                           ELSE transceivers[o]]

(* Mistake: the mid of a mirror is not pushed. *)
Listed_own(ts) ==
    [o \in EndpointIds |-> [mid \in DOMAIN mids[o] \cup (DOMAIN ts[o] \cap Own) |->
        IF mid \in DOMAIN mids[o] THEN mids[o][mid] ELSE 1]]

(* mids.push for every transceiver that was not there. *)
Listed(ts) ==
    [o \in EndpointIds |-> [mid \in DOMAIN ts[o] |->
        IF mid \in DOMAIN mids[o] THEN mids[o][mid] ELSE 1]]

set_remote_description(e, offer) ==
    /\ transceivers' = Applied(e, offer)
    /\ mids' = Listed(Applied(e, offer))
    /\ sendonly' = [sendonly EXCEPT ![e] =
          @ \cup {mid \in NewMids(e, offer) \cap Own : offer[mid].direction = "sendonly"}]

(* The flaws that an offer adds: its own, and whether peers lose theirs.   *)
Flaws(offer, dropped) ==
    flaws \cup {"senderless" : mid \in {m \in DOMAIN offer \cap Own : ~offer[m].sender}}
          \cup (IF dropped THEN {"dropped"} ELSE {})

(* The endpoints whose flag is set after it. *)
Flagged(e, offer) ==
    renegotiation_needed \cup {o \in live \ {e} : Changed(e, offer, o) # {}}

-----------------------------------------------------------------------------
Init ==
    /\ live = {} /\ ready = {}
    /\ joins = [e \in EndpointIds |-> 0]
    /\ transceivers = [e \in EndpointIds |-> Empty]
    /\ mids = [e \in EndpointIds |-> Empty]
    /\ renegotiation_needed = {}
    /\ told = [e \in EndpointIds |-> {}]
    /\ answer = [e \in EndpointIds |-> "none"]
    /\ sendonly = [e \in EndpointIds |-> {}]
    /\ flaws = {}

(* Session::add_endpoint makes a new endpoint.  Its remote description is  *)
(* the first offer, which has no media (accept_offer would have failed),   *)
(* and is never replaced: all later offers list all the mids.              *)
add_endpoint(e) ==
    /\ e \notin live
    /\ joins[e] < MaxJoins[e]
    /\ live' = live \cup {e}
    /\ joins' = [joins EXCEPT ![e] = @ + 1]
    /\ UNCHANGED <<ready, transceivers, mids, renegotiation_needed, told, answer, sendonly, flaws>>

(* Session::remove_endpoint, when the transport is closed or idle.  The    *)
(* mirrors at the other endpoints stay.                                    *)
remove_endpoint(e) ==
    /\ e \in live
    /\ live' = live \ {e}
    /\ ready' = ready \ {e}
    /\ transceivers' = [transceivers EXCEPT ![e] = Empty]
    /\ mids' = [mids EXCEPT ![e] = Empty]
    /\ renegotiation_needed' = renegotiation_needed \ {e}
    /\ told' = [told EXCEPT ![e] = {}]
    /\ answer' = [answer EXCEPT ![e] = "none"]
    /\ sendonly' = [sendonly EXCEPT ![e] = {}]
    /\ UNCHANGED <<joins, flaws>>

(* handle_datachannel_open: everything the others publish is mirrored      *)
(* (again, if it was already), and offered if there is any.  The flag is   *)
(* overwritten, and cleared again before the offer is created.             *)
handle_datachannel_open(e) ==
    /\ e \in live
    /\ ready' = ready \cup {e}
    /\ LET received(o) == {mid \in DOMAIN transceivers[o] : transceivers[o][mid].direction = "recvonly"}
           new == UNION {{Mirror(o, mid) : mid \in received(o)} : o \in live \ {e}}
           ts == [mid \in DOMAIN transceivers[e] \cup new |->
                    IF mid \in new
                    THEN [direction |-> "sendonly", sender |-> transceivers[Head(mid)][Tail(mid)].sender]
                    ELSE transceivers[e][mid]]
       IN /\ transceivers' = [transceivers EXCEPT ![e] = ts]
          /\ mids' = [mids EXCEPT ![e] = [mid \in DOMAIN ts |->
                        IF mid \notin DOMAIN transceivers[e] THEN 1
                        ELSE IF mid \in new THEN 2 ELSE mids[e][mid]]]
          /\ renegotiation_needed' = renegotiation_needed \ {e}
          /\ told' = IF new = {} \/ CannotOffer(ts) THEN told ELSE [told EXCEPT ![e] = DOMAIN ts]
          /\ flaws' = IF new # {} /\ CannotOffer(ts) THEN flaws \cup {"dropped"} ELSE flaws
    /\ UNCHANGED <<live, joins, answer, sendonly>>

(* handle_datachannel_message with an offer: accept_offer and its answer,  *)
(* then create_offer for the peers that need one, in the order of a hash   *)
(* map.  An error of one create_offer loses the answer and the offers that *)
(* were created before it, whose flags are cleared already.                *)
handle_datachannel_message(e, offer) ==
    /\ e \in ready
    /\ set_remote_description(e, offer)
    /\ LET ts == Applied(e, offer)
           directions == [mid \in DOMAIN offer |->
                            AnswerDirection(offer[mid].direction, ts[e][mid].direction)]
           refused == \E mid \in DOMAIN offer : Unwritable(directions[mid], ts[e][mid])
           peers == (Flagged(e, offer) \cap ready) \ {e}
           stuck == {p \in peers : CannotOffer(ts[p])}
       IN \/ /\ refused
             /\ answer' = [answer EXCEPT ![e] = "refused"]
             /\ renegotiation_needed' = Flagged(e, offer)
             /\ UNCHANGED told
             /\ flaws' = Flaws(offer, FALSE)
          \/ /\ ~refused /\ stuck = {}
             /\ answer' = [answer EXCEPT ![e] = "sent"]
             /\ renegotiation_needed' = Flagged(e, offer) \ peers
             /\ told' = [p \in EndpointIds |-> IF p \in peers THEN DOMAIN ts[p] ELSE told[p]]
             /\ flaws' = Flaws(offer, FALSE)
          \/ /\ ~refused /\ stuck # {}
             /\ answer' = [answer EXCEPT ![e] = "lost"]
             /\ \E done \in SUBSET (peers \ stuck), first \in stuck :
                   renegotiation_needed' = Flagged(e, offer) \ (done \cup {first})
             /\ UNCHANGED told
             /\ flaws' = Flaws(offer, TRUE)
    /\ UNCHANGED <<live, ready, joins>>

(* accept_offer for a connected endpoint over gRPC: the description is     *)
(* applied before the missing four tuple is noticed.                       *)
accept_offer_without_four_tuple(e, offer) ==
    /\ e \in live
    /\ set_remote_description(e, offer)
    /\ renegotiation_needed' = Flagged(e, offer)
    /\ flaws' = Flaws(offer, FALSE)
    /\ UNCHANGED <<live, ready, joins, told, answer>>

Next ==
    \E e \in EndpointIds :
        \/ add_endpoint(e)
        \/ remove_endpoint(e)
        \/ handle_datachannel_open(e)
        \/ \E offer \in Offers(e) :
              handle_datachannel_message(e, offer) \/ accept_offer_without_four_tuple(e, offer)

Spec == Init /\ [][Next]_vars

-----------------------------------------------------------------------------
(* The publishers whose tracks are new to everybody: the mirrors of an     *)
(* earlier connection of the same endpoint id stay with its peers.         *)
Fresh == {e \in live : joins[e] = 1}

(* A track that was offered as sendonly is, at every other endpoint whose  *)
(* data channel is open, a transceiver to send it, with the publisher's    *)
(* sender, for as long as the publisher stays: set_remote_description adds *)
(* it to those already there and handle_datachannel_open to those that     *)
(* come later or come back, whatever is refused or lost meanwhile.         *)
PublishedIsMirrored ==
    \A a \in Fresh, b \in ready : a # b => \A mid \in sendonly[a] :
        /\ Mirror(a, mid) \in DOMAIN transceivers[b]
        /\ transceivers[b][Mirror(a, mid)] =
              [direction |-> "sendonly", sender |-> transceivers[a][mid].sender]

(* No such track is forgotten: every peer with an open data channel was    *)
(* offered it, or has its flag set and is offered it with the next offer   *)
(* of somebody, unless an error of create_offer dropped offers before.     *)
PublishedIsTold ==
    "dropped" \in flaws \/
    \A a \in Fresh, b \in ready : a # b => \A mid \in sendonly[a] :
        Mirror(a, mid) \in told[b] \/ b \in renegotiation_needed

(* create_offer fails for a peer only if some client offered a section     *)
(* without a cname or a msid: joining, leaving, coming back and the        *)
(* directions of the others never make a peer's transceivers unwritable.   *)
OffersAreMade == "dropped" \in flaws => "senderless" \in flaws

(* accept_offer returns the answer and the gateway sends it, whatever      *)
(* becomes of the offers to the other endpoints.                           *)
AcceptedOfferIsAnswered == \A e \in live : answer[e] # "lost"

(* An offer lists every transceiver once: a mid is in the vector once.     *)
TransceiverListedOnce ==
    \A e \in live : \A mid \in DOMAIN mids[e] : mids[e][mid] = 1
=============================================================================
