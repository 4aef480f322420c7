------------------------- MODULE NegotiationProofs --------------------------
(***************************************************************************)
(* Proofs about Negotiation for every set of endpoints and mids, whatever  *)
(* the clients offer and however often they come back.                     *)
(***************************************************************************)
EXTENDS Negotiation, SequenceTheorems, TLAPS

(* The inductive invariant: what mirrors, notices and offers rest on.  An  *)
(* endpoint that is not there has nothing left of an earlier connection,   *)
(* and one that is there has a sender.                                     *)
AbsentHaveNothing ==
    \A e \in EndpointIds :
        IF e \in live THEN joins[e] > 0
        ELSE DOMAIN transceivers[e] = {} /\ sendonly[e] = {}

(* A track that was offered as sendonly is received for as long as the     *)
(* endpoint stays.                                                         *)
PublishedIsReceived ==
    \A e \in EndpointIds : \A mid \in sendonly[e] :
        transceivers[e][mid].direction = "recvonly"

(* A mirror is not older than the first connection of its publisher, and   *)
(* during that connection it is the mirror of something.                   *)
MirrorsHaveSource ==
    \A a, b \in EndpointIds : \A mid \in DOMAIN transceivers[b] :
        Len(mid) > 1 /\ Head(mid) = a =>
            /\ joins[a] > 0
            /\ a \in Fresh => Tail(mid) \in DOMAIN transceivers[a]

(* Without senderless sections every transceiver has a sender. *)
SendersAreKnown ==
    "senderless" \in flaws \/
    \A e \in EndpointIds : \A mid \in DOMAIN transceivers[e] :
        transceivers[e][mid].sender # 0

(* With the properties themselves. *)
IInv ==
    /\ TypeOK
    /\ AbsentHaveNothing
    /\ PublishedIsReceived
    /\ MirrorsHaveSource
    /\ SendersAreKnown
    /\ PublishedIsMirrored
    /\ PublishedIsTold
    /\ OffersAreMade

(* A mirror's name is taken apart again into its publisher and the name it *)
(* has there, and is not a client's own mid.                               *)
LEMMA MirrorName ==
    ASSUME NEW e \in EndpointIds, NEW mid \in Names
    PROVE  /\ Mirror(e, mid) \in Names
           /\ Len(Mirror(e, mid)) > 1
           /\ Head(Mirror(e, mid)) = e
           /\ Tail(Mirror(e, mid)) = mid
           /\ Mirror(e, mid) \notin Own
<1> DEFINE S == EndpointIds \cup OwnMids
           m == <<e>> \o mid
<1>1. <<e>> \in Seq(S) /\ mid \in Seq(S) /\ mid # <<>> /\ Len(<<e>>) = 1 /\ <<e>>[1] = e
      BY DEF Names
<1> HIDE DEF S
<1>2. Len(mid) \in Nat /\ Len(mid) > 0
      BY <1>1
<1>3. /\ m \in Seq(S)
      /\ Len(m) = 1 + Len(mid)
      /\ \A i \in 1 .. 1 + Len(mid) : m[i] = IF i <= 1 THEN <<e>>[i] ELSE mid[i - 1]
      BY <1>1, ConcatProperties
<1> HIDE DEF m
<1>4. m # <<>> /\ Len(m) > 1
      BY <1>2, <1>3
<1>5. m[1] = e
      BY <1>1, <1>2, <1>3
<1>6. Head(m) = e
      BY <1>3, <1>4, <1>5
<1>7. Tail(m) = mid
  <2>1. /\ Tail(m) \in Seq(S) /\ Len(Tail(m)) = Len(mid)
        /\ \A i \in 1 .. Len(mid) : Tail(m)[i] = m[i + 1]
        BY <1>2, <1>3, <1>4, HeadTailProperties
  <2>2. \A i \in 1 .. Len(mid) : m[i + 1] = mid[i]
        BY <1>2, <1>3
  <2> QED BY <1>1, <2>1, <2>2
<1>8. m \notin Own
  <2>1. \A x \in OwnMids : Len(<<x>>) = 1
        OBVIOUS
  <2> QED BY <1>2, <1>3, <2>1 DEF Own
<1> QED BY <1>3, <1>4, <1>6, <1>7, <1>8 DEF m, S, Mirror, Names

(* Two mirrors with one name are one. *)
LEMMA MirrorInjective ==
    ASSUME NEW d \in EndpointIds, NEW e \in EndpointIds, NEW m \in Names, NEW n \in Names,
           Mirror(d, m) = Mirror(e, n)
    PROVE  d = e /\ m = n
BY MirrorName

(* A client's own mids are names of one part. *)
LEMMA OwnAreNames == Own \subseteq Names /\ \A mid \in Own : Len(mid) = 1
<1> SUFFICES ASSUME NEW x \in OwnMids PROVE <<x>> \in Names /\ Len(<<x>>) = 1
    BY DEF Own
<1>1. <<x>> \in Seq(EndpointIds \cup OwnMids) /\ Len(<<x>>) = 1 /\ <<x>> # <<>>
      OBVIOUS
<1> QED BY <1>1 DEF Names

(* What an offer can hold: its new sections are the client's own. *)
LEMMA OfferFacts ==
    ASSUME TypeOK, NEW e \in EndpointIds, NEW offer \in Offers(e)
    PROVE  /\ NewMids(e, offer) \subseteq Own
           /\ NewMids(e, offer) \subseteq DOMAIN offer
           /\ \A mid \in DOMAIN offer : /\ offer[mid].direction \in Directions
                                        /\ offer[mid].sender \in BOOLEAN
<1>0. PICK S \in SUBSET Own :
         offer \in {[mid \in S \cup (told[e] \ Own) |->
                      IF mid \in S THEN own[mid] ELSE [direction |-> "recvonly", sender |-> FALSE]]
                    : own \in [S -> Section(e)]}
      BY DEF Offers
<1>1. PICK own \in [S -> Section(e)] :
         offer = [mid \in S \cup (told[e] \ Own) |->
                    IF mid \in S THEN own[mid] ELSE [direction |-> "recvonly", sender |-> FALSE]]
      BY <1>0
<1>2. told[e] \subseteq DOMAIN transceivers[e]
      BY DEF TypeOK
<1>3. DOMAIN offer = S \cup (told[e] \ Own)
      BY <1>1
<1>4. NewMids(e, offer) \subseteq S
      BY <1>2, <1>3 DEF NewMids
<1>5. ASSUME NEW mid \in S
      PROVE  offer[mid].direction \in Directions /\ offer[mid].sender \in BOOLEAN
  <2>1. offer[mid] = own[mid] /\ own[mid] \in Section(e)
        BY <1>1
  <2>2. Offered[e] \subseteq Directions
        BY NegotiationAssumption
  <2>3. own[mid].direction \in Offered[e]
        BY <2>1 DEF Section
  <2>4. own[mid].sender \in BOOLEAN
        BY <2>1 DEF Section
  <2> QED BY <2>1, <2>2, <2>3, <2>4
<1>6. ASSUME NEW mid \in DOMAIN offer, mid \notin S
      PROVE  offer[mid].direction \in Directions /\ offer[mid].sender \in BOOLEAN
  <2>1. offer[mid] = [direction |-> "recvonly", sender |-> FALSE]
        BY <1>1, <1>3, <1>6
  <2> QED BY <2>1 DEF Directions
<1> QED BY <1>3, <1>4, <1>5, <1>6 DEF NewMids

-----------------------------------------------------------------------------
(* set_remote_description *)

(* The endpoint that offers keeps what it has and gets its new sections.   *)
LEMMA OwnEffect ==
    ASSUME TypeOK, NEW e \in EndpointIds, NEW offer \in Offers(e),
           set_remote_description(e, offer)
    PROVE  /\ DOMAIN transceivers'[e] = DOMAIN transceivers[e] \cup NewMids(e, offer)
           /\ \A mid \in DOMAIN transceivers[e] : transceivers'[e][mid] = transceivers[e][mid]
           /\ \A mid \in NewMids(e, offer) :
                 /\ offer[mid].direction = "sendonly" =>
                       transceivers'[e][mid].direction = "recvonly"
                 /\ transceivers'[e][mid].direction \in Directions
                 /\ transceivers'[e][mid].sender = SenderOf(e, offer[mid])
                 /\ transceivers'[e][mid] =
                       [direction |-> transceivers'[e][mid].direction,
                        sender    |-> transceivers'[e][mid].sender]
<1>1. transceivers'[e] = OwnTransceivers(e, offer)
      BY DEF set_remote_description, Applied
<1>2. NewMids(e, offer) \cap DOMAIN transceivers[e] = {}
      BY DEF NewMids
<1>3. /\ DOMAIN transceivers'[e] = DOMAIN transceivers[e] \cup NewMids(e, offer)
      /\ \A mid \in DOMAIN transceivers[e] : transceivers'[e][mid] = transceivers[e][mid]
      BY <1>1 DEF OwnTransceivers
<1>4. ASSUME NEW mid \in NewMids(e, offer)
      PROVE  /\ offer[mid].direction = "sendonly" =>
                    transceivers'[e][mid].direction = "recvonly"
             /\ transceivers'[e][mid].direction \in Directions
             /\ transceivers'[e][mid].sender = SenderOf(e, offer[mid])
             /\ transceivers'[e][mid] =
                   [direction |-> transceivers'[e][mid].direction,
                    sender    |-> transceivers'[e][mid].sender]
  <2>1. transceivers'[e][mid] =
          [direction |-> IF offer[mid].direction = "recvonly" THEN "sendonly" ELSE "recvonly",
           sender    |-> SenderOf(e, offer[mid])]
        BY <1>1, <1>2 DEF OwnTransceivers
  <2> QED BY <2>1 DEF Directions
<1> QED BY <1>3, <1>4

(* Every other endpoint in the session gets, or updates, the mirrors of    *)
(* the new sections, and nothing else of it changes.                       *)
LEMMA MirrorEffect ==
    ASSUME TypeOK, NEW e \in EndpointIds, NEW offer \in Offers(e),
           set_remote_description(e, offer), NEW o \in live \ {e}
    PROVE  /\ DOMAIN transceivers'[o] = DOMAIN transceivers[o]
                    \cup {Mirror(e, mid) : mid \in Mirrored(e, offer, o)}
           /\ \A n \in DOMAIN transceivers[o] :
                 (\A mid \in Mirrored(e, offer, o) : n # Mirror(e, mid)) =>
                    transceivers'[o][n] = transceivers[o][n]
           /\ \A mid \in Mirrored(e, offer, o) :
                 transceivers'[o][Mirror(e, mid)] =
                    [direction |-> offer[mid].direction,
                     sender    |-> IF Mirror(e, mid) \in DOMAIN transceivers[o]
                                   THEN transceivers[o][Mirror(e, mid)].sender
                                   ELSE SenderOf(e, offer[mid])]
<1> DEFINE touched == {Mirror(e, mid) : mid \in Mirrored(e, offer, o)}
<1>1. o \in EndpointIds /\ o # e /\ o \in live
      BY DEF TypeOK
<1>2. transceivers'[o] = MirrorTransceivers(e, offer, o)
      BY <1>1 DEF set_remote_description, Applied
<1>3. transceivers'[o] =
        [mid \in DOMAIN transceivers[o] \cup touched |->
           IF mid \notin touched THEN transceivers[o][mid]
           ELSE [direction |-> offer[Tail(mid)].direction,
                 sender    |-> IF mid \in DOMAIN transceivers[o] THEN transceivers[o][mid].sender
                               ELSE SenderOf(e, offer[Tail(mid)])]]
      BY <1>2 DEF MirrorTransceivers
<1>4. ASSUME NEW mid \in Mirrored(e, offer, o)
      PROVE  /\ Mirror(e, mid) \in touched
             /\ Tail(Mirror(e, mid)) = mid
      BY OfferFacts, OwnAreNames, MirrorName DEF Mirrored
<1>5. \A n : n \in touched <=> \E mid \in Mirrored(e, offer, o) : n = Mirror(e, mid)
      OBVIOUS
<1> HIDE DEF touched
<1>6. DOMAIN transceivers'[o] = DOMAIN transceivers[o] \cup touched
      BY <1>3
<1>7. \A n \in DOMAIN transceivers[o] :
         n \notin touched => transceivers'[o][n] = transceivers[o][n]
      BY <1>3
<1>8. ASSUME NEW mid \in Mirrored(e, offer, o)
      PROVE  transceivers'[o][Mirror(e, mid)] =
                [direction |-> offer[mid].direction,
                 sender    |-> IF Mirror(e, mid) \in DOMAIN transceivers[o]
                               THEN transceivers[o][Mirror(e, mid)].sender
                               ELSE SenderOf(e, offer[mid])]
      BY <1>3, <1>4
<1> QED BY <1>5, <1>6, <1>7, <1>8 DEF touched

(* An endpoint that is not in the session is left alone. *)
LEMMA AbsentEffect ==
    ASSUME TypeOK, NEW e \in EndpointIds, NEW offer \in Offers(e),
           set_remote_description(e, offer), NEW o \in EndpointIds \ live, o # e
    PROVE  transceivers'[o] = transceivers[o]
BY DEF set_remote_description, Applied

(* What a client's sections contribute to the history. *)
LEMMA SendonlyEffect ==
    ASSUME TypeOK, NEW e \in EndpointIds, NEW offer \in Offers(e),
           set_remote_description(e, offer)
    PROVE  /\ DOMAIN sendonly' = EndpointIds
           /\ \A o \in EndpointIds : o # e => sendonly'[o] = sendonly[o]
           /\ sendonly'[e] = sendonly[e] \cup
                 {mid \in NewMids(e, offer) : offer[mid].direction = "sendonly"}
<1>1. NewMids(e, offer) \cap Own = NewMids(e, offer)
      BY OfferFacts
<1> QED BY <1>1 DEF TypeOK, set_remote_description

(* The sections that are mirrored are new ones of the client itself. *)
LEMMA MirroredAreNew ==
    ASSUME TypeOK, NEW e \in EndpointIds, NEW offer \in Offers(e), NEW o
    PROVE  /\ Mirrored(e, offer, o) \subseteq NewMids(e, offer)
           /\ NewMids(e, offer) \subseteq Own
           /\ NewMids(e, offer) \subseteq Names
BY OfferFacts, OwnAreNames DEF Mirrored

(* set_remote_description keeps the types of what it changes and takes no  *)
(* transceiver away.                                                       *)
LEMMA RemoteType ==
    ASSUME TypeOK, NEW e \in EndpointIds, NEW offer \in Offers(e),
           set_remote_description(e, offer)
    PROVE  /\ DOMAIN transceivers' = EndpointIds /\ DOMAIN mids' = EndpointIds
           /\ DOMAIN sendonly' = EndpointIds
           /\ \A o \in EndpointIds :
                 /\ DOMAIN transceivers[o] \subseteq DOMAIN transceivers'[o]
                 /\ DOMAIN transceivers'[o] \subseteq Names
                 /\ \A mid \in DOMAIN transceivers'[o] : transceivers'[o][mid] \in Transceiver
                 /\ mids'[o] \in [DOMAIN transceivers'[o] -> 1 .. 2]
                 /\ sendonly'[o] \subseteq DOMAIN transceivers'[o] \cap Own
<1>1. DOMAIN transceivers' = EndpointIds /\ DOMAIN mids' = EndpointIds
      BY DEF set_remote_description, Applied, Listed
<1>2. \A mid \in DOMAIN offer : SenderOf(e, offer[mid]) \in Nat
      BY DEF TypeOK, SenderOf
<1>3. NewMids(e, offer) \subseteq Own /\ NewMids(e, offer) \subseteq Names
      BY MirroredAreNew
<1>4. /\ DOMAIN transceivers[e] \subseteq DOMAIN transceivers'[e]
      /\ DOMAIN transceivers'[e] \subseteq Names
      /\ \A mid \in DOMAIN transceivers'[e] : transceivers'[e][mid] \in Transceiver
  <2>1. ASSUME NEW mid \in NewMids(e, offer)
        PROVE  transceivers'[e][mid] \in Transceiver
    <3> DEFINE t == transceivers'[e][mid]
    <3>1. t = [direction |-> t.direction, sender |-> t.sender] /\ t.direction \in Directions
          BY OwnEffect
    <3>2. t.sender \in Nat
      <4>1. mid \in DOMAIN offer
            BY OfferFacts
      <4> QED BY <1>2, <4>1, OwnEffect
    <3> HIDE DEF t
    <3>3. t \in Transceiver
          BY <3>1, <3>2 DEF Transceiver
    <3> QED BY <3>3 DEF t
  <2> QED BY <1>3, <2>1, OwnEffect DEF TypeOK
<1>5. ASSUME NEW o \in live \ {e}
      PROVE  /\ DOMAIN transceivers[o] \subseteq DOMAIN transceivers'[o]
             /\ DOMAIN transceivers'[o] \subseteq Names
             /\ \A mid \in DOMAIN transceivers'[o] : transceivers'[o][mid] \in Transceiver
  <2>1. o \in EndpointIds
        BY DEF TypeOK
  <2>2. ASSUME NEW mid \in Mirrored(e, offer, o)
        PROVE  Mirror(e, mid) \in Names /\ transceivers'[o][Mirror(e, mid)] \in Transceiver
    <3>1. mid \in Names /\ mid \in DOMAIN offer
          BY MirroredAreNew, OfferFacts
    <3>2. Mirror(e, mid) \in Names
          BY <3>1, MirrorName
    <3>3. offer[mid].direction \in Directions
          BY <3>1, OfferFacts
    <3>4. Mirror(e, mid) \in DOMAIN transceivers[o] =>
             transceivers[o][Mirror(e, mid)].sender \in Nat
          BY <2>1 DEF TypeOK, Transceiver
    <3>5. PICK n \in Nat : transceivers'[o][Mirror(e, mid)] =
                               [direction |-> offer[mid].direction, sender |-> n]
          BY <1>2, <3>1, <3>4, MirrorEffect
    <3> QED BY <3>2, <3>3, <3>5 DEF Transceiver
  <2>3. ASSUME NEW n \in DOMAIN transceivers'[o]
        PROVE  n \in Names /\ transceivers'[o][n] \in Transceiver
    <3>1. CASE \E mid \in Mirrored(e, offer, o) : n = Mirror(e, mid)
          BY <2>2, <3>1
    <3>2. CASE \A mid \in Mirrored(e, offer, o) : n # Mirror(e, mid)
      <4>1. n \in DOMAIN transceivers[o] /\ transceivers'[o][n] = transceivers[o][n]
            BY <3>2, MirrorEffect
      <4> QED BY <2>1, <4>1 DEF TypeOK
    <3> QED BY <3>1, <3>2
  <2> QED BY <2>3, MirrorEffect
<1>6. ASSUME NEW o \in EndpointIds \ live, o # e
      PROVE  /\ DOMAIN transceivers[o] \subseteq DOMAIN transceivers'[o]
             /\ DOMAIN transceivers'[o] \subseteq Names
             /\ \A mid \in DOMAIN transceivers'[o] : transceivers'[o][mid] \in Transceiver
      BY <1>6, AbsentEffect DEF TypeOK
<1>7. ASSUME NEW o \in EndpointIds
      PROVE  /\ DOMAIN transceivers[o] \subseteq DOMAIN transceivers'[o]
             /\ DOMAIN transceivers'[o] \subseteq Names
             /\ \A mid \in DOMAIN transceivers'[o] : transceivers'[o][mid] \in Transceiver
      BY <1>4, <1>5, <1>6
<1>8. ASSUME NEW o \in EndpointIds
      PROVE  mids'[o] \in [DOMAIN transceivers'[o] -> 1 .. 2]
  <2>1. mids'[o] = [mid \in DOMAIN transceivers'[o] |->
                      IF mid \in DOMAIN mids[o] THEN mids[o][mid] ELSE 1]
        BY DEF set_remote_description, Listed
  <2>2. \A mid \in DOMAIN mids[o] : mids[o][mid] \in 1 .. 2
        BY DEF TypeOK
  <2> QED BY <2>1, <2>2
<1>9. ASSUME NEW o \in EndpointIds
      PROVE  sendonly'[o] \subseteq DOMAIN transceivers'[o] \cap Own
  <2>1. sendonly[o] \subseteq DOMAIN transceivers[o] \cap Own
        BY DEF TypeOK
  <2>2. CASE o = e
        BY <1>3, <2>1, <2>2, OwnEffect, SendonlyEffect
  <2>3. CASE o # e
        BY <1>7, <2>1, <2>3, SendonlyEffect
  <2> QED BY <2>2, <2>3
<1> QED BY <1>1, <1>7, <1>8, <1>9, SendonlyEffect

(* set_remote_description keeps what the transceivers, their mirrors and   *)
(* their senders have in common.                                           *)
LEMMA RemoteKeeps ==
    ASSUME IInv, NEW e \in live, NEW offer \in Offers(e), set_remote_description(e, offer),
           UNCHANGED <<live, ready, joins>>,
           NEW dropped, flaws' = Flaws(offer, dropped)
    PROVE  /\ AbsentHaveNothing'
           /\ PublishedIsReceived'
           /\ MirrorsHaveSource'
           /\ SendersAreKnown'
           /\ PublishedIsMirrored'
<1> DEFINE N == NewMids(e, offer)
<1>0. TypeOK /\ e \in EndpointIds /\ live \subseteq EndpointIds /\ ready \subseteq live
      BY DEF IInv, TypeOK
<1>1. N \subseteq Own /\ N \subseteq Names /\ N \subseteq DOMAIN offer
      BY <1>0, MirroredAreNew, OfferFacts
<1>2. AbsentHaveNothing'
  <2> SUFFICES ASSUME NEW o \in EndpointIds, o \notin live
               PROVE  DOMAIN transceivers'[o] = {} /\ sendonly'[o] = {}
      BY DEF IInv, AbsentHaveNothing
  <2> QED BY <1>0, AbsentEffect, SendonlyEffect DEF IInv, AbsentHaveNothing
(* The transceivers that a client's own mids name are touched by nobody else. *)
<1>3. ASSUME NEW o \in EndpointIds, NEW mid \in DOMAIN transceivers[o], mid \in Own
      PROVE  transceivers'[o][mid] = transceivers[o][mid]
  <2>1. CASE o = e
        BY <1>0, <2>1, OwnEffect
  <2>2. CASE o # e /\ o \in live
    <3>1. \A m \in Mirrored(e, offer, o) : mid # Mirror(e, m)
          BY <1>0, <1>3, MirroredAreNew, MirrorName
    <3> QED BY <1>0, <2>2, <3>1, MirrorEffect
  <2>3. CASE o # e /\ o \notin live
        BY <1>0, <2>3, AbsentEffect
  <2> QED BY <2>1, <2>2, <2>3
<1>4. PublishedIsReceived'
  <2> SUFFICES ASSUME NEW o \in EndpointIds, NEW mid \in sendonly'[o]
               PROVE  transceivers'[o][mid].direction = "recvonly"
      BY DEF PublishedIsReceived
  <2>1. CASE mid \in sendonly[o]
    <3>1. mid \in DOMAIN transceivers[o] /\ mid \in Own
          BY <1>0, <2>1 DEF TypeOK
    <3> QED BY <1>3, <2>1, <3>1 DEF IInv, PublishedIsReceived
  <2>2. CASE mid \notin sendonly[o]
    <3>1. o = e /\ mid \in N /\ offer[mid].direction = "sendonly"
          BY <1>0, <2>2, SendonlyEffect
    <3> QED BY <1>0, <3>1, OwnEffect
  <2> QED BY <2>1, <2>2
<1>5. MirrorsHaveSource'
  <2> SUFFICES ASSUME NEW a \in EndpointIds, NEW b \in EndpointIds,
                      NEW mid \in DOMAIN transceivers'[b], Len(mid) > 1, Head(mid) = a
               PROVE  /\ joins[a] > 0
                      /\ a \in Fresh => Tail(mid) \in DOMAIN transceivers'[a]
      BY DEF MirrorsHaveSource, Fresh
  <2>1. CASE mid \in DOMAIN transceivers[b]
    <3>1. DOMAIN transceivers[a] \subseteq DOMAIN transceivers'[a]
          BY <1>0, RemoteType
    <3> QED BY <2>1, <3>1 DEF IInv, MirrorsHaveSource
  <2>2. CASE mid \notin DOMAIN transceivers[b]
    <3>1. CASE b = e
      <4>1. mid \in Own
            BY <1>0, <1>1, <2>2, <3>1, OwnEffect
      <4>2. Len(mid) = 1
            BY <4>1, OwnAreNames
      <4> QED BY <4>2
    <3>2. CASE b # e
      <4>1. b \in live
            BY <1>0, <2>2, <3>2, AbsentEffect
      <4>2. PICK m \in Mirrored(e, offer, b) : mid = Mirror(e, m)
            BY <1>0, <2>2, <3>2, <4>1, MirrorEffect
      <4>3. m \in N /\ m \in Names
            BY <1>0, <1>1, MirroredAreNew
      <4>4. a = e /\ Tail(mid) = m
            BY <1>0, <4>2, <4>3, MirrorName
      <4>5. m \in DOMAIN transceivers'[e]
            BY <1>0, <4>3, OwnEffect
      <4>6. joins[e] > 0
            BY <1>0 DEF IInv, AbsentHaveNothing
      <4> QED BY <4>4, <4>5, <4>6
    <3> QED BY <3>1, <3>2
  <2> QED BY <2>1, <2>2
<1>6. SendersAreKnown'
  <2> SUFFICES ASSUME "senderless" \notin flaws', NEW o \in EndpointIds,
                      NEW mid \in DOMAIN transceivers'[o]
               PROVE  transceivers'[o][mid].sender # 0
      BY DEF SendersAreKnown
  <2>1. /\ "senderless" \notin flaws
        /\ \A m \in N : offer[m].sender
        BY <1>1 DEF Flaws
  <2>2. \A m \in N : SenderOf(e, offer[m]) # 0
        BY <1>0, <2>1 DEF IInv, AbsentHaveNothing, SenderOf
  <2>3. mid \in DOMAIN transceivers[o] => transceivers[o][mid].sender # 0
        BY <2>1 DEF IInv, SendersAreKnown
  <2>4. CASE o = e
    <3>1. CASE mid \in DOMAIN transceivers[e]
          BY <1>0, <2>3, <2>4, <3>1, OwnEffect
    <3>2. CASE mid \notin DOMAIN transceivers[e]
      <4>1. mid \in N
            BY <1>0, <2>4, <3>2, OwnEffect
      <4>2. transceivers'[e][mid].sender = SenderOf(e, offer[mid])
            BY <1>0, <4>1, OwnEffect
      <4> QED BY <2>2, <2>4, <4>1, <4>2
    <3> QED BY <3>1, <3>2
  <2>5. CASE o # e /\ o \in live
    <3>1. CASE \A m \in Mirrored(e, offer, o) : mid # Mirror(e, m)
          BY <1>0, <2>3, <2>5, <3>1, MirrorEffect
    <3>2. ASSUME NEW m \in Mirrored(e, offer, o), mid = Mirror(e, m)
          PROVE  transceivers'[o][mid].sender # 0
      <4>1. m \in N
            BY <1>0, MirroredAreNew
      <4>2. transceivers'[o][mid] =
               [direction |-> offer[m].direction,
                sender    |-> IF mid \in DOMAIN transceivers[o] THEN transceivers[o][mid].sender
                              ELSE SenderOf(e, offer[m])]
            BY <1>0, <2>5, <3>2, MirrorEffect
      <4>3. CASE mid \in DOMAIN transceivers[o]
            BY <2>3, <4>2, <4>3
      <4>4. CASE mid \notin DOMAIN transceivers[o]
        <5>1. transceivers'[o][mid].sender = SenderOf(e, offer[m])
              BY <4>2, <4>4
        <5> QED BY <2>2, <4>1, <5>1
      <4> QED BY <4>3, <4>4
    <3> QED BY <3>1, <3>2
  <2>6. CASE o # e /\ o \notin live
        BY <1>0, <2>3, <2>6, AbsentEffect
  <2> QED BY <2>4, <2>5, <2>6
<1>7. PublishedIsMirrored'
  <2> SUFFICES ASSUME NEW a \in Fresh, NEW b \in ready, a # b, NEW mid \in sendonly'[a]
               PROVE  /\ Mirror(a, mid) \in DOMAIN transceivers'[b]
                      /\ transceivers'[b][Mirror(a, mid)] =
                           [direction |-> "sendonly", sender |-> transceivers'[a][mid].sender]
      BY DEF PublishedIsMirrored, Fresh
  <2>1. a \in live /\ a \in EndpointIds /\ joins[a] = 1 /\ b \in live /\ b \in EndpointIds
        BY <1>0 DEF Fresh
  <2>2. CASE mid \in sendonly[a]
    <3>1. mid \in DOMAIN transceivers[a] /\ mid \in Own /\ mid \in Names
          BY <1>0, <2>1, <2>2, OwnAreNames DEF TypeOK
    <3>2. transceivers'[a][mid] = transceivers[a][mid]
          BY <1>3, <2>1, <3>1
    <3>3. /\ Mirror(a, mid) \in DOMAIN transceivers[b]
          /\ transceivers[b][Mirror(a, mid)] =
                [direction |-> "sendonly", sender |-> transceivers[a][mid].sender]
          BY <2>2 DEF IInv, PublishedIsMirrored
    <3>4. transceivers'[b][Mirror(a, mid)] = transceivers[b][Mirror(a, mid)]
      <4>1. CASE b = e
            BY <1>0, <3>3, <4>1, OwnEffect
      <4>2. CASE b # e
        <5>1. \A m \in Mirrored(e, offer, b) : Mirror(a, mid) # Mirror(e, m)
          <6> SUFFICES ASSUME NEW m \in Mirrored(e, offer, b), Mirror(a, mid) = Mirror(e, m)
                       PROVE  FALSE
              OBVIOUS
          <6>1. m \in N /\ m \in Names
                BY <1>0, <1>1, MirroredAreNew
          <6>2. a = e /\ mid = m
                BY <1>0, <2>1, <3>1, <6>1, MirrorInjective
          <6> QED BY <3>1, <6>1, <6>2 DEF NewMids
        <5> QED BY <1>0, <2>1, <3>3, <4>2, <5>1, MirrorEffect
      <4> QED BY <4>1, <4>2
    <3>5. Mirror(a, mid) \in DOMAIN transceivers'[b]
          BY <1>0, <2>1, <3>3, RemoteType
    <3> QED BY <3>2, <3>3, <3>4, <3>5
  <2>3. CASE mid \notin sendonly[a]
    <3>1. a = e /\ mid \in N /\ offer[mid].direction = "sendonly"
          BY <1>0, <2>1, <2>3, SendonlyEffect
    <3>2. mid \in Names
          BY <1>1, <3>1
    <3>3. mid \in Mirrored(e, offer, b)
          BY <3>1 DEF Mirrored
    (* in the first connection there is no such mirror yet *)
    <3>4. Mirror(e, mid) \notin DOMAIN transceivers[b]
      <4>1. Len(Mirror(e, mid)) > 1 /\ Head(Mirror(e, mid)) = e /\ Tail(Mirror(e, mid)) = mid
            BY <1>0, <3>2, MirrorName
      <4>2. mid \notin DOMAIN transceivers[e]
            BY <3>1 DEF NewMids
      <4> QED BY <1>0, <2>1, <3>1, <4>1, <4>2 DEF IInv, MirrorsHaveSource
    <3>5. /\ Mirror(e, mid) \in DOMAIN transceivers'[b]
          /\ transceivers'[b][Mirror(e, mid)] =
                [direction |-> offer[mid].direction, sender |-> SenderOf(e, offer[mid])]
          BY <1>0, <2>1, <3>1, <3>3, <3>4, MirrorEffect
    <3>6. transceivers'[e][mid].sender = SenderOf(e, offer[mid])
          BY <1>0, <3>1, OwnEffect
    <3> QED BY <3>1, <3>5, <3>6
  <2> QED BY <2>2, <2>3
<1> QED BY <1>2, <1>4, <1>5, <1>6, <1>7

(* The description alone, as accept_offer and handle_datachannel_message   *)
(* apply it, forgets nobody: who has not been told is flagged.             *)
LEMMA RemoteFlags ==
    ASSUME IInv, NEW e \in live, NEW offer \in Offers(e), set_remote_description(e, offer),
           "dropped" \notin flaws,
           NEW a \in Fresh, NEW b \in ready, a # b, NEW mid \in sendonly'[a]
    PROVE  Mirror(a, mid) \in told[b] \/ b \in Flagged(e, offer)
<1>0. /\ TypeOK /\ e \in EndpointIds /\ a \in EndpointIds /\ a \in live
      /\ joins[a] = 1 /\ b \in live /\ b \in EndpointIds
      BY DEF IInv, TypeOK, Fresh
<1>1. CASE mid \in sendonly[a]
      BY <1>1 DEF IInv, PublishedIsTold, Flagged
<1>2. CASE mid \notin sendonly[a]
  <2>1. a = e /\ mid \in NewMids(e, offer) /\ offer[mid].direction = "sendonly"
        BY <1>0, <1>2, SendonlyEffect
  <2>2. mid \in Names
        BY <1>0, <2>1, MirroredAreNew
  <2>3. Mirror(e, mid) \notin DOMAIN transceivers[b]
    <3>1. Len(Mirror(e, mid)) > 1 /\ Head(Mirror(e, mid)) = e /\ Tail(Mirror(e, mid)) = mid
          BY <1>0, <2>2, MirrorName
    <3>2. mid \notin DOMAIN transceivers[e]
          BY <2>1 DEF NewMids
    <3> QED BY <1>0, <2>1, <3>1, <3>2 DEF IInv, MirrorsHaveSource
  <2>4. mid \in Mirrored(e, offer, b)
        BY <2>1 DEF Mirrored
  <2>5. mid \in Changed(e, offer, b)
        BY <2>3, <2>4 DEF Changed
  <2> QED BY <1>0, <2>1, <2>5 DEF Flagged
<1> QED BY <1>1, <1>2

(* No offer fails for want of a sender while nobody left one out. *)
LEMMA CanOffer ==
    ASSUME NEW ts, \A mid \in DOMAIN ts : ts[mid].sender # 0
    PROVE  ~CannotOffer(ts)
BY DEF CannotOffer, Unwritable

-----------------------------------------------------------------------------
(* The steps. *)

(* An endpoint that joins has nothing, as it had before. *)
LEMMA AddStep ==
    ASSUME IInv, NEW e \in EndpointIds, add_endpoint(e)
    PROVE  IInv'
<1>0. /\ TypeOK /\ joins \in [EndpointIds -> Nat]
      /\ e \notin live /\ live' = live \cup {e}
      /\ joins' = [joins EXCEPT ![e] = @ + 1] /\ joins[e] < MaxJoins[e]
      /\ UNCHANGED <<ready, transceivers, mids, renegotiation_needed, told, answer,
                     sendonly, flaws>>
      BY DEF IInv, TypeOK, add_endpoint
<1>1. /\ joins'[e] = joins[e] + 1 /\ joins' \in [EndpointIds -> Nat]
      /\ \A o \in EndpointIds : o # e => joins'[o] = joins[o]
      BY <1>0
<1>2. TypeOK'
  <2>1. \A o \in EndpointIds : joins'[o] <= MaxJoins[o]
        BY <1>0, <1>1, NegotiationAssumption DEF TypeOK
  <2> QED BY <1>0, <1>1, <2>1 DEF TypeOK
<1>3. DOMAIN transceivers[e] = {} /\ sendonly[e] = {}
      BY <1>0 DEF IInv, AbsentHaveNothing
<1>4. \A o \in Fresh' : o # e => o \in Fresh
      BY <1>0, <1>1 DEF Fresh, TypeOK
<1>5. AbsentHaveNothing'
      BY <1>0, <1>1 DEF IInv, AbsentHaveNothing
<1>6. PublishedIsReceived' /\ SendersAreKnown' /\ OffersAreMade'
      BY <1>0 DEF IInv, PublishedIsReceived, SendersAreKnown, OffersAreMade
<1>7. MirrorsHaveSource'
  <2> SUFFICES ASSUME NEW a \in EndpointIds, NEW b \in EndpointIds,
                      NEW mid \in DOMAIN transceivers[b], Len(mid) > 1, Head(mid) = a
               PROVE  /\ joins'[a] > 0
                      /\ a \in Fresh' => Tail(mid) \in DOMAIN transceivers[a]
      BY <1>0 DEF MirrorsHaveSource
  <2>1. joins[a] > 0 /\ (a \in Fresh => Tail(mid) \in DOMAIN transceivers[a])
        BY DEF IInv, MirrorsHaveSource
  <2>2. CASE a = e
    <3>1. joins'[a] > 1
          BY <1>0, <1>1, <2>1, <2>2
    <3> QED BY <1>1, <3>1 DEF Fresh
  <2>3. CASE a # e
        BY <1>1, <1>4, <2>1, <2>3
  <2> QED BY <2>2, <2>3
<1>8. PublishedIsMirrored'
      BY <1>0, <1>3, <1>4 DEF IInv, PublishedIsMirrored
<1>9. PublishedIsTold'
      BY <1>0, <1>3, <1>4 DEF IInv, PublishedIsTold
<1> QED BY <1>2, <1>5, <1>6, <1>7, <1>8, <1>9 DEF IInv

(* An endpoint that leaves takes its own state along, not its mirrors. *)
LEMMA RemoveStep ==
    ASSUME IInv, NEW e \in EndpointIds, remove_endpoint(e)
    PROVE  IInv'
<1>0. /\ TypeOK
      /\ live' = live \ {e} /\ ready' = ready \ {e}
      /\ renegotiation_needed' = renegotiation_needed \ {e}
      /\ UNCHANGED <<joins, flaws>>
      BY DEF IInv, remove_endpoint
<1>1. /\ DOMAIN transceivers' = EndpointIds /\ DOMAIN mids' = EndpointIds
      /\ DOMAIN told' = EndpointIds /\ DOMAIN sendonly' = EndpointIds
      /\ transceivers'[e] = Empty /\ mids'[e] = Empty /\ told'[e] = {} /\ sendonly'[e] = {}
      /\ \A o \in EndpointIds : o # e => /\ transceivers'[o] = transceivers[o]
                                         /\ mids'[o] = mids[o]
                                         /\ told'[o] = told[o]
                                         /\ sendonly'[o] = sendonly[o]
      BY DEF IInv, TypeOK, remove_endpoint
<1>2. DOMAIN transceivers'[e] = {} /\ mids'[e] \in [{} -> 1 .. 2]
      BY <1>1 DEF Empty
<1>3. TypeOK'
  <2>1. answer' \in [EndpointIds -> {"none", "sent", "refused", "lost"}]
        BY DEF IInv, TypeOK, remove_endpoint
  <2>2. ASSUME NEW o \in EndpointIds
        PROVE  /\ DOMAIN transceivers'[o] \subseteq Names
               /\ \A mid \in DOMAIN transceivers'[o] : transceivers'[o][mid] \in Transceiver
               /\ mids'[o] \in [DOMAIN transceivers'[o] -> 1 .. 2]
               /\ told'[o] \subseteq DOMAIN transceivers'[o]
               /\ sendonly'[o] \subseteq DOMAIN transceivers'[o] \cap Own
    <3>1. CASE o = e
          BY <1>1, <1>2, <3>1
    <3>2. CASE o # e
          BY <1>0, <1>1, <3>2 DEF TypeOK
    <3> QED BY <3>1, <3>2
  <2> QED BY <1>0, <1>1, <2>1, <2>2 DEF TypeOK
<1>4. Fresh' \subseteq Fresh \ {e}
      BY <1>0 DEF Fresh
<1>5. AbsentHaveNothing'
      BY <1>0, <1>1, <1>2 DEF IInv, AbsentHaveNothing
<1>6. PublishedIsReceived' /\ SendersAreKnown' /\ OffersAreMade'
      BY <1>0, <1>1, <1>2 DEF IInv, PublishedIsReceived, SendersAreKnown, OffersAreMade
<1>7. MirrorsHaveSource'
      BY <1>0, <1>1, <1>2, <1>4 DEF IInv, MirrorsHaveSource
<1>8. Fresh' \subseteq EndpointIds /\ ready' \subseteq EndpointIds
      BY <1>0 DEF Fresh, TypeOK
<1>9. PublishedIsMirrored'
      BY <1>0, <1>1, <1>4, <1>8 DEF IInv, PublishedIsMirrored
<1>10. PublishedIsTold'
      BY <1>0, <1>1, <1>4, <1>8 DEF IInv, PublishedIsTold
<1> QED BY <1>3, <1>5, <1>6, <1>7, <1>9, <1>10 DEF IInv

(* What handle_datachannel_open gives the endpoint: a transceiver to send  *)
(* everything that the others' endpoints receive, besides what it has.     *)
Received(o) == {mid \in DOMAIN transceivers[o] : transceivers[o][mid].direction = "recvonly"}
New(e) == UNION {{Mirror(o, mid) : mid \in Received(o)} : o \in live \ {e}}
Opened(e) == [mid \in DOMAIN transceivers[e] \cup New(e) |->
                IF mid \in New(e)
                THEN [direction |-> "sendonly", sender |-> transceivers[Head(mid)][Tail(mid)].sender]
                ELSE transceivers[e][mid]]

(* What handle_datachannel_open assigns. *)
LEMMA OpenAction ==
    ASSUME NEW e \in EndpointIds, handle_datachannel_open(e)
    PROVE  /\ e \in live /\ ready' = ready \cup {e}
           /\ transceivers' = [transceivers EXCEPT ![e] = Opened(e)]
           /\ mids' = [mids EXCEPT ![e] = [mid \in DOMAIN Opened(e) |->
                          IF mid \notin DOMAIN transceivers[e] THEN 1
                          ELSE IF mid \in New(e) THEN 2 ELSE mids[e][mid]]]
           /\ renegotiation_needed' = renegotiation_needed \ {e}
           /\ told' = IF New(e) = {} \/ CannotOffer(Opened(e)) THEN told
                      ELSE [told EXCEPT ![e] = DOMAIN Opened(e)]
           /\ flaws' = IF New(e) # {} /\ CannotOffer(Opened(e)) THEN flaws \cup {"dropped"}
                       ELSE flaws
           /\ UNCHANGED <<live, joins, answer, sendonly>>
BY DEF handle_datachannel_open, Received, New, Opened

(* The transceivers of an endpoint after its data channel opened. *)
LEMMA OpenedFacts ==
    ASSUME TypeOK, NEW e \in EndpointIds
    PROVE  /\ DOMAIN Opened(e) = DOMAIN transceivers[e] \cup New(e)
           /\ \A mid \in DOMAIN transceivers[e] :
                 mid \notin New(e) => Opened(e)[mid] = transceivers[e][mid]
           /\ \A n \in New(e) : \E o \in live \ {e} : \E mid \in Received(o) : n = Mirror(o, mid)
           /\ \A o \in live \ {e} : \A mid \in Received(o) :
                 o \in EndpointIds /\ mid \in Names /\ mid \in DOMAIN transceivers[o]
<1>1. /\ DOMAIN Opened(e) = DOMAIN transceivers[e] \cup New(e)
      /\ \A mid \in DOMAIN transceivers[e] :
            mid \notin New(e) => Opened(e)[mid] = transceivers[e][mid]
      BY DEF Opened
<1>2. \A n : n \in New(e) <=> \E o \in live \ {e} : \E mid \in Received(o) : n = Mirror(o, mid)
      BY DEF New
<1>3. ASSUME NEW o \in live \ {e}, NEW mid \in Received(o)
      PROVE  o \in EndpointIds /\ mid \in Names /\ mid \in DOMAIN transceivers[o]
      BY DEF TypeOK, Received
<1> QED BY <1>1, <1>2, <1>3

(* A received track of a peer is mirrored with the peer's sender. *)
LEMMA OpenedMirror ==
    ASSUME TypeOK, NEW e \in EndpointIds, NEW o \in live \ {e}, NEW mid \in Received(o)
    PROVE  /\ Mirror(o, mid) \in New(e)
           /\ Opened(e)[Mirror(o, mid)] =
                 [direction |-> "sendonly", sender |-> transceivers[o][mid].sender]
<1>1. Mirror(o, mid) \in New(e)
      BY DEF New
<1>2. Head(Mirror(o, mid)) = o /\ Tail(Mirror(o, mid)) = mid
      BY OpenedFacts, MirrorName
<1> QED BY <1>1, <1>2 DEF Opened

(* An opening data channel catches up with the published tracks. *)
LEMMA OpenStep ==
    ASSUME IInv, NEW e \in EndpointIds, handle_datachannel_open(e)
    PROVE  IInv'
<1>0. TypeOK /\ live \subseteq EndpointIds /\ ready \subseteq live
      BY DEF IInv, TypeOK
<1>1. /\ e \in live /\ ready' = ready \cup {e}
      /\ renegotiation_needed' = renegotiation_needed \ {e}
      /\ UNCHANGED <<live, joins, answer, sendonly>>
      BY OpenAction
<1>2. /\ DOMAIN transceivers' = EndpointIds
      /\ transceivers'[e] = Opened(e)
      /\ \A o \in EndpointIds : o # e => transceivers'[o] = transceivers[o]
      BY OpenAction DEF IInv, TypeOK
<1>3. /\ DOMAIN Opened(e) = DOMAIN transceivers[e] \cup New(e)
      /\ \A mid \in DOMAIN transceivers[e] :
            mid \notin New(e) => Opened(e)[mid] = transceivers[e][mid]
      BY <1>0, OpenedFacts
<1>4. ASSUME NEW n \in New(e)
      PROVE  /\ n \in Names /\ n \notin Own
             /\ Opened(e)[n] \in Transceiver
             /\ \E o \in live : \E mid \in DOMAIN transceivers[o] :
                   /\ Opened(e)[n].sender = transceivers[o][mid].sender
                   /\ Head(n) = o /\ Tail(n) = mid
  <2>1. PICK o \in live \ {e} : \E mid \in Received(o) : n = Mirror(o, mid)
        BY <1>0, OpenedFacts
  <2>2. PICK mid \in Received(o) : n = Mirror(o, mid)
        BY <2>1
  <2>3. o \in EndpointIds /\ mid \in Names /\ mid \in DOMAIN transceivers[o]
        BY <1>0, OpenedFacts
  <2>4. n \in Names /\ n \notin Own /\ Head(n) = o /\ Tail(n) = mid
        BY <2>2, <2>3, MirrorName
  <2>5. Opened(e)[n] = [direction |-> "sendonly", sender |-> transceivers[o][mid].sender]
        BY <1>0, <2>2, OpenedMirror
  <2>6. transceivers[o][mid].sender \in Nat
        BY <1>0, <2>3 DEF TypeOK, Transceiver
  <2>7. Opened(e)[n] \in Transceiver
        BY <2>5, <2>6 DEF Transceiver, Directions
  <2>8. Opened(e)[n].sender = transceivers[o][mid].sender
        BY <2>5
  <2> QED BY <2>3, <2>4, <2>7, <2>8
<1>5. DOMAIN transceivers[e] \subseteq DOMAIN Opened(e) /\ DOMAIN Opened(e) \subseteq Names
      BY <1>0, <1>3, <1>4 DEF TypeOK
<1>6. DOMAIN told' = EndpointIds /\ \A o \in EndpointIds : o # e => told'[o] = told[o]
      BY <1>0, OpenAction DEF TypeOK
<1>7. TypeOK'
  <2>1. ASSUME NEW mid \in DOMAIN Opened(e) PROVE Opened(e)[mid] \in Transceiver
        BY <1>0, <1>3, <1>4 DEF TypeOK
  <2>2. /\ DOMAIN mids' = EndpointIds
        /\ mids'[e] = [mid \in DOMAIN Opened(e) |->
                         IF mid \notin DOMAIN transceivers[e] THEN 1
                         ELSE IF mid \in New(e) THEN 2 ELSE mids[e][mid]]
        /\ \A o \in EndpointIds : o # e => mids'[o] = mids[o]
        BY <1>0, OpenAction DEF TypeOK
  <2>3. mids'[e] \in [DOMAIN Opened(e) -> 1 .. 2]
    <3>1. \A mid \in DOMAIN transceivers[e] : mids[e][mid] \in 1 .. 2
          BY <1>0 DEF TypeOK
    <3> QED BY <2>2, <3>1
  <2>4. told'[e] \subseteq DOMAIN Opened(e)
    <3>1. told'[e] = told[e] \/ told'[e] = DOMAIN Opened(e)
          BY <1>0, OpenAction DEF TypeOK
    <3>2. told[e] \subseteq DOMAIN transceivers[e]
          BY <1>0 DEF TypeOK
    <3> QED BY <1>5, <3>1, <3>2
  <2>5. ASSUME NEW o \in EndpointIds
        PROVE  /\ DOMAIN transceivers'[o] \subseteq Names
               /\ \A mid \in DOMAIN transceivers'[o] : transceivers'[o][mid] \in Transceiver
               /\ mids'[o] \in [DOMAIN transceivers'[o] -> 1 .. 2]
               /\ told'[o] \subseteq DOMAIN transceivers'[o]
               /\ sendonly'[o] \subseteq DOMAIN transceivers'[o] \cap Own
    <3>1. CASE o = e
      <4>1. sendonly[e] \subseteq DOMAIN transceivers[e] \cap Own
            BY <1>0 DEF TypeOK
      <4> QED BY <1>1, <1>2, <1>5, <2>1, <2>3, <2>4, <3>1, <4>1
    <3>2. CASE o # e
          BY <1>0, <1>1, <1>2, <1>6, <2>2, <3>2 DEF TypeOK
    <3> QED BY <3>1, <3>2
  <2>6. flaws' \subseteq {"senderless", "dropped"}
    <3>1. flaws' = flaws \/ flaws' = flaws \cup {"dropped"}
          BY OpenAction
    <3> QED BY <1>0, <3>1 DEF TypeOK
  <2>7. DOMAIN sendonly' = EndpointIds
        BY <1>0, <1>1 DEF TypeOK
  <2>8. /\ live' \subseteq EndpointIds /\ ready' \subseteq live'
        /\ renegotiation_needed' \subseteq live'
        /\ joins' \in [EndpointIds -> Nat] /\ \A o \in EndpointIds : joins'[o] <= MaxJoins[o]
        /\ answer' \in [EndpointIds -> {"none", "sent", "refused", "lost"}]
        BY <1>0, <1>1 DEF TypeOK
  <2> QED BY <1>2, <1>6, <2>2, <2>5, <2>6, <2>7, <2>8 DEF TypeOK
<1>8. Fresh' = Fresh
      BY <1>1 DEF Fresh
<1>9. AbsentHaveNothing'
      BY <1>1, <1>2 DEF IInv, AbsentHaveNothing
(* Own mids are not mirrors, so the client's own transceivers stay. *)
<1>10. ASSUME NEW o \in EndpointIds, NEW mid \in DOMAIN transceivers[o], mid \in Own
       PROVE  transceivers'[o][mid] = transceivers[o][mid]
       BY <1>2, <1>3, <1>4, <1>10
<1>11. \A o \in EndpointIds : sendonly[o] \subseteq DOMAIN transceivers[o] \cap Own
       BY <1>0 DEF TypeOK
<1>12. PublishedIsReceived'
       BY <1>1, <1>10, <1>11 DEF IInv, PublishedIsReceived
<1>13. MirrorsHaveSource'
  <2> SUFFICES ASSUME NEW a \in EndpointIds, NEW b \in EndpointIds,
                      NEW mid \in DOMAIN transceivers'[b], Len(mid) > 1, Head(mid) = a
               PROVE  /\ joins[a] > 0
                      /\ a \in Fresh => Tail(mid) \in DOMAIN transceivers'[a]
      BY <1>1, <1>8 DEF MirrorsHaveSource
  <2>0. DOMAIN transceivers[a] \subseteq DOMAIN transceivers'[a]
        BY <1>2, <1>5
  <2>1. CASE mid \in DOMAIN transceivers[b]
        BY <2>0, <2>1 DEF IInv, MirrorsHaveSource
  <2>2. CASE mid \notin DOMAIN transceivers[b]
    <3>1. b = e /\ mid \in New(e)
          BY <1>2, <1>3, <2>2
    <3>2. a \in live /\ Tail(mid) \in DOMAIN transceivers[a]
          BY <1>4, <3>1
    <3>3. joins[a] > 0
          BY <3>2 DEF IInv, AbsentHaveNothing
    <3> QED BY <2>0, <3>2, <3>3
  <2> QED BY <2>1, <2>2
<1>14. SendersAreKnown'
  <2> SUFFICES ASSUME "senderless" \notin flaws', NEW o \in EndpointIds,
                      NEW mid \in DOMAIN transceivers'[o]
               PROVE  transceivers'[o][mid].sender # 0
      BY DEF SendersAreKnown
  <2>1. "senderless" \notin flaws
        BY OpenAction
  <2>2. \A x \in EndpointIds : \A m \in DOMAIN transceivers[x] : transceivers[x][m].sender # 0
        BY <2>1 DEF IInv, SendersAreKnown
  <2>3. CASE o = e /\ mid \in New(e)
        BY <1>0, <1>2, <1>4, <2>2, <2>3
  <2>4. CASE ~(o = e /\ mid \in New(e))
        BY <1>2, <1>3, <2>2, <2>4
  <2> QED BY <2>3, <2>4
<1>15. OffersAreMade'
  <2> SUFFICES ASSUME "senderless" \notin flaws', "dropped" \in flaws' PROVE FALSE
      BY DEF OffersAreMade
  <2>1. "senderless" \notin flaws
        BY OpenAction
  <2>2. "dropped" \notin flaws
        BY <2>1 DEF IInv, OffersAreMade
  <2>3. CannotOffer(Opened(e))
        BY <2>2, OpenAction
  <2>4. \A mid \in DOMAIN Opened(e) : Opened(e)[mid].sender # 0
        BY <1>2, <1>14 DEF SendersAreKnown
  <2> QED BY <2>3, <2>4, CanOffer
(* What is published by others reaches the endpoint now. *)
<1>16. ASSUME NEW a \in Fresh, a # e, NEW mid \in sendonly[a]
       PROVE  /\ Mirror(a, mid) \in New(e)
              /\ Opened(e)[Mirror(a, mid)] =
                    [direction |-> "sendonly", sender |-> transceivers[a][mid].sender]
  <2>1. a \in live \ {e} /\ a \in EndpointIds
        BY <1>0, <1>16 DEF Fresh
  <2>2. mid \in Received(a)
        BY <1>11, <2>1 DEF IInv, PublishedIsReceived, Received
  <2> QED BY <1>0, <2>1, <2>2, OpenedMirror
<1>17. PublishedIsMirrored'
  <2> SUFFICES ASSUME NEW a \in Fresh, NEW b \in ready', a # b, NEW mid \in sendonly[a]
               PROVE  /\ Mirror(a, mid) \in DOMAIN transceivers'[b]
                      /\ transceivers'[b][Mirror(a, mid)] =
                           [direction |-> "sendonly", sender |-> transceivers'[a][mid].sender]
      BY <1>1, <1>8 DEF PublishedIsMirrored
  <2>1. a \in EndpointIds /\ transceivers'[a][mid] = transceivers[a][mid]
        BY <1>0, <1>10, <1>11 DEF Fresh
  <2>2. CASE b = e
        BY <1>2, <1>3, <1>16, <2>1, <2>2
  <2>3. CASE b # e
        BY <1>0, <1>1, <1>2, <2>1, <2>3 DEF IInv, PublishedIsMirrored
  <2> QED BY <2>2, <2>3
<1>18. PublishedIsTold'
  <2> SUFFICES ASSUME "dropped" \notin flaws',
                      NEW a \in Fresh, NEW b \in ready', a # b, NEW mid \in sendonly[a]
               PROVE  Mirror(a, mid) \in told'[b] \/ b \in renegotiation_needed'
      BY <1>1, <1>8 DEF PublishedIsTold
  <2>1. CASE b = e
    <3>1. Mirror(a, mid) \in New(e)
          BY <1>16, <2>1
    <3>2. ~CannotOffer(Opened(e))
          BY <3>1, OpenAction
    <3>3. told'[e] = DOMAIN Opened(e)
          BY <1>0, <3>1, <3>2, OpenAction DEF TypeOK
    <3> QED BY <1>3, <2>1, <3>1, <3>3
  <2>2. CASE b # e
    <3>1. "dropped" \notin flaws
          BY OpenAction
    <3>2. b \in ready /\ b \in EndpointIds
          BY <1>0, <1>1, <2>2
    <3>3. Mirror(a, mid) \in told[b] \/ b \in renegotiation_needed
          BY <3>1, <3>2 DEF IInv, PublishedIsTold
    <3> QED BY <1>1, <1>6, <2>2, <3>2, <3>3
  <2> QED BY <2>1, <2>2
<1> QED BY <1>7, <1>9, <1>12, <1>13, <1>14, <1>15, <1>17, <1>18 DEF IInv

(* What an offer adds to the history. *)
LEMMA FlawsFacts ==
    ASSUME TypeOK, NEW offer, NEW dropped \in BOOLEAN
    PROVE  /\ Flaws(offer, dropped) \subseteq {"senderless", "dropped"}
           /\ flaws \subseteq Flaws(offer, dropped)
           /\ "dropped" \in Flaws(offer, dropped) <=> dropped \/ "dropped" \in flaws
BY DEF Flaws, TypeOK

(* An offer over gRPC for an endpoint that is connected. *)
LEMMA AcceptStep ==
    ASSUME IInv, NEW e \in EndpointIds, NEW offer \in Offers(e),
           accept_offer_without_four_tuple(e, offer)
    PROVE  IInv'
<1>0. /\ TypeOK /\ e \in live /\ set_remote_description(e, offer)
      /\ renegotiation_needed' = Flagged(e, offer)
      /\ flaws' = Flaws(offer, FALSE)
      /\ UNCHANGED <<live, ready, joins, told, answer>>
      BY DEF IInv, accept_offer_without_four_tuple
<1>1. TypeOK'
  <2>1. Flagged(e, offer) \subseteq live
        BY <1>0 DEF TypeOK, Flagged
  <2>2. flaws' \subseteq {"senderless", "dropped"}
        BY <1>0, FlawsFacts
  <2>3. \A o \in EndpointIds : told'[o] \subseteq DOMAIN transceivers'[o]
        BY <1>0, RemoteType DEF TypeOK
  <2> QED BY <1>0, <2>1, <2>2, <2>3, RemoteType DEF TypeOK
<1>2. /\ AbsentHaveNothing' /\ PublishedIsReceived' /\ MirrorsHaveSource'
      /\ SendersAreKnown' /\ PublishedIsMirrored'
      BY <1>0, RemoteKeeps
<1>3. Fresh' = Fresh
      BY <1>0 DEF Fresh
<1>4. PublishedIsTold'
  <2> SUFFICES ASSUME "dropped" \notin flaws',
                      NEW a \in Fresh, NEW b \in ready, a # b, NEW mid \in sendonly'[a]
               PROVE  Mirror(a, mid) \in told[b] \/ b \in Flagged(e, offer)
      BY <1>0, <1>3 DEF PublishedIsTold
  <2>1. "dropped" \notin flaws
        BY <1>0, FlawsFacts
  <2> QED BY <1>0, <2>1, RemoteFlags
<1>5. OffersAreMade'
      BY <1>0, FlawsFacts DEF IInv, OffersAreMade
<1> QED BY <1>1, <1>2, <1>4, <1>5 DEF IInv

(* An offer over the data channel, with the offers to the peers. *)
LEMMA MessageStep ==
    ASSUME IInv, NEW e \in EndpointIds, NEW offer \in Offers(e),
           handle_datachannel_message(e, offer)
    PROVE  IInv'
<1> DEFINE ts == Applied(e, offer)
           peers == (Flagged(e, offer) \cap ready) \ {e}
           stuck == {p \in peers : CannotOffer(ts[p])}
<1>0. /\ TypeOK /\ e \in ready /\ ready \subseteq live /\ live \subseteq EndpointIds
      /\ set_remote_description(e, offer)
      /\ UNCHANGED <<live, ready, joins>>
      BY DEF IInv, TypeOK, handle_datachannel_message
<1>1. /\ e \in live
      /\ transceivers' = ts
      BY <1>0 DEF set_remote_description
(* The three outcomes. *)
<1>2. PICK outcome \in {"refused", "sent", "lost"} :
         /\ answer' = [answer EXCEPT ![e] = outcome]
         /\ outcome = "refused" =>
              /\ renegotiation_needed' = Flagged(e, offer)
              /\ told' = told
              /\ flaws' = Flaws(offer, FALSE)
         /\ outcome = "sent" =>
              /\ renegotiation_needed' = Flagged(e, offer) \ peers
              /\ told' = [p \in EndpointIds |-> IF p \in peers THEN DOMAIN ts[p] ELSE told[p]]
              /\ flaws' = Flaws(offer, FALSE)
         /\ outcome = "lost" =>
              /\ stuck # {}
              /\ renegotiation_needed' \subseteq Flagged(e, offer)
              /\ told' = told
              /\ flaws' = Flaws(offer, TRUE)
  <2> DEFINE directions == [mid \in DOMAIN offer |->
                              AnswerDirection(offer[mid].direction, ts[e][mid].direction)]
             refused == \E mid \in DOMAIN offer : Unwritable(directions[mid], ts[e][mid])
  <2>1. \/ /\ refused
           /\ answer' = [answer EXCEPT ![e] = "refused"]
           /\ renegotiation_needed' = Flagged(e, offer)
           /\ UNCHANGED told
           /\ flaws' = Flaws(offer, FALSE)
        \/ /\ ~refused /\ stuck = {}
           /\ answer' = [answer EXCEPT ![e] = "sent"]
           /\ renegotiation_needed' = Flagged(e, offer) \ peers
           /\ told' = [p \in EndpointIds |-> IF p \in peers THEN DOMAIN ts[p] ELSE told[p]]
           /\ flaws' = Flaws(offer, FALSE)
        \/ /\ ~refused /\ stuck # {}
           /\ answer' = [answer EXCEPT ![e] = "lost"]
           /\ \E done \in SUBSET (peers \ stuck), first \in stuck :
                 renegotiation_needed' = Flagged(e, offer) \ (done \cup {first})
           /\ UNCHANGED told
           /\ flaws' = Flaws(offer, TRUE)
        BY DEF handle_datachannel_message
  <2> HIDE DEF ts, peers, stuck, refused
  <2> QED BY <2>1
<1>3. PICK dropped \in BOOLEAN : /\ flaws' = Flaws(offer, dropped)
                                 /\ outcome # "lost" => ~dropped
      BY <1>2
<1>4. /\ AbsentHaveNothing' /\ PublishedIsReceived' /\ MirrorsHaveSource'
      /\ SendersAreKnown' /\ PublishedIsMirrored'
      BY <1>0, <1>1, <1>3, RemoteKeeps
<1>5. Fresh' = Fresh
      BY <1>0 DEF Fresh
<1> HIDE DEF ts, peers, stuck
<1>6. /\ DOMAIN told' = EndpointIds
      /\ \A o \in EndpointIds : told'[o] = told[o] \/ told'[o] = DOMAIN transceivers'[o]
      BY <1>0, <1>1, <1>2 DEF TypeOK
<1>7. TypeOK'
  <2>1. Flagged(e, offer) \subseteq live
        BY <1>0 DEF TypeOK, Flagged
  <2>2. renegotiation_needed' \subseteq live
        BY <1>2, <2>1
  <2>3. flaws' \subseteq {"senderless", "dropped"}
        BY <1>0, <1>3, FlawsFacts
  <2>4. \A o \in EndpointIds : told'[o] \subseteq DOMAIN transceivers'[o]
        BY <1>0, <1>6, RemoteType DEF TypeOK
  <2>5. answer' \in [EndpointIds -> {"none", "sent", "refused", "lost"}]
        BY <1>0, <1>2 DEF TypeOK
  <2> QED BY <1>0, <1>6, <2>2, <2>3, <2>4, <2>5, RemoteType DEF TypeOK
<1>8. PublishedIsTold'
  <2> SUFFICES ASSUME "dropped" \notin flaws',
                      NEW a \in Fresh, NEW b \in ready, a # b, NEW mid \in sendonly'[a]
               PROVE  Mirror(a, mid) \in told'[b] \/ b \in renegotiation_needed'
      BY <1>0, <1>5 DEF PublishedIsTold
  <2>1. "dropped" \notin flaws /\ outcome # "lost"
        BY <1>0, <1>2, <1>3, FlawsFacts
  <2>2. Mirror(a, mid) \in told[b] \/ b \in Flagged(e, offer)
        BY <1>0, <1>1, <2>1, RemoteFlags
  <2>3. CASE outcome = "refused"
        BY <1>2, <2>2, <2>3
  <2>4. CASE outcome = "sent"
    <3>1. b \in EndpointIds
          BY <1>0
    <3>2. CASE b \in peers
      <4>1. told'[b] = DOMAIN transceivers'[b]
            BY <1>1, <1>2, <2>4, <3>1, <3>2
      <4>2. Mirror(a, mid) \in DOMAIN transceivers'[b]
            BY <1>0, <1>4, <1>5 DEF PublishedIsMirrored
      <4> QED BY <4>1, <4>2
    <3>3. CASE b \notin peers
          BY <1>2, <2>2, <2>4, <3>1, <3>3
    <3> QED BY <3>2, <3>3
  <2> QED BY <2>1, <2>3, <2>4
<1>9. OffersAreMade'
  <2> SUFFICES ASSUME "senderless" \notin flaws', "dropped" \in flaws' PROVE FALSE
      BY DEF OffersAreMade
  <2>1. "dropped" \notin flaws
        BY <1>0, <1>3, FlawsFacts DEF IInv, OffersAreMade
  <2>2. outcome = "lost"
        BY <1>0, <1>3, <2>1, FlawsFacts
  <2>3. PICK p \in stuck : TRUE
        BY <1>2, <2>2
  <2>4. p \in EndpointIds /\ CannotOffer(transceivers'[p])
        BY <1>0, <1>1 DEF stuck, peers
  <2>5. \A mid \in DOMAIN transceivers'[p] : transceivers'[p][mid].sender # 0
        BY <1>4, <2>4 DEF SendersAreKnown
  <2> QED BY <2>4, <2>5, CanOffer
<1> QED BY <1>4, <1>7, <1>8, <1>9 DEF IInv

(* The inductive invariant holds in every reachable state. *)
THEOREM Invariance == Spec => []IInv
<1>1. Init => IInv
  <2> SUFFICES ASSUME Init PROVE IInv
      OBVIOUS
  <2>1. \A e \in EndpointIds : /\ DOMAIN transceivers[e] = {} /\ mids[e] \in [{} -> 1 .. 2]
                               /\ told[e] = {} /\ sendonly[e] = {}
        BY DEF Init, Empty
  <2>2. TypeOK
        BY <2>1, NegotiationAssumption DEF Init, TypeOK
  <2>3. live = {} /\ ready = {} /\ flaws = {}
        BY DEF Init
  <2> QED BY <2>1, <2>2, <2>3 DEF IInv, AbsentHaveNothing, PublishedIsReceived,
          MirrorsHaveSource, SendersAreKnown, PublishedIsMirrored, PublishedIsTold,
          OffersAreMade, Fresh
<1>2. IInv /\ [Next]_vars => IInv'
  <2> SUFFICES ASSUME IInv, [Next]_vars PROVE IInv'
      OBVIOUS
  <2>1. CASE UNCHANGED vars
        BY <2>1 DEF vars, IInv, TypeOK, AbsentHaveNothing, PublishedIsReceived,
           MirrorsHaveSource, SendersAreKnown, PublishedIsMirrored, PublishedIsTold,
           OffersAreMade, Fresh
  <2> QED BY <2>1, AddStep, RemoveStep, OpenStep, MessageStep, AcceptStep DEF Next
<1> QED BY <1>1, <1>2, PTL DEF Spec

(* The session is well typed in every reachable state: in particular the   *)
(* vector of mids names exactly the transceivers, and what an endpoint was *)
(* told it still has.                                                      *)
THEOREM TypeCorrect == Spec => []TypeOK
<1>1. IInv => TypeOK
      BY DEF IInv
<1> QED BY <1>1, Invariance, PTL

(* Whoever publishes, joins, leaves or comes back, the track of an         *)
(* endpoint's first connection is mirrored, with its sender, at every      *)
(* endpoint whose data channel is open.                                    *)
THEOREM Mirroring == Spec => []PublishedIsMirrored
<1>1. IInv => PublishedIsMirrored
      BY DEF IInv
<1> QED BY <1>1, Invariance, PTL

(* No published track is forgotten: unless an error of create_offer        *)
(* dropped offers, each peer was offered it or has its flag set.           *)
THEOREM Telling == Spec => []PublishedIsTold
<1>1. IInv => PublishedIsTold
      BY DEF IInv
<1> QED BY <1>1, Invariance, PTL

(* Offers to peers fail only after a section without a sender was offered. *)
THEOREM OffersMade == Spec => []OffersAreMade
<1>1. IInv => OffersAreMade
      BY DEF IInv
<1> QED BY <1>1, Invariance, PTL
=============================================================================
