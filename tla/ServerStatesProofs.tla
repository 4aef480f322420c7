------------------------- MODULE ServerStatesProofs -------------------------
(***************************************************************************)
(* Proofs about ServerStates for every set of sessions, endpoints, four    *)
(* tuples and user names and every timeout.                                *)
(***************************************************************************)
EXTENDS ServerStates, TLAPS

(* The inductive invariant.  The index is exact only while no socket is    *)
(* taken over by another endpoint, and the sweep, which removes through    *)
(* the index, reaches every idle transport only if the index is exact.     *)
IInv ==
    /\ TypeOK
    /\ EndpointsAreConnected
    /\ ~Rebind => IndexIsExact /\ AgesFollowPhase

-----------------------------------------------------------------------------
(* remove_transport keeps the types of the maps it changes. *)
LEMMA RemoveType ==
    ASSUME TypeOK, NEW fts, remove_transport(fts)
    PROVE  /\ sessions' \subseteq SessionIds
           /\ sessionEndpoints' \subseteq Owners
           /\ DOMAIN transports' \subseteq Keys
           /\ \A k \in DOMAIN transports' : transports'[k] \in Transport
           /\ DOMAIN candidates' \subseteq UserNames
           /\ \A u \in DOMAIN candidates' : candidates'[u] \in Owners
           /\ DOMAIN endpoints' \subseteq FourTuples
           /\ \A ft \in DOMAIN endpoints' : endpoints'[ft] \in Owners
<1>1. /\ sessions' \subseteq sessions
      /\ sessionEndpoints' \subseteq sessionEndpoints
      BY DEF remove_transport
<1>2. /\ DOMAIN transports' \subseteq DOMAIN transports
      /\ \A k \in DOMAIN transports' : transports'[k] = transports[k]
      BY DEF remove_transport, Without
<1>3. /\ DOMAIN candidates' \subseteq DOMAIN candidates
      /\ \A u \in DOMAIN candidates' : candidates'[u] = candidates[u]
      BY DEF remove_transport, Without
<1>4. /\ DOMAIN endpoints' \subseteq DOMAIN endpoints
      /\ \A ft \in DOMAIN endpoints' : endpoints'[ft] = endpoints[ft]
      BY DEF remove_transport, Without
<1> QED BY <1>1, <1>2, <1>3, <1>4 DEF TypeOK

(* Every handler preserves the types. *)
LEMMA TypeStep == TypeOK /\ [Next]_vars => TypeOK'
<1> SUFFICES ASSUME TypeOK, [Next]_vars PROVE TypeOK'
    OBVIOUS
<1> USE TimingAssumption
<1>1. CASE UNCHANGED vars
      BY <1>1 DEF TypeOK, vars
<1>2. ASSUME NEW o \in Owners, NEW u \in UserNames, accept_offer(o, u)
      PROVE  TypeOK'
  <2>1. o[1] \in SessionIds
        BY DEF Owners
  <2> QED BY <1>2, <2>1 DEF TypeOK, accept_offer, Put
<1>3. ASSUME NEW o \in Owners, accept_offer_fails(o)
      PROVE  TypeOK'
  <2>1. o[1] \in SessionIds
        BY DEF Owners
  <2> QED BY <1>3, <2>1 DEF TypeOK, accept_offer_fails
<1>4. ASSUME NEW u \in UserNames, NEW ft \in FourTuples, handle_stun_message(u, ft)
      PROVE  TypeOK'
  <2> DEFINE o == candidates[u]
             t == [username |-> u, age |-> 0, srtp |-> FALSE]
  <2>1. o \in Owners /\ <<o, ft>> \in Keys
        BY <1>4 DEF TypeOK, handle_stun_message, check_stun_message, add_endpoint,
            Session_add_endpoint, Keys
  <2>2. t \in Transport
        BY DEF Transport, AgeCap
  <2>3. /\ transports' = Put(transports, <<o, ft>>, t)
        /\ endpoints' = Put(endpoints, ft, o)
        /\ sessionEndpoints' = sessionEndpoints \cup {o}
        /\ UNCHANGED <<sessions, candidates, phase>>
        BY <1>4 DEF handle_stun_message, check_stun_message, add_endpoint,
            Session_add_endpoint
  <2> HIDE DEF o, t
  <2> QED BY <2>1, <2>2, <2>3 DEF TypeOK, Put
<1>5. ASSUME NEW ft \in FourTuples, handshake_complete(ft)
      PROVE  TypeOK'
  <2>1. \A k \in DOMAIN transports : [transports[k] EXCEPT !.srtp = TRUE] \in Transport
        BY DEF TypeOK, Transport
  <2> QED BY <1>5, <2>1 DEF TypeOK, handshake_complete
<1>6. ASSUME NEW ft \in FourTuples, alert_fatal_or_close(ft)
      PROVE  TypeOK'
      BY <1>6, RemoveType DEF TypeOK, alert_fatal_or_close
<1>7. ASSUME NEW ft \in FourTuples, keep_alive(ft)
      PROVE  TypeOK'
  <2>1. \A k \in DOMAIN transports : [transports[k] EXCEPT !.age = 0] \in Transport
        BY DEF TypeOK, Transport, AgeCap
  <2> QED BY <1>7, <2>1 DEF TypeOK, keep_alive
<1>8. CASE handle_timeout
      BY <1>8, RemoveType DEF TypeOK, handle_timeout
<1>9. CASE Tick
  <2>1. \A k \in DOMAIN transports :
           [transports[k] EXCEPT !.age = IF @ < AgeCap THEN @ + 1 ELSE @] \in Transport
        BY DEF TypeOK, Transport, AgeCap
  <2> QED BY <1>9, <2>1 DEF TypeOK, Tick
<1> QED BY <1>1, <1>2, <1>3, <1>4, <1>5, <1>6, <1>7, <1>8, <1>9
        DEF Next, handle_rtp_message, handle_rtcp_message

(* The empty registry is well typed. *)
LEMMA TypeInit == Init => TypeOK
BY TimingAssumption DEF Init, TypeOK

(* The registry is well typed in every reachable state. *)
THEOREM TypeCorrect == Spec => []TypeOK
BY TypeInit, TypeStep, PTL DEF Spec

-----------------------------------------------------------------------------
(* What remove_transport does, as the steps below use it: the transports   *)
(* reached through the index go, an endpoint goes exactly when none of its *)
(* transports is left, and an index entry goes only with its transport.    *)
LEMMA RemoveEffect ==
    ASSUME TypeOK, EndpointsAreConnected, NEW fts, remove_transport(fts)
    PROVE  LET gone == {KeyOf(ft) : ft \in fts \cap DOMAIN endpoints} \cap DOMAIN transports
           IN /\ DOMAIN transports' = DOMAIN transports \ gone
              /\ \A k \in DOMAIN transports' : transports'[k] = transports[k]
              /\ sessionEndpoints' =
                    {o \in sessionEndpoints : \E k \in DOMAIN transports' : k[1] = o}
              /\ DOMAIN endpoints' \subseteq DOMAIN endpoints
              /\ \A ft \in DOMAIN endpoints' : endpoints'[ft] = endpoints[ft]
              /\ \A ft \in DOMAIN endpoints \ DOMAIN endpoints' :
                    \E o \in Owners : <<o, ft>> \in gone
<1> DEFINE gone == {KeyOf(ft) : ft \in fts \cap DOMAIN endpoints} \cap DOMAIN transports
           emptied == {o \in sessionEndpoints :
                         /\ \E k \in gone : k[1] = o
                         /\ TransportsOf(o) \subseteq gone}
<1>1. /\ transports' = Without(transports, gone)
      /\ sessionEndpoints' = sessionEndpoints \ emptied
      BY DEF remove_transport
<1>2. PICK last \in [emptied -> FourTuples] :
         /\ \A o \in emptied : <<o, last[o]>> \in gone
         /\ endpoints' = Without(endpoints, {last[o] : o \in emptied})
      BY DEF remove_transport
<1>3. gone \subseteq DOMAIN transports
      OBVIOUS
<1>4. emptied \subseteq Owners
      BY DEF TypeOK
<1> HIDE DEF gone
<1>5. /\ DOMAIN transports' = DOMAIN transports \ gone
      /\ \A k \in DOMAIN transports' : transports'[k] = transports[k]
      BY <1>1 DEF Without
<1>6. ASSUME NEW o \in sessionEndpoints
      PROVE  o \in emptied <=> ~ \E k \in DOMAIN transports' : k[1] = o
  <2>1. TransportsOf(o) # {}
        BY DEF EndpointsAreConnected
  <2> QED BY <2>1, <1>3, <1>5 DEF TransportsOf
<1>7. sessionEndpoints' = {o \in sessionEndpoints : \E k \in DOMAIN transports' : k[1] = o}
      BY <1>1, <1>6
<1> HIDE DEF emptied
<1>8. /\ DOMAIN endpoints' \subseteq DOMAIN endpoints
      /\ \A ft \in DOMAIN endpoints' : endpoints'[ft] = endpoints[ft]
      /\ \A ft \in DOMAIN endpoints \ DOMAIN endpoints' :
            \E o \in Owners : <<o, ft>> \in gone
      BY <1>2, <1>4 DEF Without
<1> QED BY <1>5, <1>7, <1>8 DEF gone

(* remove_transport drops an endpoint with its last transport only. *)
LEMMA RemoveKeepsConnected ==
    ASSUME TypeOK, EndpointsAreConnected, NEW fts, remove_transport(fts)
    PROVE  EndpointsAreConnected'
<1>1. /\ \A k \in DOMAIN transports' : k \in DOMAIN transports
      /\ sessionEndpoints' =
            {o \in sessionEndpoints : \E k \in DOMAIN transports' : k[1] = o}
      BY RemoveEffect
<1>2. \A k \in DOMAIN transports' : k[1] \in sessionEndpoints'
      BY <1>1 DEF EndpointsAreConnected
<1>3. \A o \in sessionEndpoints' : TransportsOf(o)' # {}
      BY <1>1 DEF TransportsOf
<1>4. \A o \in sessionEndpoints' : o[1] \in sessions'
  <2>1. \A s \in sessions : (\E o \in sessionEndpoints' : o[1] = s) => s \in sessions'
        BY DEF remove_transport
  <2> QED BY <2>1, <1>1 DEF EndpointsAreConnected
<1> QED BY <1>2, <1>3, <1>4 DEF EndpointsAreConnected

(* remove_transport leaves an exact index for the transports that stay. *)
LEMMA RemoveKeepsIndex ==
    ASSUME TypeOK, EndpointsAreConnected, IndexIsExact, NEW fts, remove_transport(fts)
    PROVE  /\ IndexIsExact'
           /\ \A k \in DOMAIN transports : k[2] \in fts => k \notin DOMAIN transports'
<1> DEFINE gone == {KeyOf(ft) : ft \in fts \cap DOMAIN endpoints} \cap DOMAIN transports
<1>1. /\ DOMAIN transports' = DOMAIN transports \ gone
      /\ \A ft \in DOMAIN endpoints' : endpoints'[ft] = endpoints[ft]
      /\ \A ft \in DOMAIN endpoints \ DOMAIN endpoints' :
            \E o \in Owners : <<o, ft>> \in gone
      BY RemoveEffect
<1>2. \A k \in DOMAIN transports : k = <<k[1], k[2]>>
      BY DEF TypeOK, Keys
<1>3. \A k \in DOMAIN transports : k = KeyOf(k[2]) /\ k[2] \in DOMAIN endpoints
      BY <1>2 DEF IndexIsExact, Indexed, KeyOf
<1>4. \A k \in DOMAIN transports : k[2] \in fts => k \in gone
      BY <1>3
<1>5. gone \subseteq DOMAIN transports
      OBVIOUS
<1> HIDE DEF gone
<1>6. \A k \in DOMAIN transports' : k[2] \in DOMAIN endpoints'
  <2> SUFFICES ASSUME NEW k \in DOMAIN transports', k[2] \notin DOMAIN endpoints'
               PROVE  FALSE
      OBVIOUS
  <2>1. k \in DOMAIN transports /\ k \notin gone
        BY <1>1
  <2>2. PICK o \in Owners : <<o, k[2]>> \in gone
        BY <1>1, <1>3, <2>1
  <2>3. <<o, k[2]>> = KeyOf(k[2])
        BY <1>3, <1>5, <2>2
  <2> QED BY <1>3, <2>1, <2>2, <2>3
<1> QED BY <1>1, <1>4, <1>6 DEF IndexIsExact, Indexed

-----------------------------------------------------------------------------
(* Every handler preserves the nesting of the maps. *)
LEMMA ConnectedStep ==
    TypeOK /\ EndpointsAreConnected /\ [Next]_vars => EndpointsAreConnected'
<1> SUFFICES ASSUME TypeOK, EndpointsAreConnected, [Next]_vars
             PROVE  EndpointsAreConnected'
    OBVIOUS
<1>1. CASE UNCHANGED vars
      BY <1>1 DEF EndpointsAreConnected, TransportsOf, vars
<1>2. ASSUME NEW o \in Owners, NEW u \in UserNames, accept_offer(o, u)
      PROVE  EndpointsAreConnected'
      BY <1>2 DEF EndpointsAreConnected, TransportsOf, accept_offer
<1>3. ASSUME NEW o \in Owners, accept_offer_fails(o)
      PROVE  EndpointsAreConnected'
      BY <1>3 DEF EndpointsAreConnected, TransportsOf, accept_offer_fails
<1>4. ASSUME NEW u \in UserNames, NEW ft \in FourTuples, handle_stun_message(u, ft)
      PROVE  EndpointsAreConnected'
  <2> DEFINE o == candidates[u]
  <2>1. /\ DOMAIN transports' = DOMAIN transports \cup {<<o, ft>>}
        /\ sessionEndpoints' = sessionEndpoints \cup {o}
        /\ o[1] \in sessions /\ sessions' = sessions
        BY <1>4 DEF handle_stun_message, check_stun_message, add_endpoint,
            Session_add_endpoint, Put
  <2> HIDE DEF o
  <2>2. \A p \in sessionEndpoints' : \E k \in DOMAIN transports' : k[1] = p
    <3>1. <<o, ft>>[1] = o
          OBVIOUS
    <3>2. \A p \in sessionEndpoints : \E k \in DOMAIN transports : k[1] = p
          BY DEF EndpointsAreConnected, TransportsOf
    <3> QED BY <2>1, <3>1, <3>2
  <2>3. \A p \in sessionEndpoints' : p[1] \in sessions'
        BY <2>1 DEF EndpointsAreConnected
  <2>4. \A k \in DOMAIN transports' : k[1] \in sessionEndpoints'
        BY <2>1 DEF EndpointsAreConnected
  <2> QED BY <2>2, <2>3, <2>4 DEF EndpointsAreConnected, TransportsOf
<1>5. ASSUME NEW ft \in FourTuples, handshake_complete(ft)
      PROVE  EndpointsAreConnected'
      BY <1>5 DEF EndpointsAreConnected, TransportsOf, handshake_complete
<1>6. ASSUME NEW ft \in FourTuples, alert_fatal_or_close(ft)
      PROVE  EndpointsAreConnected'
      BY <1>6, RemoveKeepsConnected DEF alert_fatal_or_close
<1>7. ASSUME NEW ft \in FourTuples, keep_alive(ft)
      PROVE  EndpointsAreConnected'
      BY <1>7 DEF EndpointsAreConnected, TransportsOf, keep_alive
<1>8. CASE handle_timeout
      BY <1>8, RemoveKeepsConnected DEF handle_timeout
<1>9. CASE Tick
      BY <1>9 DEF EndpointsAreConnected, TransportsOf, Tick
<1> QED BY <1>1, <1>2, <1>3, <1>4, <1>5, <1>6, <1>7, <1>8, <1>9
        DEF Next, handle_rtp_message, handle_rtcp_message

(* Without rebinding, every handler preserves the exact index. *)
LEMMA IndexStep ==
    ASSUME ~Rebind, IInv, [Next]_vars
    PROVE  IndexIsExact' /\ AgesFollowPhase'
<1> USE TimingAssumption
<1>0. /\ TypeOK /\ EndpointsAreConnected
      /\ IndexIsExact /\ AgesFollowPhase
      BY DEF IInv
<1>t. /\ phase \in Nat
      /\ \A k \in DOMAIN transports : transports[k].age \in Nat
      BY <1>0 DEF TypeOK, Transport, AgeCap
<1>1. CASE UNCHANGED vars
      BY <1>0, <1>1 DEF IndexIsExact, Indexed, AgesFollowPhase, vars
<1>2. ASSUME NEW o \in Owners, NEW u \in UserNames, accept_offer(o, u)
      PROVE  IndexIsExact' /\ AgesFollowPhase'
      BY <1>0, <1>2 DEF IndexIsExact, Indexed, AgesFollowPhase, accept_offer
<1>3. ASSUME NEW o \in Owners, accept_offer_fails(o)
      PROVE  IndexIsExact' /\ AgesFollowPhase'
      BY <1>0, <1>3 DEF IndexIsExact, Indexed, AgesFollowPhase, accept_offer_fails
<1>4. ASSUME NEW u \in UserNames, NEW ft \in FourTuples, handle_stun_message(u, ft)
      PROVE  IndexIsExact' /\ AgesFollowPhase'
  <2> DEFINE o == candidates[u]
             t == [username |-> u, age |-> 0, srtp |-> FALSE]
  <2>1. /\ transports' = Put(transports, <<o, ft>>, t)
        /\ endpoints' = Put(endpoints, ft, o)
        /\ phase' = phase
        /\ \A k \in DOMAIN transports : k[2] = ft => k[1] = o
        BY <1>4 DEF handle_stun_message, check_stun_message, add_endpoint,
            Session_add_endpoint, MaySend
  <2>2. t.age = 0
        OBVIOUS
  <2> HIDE DEF o, t
  <2>3. IndexIsExact'
        BY <1>0, <2>1 DEF IndexIsExact, Indexed, Put
  <2>4. AgesFollowPhase'
        BY <1>0, <1>t, <2>1, <2>2 DEF AgesFollowPhase, Put
  <2> QED BY <2>3, <2>4
<1>5. ASSUME NEW ft \in FourTuples, handshake_complete(ft)
      PROVE  IndexIsExact' /\ AgesFollowPhase'
  <2>1. /\ DOMAIN transports' = DOMAIN transports
        /\ \A k \in DOMAIN transports : transports'[k].age = transports[k].age
        BY <1>0, <1>5 DEF handshake_complete, TypeOK, Transport
  <2> QED BY <1>0, <1>5, <2>1 DEF IndexIsExact, Indexed, AgesFollowPhase, handshake_complete
<1>6. ASSUME NEW ft \in FourTuples, alert_fatal_or_close(ft)
      PROVE  IndexIsExact' /\ AgesFollowPhase'
  <2>1. IndexIsExact'
        BY <1>0, <1>6, RemoveKeepsIndex DEF alert_fatal_or_close
  <2>2. \A k \in DOMAIN transports' : k \in DOMAIN transports /\ transports'[k] = transports[k]
        BY <1>0, <1>6, RemoveEffect DEF alert_fatal_or_close
  <2> QED BY <1>0, <1>6, <2>1, <2>2 DEF AgesFollowPhase, alert_fatal_or_close
<1>7. ASSUME NEW ft \in FourTuples, keep_alive(ft)
      PROVE  IndexIsExact' /\ AgesFollowPhase'
  <2>1. /\ DOMAIN transports' = DOMAIN transports
        /\ \A k \in DOMAIN transports :
              transports'[k].age = transports[k].age \/ transports'[k].age = 0
        BY <1>0, <1>7 DEF keep_alive, TypeOK, Transport
  <2> QED BY <1>0, <1>7, <1>t, <2>1 DEF IndexIsExact, Indexed, AgesFollowPhase, keep_alive
<1>8. CASE handle_timeout
  <2> DEFINE fts == {k[2] : k \in IdleKeys}
  <2>1. remove_transport(fts) /\ phase' = phase - IdleTimeout /\ phase >= IdleTimeout
        BY <1>8 DEF handle_timeout
  <2>2. IdleKeys \subseteq DOMAIN transports /\ \A k \in IdleKeys : k[2] \in fts
        BY DEF IdleKeys
  <2> HIDE DEF fts
  <2>3. IndexIsExact' /\ \A k \in IdleKeys : k \notin DOMAIN transports'
        BY <1>0, <2>1, <2>2, RemoveKeepsIndex
  <2>4. \A k \in DOMAIN transports' : k \in DOMAIN transports /\ transports'[k] = transports[k]
        BY <1>0, <2>1, RemoveEffect
  <2>5. \A k \in DOMAIN transports' : transports'[k].age < IdleTimeout
        BY <1>t, <2>3, <2>4 DEF IdleKeys
  <2>6. phase' \in Nat
        BY <1>t, <2>1
  <2>7. \A k \in DOMAIN transports' : transports'[k].age \in Nat
        BY <1>t, <2>4
  <2> QED BY <2>3, <2>5, <2>6, <2>7 DEF AgesFollowPhase
<1>9. CASE Tick
  <2>1. /\ DOMAIN transports' = DOMAIN transports
        /\ \A k \in DOMAIN transports :
              transports'[k].age = transports[k].age \/ transports'[k].age = transports[k].age + 1
        BY <1>0, <1>9 DEF Tick, TypeOK, Transport
  <2>2. phase' = phase + 1 /\ endpoints' = endpoints
        BY <1>9 DEF Tick
  <2>3. IndexIsExact'
        BY <1>0, <2>1, <2>2 DEF IndexIsExact, Indexed
  <2>4. AgesFollowPhase'
        BY <1>0, <1>t, <2>1, <2>2 DEF AgesFollowPhase
  <2> QED BY <2>3, <2>4
<1> QED BY <1>1, <1>2, <1>3, <1>4, <1>5, <1>6, <1>7, <1>8, <1>9
        DEF Next, handle_rtp_message, handle_rtcp_message

(* The inductive invariant holds in every reachable state. *)
THEOREM Invariance == Spec => []IInv
<1>1. Init => IInv
  <2> SUFFICES ASSUME Init PROVE IInv
      OBVIOUS
  <2>1. TypeOK
        BY TypeInit
  <2> QED BY <2>1 DEF Init, IInv, EndpointsAreConnected, IndexIsExact, Indexed, AgesFollowPhase
<1>2. IInv /\ [Next]_vars => IInv'
  <2> SUFFICES ASSUME IInv, [Next]_vars PROVE IInv'
      OBVIOUS
  <2>1. TypeOK /\ EndpointsAreConnected
        BY DEF IInv
  <2>2. TypeOK' /\ EndpointsAreConnected'
        BY <2>1, TypeStep, ConnectedStep
  <2>3. ~Rebind => IndexIsExact' /\ AgesFollowPhase'
        BY IndexStep
  <2> QED BY <2>2, <2>3 DEF IInv
<1> QED BY <1>1, <1>2, PTL DEF Spec

(* No endpoint outlives its last transport and no transport its endpoint   *)
(* or session, whatever sockets the clients use.                           *)
THEOREM Connected == Spec => []EndpointsAreConnected
<1>1. IInv => EndpointsAreConnected
      BY DEF IInv
<1> QED BY <1>1, Invariance, PTL

(* While no socket is taken over by another endpoint, every transport is   *)
(* found through the index that all the handlers use.                      *)
THEOREM IndexExact == ~Rebind => (Spec => []IndexIsExact)
<1> SUFFICES ASSUME ~Rebind PROVE Spec => []IndexIsExact
    OBVIOUS
<1>1. IInv => IndexIsExact
      BY DEF IInv
<1> QED BY <1>1, Invariance, PTL

(* Under the same condition media leaves only under the keys of other      *)
(* endpoints of the sender's session.                                      *)
THEOREM ForwardingConfined == ~Rebind => (Spec => []ForwardingStaysInSession)
<1> SUFFICES ASSUME ~Rebind PROVE Spec => []ForwardingStaysInSession
    OBVIOUS
<1>1. IInv => ForwardingStaysInSession
  <2> SUFFICES ASSUME IInv, NEW ft \in FourTuples, Resolves(ft),
                      NEW to \in OtherMediaTransports(ft)
               PROVE  /\ Resolves(to)
                      /\ endpoints[to][1] = endpoints[ft][1]
                      /\ endpoints[to] # endpoints[ft]
      BY DEF ForwardingStaysInSession
  <2>1. PICK k \in DOMAIN transports :
           k[2] = to /\ k[1][1] = endpoints[ft][1] /\ k[1] # endpoints[ft]
        BY DEF OtherMediaTransports
  <2>2. k = <<k[1], k[2]>>
        BY DEF IInv, TypeOK, Keys
  <2>3. to \in DOMAIN endpoints /\ endpoints[to] = k[1]
        BY <2>1 DEF IInv, IndexIsExact, Indexed
  <2> QED BY <2>1, <2>2, <2>3 DEF Resolves
<1> QED BY <1>1, Invariance, PTL

(* Under the same condition a transport without media is removed before    *)
(* two idle timeouts and the delay of the event loop have passed.          *)
THEOREM IdleExpire == ~Rebind => (Spec => []IdleTransportsExpire)
<1> SUFFICES ASSUME ~Rebind PROVE Spec => []IdleTransportsExpire
    OBVIOUS
<1>1. IInv => IdleTransportsExpire
  <2> SUFFICES ASSUME IInv, NEW k \in DOMAIN transports
               PROVE  transports[k].age < AgeCap
      BY DEF IdleTransportsExpire
  <2>1. /\ transports[k].age \in Nat
        /\ phase \in 0 .. IdleTimeout + MaxDelay
        BY TimingAssumption DEF IInv, TypeOK, Transport, AgeCap
  <2>2. transports[k].age < IdleTimeout + phase
        BY DEF IInv, AgesFollowPhase
  <2> QED BY <2>1, <2>2, TimingAssumption DEF AgeCap
<1> QED BY <1>1, Invariance, PTL

(* Without rebinding, no transport is older than the idle timeout and the  *)
(* time since the last sweep, because the sweep reaches every idle one.    *)
THEOREM AgesBounded == ~Rebind => (Spec => []AgesFollowPhase)
<1> SUFFICES ASSUME ~Rebind PROVE Spec => []AgesFollowPhase
    OBVIOUS
<1>1. IInv => AgesFollowPhase
      BY DEF IInv
<1> QED BY <1>1, Invariance, PTL

-----------------------------------------------------------------------------
(* Only an alert and the sweep remove anything. *)
LEMMA GrowsOrRemoves ==
    ASSUME [Next]_vars
    PROVE  \/ /\ sessions \subseteq sessions'
              /\ DOMAIN transports \subseteq DOMAIN transports'
              /\ DOMAIN candidates \subseteq DOMAIN candidates'
           \/ \E ft \in FourTuples : alert_fatal_or_close(ft)
           \/ handle_timeout
<1> DEFINE Grows == /\ sessions \subseteq sessions'
                    /\ DOMAIN transports \subseteq DOMAIN transports'
                    /\ DOMAIN candidates \subseteq DOMAIN candidates'
<1>1. CASE UNCHANGED vars
      BY <1>1 DEF vars
<1>2. ASSUME NEW o \in Owners, NEW u \in UserNames, accept_offer(o, u) PROVE Grows
      BY <1>2 DEF accept_offer, Put
<1>3. ASSUME NEW o \in Owners, accept_offer_fails(o) PROVE Grows
      BY <1>3 DEF accept_offer_fails
<1>4. ASSUME NEW u \in UserNames, NEW ft \in FourTuples, handle_stun_message(u, ft) PROVE Grows
      BY <1>4 DEF handle_stun_message, add_endpoint, Session_add_endpoint, Put
<1>5. ASSUME NEW ft \in FourTuples, handshake_complete(ft) PROVE Grows
      BY <1>5 DEF handshake_complete
<1>6. ASSUME NEW ft \in FourTuples, keep_alive(ft) PROVE Grows
      BY <1>6 DEF keep_alive
<1>7. CASE Tick
      BY <1>7 DEF Tick
<1> QED BY <1>1, <1>2, <1>3, <1>4, <1>5, <1>6, <1>7
        DEF Next, handle_rtp_message, handle_rtcp_message

(* A session is removed only with its last endpoint: remove_transport      *)
(* looks at the session's endpoints after it has removed the empty one.    *)
THEOREM SessionKept == Spec => SessionGoesWithLastEndpoint
<1>1. [Next]_vars =>
        [\A s \in sessions : s \notin sessions' =>
            /\ \E o \in sessionEndpoints : o[1] = s
            /\ \A o \in sessionEndpoints' : o[1] # s]_vars
  <2> SUFFICES ASSUME [Next]_vars, NEW s \in sessions, s \notin sessions'
               PROVE  /\ \E o \in sessionEndpoints : o[1] = s
                      /\ \A o \in sessionEndpoints' : o[1] # s
      OBVIOUS
  <2>1. PICK fts : remove_transport(fts)
        BY GrowsOrRemoves DEF alert_fatal_or_close, handle_timeout
  <2> DEFINE gone == {KeyOf(ft) : ft \in fts \cap DOMAIN endpoints} \cap DOMAIN transports
             emptied == {o \in sessionEndpoints :
                           /\ \E k \in gone : k[1] = o
                           /\ TransportsOf(o) \subseteq gone}
  <2>2. /\ sessionEndpoints' = sessionEndpoints \ emptied
        /\ sessions' = {x \in sessions : \/ \A o \in emptied : o[1] # x
                                         \/ \E o \in sessionEndpoints \ emptied : o[1] = x}
        BY <2>1 DEF remove_transport
  <2>3. emptied \subseteq sessionEndpoints
        OBVIOUS
  <2> HIDE DEF emptied
  <2> QED BY <2>2, <2>3
<1> QED BY <1>1, PTL DEF Spec, SessionGoesWithLastEndpoint

(* A candidate is forgotten exactly with a transport made from it.  The    *)
(* proof needs no invariant, so this holds with rebinding, too.            *)
THEOREM CandidateKept == Spec => CandidateGoesWithTransport
<1>1. [Next]_vars =>
        [\A u \in DOMAIN candidates :
            u \notin DOMAIN candidates' <=>
               \E k \in DOMAIN transports :
                   transports[k].username = u /\ k \notin DOMAIN transports']_vars
  <2> SUFFICES ASSUME [Next]_vars, NEW u \in DOMAIN candidates
               PROVE  u \notin DOMAIN candidates' <=>
                        \E k \in DOMAIN transports :
                            transports[k].username = u /\ k \notin DOMAIN transports'
      OBVIOUS
  <2>1. CASE /\ DOMAIN transports \subseteq DOMAIN transports'
             /\ DOMAIN candidates \subseteq DOMAIN candidates'
        BY <2>1
  <2>2. ASSUME NEW fts, remove_transport(fts)
        PROVE  u \notin DOMAIN candidates' <=>
                 \E k \in DOMAIN transports :
                     transports[k].username = u /\ k \notin DOMAIN transports'
    <3> DEFINE gone == {KeyOf(ft) : ft \in fts \cap DOMAIN endpoints} \cap DOMAIN transports
    <3>1. /\ transports' = Without(transports, gone)
          /\ candidates' = Without(candidates, {transports[k].username : k \in gone})
          /\ gone \subseteq DOMAIN transports
          BY <2>2 DEF remove_transport
    <3> HIDE DEF gone
    <3>2. /\ DOMAIN transports' = DOMAIN transports \ gone
          /\ DOMAIN candidates' = DOMAIN candidates \ {transports[k].username : k \in gone}
          BY <3>1 DEF Without
    <3> QED BY <3>1, <3>2
  <2> QED BY <2>1, <2>2, GrowsOrRemoves DEF alert_fatal_or_close, handle_timeout
<1> QED BY <1>1, PTL DEF Spec, CandidateGoesWithTransport

(* remove_transport takes away what the index leads to, and nothing else.  *)
LEMMA RemovedThroughIndex ==
    ASSUME NEW fts, remove_transport(fts), NEW x \in DOMAIN transports,
           x \notin DOMAIN transports'
    PROVE  \E ft \in fts : x = KeyOf(ft)
<1> DEFINE gone == {KeyOf(ft) : ft \in fts \cap DOMAIN endpoints} \cap DOMAIN transports
<1>1. transports' = Without(transports, gone)
      BY DEF remove_transport
<1>2. x \in gone
      BY <1>1 DEF Without
<1> QED BY <1>2

(* So a transport goes because the four tuple of an idle one leads to it,  *)
(* or alone by its peer's alert.                                           *)
LEMMA RemovedBySweepOrPeer ==
    ASSUME [Next]_vars, NEW k \in DOMAIN transports, k \notin DOMAIN transports'
    PROVE  \/ \E x \in IdleKeys : k = KeyOf(x[2])
           \/ /\ phase' = phase
              /\ \A x \in DOMAIN transports : x # k => x \in DOMAIN transports'
<1>1. ASSUME NEW ft \in FourTuples, alert_fatal_or_close(ft)
      PROVE  /\ phase' = phase
             /\ \A x \in DOMAIN transports : x # k => x \in DOMAIN transports'
  <2>1. remove_transport({ft}) /\ phase' = phase
        BY <1>1 DEF alert_fatal_or_close
  <2>2. \A x \in DOMAIN transports : x \notin DOMAIN transports' => x = KeyOf(ft)
        BY <2>1, RemovedThroughIndex
  <2> QED BY <2>1, <2>2
<1>2. ASSUME handle_timeout
      PROVE  \E x \in IdleKeys : k = KeyOf(x[2])
  <2> DEFINE fts == {x[2] : x \in IdleKeys}
  <2>1. remove_transport(fts)
        BY <1>2 DEF handle_timeout
  <2>2. \E ft \in fts : k = KeyOf(ft)
    <3> HIDE DEF fts
    <3> QED BY <2>1, RemovedThroughIndex
  <2> QED BY <2>2
<1> QED BY <1>1, <1>2, GrowsOrRemoves

(* While no socket is taken over, a transport is removed only when it was  *)
(* idle or alone: remove_transport goes through the index, and the index   *)
(* leads from an idle transport's four tuple to that transport and to no   *)
(* other.                                                                  *)
THEOREM OnlyIdleOrClosed == ~Rebind => (Spec => OnlyIdleOrClosedRemoved)
<1> SUFFICES ASSUME ~Rebind PROVE Spec => OnlyIdleOrClosedRemoved
    OBVIOUS
<1>1. IInv /\ [Next]_vars =>
        [\A k \in DOMAIN transports :
            k \notin DOMAIN transports' =>
               \/ transports[k].age >= IdleTimeout
               \/ /\ phase' = phase
                  /\ \A x \in DOMAIN transports : x # k => x \in DOMAIN transports']_vars
  <2> SUFFICES ASSUME IInv, [Next]_vars, NEW k \in DOMAIN transports,
                      k \notin DOMAIN transports'
               PROVE  \/ transports[k].age >= IdleTimeout
                      \/ /\ phase' = phase
                         /\ \A x \in DOMAIN transports : x # k => x \in DOMAIN transports'
      OBVIOUS
  <2>1. ASSUME NEW x \in IdleKeys, k = KeyOf(x[2])
        PROVE  transports[k].age >= IdleTimeout
    <3>1. x \in DOMAIN transports /\ transports[x].age >= IdleTimeout
          BY DEF IdleKeys
    <3>2. x = <<x[1], x[2]>> /\ endpoints[x[2]] = x[1]
          BY <3>1 DEF IInv, TypeOK, Keys, IndexIsExact, Indexed
    <3>3. k = x
          BY <2>1, <3>2 DEF KeyOf
    <3> QED BY <3>1, <3>3
  <2> QED BY <2>1, RemovedBySweepOrPeer
<1> QED BY <1>1, Invariance, PTL DEF Spec, OnlyIdleOrClosedRemoved

(* Only a new transport of another endpoint on the same four tuple takes a *)
(* transport out of the index.                                             *)
LEMMA LeavesIndexByTakeover ==
    ASSUME TypeOK, EndpointsAreConnected, [Next]_vars,
           NEW k \in DOMAIN transports', ~Indexed(k)'
    PROVE  /\ k \in DOMAIN transports
           /\ Indexed(k) => \E o \in Owners :
                 o # k[1] /\ <<o, k[2]>> \in DOMAIN transports' \ DOMAIN transports
<1> DEFINE Goal == /\ k \in DOMAIN transports
                   /\ Indexed(k) => \E o \in Owners :
                        o # k[1] /\ <<o, k[2]>> \in DOMAIN transports' \ DOMAIN transports
<1>1. ASSUME DOMAIN transports' = DOMAIN transports, endpoints' = endpoints
      PROVE  Goal
      BY <1>1 DEF Indexed
<1>2. ASSUME NEW u \in UserNames, NEW ft \in FourTuples, handle_stun_message(u, ft)
      PROVE  Goal
  <2> DEFINE o == candidates[u]
  <2>1. /\ o \in Owners /\ <<o, ft>> \notin DOMAIN transports
        /\ DOMAIN transports' = DOMAIN transports \cup {<<o, ft>>}
        /\ endpoints' = Put(endpoints, ft, o)
        BY <1>2 DEF handle_stun_message, check_stun_message, add_endpoint,
            Session_add_endpoint, Put, TypeOK
  <2> HIDE DEF o
  <2>2. k # <<o, ft>>
    <3>1. k = <<o, ft>> => k[1] = o /\ k[2] = ft
          OBVIOUS
    <3> QED BY <2>1, <3>1 DEF Indexed, Put
  <2>3. k \in DOMAIN transports
        BY <2>1, <2>2
  <2>4. k = <<k[1], k[2]>>
        BY <2>3 DEF TypeOK, Keys
  <2>5. ASSUME Indexed(k)
        PROVE  k[2] = ft /\ o # k[1]
        BY <2>1, <2>2, <2>4, <2>5 DEF Indexed, Put
  <2>6. k[2] = ft => <<o, k[2]>> \in DOMAIN transports' \ DOMAIN transports
        BY <2>1
  <2> QED BY <2>1, <2>3, <2>5, <2>6
<1>3. ASSUME NEW fts, remove_transport(fts)
      PROVE  Goal
  <2> DEFINE gone == {KeyOf(ft) : ft \in fts \cap DOMAIN endpoints} \cap DOMAIN transports
  <2>1. /\ DOMAIN transports' = DOMAIN transports \ gone
        /\ \A ft \in DOMAIN endpoints' : endpoints'[ft] = endpoints[ft]
        /\ \A ft \in DOMAIN endpoints \ DOMAIN endpoints' :
              \E o \in Owners : <<o, ft>> \in gone
        BY <1>3, RemoveEffect
  <2>2. k \in DOMAIN transports /\ k \notin gone
        BY <2>1
  <2>3. k = <<k[1], k[2]>>
        BY <2>2 DEF TypeOK, Keys
  <2>4. ASSUME Indexed(k)
        PROVE  FALSE
    <3>1. k[2] \in DOMAIN endpoints \ DOMAIN endpoints' /\ endpoints[k[2]] = k[1]
          BY <2>1, <2>4 DEF Indexed
    <3>2. PICK o \in Owners : <<o, k[2]>> \in gone
          BY <2>1, <3>1
    <3>3. <<o, k[2]>> = KeyOf(k[2])
      <4>1. PICK ft \in fts : <<o, k[2]>> = <<endpoints[ft], ft>>
            BY <3>2 DEF KeyOf
      <4>2. k[2] = ft
            BY <4>1
      <4> QED BY <4>1, <4>2 DEF KeyOf
    <3> HIDE DEF gone
    <3> QED BY <2>2, <2>3, <3>1, <3>2, <3>3 DEF KeyOf
  <2> QED BY <2>2, <2>4
<1> QED BY <1>1, <1>2, <1>3
        DEF Next, vars, accept_offer, accept_offer_fails, handshake_complete, keep_alive,
            alert_fatal_or_close, handle_rtp_message, handle_rtcp_message, handle_timeout, Tick

(* Whatever sockets the clients use, and so with rebinding, too: what a    *)
(* takeover does to the transports of others is confined to its socket.    *)
THEOREM TakeoverConfined == Spec => TakeoverIsConfined
<1>1. IInv /\ [Next]_vars =>
        [/\ \A k \in DOMAIN transports' : ~Indexed(k)' =>
              /\ k \in DOMAIN transports
              /\ Indexed(k) => \E o \in Owners :
                    o # k[1] /\ <<o, k[2]>> \in DOMAIN transports' \ DOMAIN transports
         /\ \A k \in DOMAIN transports : k \notin DOMAIN transports' =>
              \/ \E x \in IdleKeys : x[2] = k[2]
              \/ /\ phase' = phase
                 /\ \A x \in DOMAIN transports : x # k => x \in DOMAIN transports']_vars
  <2> SUFFICES ASSUME IInv, [Next]_vars
               PROVE  /\ \A k \in DOMAIN transports' : ~Indexed(k)' =>
                            /\ k \in DOMAIN transports
                            /\ Indexed(k) => \E o \in Owners :
                                  /\ o # k[1]
                                  /\ <<o, k[2]>> \in DOMAIN transports' \ DOMAIN transports
                      /\ \A k \in DOMAIN transports : k \notin DOMAIN transports' =>
                            \/ \E x \in IdleKeys : x[2] = k[2]
                            \/ /\ phase' = phase
                               /\ \A x \in DOMAIN transports : x # k => x \in DOMAIN transports'
      OBVIOUS
  <2>1. TypeOK /\ EndpointsAreConnected
        BY DEF IInv
  <2>2. \A k, x : k = KeyOf(x[2]) => x[2] = k[2]
        BY DEF KeyOf
  <2> QED BY <2>1, <2>2, LeavesIndexByTakeover, RemovedBySweepOrPeer
<1> QED BY <1>1, Invariance, PTL DEF Spec, TakeoverIsConfined
=============================================================================
