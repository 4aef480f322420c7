----------------------- MODULE ServerStatesRefinement -----------------------
(***************************************************************************)
(* ServerStates implements Connections: without rebinding, the registry    *)
(* behind get_mut_transport is a flat table of connected sockets.          *)
(***************************************************************************)
EXTENDS ServerStatesProofs

(* The table that the refinement mapping of C computes. *)
Table == [ft \in {x \in FourTuples : Resolves(x)} |->
            [owner |-> endpoints[ft],
             age   |-> transports[KeyOf(ft)].age,
             srtp  |-> transports[KeyOf(ft)].srtp]]

(* The entry of a connected socket. *)
Row(ft) == [owner |-> endpoints[ft],
            age   |-> transports[KeyOf(ft)].age,
            srtp  |-> transports[KeyOf(ft)].srtp]

(* The rows of the table are what the index finds. *)
LEMMA TableRows ==
    /\ DOMAIN Table = {x \in FourTuples : Resolves(x)}
    /\ \A ft \in DOMAIN Table : Table[ft] = Row(ft)
BY DEF Table, Row

(* The table after a step, from its sockets and their entries. *)
LEMMA NextTable ==
    ASSUME NEW T, T = [x \in DOMAIN T |-> T[x]],
           \A x : x \in DOMAIN T <=> x \in FourTuples /\ Resolves(x)',
           \A x \in DOMAIN T : Row(x)' = T[x]
    PROVE  Table' = T
<1>1. Table' = [ft \in {x \in FourTuples : Resolves(x)'} |-> Row(ft)']
      BY DEF Table, Row
<1>2. {x \in FourTuples : Resolves(x)'} = DOMAIN T
      OBVIOUS
<1> QED BY <1>1, <1>2

(* A binding request that is acted on connects a socket that was free. *)
LEMMA StunConnects ==
    ASSUME TypeOK, ~Rebind, NEW u \in UserNames, NEW ft \in FourTuples,
           handle_stun_message(u, ft)
    PROVE  /\ ft \notin DOMAIN Table
           /\ \E o \in Owners :
                Table' = [x \in DOMAIN Table \cup {ft} |->
                            IF x = ft THEN [owner |-> o, age |-> 0, srtp |-> FALSE]
                            ELSE Table[x]]
<1> DEFINE o == candidates[u]
           t == [username |-> u, age |-> 0, srtp |-> FALSE]
<1>1. /\ transports' = Put(transports, <<o, ft>>, t)
      /\ endpoints' = Put(endpoints, ft, o)
      /\ o \in Owners
      BY DEF TypeOK, handle_stun_message, check_stun_message, add_endpoint,
          Session_add_endpoint
<1>2. \A k \in DOMAIN transports : k[2] # ft
  <2>1. \A k \in DOMAIN transports : k[2] = ft => k[1] = o
        BY DEF handle_stun_message, MaySend
  <2>2. <<o, ft>> \notin DOMAIN transports
        BY DEF handle_stun_message, add_endpoint
  <2>3. \A k \in DOMAIN transports : k = <<k[1], k[2]>>
        BY DEF TypeOK, Keys
  <2> QED BY <2>1, <2>2, <2>3
<1>3. ~Resolves(ft)
      BY <1>2 DEF Resolves
<1> HIDE DEF o
<1>4. /\ DOMAIN transports' = DOMAIN transports \cup {<<o, ft>>}
      /\ transports'[<<o, ft>>] = t
      /\ \A k \in DOMAIN transports : k # <<o, ft>> => transports'[k] = transports[k]
      /\ DOMAIN endpoints' = DOMAIN endpoints \cup {ft}
      /\ endpoints'[ft] = o
      /\ \A x \in DOMAIN endpoints : x # ft => endpoints'[x] = endpoints[x]
      BY <1>1 DEF Put
<1>5. \A x \in FourTuples : Resolves(x)' <=> x = ft \/ Resolves(x)
      BY <1>3, <1>4 DEF Resolves
<1>6. Row(ft)' = [owner |-> o, age |-> 0, srtp |-> FALSE]
  <2>1. KeyOf(ft)' = <<o, ft>>
        BY <1>4 DEF KeyOf
  <2>2. transports'[KeyOf(ft)'] = t
        BY <1>4, <2>1
  <2>3. transports'[KeyOf(ft)'].age = 0
        BY <2>2
  <2>4. transports'[KeyOf(ft)'].srtp = FALSE
        BY <2>2
  <2>5. Row(ft)' = [owner |-> endpoints'[ft],
                    age   |-> transports'[KeyOf(ft)'].age,
                    srtp  |-> transports'[KeyOf(ft)'].srtp]
        BY DEF Row
  <2> QED BY <1>4, <2>3, <2>4, <2>5
<1>7. \A x \in FourTuples : x # ft /\ Resolves(x) => Row(x)' = Row(x)
      BY <1>4 DEF Row, KeyOf, Resolves
<1>8. /\ DOMAIN Table = {x \in FourTuples : Resolves(x)}
      /\ \A x \in DOMAIN Table : Table[x] = Row(x)
      BY TableRows
<1> DEFINE T == [x \in DOMAIN Table \cup {ft} |->
                   IF x = ft THEN [owner |-> o, age |-> 0, srtp |-> FALSE] ELSE Table[x]]
<1>9. \A x : x \in DOMAIN T <=> x \in FourTuples /\ Resolves(x)'
      BY <1>5, <1>8
<1>10. \A x \in DOMAIN T : Row(x)' = T[x]
      BY <1>6, <1>7, <1>8
<1>11. Table' = T
  <2>1. T = [x \in DOMAIN T |-> T[x]]
        OBVIOUS
  <2> HIDE DEF T
  <2> QED BY <1>9, <1>10, <2>1, NextTable
<1> QED BY <1>1, <1>3, <1>8, <1>11

(* A step that leaves transports and index alone leaves the table alone.   *)
LEMMA TableUnchanged ==
    ASSUME UNCHANGED <<transports, endpoints>>
    PROVE  Table' = Table
BY DEF Table, Resolves, KeyOf

(* What a lookup returns is a transport. *)
LEMMA RowType ==
    ASSUME TypeOK, NEW ft \in FourTuples, Resolves(ft)
    PROVE  /\ KeyOf(ft) \in DOMAIN transports
           /\ transports[KeyOf(ft)] \in Transport
           /\ transports[KeyOf(ft)].age \in Nat
BY TimingAssumption DEF TypeOK, Resolves, KeyOf, Transport, AgeCap

(* A step that changes one field of the transport of a socket. *)
LEMMA UpdateOne ==
    ASSUME TypeOK, NEW ft \in FourTuples, Resolves(ft), NEW t,
           transports' = [transports EXCEPT ![KeyOf(ft)] = t],
           UNCHANGED endpoints
    PROVE  Table' = [Table EXCEPT ![ft] =
                        [owner |-> endpoints[ft], age |-> t.age, srtp |-> t.srtp]]
<1> DEFINE T == [Table EXCEPT ![ft] =
                    [owner |-> endpoints[ft], age |-> t.age, srtp |-> t.srtp]]
<1>1. /\ DOMAIN Table = {x \in FourTuples : Resolves(x)}
      /\ \A x \in DOMAIN Table : Table[x] = Row(x)
      BY TableRows
<1>2. DOMAIN T = DOMAIN Table /\ T = [x \in DOMAIN T |-> T[x]]
      OBVIOUS
<1>3. KeyOf(ft) \in DOMAIN transports
      BY RowType
<1>4. \A x \in FourTuples : Resolves(x)' <=> Resolves(x)
      BY DEF Resolves
<1>5. \A x \in FourTuples : KeyOf(x)' = KeyOf(x) /\ (x # ft => KeyOf(x) # KeyOf(ft))
      BY DEF KeyOf
<1>6. transports'[KeyOf(ft)] = t
      BY <1>3
<1>7. Row(ft)' = T[ft]
  <2>1. T[ft] = [owner |-> endpoints[ft], age |-> t.age, srtp |-> t.srtp]
        BY <1>1
  <2>2. Row(ft)' = [owner |-> endpoints'[ft],
                    age   |-> transports'[KeyOf(ft)'].age,
                    srtp  |-> transports'[KeyOf(ft)'].srtp]
        BY DEF Row
  <2> QED BY <1>5, <1>6, <2>1, <2>2
<1>8. ASSUME NEW x \in DOMAIN T, x # ft
      PROVE  Row(x)' = T[x]
  <2>1. x \in FourTuples /\ Resolves(x) /\ T[x] = Row(x)
        BY <1>1, <1>2, <1>8
  <2>2. transports'[KeyOf(x)'] = transports[KeyOf(x)]
        BY <1>5, <1>8, <2>1, RowType
  <2> QED BY <2>1, <2>2 DEF Row
<1>9. \A x \in DOMAIN T : Row(x)' = T[x]
      BY <1>7, <1>8
<1>10. \A x : x \in DOMAIN T <=> x \in FourTuples /\ Resolves(x)'
      BY <1>1, <1>2, <1>4
<1> HIDE DEF T
<1>11. Table' = T
       BY <1>2, <1>9, <1>10, NextTable
<1> QED BY <1>11 DEF T

(* Removal of the transports of some sockets removes these from the table  *)
(* and nothing else, although it also drops endpoints, sessions and index  *)
(* entries.                                                                *)
LEMMA RemoveFromTable ==
    ASSUME TypeOK, EndpointsAreConnected, NEW fts, remove_transport(fts)
    PROVE  Table' = [x \in DOMAIN Table \ fts |-> Table[x]]
<1> DEFINE gone == {KeyOf(ft) : ft \in fts \cap DOMAIN endpoints} \cap DOMAIN transports
           T == [x \in DOMAIN Table \ fts |-> Table[x]]
<1>1. /\ DOMAIN Table = {x \in FourTuples : Resolves(x)}
      /\ \A x \in DOMAIN Table : Table[x] = Row(x)
      BY TableRows
<1>2. /\ DOMAIN transports' = DOMAIN transports \ gone
      /\ \A k \in DOMAIN transports' : transports'[k] = transports[k]
      /\ DOMAIN endpoints' \subseteq DOMAIN endpoints
      /\ \A ft \in DOMAIN endpoints' : endpoints'[ft] = endpoints[ft]
      /\ \A ft \in DOMAIN endpoints \ DOMAIN endpoints' :
             \E o \in Owners : <<o, ft>> \in gone
      BY RemoveEffect
<1>3. \A x \in FourTuples : \A o : <<o, x>> \in gone => x \in fts
      BY DEF KeyOf
<1>4. \A x \in fts : Resolves(x) => KeyOf(x) \in gone
      BY DEF Resolves, KeyOf
<1> HIDE DEF gone
<1>5. ASSUME NEW x \in FourTuples
      PROVE  Resolves(x)' <=> Resolves(x) /\ x \notin fts
  <2>1. ASSUME Resolves(x), x \notin fts
        PROVE  Resolves(x)'
    <3>1. x \in DOMAIN endpoints'
          BY <1>2, <1>3, <2>1 DEF Resolves
    <3>2. <<endpoints[x], x>> \in DOMAIN transports'
          BY <1>2, <1>3, <2>1 DEF Resolves
    <3> QED BY <1>2, <3>1, <3>2 DEF Resolves
  <2>2. ASSUME Resolves(x)'
        PROVE  Resolves(x) /\ x \notin fts
    <3>1. Resolves(x) /\ KeyOf(x) \notin gone
          BY <1>2, <2>2 DEF Resolves, KeyOf
    <3> QED BY <1>4, <3>1
  <2> QED BY <2>1, <2>2
<1>6. ASSUME NEW x \in FourTuples, Resolves(x)'
      PROVE  Row(x)' = Row(x)
  <2>1. x \in DOMAIN endpoints' /\ KeyOf(x)' \in DOMAIN transports'
        BY <1>6 DEF Resolves, KeyOf
  <2>2. endpoints'[x] = endpoints[x] /\ KeyOf(x)' = KeyOf(x)
        BY <1>2, <2>1 DEF KeyOf
  <2>3. transports'[KeyOf(x)'] = transports[KeyOf(x)]
        BY <1>2, <2>1, <2>2
  <2> QED BY <2>2, <2>3 DEF Row
<1>7. T = [x \in DOMAIN T |-> T[x]]
      OBVIOUS
<1>8. \A x : x \in DOMAIN T <=> x \in FourTuples /\ Resolves(x)'
      BY <1>1, <1>5
<1>9. \A x \in DOMAIN T : Row(x)' = T[x]
      BY <1>1, <1>5, <1>6
<1> HIDE DEF T
<1>10. Table' = T
       BY <1>7, <1>8, <1>9, NextTable
<1> QED BY <1>10 DEF T

-----------------------------------------------------------------------------
(* One lemma per abstract action: the handler that takes it. *)

(* A completed handshake gives a row its keys. *)
LEMMA SecureStep ==
    ASSUME TypeOK, NEW ft \in FourTuples, handshake_complete(ft)
    PROVE  /\ ft \in DOMAIN Table
           /\ Table' = [Table EXCEPT ![ft].srtp = TRUE]
<1> DEFINE t == [transports[KeyOf(ft)] EXCEPT !.srtp = TRUE]
<1>1. /\ Resolves(ft)
      /\ transports' = [transports EXCEPT ![KeyOf(ft)] = t]
      /\ UNCHANGED endpoints
      BY DEF handshake_complete
<1>2. transports[KeyOf(ft)] \in Transport
      BY <1>1, RowType
<1>3. t.age = transports[KeyOf(ft)].age /\ t.srtp = TRUE
      BY <1>2 DEF Transport
<1>4. ft \in DOMAIN Table /\ Table[ft] = Row(ft)
      BY <1>1, TableRows
<1> HIDE DEF t
<1>5. Table' = [Table EXCEPT ![ft] =
                   [owner |-> endpoints[ft], age |-> t.age, srtp |-> t.srtp]]
      BY <1>1, UpdateOne
<1>6. [owner |-> endpoints[ft], age |-> t.age, srtp |-> t.srtp]
        = [Table[ft] EXCEPT !.srtp = t.srtp]
      BY <1>3, <1>4 DEF Row
<1>7. Table' = [Table EXCEPT ![ft].srtp = t.srtp]
      BY <1>5, <1>6
<1> QED BY <1>3, <1>4, <1>7, Zenon

(* Media makes its row young again. *)
LEMMA MediaStep ==
    ASSUME TypeOK, NEW ft \in FourTuples, keep_alive(ft)
    PROVE  /\ ft \in DOMAIN Table
           /\ Table[ft].srtp
           /\ Table' = [Table EXCEPT ![ft].age = 0]
<1> DEFINE t == [transports[KeyOf(ft)] EXCEPT !.age = 0]
<1>1. /\ Resolves(ft)
      /\ transports[KeyOf(ft)].srtp
      /\ transports' = [transports EXCEPT ![KeyOf(ft)] = t]
      /\ UNCHANGED endpoints
      BY DEF keep_alive
<1>2. transports[KeyOf(ft)] \in Transport
      BY <1>1, RowType
<1>3. t.srtp = transports[KeyOf(ft)].srtp /\ t.age = 0
      BY <1>2 DEF Transport
<1>4. ft \in DOMAIN Table /\ Table[ft] = Row(ft)
      BY <1>1, TableRows
<1> HIDE DEF t
<1>5. Table' = [Table EXCEPT ![ft] =
                   [owner |-> endpoints[ft], age |-> t.age, srtp |-> t.srtp]]
      BY <1>1, UpdateOne
<1>6. [owner |-> endpoints[ft], age |-> t.age, srtp |-> t.srtp]
        = [Table[ft] EXCEPT !.age = 0]
      BY <1>3, <1>4 DEF Row
<1>7. Table[ft].srtp
      BY <1>1, <1>4 DEF Row
<1> QED BY <1>4, <1>5, <1>6, <1>7

(* The peer's alert takes its own row away. *)
LEMMA CloseStep ==
    ASSUME TypeOK, EndpointsAreConnected, NEW ft \in FourTuples, alert_fatal_or_close(ft)
    PROVE  /\ ft \in DOMAIN Table
           /\ Table' = [x \in DOMAIN Table \ {ft} |-> Table[x]]
<1>1. Resolves(ft) /\ remove_transport({ft})
      BY DEF alert_fatal_or_close
<1> QED BY <1>1, TableRows, RemoveFromTable

(* The sweep removes by four tuple and through the index what it found by  *)
(* walking the sessions; with an exact index these are the same sockets.   *)
LEMMA SweepStep ==
    ASSUME TypeOK, EndpointsAreConnected, IndexIsExact, handle_timeout
    PROVE  Table' = [x \in {ft \in DOMAIN Table : Table[ft].age < IdleTimeout} |-> Table[x]]
<1> DEFINE fts == {k[2] : k \in IdleKeys}
<1>1. remove_transport(fts)
      BY DEF handle_timeout
<1>2. ASSUME NEW ft \in DOMAIN Table
      PROVE  ft \in fts <=> ~(Table[ft].age < IdleTimeout)
  <2>1. ft \in FourTuples /\ Resolves(ft) /\ Table[ft] = Row(ft)
        BY TableRows
  <2>2. /\ KeyOf(ft) \in DOMAIN transports
        /\ transports[KeyOf(ft)].age \in Nat
        BY <2>1, RowType
  <2>3. Table[ft].age = transports[KeyOf(ft)].age
        BY <2>1 DEF Row
  <2>4. ft \in fts <=> KeyOf(ft) \in IdleKeys
    <3>1. ASSUME NEW k \in IdleKeys, k[2] = ft
          PROVE  k = KeyOf(ft)
      <4>1. k \in DOMAIN transports
            BY DEF IdleKeys
      <4>2. k = <<k[1], k[2]>> /\ endpoints[k[2]] = k[1]
            BY <4>1 DEF TypeOK, Keys, IndexIsExact, Indexed
      <4> QED BY <3>1, <4>2 DEF KeyOf
    <3>2. KeyOf(ft)[2] = ft
          BY DEF KeyOf
    <3> QED BY <3>1, <3>2
  <2>5. KeyOf(ft) \in IdleKeys <=> transports[KeyOf(ft)].age >= IdleTimeout
        BY <2>2 DEF IdleKeys
  <2> QED BY <2>2, <2>3, <2>4, <2>5, TimingAssumption
<1>3. DOMAIN Table \ fts = {ft \in DOMAIN Table : Table[ft].age < IdleTimeout}
      BY <1>2
<1> HIDE DEF fts
<1> QED BY <1>1, <1>3, RemoveFromTable

(* Ages grow by one: the cap of the model is out of reach, by the bound on *)
(* ages.                                                                   *)
LEMMA ElapseStep ==
    ASSUME TypeOK, AgesFollowPhase, Tick
    PROVE  Table' = [ft \in DOMAIN Table |-> [Table[ft] EXCEPT !.age = @ + 1]]
<1> DEFINE T == [ft \in DOMAIN Table |-> [Table[ft] EXCEPT !.age = @ + 1]]
<1>1. /\ DOMAIN Table = {x \in FourTuples : Resolves(x)}
      /\ \A x \in DOMAIN Table : Table[x] = Row(x)
      BY TableRows
<1>2. /\ DOMAIN transports' = DOMAIN transports
      /\ UNCHANGED endpoints
      /\ phase \in 0 .. IdleTimeout + MaxDelay /\ phase < IdleTimeout + MaxDelay
      BY DEF Tick, TypeOK
<1>3. ASSUME NEW x \in FourTuples
      PROVE  (Resolves(x)' <=> Resolves(x)) /\ KeyOf(x)' = KeyOf(x)
      BY <1>2 DEF Resolves, KeyOf
<1>4. ASSUME NEW x \in FourTuples, Resolves(x)
      PROVE  Row(x)' = [Row(x) EXCEPT !.age = @ + 1]
  <2> DEFINE t == transports[KeyOf(x)]
  <2>1. KeyOf(x) \in DOMAIN transports /\ t \in Transport /\ t.age \in Nat
        BY <1>4, RowType
  <2>2. t.age < AgeCap
        BY <1>2, <2>1, TimingAssumption DEF AgesFollowPhase, AgeCap
  <2>3. transports'[KeyOf(x)] = [t EXCEPT !.age = IF t.age < AgeCap THEN t.age + 1 ELSE t.age]
        BY <2>1 DEF Tick
  <2>4. transports'[KeyOf(x)].age = t.age + 1 /\ transports'[KeyOf(x)].srtp = t.srtp
        BY <2>1, <2>2, <2>3 DEF Transport
  <2>5. Row(x)' = [owner |-> endpoints[x], age |-> t.age + 1, srtp |-> t.srtp]
        BY <1>2, <1>3, <2>4 DEF Row
  <2>6. Row(x) = [owner |-> endpoints[x], age |-> t.age, srtp |-> t.srtp]
        BY DEF Row
  <2> HIDE DEF t
  <2> QED BY <2>5, <2>6
<1>5. T = [x \in DOMAIN T |-> T[x]]
      OBVIOUS
<1>6. \A x : x \in DOMAIN T <=> x \in FourTuples /\ Resolves(x)'
      BY <1>1, <1>3
<1>7. \A x \in DOMAIN T : Row(x)' = T[x]
      BY <1>1, <1>4
<1> HIDE DEF T
<1>8. Table' = T
      BY <1>5, <1>6, <1>7, NextTable
<1> QED BY <1>8 DEF T

(* Every step of the registry is a step of the table or leaves it alone.   *)
LEMMA StepSimulation ==
    ASSUME IInv, ~Rebind, [Next]_vars
    PROVE  [C!Next]_Table
<1> USE DEF IInv
<1>1. CASE UNCHANGED <<transports, endpoints>>
      BY <1>1, TableUnchanged
<1>2. ASSUME NEW u \in UserNames, NEW ft \in FourTuples, handle_stun_message(u, ft)
      PROVE  C!Next
  <2>1. C!Connect(ft)
        BY <1>2, StunConnects DEF C!Connect, Table
  <2> QED BY <2>1 DEF C!Next
<1>3. ASSUME NEW ft \in FourTuples, handshake_complete(ft)
      PROVE  C!Next
  <2>1. C!Secure(ft)
        BY <1>3, SecureStep DEF C!Secure, Table
  <2> QED BY <2>1 DEF C!Next
<1>4. ASSUME NEW ft \in FourTuples, alert_fatal_or_close(ft)
      PROVE  C!Next
  <2>1. C!Close(ft)
        BY <1>4, CloseStep DEF C!Close, Table
  <2> QED BY <2>1 DEF C!Next
<1>5. ASSUME NEW ft \in FourTuples, keep_alive(ft)
      PROVE  C!Next
  <2>1. C!Media(ft)
        BY <1>5, MediaStep DEF C!Media, Table
  <2> QED BY <2>1 DEF C!Next
<1>6. ASSUME handle_timeout
      PROVE  C!Next
  <2>1. C!Sweep
        BY <1>6, SweepStep DEF C!Sweep, Table
  <2> QED BY <2>1 DEF C!Next
<1>7. ASSUME Tick
      PROVE  C!Next
  <2>1. C!Elapse
        BY <1>7, ElapseStep DEF C!Elapse, Table
  <2> QED BY <2>1 DEF C!Next
<1>8. ASSUME \/ \E o \in Owners, u \in UserNames : accept_offer(o, u)
             \/ \E o \in Owners : accept_offer_fails(o)
             \/ UNCHANGED vars
      PROVE  UNCHANGED <<transports, endpoints>>
      BY <1>8 DEF accept_offer, accept_offer_fails, vars
<1> QED BY <1>1, <1>2, <1>3, <1>4, <1>5, <1>6, <1>7, <1>8
        DEF Next, handle_rtp_message, handle_rtcp_message

(* Without rebinding, whatever the clients and the clock do, the lookups   *)
(* of the handlers behave as those in a flat table of connected sockets:   *)
(* the index, its stale entries included, and the nested maps add nothing. *)
THEOREM Refinement == ~Rebind => (Spec => ImplementsConnections)
<1> SUFFICES ASSUME ~Rebind PROVE Spec => ImplementsConnections
    OBVIOUS
<1>1. Init => C!Init
  <2> SUFFICES ASSUME Init PROVE C!Init
      OBVIOUS
  <2>1. {x \in FourTuples : Resolves(x)} = {}
        BY DEF Init, Resolves
  <2> QED BY <2>1 DEF C!Init
<1>2. IInv /\ [Next]_vars => [C!Next]_Table
      BY StepSimulation
<1> QED BY <1>1, <1>2, Invariance, PTL DEF Spec, ImplementsConnections, C!Spec, Table
=============================================================================
