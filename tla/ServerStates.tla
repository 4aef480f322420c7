---------------------------- MODULE ServerStates ----------------------------
(***************************************************************************)
(* The registry of the SFU, vendor/sfu/src/server/states.rs, together with *)
(* the handlers that change it: the signalling offer, the STUN binding     *)
(* request, the DTLS handshake and alert, media packets and the idle sweep *)
(* of the gateway.                                                         *)
(*                                                                         *)
(* One media thread owns a registry (Rc<RefCell<..>>), so a handler is one *)
(* atomic step; the concurrency is in the order in which packets of many   *)
(* clients, signalling messages and timeouts reach that thread.            *)
(*                                                                         *)
(* The nested maps Session -> Endpoint -> Transport are kept flat: an      *)
(* owner is a pair <<session, endpoint>>, a transport is known by          *)
(* <<owner, four tuple>>.  Time is relative: a transport has the age of    *)
(* its last_activity, and phase is the time since the previous value of    *)
(* the gateway's next_timeout.                                             *)
(***************************************************************************)
EXTENDS Naturals

CONSTANTS
    SessionIds,   \* session ids clients name in an offer
    EndpointIds,  \* endpoint ids clients name in an offer
    FourTuples,   \* local and peer socket addresses of datagrams
    UserNames,    \* ICE user names (ufrag pairs); a pool of random values
    IdleTimeout,  \* ServerConfig.idle_timeout
    MaxDelay,     \* how late the event loop may run the idle sweep
    Rebind        \* may a socket in use by one endpoint be bound by another?

ASSUME TimingAssumption == IdleTimeout \in Nat \ {0} /\ MaxDelay \in Nat
ASSUME RebindAssumption == Rebind \in BOOLEAN

VARIABLES
    sessions,          \* ids of the sessions that exist
    sessionEndpoints,  \* owners: the endpoints inside the sessions
    transports,        \* <<owner, four tuple>> -> Transport
    candidates,        \* user name -> owner of the candidate
    endpoints,         \* the index: four tuple -> owner
    phase              \* now - (next_timeout - idle_timeout)

vars == <<sessions, sessionEndpoints, transports, candidates, endpoints, phase>>

Owners == SessionIds \X EndpointIds
Keys == Owners \X FourTuples

(* Ages from AgeCap on are not told apart: all the code asks of an age is  *)
(* whether it has reached IdleTimeout.                                     *)
AgeCap == 2 * IdleTimeout + MaxDelay

Transport == [username : UserNames,   \* of the candidate it was made from
              age      : 0 .. AgeCap, \* now - last_activity
              srtp     : BOOLEAN]     \* are the SRTP contexts set?

TypeOK ==
    /\ sessions \subseteq SessionIds
    /\ sessionEndpoints \subseteq Owners
    /\ DOMAIN transports \subseteq Keys
    /\ \A k \in DOMAIN transports : transports[k] \in Transport
    /\ DOMAIN candidates \subseteq UserNames
    /\ \A u \in DOMAIN candidates : candidates[u] \in Owners
    /\ DOMAIN endpoints \subseteq FourTuples
    /\ \A ft \in DOMAIN endpoints : endpoints[ft] \in Owners
    /\ phase \in 0 .. IdleTimeout + MaxDelay

-----------------------------------------------------------------------------
(* A map with an entry added or replaced, and a map with entries removed.  *)
Put(f, x, v) == [y \in DOMAIN f \cup {x} |-> IF y = x THEN v ELSE f[y]]
Without(f, S) == [y \in DOMAIN f \ S |-> f[y]]

(* The transports of an endpoint. *)
TransportsOf(o) == {k \in DOMAIN transports : k[1] = o}

(* get_mut_transport: the index leads from the four tuple to an endpoint   *)
(* that has a transport on it.                                             *)
Resolves(ft) ==
    ft \in DOMAIN endpoints /\ <<endpoints[ft], ft>> \in DOMAIN transports

(* The key get_mut_transport returns. *)
KeyOf(ft) == <<endpoints[ft], ft>>

(* A random user name differs from every one still in use. *)
FreshUserName(u) ==
    /\ u \notin DOMAIN candidates
    /\ \A k \in DOMAIN transports : transports[k].username # u

-----------------------------------------------------------------------------
(* new: the maps are empty and the sweep is one idle_timeout away. *)
Init ==
    /\ sessions = {}
    /\ sessionEndpoints = {}
    /\ transports = [k \in {} |-> 0]
    /\ candidates = [u \in {} |-> 0]
    /\ endpoints = [ft \in {} |-> 0]
    /\ phase = 0

(* accept_offer from the signalling service (four_tuple = None) for an     *)
(* endpoint that is not connected: the session is created on demand and    *)
(* the credentials of the answer become a candidate.  For a connected      *)
(* endpoint the offer fails and leaves the registry as it is.              *)
accept_offer(o, u) ==
    /\ o \notin sessionEndpoints
    /\ FreshUserName(u)
    /\ sessions' = sessions \cup {o[1]}
    /\ candidates' = Put(candidates, u, o)
    /\ UNCHANGED <<sessionEndpoints, transports, endpoints, phase>>

(* accept_offer whose create_answer fails (the endpoint has no transceiver *)
(* for the media sections of a first offer): the session stays behind.     *)
accept_offer_fails(o) ==
    /\ o \notin sessionEndpoints
    /\ sessions' = sessions \cup {o[1]}
    /\ UNCHANGED <<sessionEndpoints, transports, candidates, endpoints, phase>>

(* The sockets the environment may send a binding request from: without    *)
(* Rebind, not one on which another endpoint still has a transport.        *)
MaySend(o, ft) == Rebind \/ \A k \in DOMAIN transports : k[2] = ft => k[1] = o

(* check_stun_message finds the candidate by the user name of the request. *)
check_stun_message(u) == u \in DOMAIN candidates

(* Session::add_endpoint: a transport, and the endpoint if it is new. *)
Session_add_endpoint(o, u, ft) ==
    /\ sessionEndpoints' = sessionEndpoints \cup {o}
    /\ transports' = Put(transports, <<o, ft>>,
                         [username |-> u, age |-> 0, srtp |-> FALSE])

(* Mistake: the index is written for a new endpoint only. *)
add_endpoint_indexes_new(o, u, ft) ==
    /\ o[1] \in sessions
    /\ <<o, ft>> \notin DOMAIN transports
    /\ Session_add_endpoint(o, u, ft)
    /\ endpoints' = IF o \in sessionEndpoints THEN endpoints ELSE Put(endpoints, ft, o)

(* Mistake: an entry of the index that is there already stays. *)
add_endpoint_or_insert(o, u, ft) ==
    /\ o[1] \in sessions
    /\ <<o, ft>> \notin DOMAIN transports
    /\ Session_add_endpoint(o, u, ft)
    /\ endpoints' = IF ft \in DOMAIN endpoints THEN endpoints ELSE Put(endpoints, ft, o)

(* GatewayHandler::add_endpoint for a request with USE_CANDIDATE: unless   *)
(* there is a transport on the four tuple already, one is made and the     *)
(* index is pointed at the candidate's endpoint.                           *)
add_endpoint(o, u, ft) ==
    /\ o[1] \in sessions
    /\ <<o, ft>> \notin DOMAIN transports
    /\ Session_add_endpoint(o, u, ft)
    /\ endpoints' = Put(endpoints, ft, o)

(* handle_stun_message with a binding request that changes something.      *)
handle_stun_message(u, ft) ==
    /\ check_stun_message(u)
    /\ MaySend(candidates[u], ft)
    /\ add_endpoint(candidates[u], u, ft)
    /\ UNCHANGED <<sessions, candidates, phase>>

(* DtlsHandler on HandshakeComplete. *)
handshake_complete(ft) ==
    /\ Resolves(ft)
    /\ transports' = [transports EXCEPT ![KeyOf(ft)].srtp = TRUE]
    /\ UNCHANGED <<sessions, sessionEndpoints, candidates, endpoints, phase>>

(* Mistakes in remove_transport: an endpoint without transports is kept;   *)
(* the session goes with any endpoint; all candidates of the endpoint are  *)
(* forgotten; the endpoint's other transports go as well.                  *)
remove_transport_keeps_endpoint(fts) ==
    LET gone == {KeyOf(ft) : ft \in fts \cap DOMAIN endpoints} \cap DOMAIN transports
    IN /\ transports' = Without(transports, gone)
       /\ candidates' = Without(candidates, {transports[k].username : k \in gone})
       /\ UNCHANGED <<sessions, sessionEndpoints, endpoints>>

remove_transport_ends_session(fts) ==
    LET gone == {KeyOf(ft) : ft \in fts \cap DOMAIN endpoints} \cap DOMAIN transports
        emptied == {k[1] : k \in {x \in gone : TransportsOf(x[1]) \subseteq gone}}
    IN /\ transports' = Without(transports, gone)
       /\ sessionEndpoints' = sessionEndpoints \ emptied
       /\ sessions' = sessions \ {o[1] : o \in emptied}
       /\ endpoints' = Without(endpoints, {k[2] : k \in {x \in gone : x[1] \in emptied}})
       /\ candidates' = Without(candidates, {transports[k].username : k \in gone})

remove_transport_forgets_candidates(fts) ==
    LET gone == {KeyOf(ft) : ft \in fts \cap DOMAIN endpoints} \cap DOMAIN transports
        emptied == {k[1] : k \in {x \in gone : TransportsOf(x[1]) \subseteq gone}}
    IN /\ transports' = Without(transports, gone)
       /\ sessionEndpoints' = sessionEndpoints \ emptied
       /\ sessions' = {s \in sessions : (\E o \in emptied : o[1] = s) =>
                                         \E o \in sessionEndpoints \ emptied : o[1] = s}
       /\ endpoints' = Without(endpoints, {k[2] : k \in {x \in gone : x[1] \in emptied}})
       /\ candidates' = Without(candidates, {u \in DOMAIN candidates :
                                               \E k \in gone : candidates[u] = k[1]})

remove_transport_of_endpoint(fts) ==
    LET owners == {endpoints[ft] : ft \in fts \cap DOMAIN endpoints}
        gone == {k \in DOMAIN transports : k[1] \in owners}
    IN /\ transports' = Without(transports, gone)
       /\ sessionEndpoints' = sessionEndpoints \ owners
       /\ sessions' = {s \in sessions : (\E o \in owners : o[1] = s) =>
                                         \E o \in sessionEndpoints \ owners : o[1] = s}
       /\ endpoints' = Without(endpoints, {k[2] : k \in gone})
       /\ candidates' = Without(candidates, {transports[k].username : k \in gone})

(* remove_transport for every four tuple of a set, one after the other in  *)
(* the order of a hash map.  Each call goes through the index.  Only the   *)
(* call that empties an endpoint removes it, with its session if that is   *)
(* then empty and with the index entry of that call's four tuple; the      *)
(* entries of the endpoint's other four tuples stay.                       *)
remove_transport(fts) ==
    LET gone == {KeyOf(ft) : ft \in fts \cap DOMAIN endpoints} \cap DOMAIN transports
        emptied == {o \in sessionEndpoints :
                      /\ \E k \in gone : k[1] = o
                      /\ TransportsOf(o) \subseteq gone}
        remaining == sessionEndpoints \ emptied
    IN /\ transports' = Without(transports, gone)
       /\ sessionEndpoints' = remaining
       /\ sessions' = {s \in sessions : \/ \A o \in emptied : o[1] # s
                                        \/ \E o \in remaining : o[1] = s}
       /\ \E last \in [emptied -> FourTuples] :
             /\ \A o \in emptied : <<o, last[o]>> \in gone
             /\ endpoints' = Without(endpoints, {last[o] : o \in emptied})
       /\ candidates' = Without(candidates, {transports[k].username : k \in gone})

(* DtlsHandler on a fatal or closing alert from the peer. *)
alert_fatal_or_close(ft) ==
    /\ Resolves(ft)
    /\ remove_transport({ft})
    /\ UNCHANGED phase

(* An SRTP packet that decrypts: the transport is kept alive. *)
keep_alive(ft) ==
    /\ Resolves(ft)
    /\ transports[KeyOf(ft)].srtp
    /\ transports' = [transports EXCEPT ![KeyOf(ft)].age = 0]
    /\ UNCHANGED <<sessions, sessionEndpoints, candidates, endpoints, phase>>

handle_rtp_message(ft) == keep_alive(ft)

(* Only the RTCP packets an interceptor forwards reach the gateway. *)
handle_rtcp_message(ft) == keep_alive(ft)

(* Mistake: a packet goes back to its sender's endpoint too. *)
OtherMediaTransports_with_own(ft) ==
    {k[2] : k \in {x \in DOMAIN transports :
                     x[1][1] = endpoints[ft][1] /\ transports[x].srtp}}

(* get_other_media_transport_contexts: where a packet received on ft goes, *)
(* as four tuples; the SRTP handler finds the keys through the index.      *)
OtherMediaTransports(ft) ==
    {k[2] : k \in {x \in DOMAIN transports :
                     /\ x[1][1] = endpoints[ft][1]
                     /\ x[1] # endpoints[ft]
                     /\ transports[x].srtp}}

(* Mistake: < where the code has <= *)
IdleKeys_strict == {k \in DOMAIN transports : transports[k].age > IdleTimeout}

(* What is idle at a sweep. *)
IdleKeys == {k \in DOMAIN transports : transports[k].age >= IdleTimeout}

(* Mistakes: the sweep runs before it is due; it is due and nothing goes.  *)
handle_timeout_early ==
    /\ remove_transport({k[2] : k \in IdleKeys})
    /\ phase' = phase - IdleTimeout

handle_timeout_no_sweep ==
    /\ phase >= IdleTimeout
    /\ phase' = phase - IdleTimeout
    /\ UNCHANGED <<sessions, sessionEndpoints, transports, candidates, endpoints>>

(* GatewayHandler::handle_timeout once next_timeout has come. *)
handle_timeout ==
    /\ phase >= IdleTimeout
    /\ remove_transport({k[2] : k \in IdleKeys})
    /\ phase' = phase - IdleTimeout

(* Time passes; the event loop runs a due sweep within MaxDelay. *)
Tick ==
    /\ phase < IdleTimeout + MaxDelay
    /\ phase' = phase + 1
    /\ transports' = [k \in DOMAIN transports |->
                        [transports[k] EXCEPT !.age = IF @ < AgeCap THEN @ + 1 ELSE @]]
    /\ UNCHANGED <<sessions, sessionEndpoints, candidates, endpoints>>

Next ==
    \/ \E o \in Owners, u \in UserNames : accept_offer(o, u)
    \/ \E o \in Owners : accept_offer_fails(o)
    \/ \E u \in UserNames, ft \in FourTuples : handle_stun_message(u, ft)
    \/ \E ft \in FourTuples : handshake_complete(ft)
    \/ \E ft \in FourTuples : alert_fatal_or_close(ft)
    \/ \E ft \in FourTuples : handle_rtp_message(ft)
    \/ \E ft \in FourTuples : handle_rtcp_message(ft)
    \/ handle_timeout
    \/ Tick

Spec == Init /\ [][Next]_vars

(* The clock runs and the event loop, which computes its poll deadline     *)
(* from next_timeout, calls handle_timeout; clients owe nothing.           *)
FairSpec == Spec /\ WF_vars(Tick) /\ WF_vars(handle_timeout)

-----------------------------------------------------------------------------
(* The nesting of the maps, and no endpoint outlives its last transport:   *)
(* such an endpoint could never be removed again, and its client could     *)
(* never make another offer (accept_offer fails while has_endpoint).       *)
EndpointsAreConnected ==
    /\ \A o \in sessionEndpoints : o[1] \in sessions /\ TransportsOf(o) # {}
    /\ \A k \in DOMAIN transports : k[1] \in sessionEndpoints

(* Every transport is found through the index by its own four tuple.  All  *)
(* handlers (DTLS, SCTP, SRTP, gateway, remove_transport) rely on it; the  *)
(* index is maintained apart from the maps it describes.                   *)
Indexed(k) == k[2] \in DOMAIN endpoints /\ endpoints[k[2]] = k[1]
IndexIsExact == \A k \in DOMAIN transports : Indexed(k)

(* A media packet is sent under the keys of transports of other endpoints  *)
(* of the sender's own session: gateway.rs picks four tuples from the      *)
(* session, srtp.rs picks the keys by four tuple from the index.           *)
ForwardingStaysInSession ==
    \A ft \in FourTuples : Resolves(ft) =>
        \A to \in OtherMediaTransports(ft) :
            /\ Resolves(to)
            /\ endpoints[to][1] = endpoints[ft][1]
            /\ endpoints[to] # endpoints[ft]

(* A transport that carries no media is gone within two idle timeouts and  *)
(* the delay of the loop: the sweep runs once per idle_timeout and uses <= *)
IdleTransportsExpire ==
    \A k \in DOMAIN transports : transports[k].age < AgeCap

(* Without rebinding, the age of a transport is bounded by the time since  *)
(* the last sweep: the sweep leaves only ages below IdleTimeout, and from  *)
(* then on ages and phase grow together.                                   *)
AgesFollowPhase ==
    \A k \in DOMAIN transports : transports[k].age < IdleTimeout + phase

(* A transport disappears only because it was idle for idle_timeout, or in *)
(* a step that is not a sweep (the alert of its own peer) and that takes   *)
(* no other transport with it.                                             *)
OnlyIdleOrClosedRemoved ==
    [][\A k \in DOMAIN transports :
         k \notin DOMAIN transports' =>
            \/ transports[k].age >= IdleTimeout
            \/ /\ phase' = phase
               /\ \A x \in DOMAIN transports : x # k => x \in DOMAIN transports']_vars

(* Whatever sockets the clients use, what a binding request can do to the  *)
(* transports of other endpoints is confined to its own socket.  A         *)
(* transport is in the index from the start and leaves it only in the step *)
(* in which another endpoint gets a transport on the same four tuple; and  *)
(* one that is neither idle nor closed by its own peer goes only in the    *)
(* sweep of an idle transport on the same four tuple.                      *)
TakeoverIsConfined ==
    [][/\ \A k \in DOMAIN transports' : ~Indexed(k)' =>
             /\ k \in DOMAIN transports
             /\ Indexed(k) => \E o \in Owners :
                   o # k[1] /\ <<o, k[2]>> \in DOMAIN transports' \ DOMAIN transports
       /\ \A k \in DOMAIN transports : k \notin DOMAIN transports' =>
             \/ \E x \in IdleKeys : x[2] = k[2]
             \/ /\ phase' = phase
                /\ \A x \in DOMAIN transports : x # k => x \in DOMAIN transports']_vars

(* A candidate is forgotten exactly when a transport made from it is       *)
(* removed: a client that has not connected yet never loses its candidate. *)
CandidateGoesWithTransport ==
    [][\A u \in DOMAIN candidates :
         u \notin DOMAIN candidates' <=>
            \E k \in DOMAIN transports :
                transports[k].username = u /\ k \notin DOMAIN transports']_vars

(* A session disappears only together with its last endpoint, never under  *)
(* a client that is connected.                                             *)
SessionGoesWithLastEndpoint ==
    [][\A s \in sessions : s \notin sessions' =>
         /\ \E o \in sessionEndpoints : o[1] = s
         /\ \A o \in sessionEndpoints' : o[1] # s]_vars

(* The registry as the handlers see it, through get_mut_transport. *)
C == INSTANCE Connections WITH
        connected <- [ft \in {x \in FourTuples : Resolves(x)} |->
                        [owner |-> endpoints[ft],
                         age   |-> transports[KeyOf(ft)].age,
                         srtp  |-> transports[KeyOf(ft)].srtp]]

(* Without rebinding, the index and the nested maps behind it amount to a  *)
(* flat table of connected sockets: no removal, of one transport or of     *)
(* all that are idle, and no return of an endpoint makes a lookup succeed, *)
(* fail or lead elsewhere than the table would, whatever stale entries the *)
(* index keeps.                                                            *)
ImplementsConnections == C!Spec

(* An endpoint whose client has gone silent is removed in the end, so that *)
(* the same endpoint id can join again through a new offer, unless another *)
(* endpoint took over its socket: the sweep does not find it then.         *)
SilentEndpointLeaves ==
    \A o \in Owners :
        o \in sessionEndpoints ~>
            \/ o \notin sessionEndpoints
            \/ \E k \in TransportsOf(o) : transports[k].age = 0 \/ ~Indexed(k)
=============================================================================
