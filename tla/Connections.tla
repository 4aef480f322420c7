---------------------------- MODULE Connections -----------------------------
(***************************************************************************)
(* What the registry promises to the handlers that look up a datagram's    *)
(* four tuple in it (DTLS, SCTP, SRTP, gateway): one flat table of the     *)
(* connected sockets, without sessions, endpoints, candidates and index.   *)
(*                                                                         *)
(* A socket belongs to one endpoint for as long as it is connected.  It    *)
(* gets keys, carries media, and is disconnected alone by its own peer, or *)
(* together with everything that is idle by a sweep.                       *)
(***************************************************************************)
EXTENDS Naturals

CONSTANTS
    FourTuples,   \* local and peer socket addresses of datagrams
    Owners,       \* pairs of a session id and an endpoint id
    IdleTimeout   \* from this age on a connection is idle

VARIABLE connected  \* four tuple -> [owner, age, srtp]

Init == connected = [ft \in {} |-> 0]

Connect(ft) ==
    /\ ft \notin DOMAIN connected
    /\ \E o \in Owners :
          connected' = [x \in DOMAIN connected \cup {ft} |->
                          IF x = ft THEN [owner |-> o, age |-> 0, srtp |-> FALSE]
                          ELSE connected[x]]

Secure(ft) ==
    /\ ft \in DOMAIN connected
    /\ connected' = [connected EXCEPT ![ft].srtp = TRUE]

Media(ft) ==
    /\ ft \in DOMAIN connected
    /\ connected[ft].srtp
    /\ connected' = [connected EXCEPT ![ft].age = 0]

Close(ft) ==
    /\ ft \in DOMAIN connected
    /\ connected' = [x \in DOMAIN connected \ {ft} |-> connected[x]]

Sweep ==
    connected' = [x \in {ft \in DOMAIN connected : connected[ft].age < IdleTimeout} |->
                    connected[x]]

(* Connections grow older, together. *)
Elapse ==
    connected' = [ft \in DOMAIN connected |-> [connected[ft] EXCEPT !.age = @ + 1]]

Next ==
    \/ \E ft \in FourTuples : Connect(ft) \/ Secure(ft) \/ Media(ft) \/ Close(ft)
    \/ Sweep
    \/ Elapse

Spec == Init /\ [][Next]_connected
=============================================================================
