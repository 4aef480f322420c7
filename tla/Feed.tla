-------------------------------- MODULE Feed --------------------------------
(***************************************************************************)
(* What the distribution of transcripts promises (poll_and_distribute and  *)
(* subscribe_transcription of src/bin/sfu.rs), without polls and locks.    *)
(*                                                                         *)
(* Results are added to the feed.  A subscriber goes along it, from where  *)
(* the distribution stood when it subscribed: it is offered the results of *)
(* its session one after the other and passes over those of the others.    *)
(* A result is withheld from it only if its queue is full at that moment.  *)
(***************************************************************************)
EXTENDS Naturals, Sequences, SequencesExt

CONSTANTS
    SessionIds,  \* sessions
    Subs,        \* subscribers, each of which subscribes at most once
    Capacity     \* results that a subscriber's queue holds (100 in the code)

VARIABLES
    feed,    \* the results so far
    topic,   \* Subs -> the session subscribed to, or "none" or "closed"
    offered, \* Subs -> how far along the feed it is
    queue    \* Subs -> results that the subscriber has not taken yet

vars == <<feed, topic, offered, queue>>

Init ==
    /\ feed = <<>>
    /\ topic = [s \in Subs |-> "none"]
    /\ offered = [s \in Subs |-> 0]
    /\ queue = [s \in Subs |-> <<>>]

(* New results. *)
Emit ==
    /\ IsPrefix(feed, feed')
    /\ UNCHANGED <<topic, offered, queue>>

Subscribe(s) ==
    /\ topic[s] = "none"
    /\ \E t \in SessionIds : topic' = [topic EXCEPT ![s] = t]
    /\ \E n \in 0 .. Len(feed) : offered' = [offered EXCEPT ![s] = n]
    /\ UNCHANGED <<feed, queue>>

(* A subscriber that is not at the end of the feed, and what is next. *)
Behind(s) == topic[s] \in SessionIds /\ offered[s] < Len(feed)
NextResult(s) == feed[offered[s] + 1]

(* A result of its session is offered: queued, or dropped for want of room. *)
Offer(s) ==
    /\ Behind(s) /\ NextResult(s).key[1] = topic[s]
    /\ offered' = [offered EXCEPT ![s] = @ + 1]
    /\ queue' = IF Len(queue[s]) < Capacity
                THEN [queue EXCEPT ![s] = Append(@, NextResult(s))] ELSE queue
    /\ UNCHANGED <<feed, topic>>

(* Some pass over a result of another session. *)
Pass ==
    /\ \E others \in SUBSET {s \in Subs : Behind(s) /\ NextResult(s).key[1] # topic[s]} :
          offered' = [s \in Subs |-> IF s \in others THEN offered[s] + 1 ELSE offered[s]]
    /\ UNCHANGED <<feed, topic, queue>>

Take(s) ==
    /\ queue[s] # <<>>
    /\ queue' = [queue EXCEPT ![s] = Tail(@)]
    /\ UNCHANGED <<feed, topic, offered>>

Close(s) ==
    /\ topic[s] \in SessionIds
    /\ topic' = [topic EXCEPT ![s] = "closed"]
    /\ offered' = [offered EXCEPT ![s] = 0]
    /\ queue' = [queue EXCEPT ![s] = <<>>]
    /\ UNCHANGED feed

Next == Emit \/ Pass \/ \E s \in Subs : Subscribe(s) \/ Offer(s) \/ Take(s) \/ Close(s)

Spec == Init /\ [][Next]_vars
=============================================================================
