--------------------------- MODULE MCTranscripts ----------------------------
(* A small instance of Transcripts for TLC: a session of each backend, and *)
(* subscribers for one of them.                                            *)
EXTENDS Transcripts

CONSTANTS s1, s2, e1

TwoSessions == {<<s1, e1>>, <<s2, e1>>}
OneOfEach == [k \in TwoSessions |-> IF k[1] = s1 THEN "openai" ELSE "simul"]
OneTopic == [s \in Subs |-> s1]
=============================================================================
