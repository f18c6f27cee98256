------------------------------- MODULE Session -------------------------------
(* What Manager promises about the extraction of a stream, whatever requests,*)
(* retries and faults there are: a stream has at most one session; a session *)
(* that was told to end never goes on; a new one opens only after the old one*)
(* is gone. StreamControl implements it.                                     *)
CONSTANT Streams

VARIABLE session   \* "none", "on", or "ending" once it was told to end

Init == session = [s \in Streams |-> "none"]

(* A session opened while the process stops is told to end from the start.   *)
Open(s) ==
    /\ session[s] = "none"
    /\ session' \in {[session EXCEPT ![s] = st] : st \in {"on", "ending"}}

(* A stop command closes one session, a shutdown closes all of them.         *)
CloseAll(S) ==
    session' = [s \in Streams |-> IF s \in S /\ session[s] = "on" THEN "ending"
                                  ELSE session[s]]

Finish(s) ==
    /\ session[s] # "none"
    /\ session' = [session EXCEPT ![s] = "none"]

(* The process is gone.                                                      *)
Lose == session' = [s \in Streams |-> "none"]

Next ==
    \/ \E s \in Streams : Open(s) \/ CloseAll({s}) \/ Finish(s)
    \/ CloseAll(Streams)
    \/ Lose

Spec == Init /\ [][Next]_session
=============================================================================
