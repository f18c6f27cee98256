-------------------------------- MODULE MCHub --------------------------------
(* Hub with one client that filters on a stream and one that takes all.      *)
EXTENDS Hub

CONSTANTS c1, c2, s1, s2

TwoClients == {c1, c2}
TwoStreams == {s1, s2}
OneFilter  == [c \in TwoClients |-> IF c = c1 THEN s1 ELSE NoFilter]
=============================================================================
