--------------------------- MODULE MCStreamControl ---------------------------
(* StreamControl on small instances. A youtube stream has every step of the  *)
(* start and of the retry loop, any other stream skips the two resolutions.  *)
EXTENDS StreamControl, TLC

CONSTANTS s1, s2

OneYouTube == {s1}
BothKinds  == {s1, s2}
NoFault    == {}
AllFault   == AllFaults
OnlyRestart == {"restart"}
RestartOrDb == {"restart", "db"}

(* Handlers and goroutines have no identity in the code; streams do, through *)
(* their type. Used for safety only.                                         *)
Anonymous == Permutations(Handlers) \cup Permutations(Jobs)
=============================================================================
