------------------------------ MODULE MCVision ------------------------------
(* The two processes that use internal/vision, in one run: a behaviour is    *)
(* the worker's tracker at its frames, or the API's handlers at their one    *)
(* pipeline. They are different processes and share no state.                *)
EXTENDS MCFaceTracker, MCFaceEnrolment

VisionInit == Init /\ EnrolInit

NoFramesYet   == frames = 0 /\ restarts = 0
NoRequestsYet == ready /\ \A r \in Requests : pc[r] = "none"

VisionNext ==
    \/ NoRequestsYet /\ Next /\ UNCHANGED enrolVars
    \/ NoFramesYet /\ EnrolNext /\ UNCHANGED vars

VisionSpec == VisionInit /\ [][VisionNext]_<<vars, enrolVars>>
=============================================================================
