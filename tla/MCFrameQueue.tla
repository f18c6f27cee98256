---------------------------- MODULE MCFrameQueue ----------------------------
(* FrameQueue with two workers, two frames, channels of one and three        *)
(* deliveries: six copies, where the workers and their channels hold four.   *)
EXTENDS FrameQueue
=============================================================================
