---------------------------- MODULE MCFrameStore ----------------------------
(* FrameStore with two frames to keep, one more than that uploaded.          *)
EXTENDS FrameStore
=============================================================================
