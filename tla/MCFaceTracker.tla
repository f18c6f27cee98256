---------------------------- MODULE MCFaceTracker ----------------------------
(* FaceTracker on three boxes in a row: the middle one overlaps both others  *)
(* enough for a match, and little enough to be detected beside them.         *)
EXTENDS FaceTracker

CONSTANTS alice, bob, left, middle, right

TwoFaces   == {alice, bob}
ThreeBoxes == {left, middle, right}

Row == [p \in ThreeBoxes \X ThreeBoxes |->
          IF p[1] = p[2] THEN 10 ELSE IF middle \in {p[1], p[2]} THEN 4 ELSE 0]

(* Two people whose places meet in the middle, or far from each other.       *)
Meeting == [f \in TwoFaces |-> IF f = alice THEN {left, middle} ELSE {middle, right}]
Seated  == [f \in TwoFaces |-> IF f = alice THEN {left} ELSE {right}]
=============================================================================
