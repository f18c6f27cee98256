--------------------------- MODULE MCFaceEnrolment ---------------------------
(* FaceEnrolment with the pictures of two faces and one without.             *)
EXTENDS FaceEnrolment, TLC

CONSTANTS ann, ben, wall

AllImages == {ann, ben, wall}
JustWall  == {wall}

AnyRequest == Permutations(Requests)
=============================================================================
