------------------------------ MODULE MCImage ------------------------------
(* FrameScanner and FaceBoxes in one run: a behaviour is an extraction, or   *)
(* the way of one picture through the boxes. The two share no state; the     *)
(* worker decodes a picture long after the ingestor has delivered it.        *)
EXTENDS FrameScanner, FaceBoxes

(* Nothing, stuffing, bytes that look like the second half of a marker, and  *)
(* a picture beyond the limit of size.                                       *)
SmallBodies ==
    {<< >>, <<"00">>, <<"D9">>, <<"D8", "D9">>, <<"FF", "00">>, <<"FF", "00", "D9">>,
     <<"00", "FF", "00", "00", "00">>}

MC(a, b, c, d) == [x1 |-> a, y1 |-> b, x2 |-> c, y2 |-> d]

(* Three boxes each of which overlaps the next one only, one that reaches    *)
(* beyond the picture, one that lies outside of it, one that is thin and one *)
(* that is inverted. Coordinates are half pixels, the picture has 4 by 3.    *)
SomeBoxes ==
    {MC(0, 0, 4, 4), MC(1, 0, 5, 4), MC(2, 0, 6, 4),
     MC(-2, 1, 12, 9), MC(9, 0, 12, 4), MC(3, 2, 4, 6), MC(6, 1, 2, 5)}

SomeFaces == [box : SomeBoxes, score : 1 .. 3]

(* Up to two of any, and three of those above the threshold in a row.        *)
SomeOutputs ==
    LET row == [box : {MC(n, 0, n + 4, 4) : n \in 0 .. 2}, score : 2 .. 3]
    IN  BoundedSeq(SomeFaces, 2) \cup BoundedSeq(row, 3)

(* The other one has nothing to do.                                          *)
ImageInit ==
    \/ ScanInit /\ BoxInit /\ raw = << >> /\ caller = "EmbedImage"
    \/ /\ BoxInit
       /\ pictures = << >> /\ written = 0 /\ running = FALSE /\ cancelled = TRUE
       /\ at = "over" /\ read = 0 /\ data = << >> /\ retries = 0
       /\ delivered = << >> /\ outcome = "cancelled"

ImageNext ==
    \/ ScanNext /\ UNCHANGED boxVars
    \/ at = "over" /\ BoxNext /\ UNCHANGED scanVars

ImageSpec == ImageInit /\ [][ImageNext]_<<scanVars, boxVars>> /\ ScanFairness

ImageTypeOK == ScanTypeOK /\ BoxTypeOK
=============================================================================
