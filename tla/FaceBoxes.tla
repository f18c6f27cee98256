------------------------------ MODULE FaceBoxes ------------------------------
(* From the detector's outputs to pixels: parseDetections and nms            *)
(* (internal/vision/detect.go:133-249), the filter for small faces           *)
(* (pipeline.go:165-179), the choice of EmbedImage (307-318), cropFace       *)
(* (459-529) and the source pixels that the resizing loops read from a crop  *)
(* (374-456). One behaviour is one picture.                                  *)
(*                                                                           *)
(* A coordinate counts sub-pixels, Sub of them to a pixel: the conversion to *)
(* int drops the fraction. The network's distances are free: a box may lie   *)
(* outside the picture, be empty or have its sides the wrong way round, but  *)
(* its coordinates are numbers: a NaN, which clampF lets through, is not in  *)
(* the model.                                                                *)
EXTENDS Integers, Sequences

CONSTANTS
    Outputs,     \* outputs of one picture: sequences of boxes with a score
    Width, Height,  \* of the picture, in pixels
    Sub,
    Threshold,   \* vision.detection_threshold
    MinFace,     \* vision.min_face_size in sub-pixels, 0: no filter
    PadDivisor,  \* 10 in the code: a tenth of the face on each side
    Target       \* side of a network's input: 112 and 96

Box  == [x1 : Int, y1 : Int, x2 : Int, y2 : Int]
Face == [box : Box, score : Int]

ASSUME FaceBoxesAssumption ==
    /\ Outputs \subseteq Seq(Face)
    /\ {Width, Height, Sub, PadDivisor, Target} \subseteq Nat \ {0}
    /\ Threshold \in Int
    /\ MinFace \in Nat

VARIABLES
    caller,  \* "ProcessFrame" or "EmbedImage"
    stage,   \* what it does next
    raw,     \* outputs that parseDetections has still to look at
    faces,   \* detections
    keep,    \* keep of nms
    i,       \* its loop variable
    left,    \* indices of the detections that are left
    crops    \* rectangles in pixels that cropFace returned

boxVars == <<caller, stage, raw, faces, keep, i, left, crops>>

Least(a, b)    == IF a < b THEN a ELSE b
Greatest(a, b) == IF a > b THEN a ELSE b

-----------------------------------------------------------------------------
(* clampF(v, 0, max), and the clamped box.                                   *)
Clamp(v, max) == Greatest(0, Least(v, max))

ClampBox(b) ==
    [x1 |-> Clamp(b.x1, Width * Sub), y1 |-> Clamp(b.y1, Height * Sub),
     x2 |-> Clamp(b.x2, Width * Sub), y2 |-> Clamp(b.y2, Height * Sub)]

Area(b) == (b.x2 - b.x1) * (b.y2 - b.y1)

Intersection(a, b) ==
    Greatest(0, Least(a.x2, b.x2) - Greatest(a.x1, b.x1))
      * Greatest(0, Least(a.y2, b.y2) - Greatest(a.y1, b.y1))

(* iou(a, b) > 0.4; iou is 0 where the union has no area.                    *)
Overlap(a, b) ==
    LET union == Area(a) + Area(b) - Intersection(a, b)
    IN  union > 0 /\ 10 * Intersection(a, b) > 4 * union

(* Every order in which sort.Slice, which is not stable, may leave s.        *)
Sorted(s) ==
    {[n \in DOMAIN s |-> s[p[n]]] :
        p \in {q \in [DOMAIN s -> DOMAIN s] :
                 /\ \A m, n \in DOMAIN s : m # n => q[m] # q[n]
                 /\ \A m, n \in DOMAIN s : m < n => s[q[m]].score >= s[q[n]].score}}

BoxInit ==
    /\ caller \in {"ProcessFrame", "EmbedImage"}
    /\ stage = "parse"
    /\ raw \in Outputs
    /\ faces = << >> /\ keep = << >> /\ i = 1
    /\ left = {} /\ crops = {}

-----------------------------------------------------------------------------
(* Detect.                                                                   *)

(* One anchor of parseDetections.                                            *)
ParseAnchor ==
    /\ stage = "parse"
    /\ raw # << >>
    /\ raw' = Tail(raw)
    /\ LET output == Head(raw)
       IN  faces' = IF output.score >= Threshold
                      THEN Append(faces, [output EXCEPT !.box = ClampBox(output.box)])
                      ELSE faces
    /\ UNCHANGED <<caller, stage, keep, i, left, crops>>

(* Mutant: keep is made with the length of the outputs that are left.        *)
SortMakesKeepShort ==
    /\ stage = "parse"
    /\ raw = << >>
    /\ faces' \in Sorted(faces)
    /\ keep' = [n \in DOMAIN raw |-> TRUE]
    /\ stage' = "suppress"
    /\ UNCHANGED <<caller, raw, i, left, crops>>

(* The beginning of nms. It returns at once when there is no detection.      *)
Sort ==
    /\ stage = "parse"
    /\ raw = << >>
    /\ faces' \in Sorted(faces)
    /\ keep' = [n \in DOMAIN faces |-> TRUE]
    /\ stage' = "suppress"
    /\ UNCHANGED <<caller, raw, i, left, crops>>

(* Mutant: a box that is suppressed itself suppresses others.                *)
SuppressByAll ==
    /\ stage = "suppress"
    /\ i <= Len(faces)
    /\ keep' = [j \in DOMAIN faces |->
                  keep[j] /\ ~ (j > i /\ Overlap(faces[i].box, faces[j].box))]
    /\ i' = i + 1
    /\ UNCHANGED <<caller, stage, raw, faces, left, crops>>

(* Mutant: the inner loop begins one too far.                                *)
SuppressOffByOne ==
    /\ stage = "suppress"
    /\ i <= Len(faces)
    /\ keep' = [j \in DOMAIN faces |->
                  keep[j] /\ ~ (keep[i] /\ j > i + 1 /\ Overlap(faces[i].box, faces[j].box))]
    /\ i' = i + 1
    /\ UNCHANGED <<caller, stage, raw, faces, left, crops>>

(* One round of the outer loop of nms.                                       *)
Suppress ==
    /\ stage = "suppress"
    /\ i <= Len(faces)
    /\ keep' = [j \in DOMAIN faces |->
                  keep[j] /\ ~ (keep[i] /\ j > i /\ Overlap(faces[i].box, faces[j].box))]
    /\ i' = i + 1
    /\ UNCHANGED <<caller, stage, raw, faces, left, crops>>

Kept == {n \in DOMAIN faces : keep[n]}

(* The result of nms.                                                        *)
Collect ==
    /\ stage = "suppress"
    /\ i > Len(faces)
    /\ left' = Kept
    /\ stage' = "filter"
    /\ UNCHANGED <<caller, raw, faces, keep, i, crops>>

-----------------------------------------------------------------------------
(* The callers.                                                              *)

Tall(b) == b.x2 - b.x1 >= MinFace /\ b.y2 - b.y1 >= MinFace

(* ProcessFrame drops small faces; it and EmbedImage stop without any.       *)
Filter ==
    /\ stage = "filter"
    /\ left' = IF caller = "ProcessFrame" /\ MinFace > 0
                 THEN {n \in left : Tall(faces[n].box)}
                 ELSE left
    /\ stage' = IF left' = {} THEN "done" ELSE "crop"
    /\ UNCHANGED <<caller, raw, faces, keep, i, crops>>

Pixel(v) == v \div Sub

(* The rectangle in pixels; the size that cropFace refuses is none.          *)
Clipped(b) ==
    [x1 |-> Greatest(b.x1, 0), y1 |-> Greatest(b.y1, 0),
     x2 |-> Least(b.x2, Width), y2 |-> Least(b.y2, Height)]

InPixels(b) ==
    Clipped([x1 |-> Pixel(b.x1), y1 |-> Pixel(b.y1),
             x2 |-> Pixel(b.x2), y2 |-> Pixel(b.y2)])

Empty(r) == r.x2 - r.x1 <= 0 \/ r.y2 - r.y1 <= 0

Padded(r) ==
    LET padW == (r.x2 - r.x1) \div PadDivisor
        padH == (r.y2 - r.y1) \div PadDivisor
    IN  Clipped([x1 |-> r.x1 - padW, y1 |-> r.y1 - padH,
                 x2 |-> r.x2 + padW, y2 |-> r.y2 + padH])

(* Mutant: the size is not looked at.                                        *)
CropUnchecked(n) ==
    /\ stage = "crop"
    /\ n \in left
    /\ crops' = crops \cup {Padded(InPixels(faces[n].box))}
    /\ left' = left \ {n}
    /\ stage' = IF caller = "EmbedImage" THEN "done" ELSE stage
    /\ UNCHANGED <<caller, raw, faces, keep, i>>

(* cropFace. ProcessFrame calls it for the faces that its tracker wants,     *)
(* EmbedImage for the first of those with the highest confidence.            *)
Crop(n) ==
    /\ stage = "crop"
    /\ n \in left
    /\ caller = "EmbedImage" =>
          \A m \in left : \/ faces[m].score < faces[n].score
                          \/ faces[m].score = faces[n].score /\ n <= m
    /\ LET r == InPixels(faces[n].box)
       IN  crops' = IF Empty(r) THEN crops ELSE crops \cup {Padded(r)}
    /\ left' = left \ {n}
    /\ stage' = IF caller = "EmbedImage" THEN "done" ELSE stage
    /\ UNCHANGED <<caller, raw, faces, keep, i>>

BoxNext ==
    \/ ParseAnchor \/ Sort \/ Suppress \/ Collect \/ Filter
    \/ \E n \in left : Crop(n)

BoxSpec == BoxInit /\ [][BoxNext]_boxVars

-----------------------------------------------------------------------------
(* Properties.                                                               *)

BoxTypeOK ==
    /\ caller \in {"ProcessFrame", "EmbedImage"}
    /\ stage \in {"parse", "suppress", "filter", "crop", "done"}
    /\ raw \in Seq(Face)
    /\ faces \in Seq(Face)
    /\ keep \in [DOMAIN keep -> BOOLEAN]
    /\ stage # "parse" => DOMAIN keep = DOMAIN faces
    /\ i \in 1 .. Len(faces) + 1
    /\ left \subseteq DOMAIN faces
    /\ crops \subseteq Box

Passed == stage \in {"filter", "crop", "done"}

(* No two of the detections that nms returns overlap by more than 0.4: nobody*)
(* is reported twice (detect.go:215-249).                                    *)
KeptAreApart ==
    Passed => \A m, n \in left : m < n => ~ Overlap(faces[m].box, faces[n].box)

(* No face gets lost: a detection that nms drops overlaps one that it keeps, *)
(* with at least its confidence; not merely one that was dropped itself.     *)
DroppedAreCovered ==
    Passed =>
        \A n \in DOMAIN faces : ~ keep[n] =>
            \E m \in DOMAIN faces :
                /\ keep[m]
                /\ faces[m].score >= faces[n].score
                /\ Overlap(faces[m].box, faces[n].box)

(* The pixel that a resizing loop reads for x of target positions.           *)
SourcePixel(min, max, x) == min + (x * (max - min)) \div Target

(* Wherever the network's boxes lie, the loops that read the pixels of a crop*)
(* by index stay inside the picture (pipeline.go:388-456).                   *)
PixelsInPicture ==
    \A r \in crops : \A x \in 0 .. Target - 1 :
        /\ SourcePixel(r.x1, r.x2, x) \in 0 .. Width - 1
        /\ SourcePixel(r.y1, r.y2, x) \in 0 .. Height - 1
=============================================================================
