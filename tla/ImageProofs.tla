----------------------------- MODULE ImageProofs -----------------------------
(* Proofs about the two modules of MCImage: pictures on their way out of     *)
(* ffmpeg's pipe, and the boxes in a picture on their way to pixels.         *)
(*                                                                           *)
(* FaceBoxes, for any outputs of the network, any picture and any threshold. *)
(* The loop of nms is a fold over the sorted list: its invariant speaks of   *)
(* the rows it has gone through (Cleared, Covered, Descending).              *)
(*                                                                           *)
(* FrameScanner, for any pictures, pipe, retries and limit of size. The      *)
(* reader stands behind the pictures it delivered and within the next one,   *)
(* of which data is what it has read (Place, ReaderInv). Since an FF within a*)
(* body is followed by 00, the first FF D9 it meets is that picture's own    *)
(* end, and what it delivers is the picture. When it gives up at the end of  *)
(* the stream, it has read all that came (OutcomeInv). The stream is a fold  *)
(* over a sequence of sequences; what this fold computes is shown by         *)
(* induction over numbers, in the form of a set that has 0 and every         *)
(* successor (Induct).                                                       *)
EXTENDS MCImage, SequenceTheorems, WellFoundedInduction, TLAPS

(* The loop of nms: the rows before i are dealt with for good. Nothing is    *)
(* said of iou: the argument holds for any relation between boxes.           *)
Cleared ==
    \A m, n \in DOMAIN faces :
        m < i /\ m < n /\ keep[m] /\ keep[n] => ~ Overlap(faces[m].box, faces[n].box)

Covered ==
    \A n \in DOMAIN faces : ~ keep[n] =>
        \E m \in DOMAIN faces : m < i /\ m < n /\ keep[m] /\ Overlap(faces[m].box, faces[n].box)

Descending == \A m, n \in DOMAIN faces : m < n => faces[m].score >= faces[n].score

LoopInv == IF stage = "parse" THEN i = 1 ELSE Cleared /\ Covered /\ Descending

AfterLoop == Passed => i > Len(faces) /\ left \subseteq Kept

Inside(r) == 0 <= r.x1 /\ r.x1 < r.x2 /\ r.x2 <= Width /\ 0 <= r.y1 /\ r.y1 < r.y2 /\ r.y2 <= Height

CropsInside == \A r \in crops : Inside(r)

BoxInv == BoxTypeOK /\ LoopInv /\ AfterLoop /\ CropsInside

-----------------------------------------------------------------------------
(* Lemmas about the operators.                                               *)

(* A clamped box is a box.                                                   *)
LEMMA ClampType ==
    ASSUME NEW b \in Box
    PROVE  ClampBox(b) \in Box
<1>1. Width * Sub \in Int /\ Height * Sub \in Int
  BY FaceBoxesAssumption
<1>. QED
  BY <1>1 DEF ClampBox, Clamp, Least, Greatest, Box

(* Sorting keeps a list of faces one of the same length, in descending order.*)
LEMMA SortedType ==
    ASSUME NEW s \in Seq(Face), NEW t \in Sorted(s)
    PROVE  /\ t \in Seq(Face) /\ Len(t) = Len(s) /\ DOMAIN t = DOMAIN s
           /\ \A m, n \in DOMAIN t : m < n => t[m].score >= t[n].score
<1>1. PICK p \in [DOMAIN s -> DOMAIN s] :
           /\ \A m, n \in DOMAIN s : m < n => s[p[m]].score >= s[p[n]].score
           /\ t = [n \in DOMAIN s |-> s[p[n]]]
  BY DEF Sorted
<1>2. DOMAIN s = 1 .. Len(s) /\ Len(s) \in Nat /\ \A n \in DOMAIN s : s[n] \in Face
  OBVIOUS
<1>3. t \in [1 .. Len(s) -> Face]
  BY <1>1, <1>2
<1>4. t \in Seq(Face) /\ Len(t) = Len(s) /\ DOMAIN t = DOMAIN s
  BY <1>2, <1>3
<1>. QED
  BY <1>1, <1>4

(* A position of a network's input, scaled to a side of d source pixels.     *)
LEMMA ScaledPosition ==
    ASSUME NEW x \in 0 .. Target - 1, NEW d \in Nat \ {0}
    PROVE  (x * d) \div Target \in 0 .. d - 1
<1>1. Target \in Nat \ {0} /\ x \in Nat
  BY FaceBoxesAssumption
<1>2. x * d \in Nat /\ Target * d \in Nat
  BY <1>1
<1>3. x * d < Target * d
  <2>1. (Target - x) \in Nat \ {0}
    BY <1>1
  <2>2. (Target - x) * d > 0
    BY <2>1
  <2>3. (Target - x) * d = Target * d - x * d
    BY <1>1
  <2>. QED
    BY <1>2, <2>2, <2>3
<1>. DEFINE q == (x * d) \div Target
<1>4. q \in Nat /\ Target * q <= x * d
  BY <1>1, <1>2
<1>. HIDE DEF q
<1>5. q < d
  <2>1. ASSUME q >= d PROVE FALSE
    <3>1. Target * q >= Target * d
      <4>1. Target * (q - d) >= 0
        BY <1>1, <1>4, <2>1
      <4>. QED
        BY <1>1, <1>4, <4>1
    <3>2. Target * q \in Int
      BY <1>1, <1>4
    <3>. DEFINE a == Target * q  b == Target * d  c == x * d
    <3>3. a \in Int /\ b \in Int /\ c \in Int /\ a >= b /\ a <= c /\ c < b
      BY <1>2, <1>3, <1>4, <3>1, <3>2
    <3>. HIDE DEF a, b, c
    <3>. QED
      BY <3>3
  <2>. QED
    BY <1>4, <2>1
<1>6. q \in 0 .. d - 1
  BY <1>4, <1>5
<1>. QED
  BY <1>6 DEF q

LEMMA SourceInside ==
    ASSUME NEW min \in Int, NEW max \in Int, min < max, NEW x \in 0 .. Target - 1
    PROVE  SourcePixel(min, max, x) \in min .. max - 1
<1>1. max - min \in Nat \ {0}
  OBVIOUS
<1>2. (x * (max - min)) \div Target \in 0 .. (max - min) - 1
  BY <1>1, ScaledPosition
<1>. QED
  BY <1>2 DEF SourcePixel

(* A rectangle that cropFace does not refuse is inside the picture, before   *)
(* and after it is padded.                                                   *)
LEMMA PixelsOfBox ==
    ASSUME NEW b \in Box
    PROVE  /\ InPixels(b) \in Box
           /\ ~ Empty(InPixels(b)) => Inside(InPixels(b))
<1>1. Sub \in Nat \ {0} /\ Width \in Nat /\ Height \in Nat
  BY FaceBoxesAssumption
<1>2. \A v \in Int : Pixel(v) \in Int
  BY <1>1 DEF Pixel
<1>3. b.x1 \in Int /\ b.y1 \in Int /\ b.x2 \in Int /\ b.y2 \in Int
  BY DEF Box
<1>. DEFINE X1 == Pixel(b.x1)  Y1 == Pixel(b.y1)  X2 == Pixel(b.x2)  Y2 == Pixel(b.y2)
<1>4. X1 \in Int /\ Y1 \in Int /\ X2 \in Int /\ Y2 \in Int
  BY <1>2, <1>3
<1>5. InPixels(b) = Clipped([x1 |-> X1, y1 |-> Y1, x2 |-> X2, y2 |-> Y2])
  BY DEF InPixels
<1>. HIDE DEF X1, Y1, X2, Y2
<1>. QED
  BY <1>1, <1>4, <1>5 DEF Clipped, Least, Greatest, Box, Empty, Inside

LEMMA PaddedInside ==
    ASSUME NEW r \in Box, Inside(r)
    PROVE  Padded(r) \in Box /\ Inside(Padded(r))
<1>1. PadDivisor \in Nat \ {0} /\ Width \in Nat /\ Height \in Nat
  BY FaceBoxesAssumption
<1>. DEFINE padW == (r.x2 - r.x1) \div PadDivisor
            padH == (r.y2 - r.y1) \div PadDivisor
<1>2. /\ r.x1 \in Int /\ r.y1 \in Int /\ r.x2 \in Int /\ r.y2 \in Int
      /\ r.x2 - r.x1 \in Nat /\ r.y2 - r.y1 \in Nat
  BY DEF Box, Inside
<1>3. padW \in Nat /\ padH \in Nat
  BY <1>1, <1>2
<1>4. Padded(r) = Clipped([x1 |-> r.x1 - padW, y1 |-> r.y1 - padH,
                           x2 |-> r.x2 + padW, y2 |-> r.y2 + padH])
  BY DEF Padded
<1>. HIDE DEF padW, padH
<1>. QED
  BY <1>1, <1>2, <1>3, <1>4 DEF Clipped, Least, Greatest, Box, Inside

-----------------------------------------------------------------------------
(* The invariant is inductive.                                               *)

LEMMA BoxInitInv == BoxInit => BoxInv
<1>. SUFFICES ASSUME BoxInit PROVE BoxInv
  OBVIOUS
<1>1. raw \in Seq(Face)
  BY FaceBoxesAssumption DEF BoxInit
<1>2. << >> \in Seq(Face) /\ Len(<< >>) = 0 /\ DOMAIN << >> = {}
  OBVIOUS
<1>. QED
  BY <1>1, <1>2 DEF BoxInit, BoxInv, BoxTypeOK, LoopInv, AfterLoop, Passed, CropsInside

LEMMA ParseStep ==
    ASSUME BoxInv, ParseAnchor
    PROVE  BoxInv'
<1>. USE DEF BoxInv
<1>1. /\ stage = "parse" /\ raw # << >> /\ raw' = Tail(raw)
      /\ UNCHANGED <<caller, stage, keep, i, left, crops>>
  BY DEF ParseAnchor
<1>2. raw \in Seq(Face) /\ Head(raw) \in Face /\ raw' \in Seq(Face)
  BY <1>1 DEF BoxTypeOK
<1>3. Head(raw).box \in Box /\ Head(raw) = [box |-> Head(raw).box, score |-> Head(raw).score]
  BY <1>2 DEF Face
<1>4. [Head(raw) EXCEPT !.box = ClampBox(Head(raw).box)] \in Face
  <2>1. ClampBox(Head(raw).box) \in Box
    BY <1>3, ClampType
  <2>. QED
    BY <1>2, <2>1 DEF Face
<1>5. faces' = faces \/ faces' = Append(faces, [Head(raw) EXCEPT !.box = ClampBox(Head(raw).box)])
  BY DEF ParseAnchor
<1>6. faces' \in Seq(Face) /\ DOMAIN faces \subseteq DOMAIN faces' /\ Len(faces) <= Len(faces')
  <2>1. faces \in Seq(Face)
    BY DEF BoxTypeOK
  <2>. QED
    BY <1>4, <1>5, <2>1
<1>7. BoxTypeOK'
  BY <1>1, <1>2, <1>6 DEF BoxTypeOK
<1>. QED
  BY <1>1, <1>7 DEF LoopInv, AfterLoop, Passed, CropsInside, Inside

LEMMA SortStep ==
    ASSUME BoxInv, Sort
    PROVE  BoxInv'
<1>1. /\ stage' = "suppress" /\ faces' \in Sorted(faces)
      /\ keep' = [n \in DOMAIN faces |-> TRUE]
      /\ UNCHANGED <<caller, raw, i, left, crops>>
  BY DEF Sort
<1>2. /\ faces' \in Seq(Face) /\ Len(faces') = Len(faces) /\ DOMAIN faces' = DOMAIN faces
      /\ \A m, n \in DOMAIN faces' : m < n => faces'[m].score >= faces'[n].score
  BY <1>1, SortedType DEF BoxInv, BoxTypeOK
<1>3. BoxTypeOK'
  BY <1>1, <1>2 DEF BoxInv, BoxTypeOK
<1>4. LoopInv'
  <2>1. DOMAIN faces' = 1 .. Len(faces')
    BY <1>2
  <2>2. Descending'
    BY <1>2 DEF Descending
  <2>3. Cleared'
    BY <1>1, <2>1 DEF Cleared, BoxInv, LoopInv, Sort
  <2>4. Covered'
    BY <1>1, <1>2 DEF Covered
  <2>. QED
    BY <1>1, <2>2, <2>3, <2>4 DEF LoopInv
<1>. QED
  BY <1>1, <1>3, <1>4 DEF BoxInv, AfterLoop, Passed, CropsInside, Inside

LEMMA SuppressStep ==
    ASSUME BoxInv, Suppress
    PROVE  BoxInv'
<1>. DEFINE hits(j) == keep[i] /\ j > i /\ Overlap(faces[i].box, faces[j].box)
<1>1. /\ stage = "suppress" /\ i <= Len(faces) /\ i' = i + 1
      /\ keep' = [j \in DOMAIN faces |-> keep[j] /\ ~ hits(j)]
      /\ UNCHANGED <<caller, stage, raw, faces, left, crops>>
  BY DEF Suppress
<1>2. /\ faces \in Seq(Face) /\ Len(faces) \in Nat /\ DOMAIN faces = 1 .. Len(faces)
      /\ keep \in [DOMAIN faces -> BOOLEAN] /\ i \in DOMAIN faces /\ i \in Nat
  BY <1>1 DEF BoxInv, BoxTypeOK
<1>3. Cleared /\ Covered /\ Descending
  BY <1>1 DEF BoxInv, LoopInv
<1>4. BoxTypeOK'
  BY <1>1, <1>2 DEF BoxInv, BoxTypeOK
<1>5. /\ DOMAIN faces' = DOMAIN faces
      /\ \A j \in DOMAIN faces : keep'[j] <=> keep[j] /\ ~ hits(j)
  BY <1>1
<1>6. Cleared'
  <2>. SUFFICES ASSUME NEW m \in DOMAIN faces, NEW n \in DOMAIN faces,
                       m < i + 1, m < n, keep'[m], keep'[n]
                PROVE  ~ Overlap(faces[m].box, faces[n].box)
    BY <1>1 DEF Cleared
  <2>1. keep[m] /\ keep[n] /\ ~ hits(n)
    BY <1>5
  <2>2. CASE m = i
    BY <2>1, <2>2
  <2>3. CASE m < i
    BY <1>3, <2>1, <2>3 DEF Cleared
  <2>. QED
    BY <1>2, <2>2, <2>3
<1>7. Covered'
  <2>. SUFFICES ASSUME NEW n \in DOMAIN faces, ~ keep'[n]
                PROVE  \E m \in DOMAIN faces :
                          m < i + 1 /\ m < n /\ keep'[m] /\ Overlap(faces[m].box, faces[n].box)
    BY <1>1 DEF Covered
  <2>1. CASE ~ keep[n]
    <3>1. PICK m \in DOMAIN faces :
             m < i /\ m < n /\ keep[m] /\ Overlap(faces[m].box, faces[n].box)
      BY <1>3, <2>1 DEF Covered
    <3>2. m < i + 1 /\ keep'[m]
      BY <1>2, <1>5, <3>1
    <3>. QED
      BY <3>1, <3>2
  <2>2. CASE keep[n]
    <3>1. keep[i] /\ n > i /\ Overlap(faces[i].box, faces[n].box)
      BY <1>5, <2>2
    <3>2. i < i + 1 /\ keep'[i]
      BY <1>2, <1>5, <3>1
    <3>. QED
      BY <1>2, <3>1, <3>2
  <2>. QED
    BY <2>1, <2>2
<1>8. Descending'
  BY <1>1, <1>3 DEF Descending
<1>. QED
  BY <1>1, <1>4, <1>6, <1>7, <1>8
  DEF BoxInv, LoopInv, AfterLoop, Passed, CropsInside, Inside

LEMMA CollectStep ==
    ASSUME BoxInv, Collect
    PROVE  BoxInv'
<1>1. /\ stage = "suppress" /\ i > Len(faces) /\ left' = Kept /\ stage' = "filter"
      /\ UNCHANGED <<caller, raw, faces, keep, i, crops>>
  BY DEF Collect
<1>2. Kept \subseteq DOMAIN faces /\ Kept' = Kept
  BY <1>1 DEF Kept
<1>. QED
  BY <1>1, <1>2
  DEF BoxInv, BoxTypeOK, LoopInv, Cleared, Covered, Descending, AfterLoop, CropsInside, Inside

LEMMA FilterStep ==
    ASSUME BoxInv, Filter
    PROVE  BoxInv'
<1>1. /\ stage = "filter" /\ left' \subseteq left /\ stage' \in {"done", "crop"}
      /\ UNCHANGED <<caller, raw, faces, keep, i, crops>>
  BY DEF Filter
<1>2. Kept' = Kept
  BY <1>1 DEF Kept
<1>. QED
  BY <1>1, <1>2
  DEF BoxInv, BoxTypeOK, LoopInv, Cleared, Covered, Descending, AfterLoop, Passed,
      CropsInside, Inside

LEMMA CropStep ==
    ASSUME BoxInv, NEW n \in left, Crop(n)
    PROVE  BoxInv'
<1>. DEFINE r == InPixels(faces[n].box)
<1>1. /\ stage = "crop" /\ left' = left \ {n} /\ stage' \in {"crop", "done"}
      /\ crops' = IF Empty(r) THEN crops ELSE crops \cup {Padded(r)}
      /\ UNCHANGED <<caller, raw, faces, keep, i>>
  BY DEF Crop
<1>2. faces[n].box \in Box
  <2>1. faces[n] \in Face
    BY DEF BoxInv, BoxTypeOK
  <2>. QED
    BY <2>1 DEF Face
<1>3. ~ Empty(r) => Padded(r) \in Box /\ Inside(Padded(r))
  BY <1>2, PixelsOfBox, PaddedInside
<1>4. crops' \subseteq Box /\ CropsInside'
  <2>1. crops \subseteq Box /\ \A c \in crops : Inside(c)
    BY DEF BoxInv, BoxTypeOK, CropsInside
  <2>. QED
    BY <1>1, <1>3, <2>1 DEF CropsInside, Inside
<1>5. Kept' = Kept
  BY <1>1 DEF Kept
<1>6. BoxTypeOK'
  BY <1>1, <1>4 DEF BoxInv, BoxTypeOK
<1>7. LoopInv' /\ AfterLoop'
  BY <1>1, <1>5 DEF BoxInv, LoopInv, Cleared, Covered, Descending, AfterLoop, Passed
<1>. QED
  BY <1>4, <1>6, <1>7 DEF BoxInv

LEMMA StutterStep ==
    ASSUME BoxInv, UNCHANGED boxVars
    PROVE  BoxInv'
BY DEF boxVars, BoxInv, BoxTypeOK, LoopInv, Cleared, Covered, Descending, AfterLoop, Passed,
       Kept, CropsInside, Inside

LEMMA BoxNextInv ==
    ASSUME BoxInv, [BoxNext]_boxVars
    PROVE  BoxInv'
<1>1. CASE ParseAnchor
  BY <1>1, ParseStep
<1>2. CASE Sort
  BY <1>2, SortStep
<1>3. CASE Suppress
  BY <1>3, SuppressStep
<1>4. CASE Collect
  BY <1>4, CollectStep
<1>5. CASE Filter
  BY <1>5, FilterStep
<1>6. CASE \E n \in left : Crop(n)
  BY <1>6, CropStep
<1>7. CASE UNCHANGED boxVars
  BY <1>7, StutterStep
<1>. QED
  BY <1>1, <1>2, <1>3, <1>4, <1>5, <1>6, <1>7 DEF BoxNext

-----------------------------------------------------------------------------
(* The theorems about boxes.                                               *)

(* The loop's invariant holds of every reachable state.                      *)
THEOREM BoxInductive == BoxSpec => []BoxInv
<1>. QED
  BY BoxInitInv, BoxNextInv, PTL DEF BoxSpec

(* Type correctness: what parseDetections, nms, the filter and cropFace hand *)
(* on has the shape the next of them expects (detect.go:133-249).            *)
THEOREM BoxTypeCorrect == BoxSpec => []BoxTypeOK
<1>1. BoxInv => BoxTypeOK
  BY DEF BoxInv
<1>. QED
  BY <1>1, BoxInductive, PTL

(* No two detections that nms returns overlap by more than the threshold     *)
(* (detect.go:215-249).                                                      *)
THEOREM Apart == BoxSpec => []KeptAreApart
<1>1. BoxInv => KeptAreApart
  <2>. SUFFICES ASSUME BoxInv, Passed, NEW m \in left, NEW n \in left, m < n
                PROVE  ~ Overlap(faces[m].box, faces[n].box)
    BY DEF KeptAreApart
  <2>1. m \in DOMAIN faces /\ n \in DOMAIN faces /\ keep[m] /\ keep[n]
    BY DEF BoxInv, AfterLoop, Kept
  <2>2. m < i
    BY <2>1 DEF BoxInv, BoxTypeOK, AfterLoop
  <2>3. Cleared
    BY DEF BoxInv, LoopInv, Passed
  <2>. QED
    BY <2>1, <2>2, <2>3 DEF Cleared
<1>. QED
  BY <1>1, BoxInductive, PTL

(* Every detection that nms drops is covered by one it keeps, of at least its*)
(* confidence (detect.go:215-249).                                           *)
THEOREM DroppedCovered == BoxSpec => []DroppedAreCovered
<1>1. BoxInv => DroppedAreCovered
  <2>. SUFFICES ASSUME BoxInv, Passed, NEW n \in DOMAIN faces, ~ keep[n]
                PROVE  \E m \in DOMAIN faces :
                          /\ keep[m]
                          /\ faces[m].score >= faces[n].score
                          /\ Overlap(faces[m].box, faces[n].box)
    BY DEF DroppedAreCovered
  <2>1. Covered /\ Descending
    BY DEF BoxInv, LoopInv, Passed
  <2>. QED
    BY <2>1 DEF Covered, Descending
<1>. QED
  BY <1>1, BoxInductive, PTL

(* The loops that scale a crop read pixels of the picture only               *)
(* (pipeline.go:374-456, 459-529).                                           *)
THEOREM ReadsInside == BoxSpec => []PixelsInPicture
<1>1. BoxInv => PixelsInPicture
  <2>. SUFFICES ASSUME BoxInv, NEW r \in crops, NEW x \in 0 .. Target - 1
                PROVE  /\ SourcePixel(r.x1, r.x2, x) \in 0 .. Width - 1
                       /\ SourcePixel(r.y1, r.y2, x) \in 0 .. Height - 1
    BY DEF PixelsInPicture
  <2>1. r \in Box /\ Inside(r)
    BY DEF BoxInv, BoxTypeOK, CropsInside
  <2>2. /\ r.x1 \in Int /\ r.x2 \in Int /\ r.y1 \in Int /\ r.y2 \in Int
        /\ Width \in Nat /\ Height \in Nat
    BY <2>1, FaceBoxesAssumption DEF Box
  <2>3. /\ SourcePixel(r.x1, r.x2, x) \in r.x1 .. r.x2 - 1
        /\ SourcePixel(r.y1, r.y2, x) \in r.y1 .. r.y2 - 1
    BY <2>1, <2>2, SourceInside DEF Inside
  <2>. QED
    BY <2>1, <2>2, <2>3 DEF Inside
<1>. QED
  BY <1>1, BoxInductive, PTL

-----------------------------------------------------------------------------
(* Induction, and the sequence of pictures.                                  *)

(* Induction over the numbers, in a form that names a set.                   *)
LEMMA LeastOne ==
    ASSUME NEW T \in SUBSET Nat, T # {}
    PROVE  \E x \in T : \A y \in T : x <= y
<1>. DEFINE R == OpToRel(<, Nat)
<1>1. IsWellFoundedOn(R, Nat)
  BY NatLessThanWellFounded
<1>2. \A x, y \in Nat : y < x => <<y, x>> \in R
  BY DEF OpToRel
<1>. HIDE DEF R
<1>3. \E x \in T : \A y \in T : ~ (<<y, x>> \in R)
  BY <1>1, WFMin
<1>4. PICK x \in T : \A y \in T : ~ (<<y, x>> \in R)
  BY <1>3
<1>5. ASSUME NEW y \in T, ~ (x <= y) PROVE FALSE
  <2>1. y \in Nat /\ x \in Nat /\ y < x
    BY <1>5
  <2>2. <<y, x>> \in R
    BY <1>2, <2>1
  <2>. QED
    BY <1>4, <2>2
<1>. QED
  BY <1>5

LEMMA Induct ==
    ASSUME NEW S, 0 \in S, \A n \in Nat : n \in S => n + 1 \in S
    PROVE  Nat \subseteq S
<1>. DEFINE T == {n \in Nat : n \notin S}
<1>. SUFFICES ASSUME T # {} PROVE FALSE
  OBVIOUS
<1>1. PICK x \in T : \A y \in T : x <= y
  BY LeastOne
<1>2. x - 1 \in Nat /\ x - 1 \notin T
  BY <1>1
<1>. QED
  BY <1>2

-----------------------------------------------------------------------------
(* What FlattenSeq computes.                                                 *)

(* g is the table of what the first sequences of s make together.            *)
Table(g, s, n) == g[1] = s[1] /\ \A j \in 2 .. n : g[j] = g[j - 1] \o s[j]

LEMMA TableExists ==
    ASSUME NEW S, NEW s \in Seq(Seq(S)), Len(s) > 0
    PROVE  \E g \in [1 .. Len(s) -> Seq(S)] : Table(g, s, Len(s))
<1>. DEFINE Has(n) == \E g \in [1 .. n -> Seq(S)] : Table(g, s, n)
            K == {n \in Nat : n + 1 <= Len(s) => Has(n + 1)}
<1>0. \A j \in 1 .. Len(s) : s[j] \in Seq(S)
  OBVIOUS
<1>1. Len(s) \in Nat
  OBVIOUS
<1>2. Has(1)
  <2>1. s[1] \in Seq(S)
    BY <1>0, <1>1
  <2>2. [j \in 1 .. 1 |-> s[1]] \in [1 .. 1 -> Seq(S)]
    BY <2>1
  <2>3. Table([j \in 1 .. 1 |-> s[1]], s, 1)
    BY DEF Table
  <2>. QED
    BY <2>2, <2>3
<1>3. ASSUME NEW n \in Nat \ {0}, n + 1 <= Len(s), Has(n) PROVE Has(n + 1)
  <2>1. PICK g \in [1 .. n -> Seq(S)] : Table(g, s, n)
    BY <1>3
  <2>. DEFINE e == g[n] \o s[n + 1]
              h == [j \in 1 .. n + 1 |-> IF j = n + 1 THEN e ELSE g[j]]
  <2>2. g[n] \in Seq(S) /\ s[n + 1] \in Seq(S)
    BY <1>0, <1>1, <1>3
  <2>3. e \in Seq(S)
    BY <2>2
  <2>. HIDE DEF e
  <2>4. h \in [1 .. n + 1 -> Seq(S)]
    BY <2>3
  <2>5. h[1] = s[1]
    BY <2>1 DEF Table
  <2>6. ASSUME NEW j \in 2 .. n + 1 PROVE h[j] = h[j - 1] \o s[j]
    <3>1. CASE j = n + 1
      <4>1. h[n + 1] = e /\ h[n] = g[n]
        OBVIOUS
      <4>2. j - 1 = n
        BY <3>1
      <4>. QED
        BY ONLY <3>1, <4>1, <4>2 DEF e
    <3>2. CASE j # n + 1
      <4>1. j \in 2 .. n /\ h[j] = g[j] /\ h[j - 1] = g[j - 1]
        BY <2>6, <3>2
      <4>. QED
        BY <2>1, <4>1 DEF Table
    <3>. QED
      BY <3>1, <3>2
  <2>7. Table(h, s, n + 1)
    BY <2>5, <2>6 DEF Table
  <2>. QED
    BY <2>4, <2>7
<1>. HIDE DEF Has
<1>4. 0 \in K
  BY <1>2
<1>5. ASSUME NEW n \in Nat, n \in K PROVE n + 1 \in K
  BY <1>1, <1>3, <1>5
<1>. HIDE DEF K
<1>6. Nat \subseteq K
  BY <1>4, <1>5, Induct
<1>7. Len(s) - 1 \in K
  BY <1>1, <1>6
<1>8. Has(Len(s))
  BY <1>1, <1>7 DEF K
<1>. QED
  BY <1>8 DEF Has

LEMMA TableFlattens ==
    ASSUME NEW S, NEW s \in Seq(Seq(S)), Len(s) > 0,
           NEW g \in [1 .. Len(s) -> Seq(S)], Table(g, s, Len(s))
    PROVE  FlattenSeq(s) = g[Len(s)]
<1>. DEFINE D(h) == [j \in 1 .. Len(s) |-> IF j = 1 THEN s[j] ELSE h[j - 1] \o s[j]]
            f == CHOOSE h : h = D(h)
<1>1. Len(s) \in Nat
  OBVIOUS
<1>2. g = D(g)
  <2>1. ASSUME NEW j \in 1 .. Len(s) PROVE g[j] = IF j = 1 THEN s[j] ELSE g[j - 1] \o s[j]
    <3>1. CASE j = 1
      BY <3>1 DEF Table
    <3>2. CASE j # 1
      <4>1. j \in 2 .. Len(s)
        BY <1>1, <3>2
      <4>. QED
        BY <3>2, <4>1 DEF Table
    <3>. QED
      BY <3>1, <3>2
  <2>. QED
    BY <2>1
<1>3. f = D(f)
  BY <1>2
<1>4. FlattenSeq(s) = f[Len(s)]
  BY <1>1 DEF FlattenSeq
<1>. HIDE DEF f
<1>. DEFINE K == {n \in Nat : n + 1 <= Len(s) => f[n + 1] = g[n + 1]}
<1>5. \A j \in 1 .. Len(s) : f[j] = IF j = 1 THEN s[j] ELSE f[j - 1] \o s[j]
  BY <1>3
<1>6. \A j \in 1 .. Len(s) : g[j] = IF j = 1 THEN s[j] ELSE g[j - 1] \o s[j]
  BY <1>2
<1>7. 0 \in K
  <2>1. 1 \in 1 .. Len(s) /\ 0 + 1 = 1
    BY <1>1
  <2>2. f[1] = s[1] /\ g[1] = s[1]
    BY <1>5, <1>6, <2>1
  <2>. QED
    BY <2>1, <2>2
<1>8. ASSUME NEW n \in Nat, n \in K PROVE n + 1 \in K
  <2>. SUFFICES ASSUME n + 2 <= Len(s) PROVE f[n + 2] = g[n + 2]
    OBVIOUS
  <2>1. f[n + 1] = g[n + 1]
    BY <1>1, <1>8
  <2>2. n + 2 \in 1 .. Len(s) /\ n + 2 # 1 /\ (n + 2) - 1 = n + 1
    BY <1>1
  <2>3. f[n + 2] = f[n + 1] \o s[n + 2] /\ g[n + 2] = g[n + 1] \o s[n + 2]
    BY <1>5, <1>6, <2>2
  <2>. QED
    BY <2>1, <2>3
<1>. HIDE DEF K
<1>9. Nat \subseteq K
  BY <1>7, <1>8, Induct
<1>10. f[Len(s)] = g[Len(s)]
  <2>1. Len(s) - 1 \in Nat /\ (Len(s) - 1) + 1 = Len(s) /\ Len(s) <= Len(s)
    BY <1>1
  <2>2. Len(s) - 1 \in K
    BY <1>9, <2>1
  <2>. QED
    BY <2>1, <2>2 DEF K
<1>. QED
  BY <1>4, <1>10

(* The first n sequences of s, one behind the other.                         *)
Flat(s, n) == FlattenSeq(SubSeq(s, 1, n))

LEMMA FlatUnfolds ==
    ASSUME NEW S, NEW s \in Seq(Seq(S))
    PROVE  /\ Flat(s, 0) = << >>
           /\ \A n \in 0 .. Len(s) : Flat(s, n) \in Seq(S)
           /\ \A n \in 1 .. Len(s) : Flat(s, n) = Flat(s, n - 1) \o s[n]
           /\ Flat(s, Len(s)) = FlattenSeq(s)
<1>1. Len(s) \in Nat /\ \A j \in 1 .. Len(s) : s[j] \in Seq(S)
  OBVIOUS
<1>2. Flat(s, 0) = << >>
  <2>1. SubSeq(s, 1, 0) = << >> /\ Len(<< >>) = 0
    OBVIOUS
  <2>. QED
    BY <2>1 DEF Flat, FlattenSeq
<1>3. ASSUME Len(s) > 0, NEW n \in 1 .. Len(s),
             NEW g \in [1 .. Len(s) -> Seq(S)], Table(g, s, Len(s))
      PROVE  Flat(s, n) = g[n]
  <2>. DEFINE t == SubSeq(s, 1, n)
              h == [j \in 1 .. n |-> g[j]]
  <2>1. t \in Seq(Seq(S)) /\ Len(t) = n /\ \A j \in 1 .. n : t[j] = s[j]
    BY <1>1, <1>3
  <2>2. h \in [1 .. n -> Seq(S)] /\ \A j \in 1 .. n : h[j] = g[j]
    BY <1>1, <1>3
  <2>3. n \in Nat /\ n > 0
    BY <1>1, <1>3
  <2>. HIDE DEF t, h
  <2>4. Table(h, t, n)
    <3>1. h[1] = t[1]
      BY <1>3, <2>1, <2>2, <2>3 DEF Table
    <3>2. ASSUME NEW j \in 2 .. n PROVE h[j] = h[j - 1] \o t[j]
      <4>1. j \in 1 .. n /\ j - 1 \in 1 .. n /\ j \in 2 .. Len(s)
        BY <1>1, <1>3, <2>3
      <4>2. g[j] = g[j - 1] \o s[j]
        BY <1>3, <4>1 DEF Table
      <4>3. h[j] = g[j] /\ h[j - 1] = g[j - 1] /\ t[j] = s[j]
        BY <2>1, <2>2, <4>1
      <4>. QED
        BY ONLY <4>2, <4>3
    <3>. QED
      BY <3>1, <3>2 DEF Table
  <2>5. FlattenSeq(t) = h[n]
    BY <2>1, <2>2, <2>3, <2>4, TableFlattens
  <2>6. h[n] = g[n]
    BY <2>2, <2>3
  <2>. QED
    BY <2>5, <2>6 DEF Flat, t
<1>4. SubSeq(s, 1, Len(s)) = s
  OBVIOUS
<1>5. Flat(s, Len(s)) = FlattenSeq(s)
  BY <1>4 DEF Flat
<1>6. CASE Len(s) = 0
  <2>1. << >> \in Seq(S)
    OBVIOUS
  <2>2. \A n \in 0 .. Len(s) : n = 0
    BY <1>6
  <2>3. ~ \E n \in 1 .. Len(s) : TRUE
    BY <1>6
  <2>. QED
    BY ONLY <1>2, <1>5, <2>1, <2>2, <2>3
<1>7. CASE Len(s) > 0
  <2>1. PICK g \in [1 .. Len(s) -> Seq(S)] : Table(g, s, Len(s))
    BY <1>7, TableExists
  <2>2. \A n \in 1 .. Len(s) : Flat(s, n) = g[n] /\ g[n] \in Seq(S)
    BY <1>3, <1>7, <2>1
  <2>3. << >> \in Seq(S)
    OBVIOUS
  <2>4. ASSUME NEW n \in 0 .. Len(s) PROVE Flat(s, n) \in Seq(S)
    <3>1. CASE n = 0
      BY <1>2, <2>3, <3>1
    <3>2. CASE n # 0
      <4>1. n \in 1 .. Len(s)
        BY <1>1, <3>2
      <4>. QED
        BY <2>2, <4>1
    <3>. QED
      BY <3>1, <3>2
  <2>5. ASSUME NEW n \in 1 .. Len(s) PROVE Flat(s, n) = Flat(s, n - 1) \o s[n]
    <3>1. CASE n = 1
      <4>1. Flat(s, 1) = s[1]
        BY <1>1, <2>1, <2>2, <3>1 DEF Table
      <4>2. s[1] \in Seq(S)
        BY <1>1, <1>7
      <4>3. << >> \o s[1] = s[1]
        BY <4>2
      <4>4. n - 1 = 0
        BY <3>1
      <4>. QED
        BY ONLY <1>2, <3>1, <4>1, <4>3, <4>4
    <3>2. CASE n # 1
      <4>1. n \in 2 .. Len(s) /\ n - 1 \in 1 .. Len(s)
        BY <1>1, <3>2
      <4>2. g[n] = g[n - 1] \o s[n]
        BY <2>1, <4>1 DEF Table
      <4>3. Flat(s, n) = g[n] /\ Flat(s, n - 1) = g[n - 1]
        BY <2>2, <4>1
      <4>. QED
        BY ONLY <4>2, <4>3
    <3>. QED
      BY <3>1, <3>2
  <2>. QED
    BY ONLY <1>2, <1>5, <2>4, <2>5
<1>8. Len(s) = 0 \/ Len(s) > 0
  BY <1>1
<1>. QED
  BY ONLY <1>6, <1>7, <1>8

(* What comes behind does not change what is there.                          *)
LEMMA FlatGrows ==
    ASSUME NEW S, NEW s \in Seq(Seq(S)), NEW m \in 0 .. Len(s), NEW n \in m .. Len(s)
    PROVE  /\ Len(Flat(s, m)) <= Len(Flat(s, n))
           /\ \A k \in 1 .. Len(Flat(s, m)) : Flat(s, n)[k] = Flat(s, m)[k]
<1>. DEFINE a == Flat(s, m)
            b(j) == Flat(s, m + j)
            K == {j \in Nat : m + j <= Len(s) =>
                    /\ Len(a) <= Len(b(j))
                    /\ \A k \in 1 .. Len(a) : b(j)[k] = a[k]}
<1>1. Len(s) \in Nat /\ m \in Nat /\ n \in Nat /\ m <= n /\ n <= Len(s)
  OBVIOUS
<1>2. a \in Seq(S) /\ Len(a) \in Nat
  <2>1. Flat(s, m) \in Seq(S)
    BY <1>1, FlatUnfolds
  <2>. QED
    BY <2>1
<1>3. b(0) = a
  BY <1>1
<1>4. ASSUME NEW j \in Nat, m + j + 1 <= Len(s)
      PROVE  /\ b(j) \in Seq(S)
             /\ s[m + j + 1] \in Seq(S)
             /\ b(j + 1) = b(j) \o s[m + j + 1]
  <2>1. m + j \in 0 .. Len(s) /\ m + (j + 1) \in 1 .. Len(s) /\ (m + (j + 1)) - 1 = m + j
        /\ m + (j + 1) = m + j + 1
    BY <1>1, <1>4
  <2>2. Flat(s, m + (j + 1)) = Flat(s, (m + (j + 1)) - 1) \o s[m + (j + 1)]
    BY <2>1, FlatUnfolds
  <2>3. Flat(s, m + j) \in Seq(S)
    BY <2>1, FlatUnfolds
  <2>4. s[m + (j + 1)] \in Seq(S)
    BY <2>1
  <2>. QED
    BY ONLY <2>1, <2>2, <2>3, <2>4
<1>. HIDE DEF a, b
<1>5. 0 \in K
  BY <1>2, <1>3
<1>6. ASSUME NEW j \in Nat, j \in K PROVE j + 1 \in K
  <2>. SUFFICES ASSUME m + (j + 1) <= Len(s)
                PROVE  /\ Len(a) <= Len(b(j + 1))
                       /\ \A k \in 1 .. Len(a) : b(j + 1)[k] = a[k]
    OBVIOUS
  <2>1. m + j + 1 <= Len(s) /\ m + j <= Len(s)
    BY <1>1
  <2>2. Len(a) <= Len(b(j)) /\ \A k \in 1 .. Len(a) : b(j)[k] = a[k]
    BY <1>6, <2>1
  <2>. DEFINE x == b(j)  y == s[m + j + 1]  z == b(j + 1)
  <2>3. x \in Seq(S) /\ y \in Seq(S) /\ z = x \o y
    BY <1>4, <2>1
  <2>. HIDE DEF x, y, z
  <2>4. Len(z) = Len(x) + Len(y) /\ Len(x) \in Nat /\ Len(y) \in Nat
        /\ \A k \in 1 .. Len(x) : z[k] = x[k]
    BY <2>3
  <2>5. Len(a) <= Len(x) /\ \A k \in 1 .. Len(a) : x[k] = a[k]
    BY <2>2 DEF x
  <2>6. Len(a) <= Len(z) /\ \A k \in 1 .. Len(a) : z[k] = a[k]
    BY <1>2, <2>4, <2>5
  <2>. QED
    BY <2>6 DEF z
<1>. HIDE DEF K
<1>7. Nat \subseteq K
  BY <1>5, <1>6, Induct
<1>8. n - m \in K
  BY <1>1, <1>7
<1>9. m + (n - m) = n
  BY <1>1
<1>10. b(n - m) = Flat(s, n)
  BY <1>9 DEF b
<1>11. /\ Len(a) <= Len(b(n - m))
       /\ \A k \in 1 .. Len(a) : b(n - m)[k] = a[k]
  BY <1>1, <1>8, <1>9 DEF K
<1>. QED
  BY <1>10, <1>11 DEF a

(* Where the sequences end, and what is found where.                         *)
Ends(s, n) == Len(Flat(s, n))

LEMMA EndsAre ==
    ASSUME NEW S, NEW s \in Seq(Seq(S))
    PROVE  /\ Ends(s, 0) = 0
           /\ \A n \in 0 .. Len(s) : Ends(s, n) \in Nat
           /\ \A n \in 1 .. Len(s) : Ends(s, n) = Ends(s, n - 1) + Len(s[n])
           /\ FlattenSeq(s) \in Seq(S)
           /\ Ends(s, Len(s)) = Len(FlattenSeq(s))
<1>1. Len(s) \in Nat /\ \A j \in 1 .. Len(s) : s[j] \in Seq(S)
  OBVIOUS
<1>2. Ends(s, 0) = 0
  <2>1. Flat(s, 0) = << >>
    BY FlatUnfolds
  <2>. QED
    BY <2>1 DEF Ends
<1>3. \A n \in 0 .. Len(s) : Flat(s, n) \in Seq(S)
  BY FlatUnfolds
<1>4. \A n \in 0 .. Len(s) : Ends(s, n) \in Nat
  BY <1>3 DEF Ends
<1>5. ASSUME NEW n \in 1 .. Len(s) PROVE Ends(s, n) = Ends(s, n - 1) + Len(s[n])
  <2>1. Flat(s, n) = Flat(s, n - 1) \o s[n]
    BY FlatUnfolds
  <2>2. Flat(s, n - 1) \in Seq(S) /\ s[n] \in Seq(S)
    BY <1>1, <1>3
  <2>. QED
    BY <2>1, <2>2 DEF Ends
<1>6. Flat(s, Len(s)) = FlattenSeq(s)
  BY FlatUnfolds
<1>7. FlattenSeq(s) \in Seq(S)
  BY <1>1, <1>3, <1>6
<1>. QED
  BY <1>2, <1>4, <1>5, <1>6, <1>7 DEF Ends

LEMMA EndsGrow ==
    ASSUME NEW S, NEW s \in Seq(Seq(S)), NEW m \in 0 .. Len(s), NEW n \in m .. Len(s)
    PROVE  Ends(s, m) <= Ends(s, n)
BY FlatGrows DEF Ends

LEMMA Found ==
    ASSUME NEW S, NEW s \in Seq(Seq(S)), NEW n \in 1 .. Len(s), NEW k \in 1 .. Len(s[n])
    PROVE  FlattenSeq(s)[Ends(s, n - 1) + k] = s[n][k]
<1>1. Len(s) \in Nat /\ s[n] \in Seq(S) /\ n - 1 \in 0 .. Len(s) /\ n \in 0 .. Len(s)
      /\ Len(s) \in n .. Len(s)
  OBVIOUS
<1>. DEFINE a == Flat(s, n - 1)  b == s[n]
<1>2. Flat(s, n) = a \o b
  BY FlatUnfolds
<1>3. a \in Seq(S) /\ b \in Seq(S)
  BY <1>1, FlatUnfolds
<1>4. /\ Len(Flat(s, n)) <= Len(Flat(s, Len(s)))
      /\ \A j \in 1 .. Len(Flat(s, n)) : Flat(s, Len(s))[j] = Flat(s, n)[j]
  <2>1. n \in 0 .. Len(s) /\ Len(s) \in n .. Len(s)
    BY <1>1
  <2>. QED
    BY <2>1, FlatGrows
<1>5. Flat(s, Len(s)) = FlattenSeq(s)
  BY FlatUnfolds
<1>6. k \in 1 .. Len(b)
  OBVIOUS
<1>. HIDE DEF a, b
<1>7. Len(a \o b) = Len(a) + Len(b) /\ (a \o b)[Len(a) + k] = b[k]
      /\ Len(a) + k \in 1 .. Len(a \o b)
  BY <1>3, <1>6
<1>8. FlattenSeq(s)[Len(a) + k] = b[k]
  BY <1>2, <1>4, <1>5, <1>7
<1>. QED
  BY <1>8 DEF Ends, a, b

-----------------------------------------------------------------------------
(* The pictures in the stream.                                               *)

LEMMA JpegIs ==
    ASSUME NEW body \in Bodies
    PROVE  /\ Jpeg(body) \in Seq(Byte)
           /\ Len(body) \in Nat /\ Len(Jpeg(body)) = Len(body) + 4
           /\ Jpeg(body)[1] = "FF" /\ Jpeg(body)[2] = "D8"
           /\ \A k \in 1 .. Len(body) : Jpeg(body)[k + 2] = body[k]
           /\ Jpeg(body)[Len(body) + 3] = "FF" /\ Jpeg(body)[Len(body) + 4] = "D9"
<1>1. body \in Seq(Byte)
  BY FrameScannerAssumption
<1>2. <<"FF", "D8">> \in Seq(Byte) /\ <<"FF", "D9">> \in Seq(Byte)
  BY DEF Byte
<1>. QED
  BY <1>1, <1>2 DEF Jpeg

(* An FF in a body is not its last byte, and what comes behind it is no D9.  *)
LEMMA JpegMarkers ==
    ASSUME NEW body \in Bodies, NEW k \in 3 .. Len(body) + 3, Jpeg(body)[k] = "FF"
    PROVE  \/ k = Len(body) + 3 /\ Jpeg(body)[k + 1] = "D9"
           \/ k < Len(body) + 2 /\ Jpeg(body)[k + 1] = "00"
<1>1. Len(body) \in Nat /\ DOMAIN body = 1 .. Len(body)
  BY FrameScannerAssumption
<1>2. CASE k = Len(body) + 3
  BY <1>1, <1>2, JpegIs
<1>3. CASE k < Len(body) + 3
  <2>1. k - 2 \in 1 .. Len(body) /\ (k - 2) + 2 = k
    BY <1>1, <1>3
  <2>2. body[k - 2] = "FF"
    BY <2>1, JpegIs
  <2>3. k - 2 < Len(body) /\ body[(k - 2) + 1] = "00"
    BY <1>1, <2>1, <2>2, FrameScannerAssumption
  <2>4. (k - 2) + 1 \in 1 .. Len(body) /\ ((k - 2) + 1) + 2 = k + 1
    BY <1>1, <2>1, <2>3
  <2>5. Jpeg(body)[k + 1] = "00"
    BY <2>3, <2>4, JpegIs
  <2>. QED
    BY <1>1, <1>3, <2>3, <2>5
<1>. QED
  BY <1>1, <1>2, <1>3

LEMMA JpegsAre ==
    ASSUME pictures \in Seq(Bodies)
    PROVE  /\ Jpegs \in Seq(Seq(Byte))
           /\ Len(Jpegs) = Len(pictures) /\ Len(pictures) \in Nat
           /\ DOMAIN pictures = 1 .. Len(pictures)
           /\ \A n \in 1 .. Len(pictures) : pictures[n] \in Bodies /\ Jpegs[n] = Jpeg(pictures[n])
<1>1. Len(pictures) \in Nat /\ DOMAIN pictures = 1 .. Len(pictures)
      /\ \A n \in 1 .. Len(pictures) : pictures[n] \in Bodies
  OBVIOUS
<1>2. \A n \in 1 .. Len(pictures) : Jpegs[n] = Jpeg(pictures[n]) /\ Jpegs[n] \in Seq(Byte)
  BY <1>1, JpegIs DEF Jpegs
<1>3. Jpegs \in [1 .. Len(pictures) -> Seq(Byte)]
  BY <1>1, <1>2 DEF Jpegs
<1>. QED
  BY <1>1, <1>2, <1>3

-----------------------------------------------------------------------------
(* The inductive invariant.                                                  *)

(* The picture the reader is at, and how many bytes of it have been read.    *)
Current == Len(delivered) + 1
Offset == read - Ends(Jpegs, Len(delivered))

(* What was delivered are the first pictures, and the reader is in the next. *)
Place ==
    /\ Len(delivered) <= Len(Jpegs)
    /\ \A n \in 1 .. Len(delivered) : delivered[n] = Jpegs[n]
    /\ 0 <= Offset
    /\ Current <= Len(Jpegs) => Offset < Len(Jpegs[Current])

(* How the reader's state fits the place. It is between two pictures, unless *)
(* the stream ended in the first marker; data is what it read of the picture;*)
(* and it has seen an FF exactly if the last byte was one.                   *)
ReaderInv ==
    /\ at \in {"top", "start"} => Offset = 0 \/ AtEOF
    /\ at = "startFF" => Offset = 1
    /\ at \in {"body", "bodyFF"} =>
          /\ Current <= Len(Jpegs) /\ Offset >= 2
          /\ data = SubSeq(Jpegs[Current], 1, Offset)
    /\ at = "body" => Offset <= Len(pictures[Current]) + 2 /\ Len(data) <= MaxSize
    /\ at = "bodyFF" =>
          Offset >= 3 /\ Jpegs[Current][Offset] = "FF" /\ Len(data) <= MaxSize + 1
    /\ at = "wait" => AtEOF /\ delivered # << >>

(* An outcome that speaks of the end of the stream is one of it.             *)
OutcomeInv ==
    /\ outcome # "none" => at = "over"
    /\ outcome \in {"noFrames", "EOF"} => AtEOF /\ delivered = << >>
    /\ outcome \in {"end", "exitError"} => AtEOF /\ delivered # << >>

ScanInv ==
    /\ pictures \in Seq(Bodies)
    /\ ScanTypeOK
    /\ Place
    /\ ReaderInv
    /\ OutcomeInv

-----------------------------------------------------------------------------
(* What the invariant says of numbers.                                       *)

LEMMA Numbers ==
    ASSUME ScanInv
    PROVE  /\ Jpegs \in Seq(Seq(Byte))
           /\ Len(Jpegs) = Len(pictures) /\ Len(Jpegs) \in Nat
           /\ Len(delivered) \in 0 .. Len(Jpegs)
           /\ Ends(Jpegs, Len(delivered)) \in Nat
           /\ Current \in Nat \ {0}
           /\ read \in Nat /\ written \in Nat /\ Offset \in Nat
           /\ read = Ends(Jpegs, Len(delivered)) + Offset
           /\ read <= written /\ written <= Len(Stream) /\ Len(Stream) \in Nat
<1>1. /\ Jpegs \in Seq(Seq(Byte))
      /\ Len(Jpegs) = Len(pictures) /\ Len(Jpegs) \in Nat
  BY JpegsAre DEF ScanInv
<1>2. Len(delivered) \in 0 .. Len(Jpegs)
  <2>1. delivered \in Seq(Seq(Byte))
    BY DEF ScanInv, ScanTypeOK
  <2>2. Len(delivered) \in Nat
    BY <2>1
  <2>3. Len(delivered) <= Len(Jpegs)
    BY DEF ScanInv, Place
  <2>. QED
    BY <1>1, <2>2, <2>3
<1>3. Ends(Jpegs, Len(delivered)) \in Nat
  BY <1>1, <1>2, EndsAre
<1>4. Stream \in Seq(Byte)
  BY <1>1, EndsAre DEF Stream
<1>5. Len(Stream) \in Nat /\ written \in 0 .. Len(Stream) /\ read \in 0 .. written
  <2>1. Len(Stream) \in Nat
    BY <1>4
  <2>2. written \in 0 .. Len(Stream) /\ read \in 0 .. written
    BY DEF ScanInv, ScanTypeOK
  <2>. QED
    BY <2>1, <2>2
<1>6. 0 <= Offset
  BY DEF ScanInv, Place
<1>. QED
  BY <1>1, <1>2, <1>3, <1>5, <1>6 DEF Current, Offset

(* A byte that the reader can read is the next one of the picture it is at.  *)
LEMMA NextByte ==
    ASSUME ScanInv, read < written
    PROVE  /\ Current \in 1 .. Len(pictures) /\ Current <= Len(Jpegs)
           /\ pictures[Current] \in Bodies /\ Jpegs[Current] = Jpeg(pictures[Current])
           /\ Jpegs[Current] \in Seq(Byte)
           /\ Len(pictures[Current]) \in Nat /\ Len(Jpegs[Current]) = Len(pictures[Current]) + 4
           /\ Offset + 1 \in 1 .. Len(Jpegs[Current])
           /\ Stream[read + 1] = Jpegs[Current][Offset + 1]
<1>1. Current <= Len(Jpegs)
  <2>1. ASSUME Len(delivered) = Len(Jpegs) PROVE FALSE
    <3>1. Ends(Jpegs, Len(delivered)) = Len(Stream)
      BY <2>1, Numbers, EndsAre DEF Stream
    <3>. QED
      BY <3>1, Numbers
  <2>. QED
    BY <2>1, Numbers DEF Current
<1>2. Current \in 1 .. Len(pictures)
  BY <1>1, Numbers
<1>3. pictures[Current] \in Bodies /\ Jpegs[Current] = Jpeg(pictures[Current])
  BY <1>2, JpegsAre DEF ScanInv
<1>4. /\ Jpegs[Current] \in Seq(Byte)
      /\ Len(pictures[Current]) \in Nat /\ Len(Jpegs[Current]) = Len(pictures[Current]) + 4
  BY <1>3, JpegIs
<1>5. Offset < Len(Jpegs[Current])
  BY <1>1 DEF ScanInv, Place
<1>6. Offset + 1 \in 1 .. Len(Jpegs[Current])
  <2>1. Offset \in Nat
    BY Numbers
  <2>. QED
    BY ONLY <1>4, <1>5, <2>1
<1>7. Stream[Ends(Jpegs, Current - 1) + (Offset + 1)] = Jpegs[Current][Offset + 1]
  <2>1. Jpegs \in Seq(Seq(Byte)) /\ Current \in 1 .. Len(Jpegs)
    BY <1>2, Numbers
  <2>. QED
    BY <1>6, <2>1, Found DEF Stream
<1>8. Current - 1 = Len(delivered)
  BY Numbers DEF Current
<1>9. Ends(Jpegs, Current - 1) + (Offset + 1) = read + 1
  BY <1>8, Numbers
<1>. QED
  BY <1>1, <1>2, <1>3, <1>4, <1>6, <1>7, <1>9

(* The pictures never change.                                                *)
LEMMA SamePictures ==
    ASSUME UNCHANGED pictures
    PROVE  Jpegs' = Jpegs /\ Stream' = Stream
BY DEF Stream, Jpegs

(* Whoever reads nothing stays where he is.                                  *)
LEMMA SamePlace ==
    ASSUME ScanInv, UNCHANGED <<pictures, read, delivered>>
    PROVE  /\ pictures' \in Seq(Bodies)
           /\ Place'
           /\ Current' = Current /\ Offset' = Offset /\ Jpegs' = Jpegs /\ Stream' = Stream
<1>1. Jpegs' = Jpegs /\ Stream' = Stream
  BY SamePictures
<1>2. Current' = Current /\ Offset' = Offset
  BY <1>1 DEF Current, Offset
<1>. QED
  BY <1>1, <1>2 DEF ScanInv, Place

-----------------------------------------------------------------------------
(* Every step preserves it.                                                  *)

(* Nothing written, nothing read.                                            *)
LEMMA Fresh ==
    ASSUME pictures \in Seq(Bodies), running \in BOOLEAN, cancelled \in BOOLEAN,
           written = 0, read = 0, data = << >>, retries = 0, delivered = << >>,
           \/ at = "top" /\ outcome = "none"
           \/ at = "over" /\ outcome = "cancelled"
    PROVE  ScanInv
<1>1. pictures \in Seq(Bodies)
  OBVIOUS
<1>2. /\ Jpegs \in Seq(Seq(Byte)) /\ Len(Jpegs) \in Nat
      /\ \A n \in 1 .. Len(Jpegs) : Len(Jpegs[n]) > 0
  <2>1. \A n \in 1 .. Len(pictures) : Len(Jpeg(pictures[n])) > 0
    BY <1>1, JpegsAre, JpegIs
  <2>. QED
    BY <1>1, <2>1, JpegsAre
<1>3. Stream \in Seq(Byte) /\ Ends(Jpegs, 0) = 0
  BY <1>2, EndsAre DEF Stream
<1>4. MaxStartupRetries \in Nat /\ MaxSize \in Nat
  BY FrameScannerAssumption
<1>5. /\ written = 0 /\ read = 0 /\ data = << >> /\ retries = 0 /\ delivered = << >>
      /\ \/ at = "top" /\ outcome = "none"
         \/ at = "over" /\ outcome = "cancelled"
  OBVIOUS
<1>6. Len(delivered) = 0 /\ Len(data) = 0 /\ data \in Seq(Byte) /\ delivered \in Seq(Seq(Byte))
  BY <1>5
<1>7. ScanTypeOK
  <2>1. Len(Stream) \in Nat
    BY <1>3
  <2>2. written \in 0 .. Len(Stream) /\ read \in 0 .. written /\ retries \in 0 .. MaxStartupRetries
    BY <1>4, <1>5, <2>1
  <2>3. Len(data) <= MaxSize + 2
    BY <1>4, <1>6
  <2>4. /\ running \in BOOLEAN /\ cancelled \in BOOLEAN
        /\ at \in {"top", "start", "startFF", "body", "bodyFF", "wait", "over"}
        /\ outcome \in {"none", "end", "exitError", "noFrames", "EOF", "tooLarge", "cancelled"}
    BY <1>5
  <2>. QED
    BY ONLY <1>6, <2>2, <2>3, <2>4 DEF ScanTypeOK
<1>8. Current = 1 /\ Offset = 0
  BY <1>3, <1>5, <1>6 DEF Current, Offset
<1>9. Place
  BY <1>2, <1>6, <1>8 DEF Place
<1>10. ReaderInv /\ OutcomeInv
  BY <1>5, <1>8 DEF ReaderInv, OutcomeInv
<1>. QED
  BY <1>1, <1>7, <1>9, <1>10 DEF ScanInv

LEMMA ScanInitInv == ScanInit => ScanInv
<1>. SUFFICES ASSUME ScanInit PROVE ScanInv
  OBVIOUS
<1>1. pictures \in Seq(Bodies)
  BY DEF ScanInit, BoundedSeq, SeqOf
<1>. QED
  BY <1>1, Fresh DEF ScanInit

LEMMA WriteStep ==
    ASSUME ScanInv, Write
    PROVE  ScanInv'
<1>1. /\ running /\ written < Len(Stream) /\ written' = written + 1
      /\ UNCHANGED <<pictures, running, cancelled, at, read, data, retries, delivered, outcome>>
  BY DEF Write
<1>2. /\ pictures' \in Seq(Bodies) /\ Place'
      /\ Current' = Current /\ Offset' = Offset /\ Jpegs' = Jpegs /\ Stream' = Stream
  BY <1>1, SamePlace
<1>3. written' \in 0 .. Len(Stream') /\ read' \in 0 .. written'
  BY <1>1, <1>2, Numbers
<1>4. ScanTypeOK'
  BY <1>1, <1>3 DEF ScanInv, ScanTypeOK
<1>5. ~ AtEOF
  BY <1>1 DEF AtEOF
<1>6. ReaderInv' /\ OutcomeInv'
  BY <1>1, <1>2, <1>5 DEF ScanInv, ReaderInv, OutcomeInv
<1>. QED
  BY <1>2, <1>4, <1>6 DEF ScanInv

LEMMA ExitStep ==
    ASSUME ScanInv, FFmpegExits
    PROVE  ScanInv'
<1>1. /\ running /\ running' = FALSE
      /\ UNCHANGED <<pictures, written, cancelled, at, read, data, retries, delivered, outcome>>
  BY DEF FFmpegExits
<1>2. /\ pictures' \in Seq(Bodies) /\ Place'
      /\ Current' = Current /\ Offset' = Offset /\ Jpegs' = Jpegs /\ Stream' = Stream
  BY <1>1, SamePlace
<1>3. ScanTypeOK'
  BY <1>1, <1>2 DEF ScanInv, ScanTypeOK
<1>4. ~ AtEOF
  BY <1>1 DEF AtEOF
<1>5. ReaderInv' /\ OutcomeInv'
  BY <1>1, <1>2, <1>4 DEF ScanInv, ReaderInv, OutcomeInv
<1>. QED
  BY <1>2, <1>3, <1>5 DEF ScanInv

(* Cancel, and no step at all.                                               *)
LEMMA CancelStep ==
    ASSUME ScanInv, cancelled' \in BOOLEAN,
           UNCHANGED <<ffmpegVars, at, read, data, retries, delivered, outcome>>
    PROVE  ScanInv'
<1>1. UNCHANGED <<pictures, written, running, at, read, data, retries, delivered, outcome>>
  BY DEF ffmpegVars
<1>2. /\ pictures' \in Seq(Bodies) /\ Place'
      /\ Current' = Current /\ Offset' = Offset /\ Jpegs' = Jpegs /\ Stream' = Stream
  BY <1>1, SamePlace
<1>3. ScanTypeOK'
  BY <1>1, <1>2 DEF ScanInv, ScanTypeOK
<1>4. AtEOF' <=> AtEOF
  BY <1>1 DEF AtEOF
<1>5. ReaderInv' /\ OutcomeInv'
  BY <1>1, <1>2, <1>4 DEF ScanInv, ReaderInv, OutcomeInv
<1>. QED
  BY <1>2, <1>3, <1>5 DEF ScanInv

(* A step of the reader that reads nothing.                                  *)
LEMMA IdleStep ==
    ASSUME ScanInv, at # "over", UNCHANGED <<ffmpegVars, read, data, delivered>>,
           retries' \in 0 .. MaxStartupRetries,
           \/ Stay /\ at' = "start" /\ at = "top"
           \/ Stay /\ at' = "top" /\ AtEOF
           \/ Stay /\ at' = "wait" /\ AtEOF /\ delivered # << >>
           \/ Return("cancelled")
           \/ Return("noFrames") /\ AtEOF /\ delivered = << >>
           \/ Return("EOF") /\ AtEOF /\ delivered = << >>
           \/ Return("end") /\ AtEOF /\ delivered # << >>
           \/ Return("exitError") /\ AtEOF /\ delivered # << >>
    PROVE  ScanInv'
<1>1. UNCHANGED <<pictures, written, running, read, data, delivered>>
  BY DEF ffmpegVars
<1>2. /\ pictures' \in Seq(Bodies) /\ Place'
      /\ Current' = Current /\ Offset' = Offset /\ Jpegs' = Jpegs /\ Stream' = Stream
  BY <1>1, SamePlace
<1>3. AtEOF' <=> AtEOF
  BY <1>1 DEF AtEOF
<1>4. outcome = "none"
  BY DEF ScanInv, OutcomeInv
<1>5. ScanTypeOK'
  BY <1>1, <1>2 DEF ScanInv, ScanTypeOK, Stay, Return
<1>6. ReaderInv'
  BY <1>1, <1>2, <1>3 DEF ScanInv, ReaderInv, Return
<1>7. OutcomeInv'
  BY <1>1, <1>3, <1>4 DEF OutcomeInv, Return, Stay
<1>. QED
  BY <1>2, <1>5, <1>6, <1>7 DEF ScanInv

(* One byte further within the picture.                                      *)
LEMMA Advance ==
    ASSUME ScanInv, read < written, read' = read + 1, UNCHANGED <<ffmpegVars, delivered>>,
           Offset + 1 < Len(Jpegs[Current])
    PROVE  /\ pictures' \in Seq(Bodies) /\ Place'
           /\ Current' = Current /\ Offset' = Offset + 1
           /\ Jpegs' = Jpegs /\ Stream' = Stream
           /\ written' \in 0 .. Len(Stream)' /\ read' \in 0 .. written'
           /\ pictures' = pictures /\ running' = running /\ delivered' = delivered
<1>1. pictures' = pictures /\ written' = written /\ running' = running /\ delivered' = delivered
  BY DEF ffmpegVars
<1>2. Jpegs' = Jpegs /\ Stream' = Stream
  BY <1>1, SamePictures
<1>3. Current' = Current /\ Offset' = read' - Ends(Jpegs, Len(delivered))
  BY <1>1, <1>2 DEF Current, Offset
<1>4. Offset' = Offset + 1
  BY <1>3, Numbers
<1>5. Place'
  <2>1. /\ Len(delivered) <= Len(Jpegs)
        /\ \A n \in 1 .. Len(delivered) : delivered[n] = Jpegs[n]
    BY DEF ScanInv, Place
  <2>2. 0 <= Offset'
    BY <1>4, Numbers
  <2>. QED
    BY <1>1, <1>2, <1>3, <1>4, <2>1, <2>2 DEF Place
<1>6. written' \in 0 .. Len(Stream)' /\ read' \in 0 .. written'
  <2>1. /\ read \in Nat /\ written \in Nat /\ Len(Stream) \in Nat
        /\ read < written /\ written <= Len(Stream)
    BY <1>1, Numbers
  <2>2. read' = read + 1 /\ written' = written /\ Len(Stream)' = Len(Stream)
    BY <1>1, <1>2
  <2>. QED
    BY ONLY <2>1, <2>2
<1>7. pictures' \in Seq(Bodies)
  BY <1>1 DEF ScanInv
<1>. QED
  BY <1>1, <1>2, <1>3, <1>4, <1>5, <1>6, <1>7

LEMMA FindStartStep ==
    ASSUME ScanInv, NEW b \in Byte, FindStart(b)
    PROVE  ScanInv'
<1>1. /\ at \in {"start", "startFF"} /\ read < written /\ b = Stream[read + 1]
      /\ read' = read + 1
      /\ UNCHANGED <<ffmpegVars, cancelled, retries, delivered, outcome>>
  BY DEF FindStart, GetByte
<1>2. ~ AtEOF
  BY <1>1, Numbers DEF AtEOF
<1>. DEFINE body == pictures[Current]  J == Jpegs[Current]
<1>3. /\ Current <= Len(Jpegs) /\ body \in Bodies /\ J = Jpeg(body) /\ J \in Seq(Byte)
      /\ Len(body) \in Nat /\ Len(J) = Len(body) + 4 /\ b = J[Offset + 1]
  BY <1>1, NextByte
<1>4. J[1] = "FF" /\ J[2] = "D8"
  BY <1>3, JpegIs
<1>5. MaxSize \in Nat /\ MaxSize > 1
  BY FrameScannerAssumption
<1>6. outcome = "none"
  BY <1>1 DEF ScanInv, OutcomeInv
<1>7. /\ \/ at = "start" /\ Offset = 0 /\ at' = "startFF" /\ data' = data
         \/ at = "startFF" /\ Offset = 1 /\ at' = "body" /\ data' = <<"FF", "D8">>
  <2>1. CASE at = "start"
    <3>1. Offset = 0
      BY <1>2, <2>1 DEF ScanInv, ReaderInv
    <3>2. b = "FF"
      BY <1>3, <1>4, <3>1
    <3>. QED
      BY <2>1, <3>1, <3>2 DEF FindStart
  <2>2. CASE at = "startFF"
    <3>1. Offset = 1
      BY <2>2 DEF ScanInv, ReaderInv
    <3>2. b = "D8"
      BY <1>3, <1>4, <3>1
    <3>. QED
      BY <2>2, <3>1, <3>2 DEF FindStart
  <2>. QED
    BY <1>1, <2>1, <2>2
<1>. HIDE DEF body, J
<1>8. Offset + 1 < Len(J)
  BY <1>3, <1>7
<1>9. /\ pictures' \in Seq(Bodies) /\ Place'
      /\ Current' = Current /\ Offset' = Offset + 1 /\ Jpegs' = Jpegs /\ Stream' = Stream
      /\ written' \in 0 .. Len(Stream)' /\ read' \in 0 .. written' /\ pictures' = pictures
      /\ running' = running /\ delivered' = delivered
  BY <1>1, <1>8, Advance DEF J
<1>10. Len(<<"FF", "D8">>) = 2 /\ <<"FF", "D8">> \in Seq(Byte)
  BY DEF Byte
<1>11. SubSeq(J, 1, 2) = <<"FF", "D8">>
  <2>1. J \in Seq(Byte) /\ Len(J) >= 2
    BY ONLY <1>3
  <2>2. /\ SubSeq(J, 1, 2) \in Seq(Byte) /\ Len(SubSeq(J, 1, 2)) = 2
        /\ SubSeq(J, 1, 2)[1] = J[1] /\ SubSeq(J, 1, 2)[2] = J[2]
    BY ONLY <2>1
  <2>3. ASSUME NEW t \in Seq(Byte), Len(t) = 2, t[1] = "FF", t[2] = "D8"
        PROVE  t = <<"FF", "D8">>
    BY ONLY <2>3, <1>10
  <2>. QED
    BY ONLY <1>4, <2>2, <2>3
<1>12. ScanTypeOK'
  <2>1. data \in Seq(Byte) /\ Len(data) <= MaxSize + 2
    BY DEF ScanInv, ScanTypeOK
  <2>2. 2 <= MaxSize + 2
    BY <1>5
  <2>3. data' \in Seq(Byte) /\ Len(data') <= MaxSize + 2
    BY ONLY <1>7, <1>10, <2>1, <2>2
  <2>. QED
    BY <1>1, <1>7, <1>9, <2>3 DEF ScanInv, ScanTypeOK
<1>13. ReaderInv'
  <2>1. CASE at' = "startFF"
    BY <1>7, <1>9, <2>1 DEF ReaderInv
  <2>2. CASE at' = "body"
    <3>1. Offset = 1 /\ data' = <<"FF", "D8">> /\ Offset' = 2
      BY <1>7, <1>9, <2>2
    <3>2. data' = SubSeq(Jpegs'[Current'], 1, Offset')
      BY <1>9, <1>11, <3>1 DEF J
    <3>3. Current' <= Len(Jpegs)'
      BY <1>3, <1>9
    <3>4. Offset' <= Len(pictures'[Current']) + 2 /\ Len(data') <= MaxSize
      BY <1>3, <1>5, <1>9, <1>10, <3>1 DEF body
    <3>. QED
      BY <2>2, <3>1, <3>2, <3>3, <3>4 DEF ReaderInv
  <2>. QED
    BY <1>7, <2>1, <2>2
<1>14. OutcomeInv'
  BY <1>1, <1>6 DEF OutcomeInv
<1>. QED
  BY <1>9, <1>12, <1>13, <1>14 DEF ScanInv

(* A byte of the body, or the FF of its end.                                 *)
LEMMA BodyByte ==
    ASSUME ScanInv, at \in {"body", "bodyFF"}, NEW b \in Byte, read < written, b = Stream[read + 1]
    PROVE  /\ Current \in 1 .. Len(pictures) /\ Current <= Len(Jpegs)
           /\ pictures[Current] \in Bodies /\ Jpegs[Current] = Jpeg(pictures[Current])
           /\ Jpegs[Current] \in Seq(Byte)
           /\ Len(pictures[Current]) \in Nat /\ Len(Jpegs[Current]) = Len(pictures[Current]) + 4
           /\ Offset \in Nat /\ Offset >= 2 /\ Offset < Len(pictures[Current]) + 4
           /\ b = Jpegs[Current][Offset + 1]
           /\ data = SubSeq(Jpegs[Current], 1, Offset)
           /\ Append(data, b) = SubSeq(Jpegs[Current], 1, Offset + 1)
           /\ Append(data, b) \in Seq(Byte) /\ Len(Append(data, b)) = Len(data) + 1
           /\ outcome = "none"
<1>. DEFINE body == pictures[Current]  J == Jpegs[Current]
<1>1. /\ Current \in 1 .. Len(pictures) /\ Current <= Len(Jpegs)
      /\ body \in Bodies /\ J = Jpeg(body) /\ J \in Seq(Byte)
      /\ Len(body) \in Nat /\ Len(J) = Len(body) + 4 /\ Offset + 1 \in 1 .. Len(J)
      /\ b = J[Offset + 1]
  BY NextByte
<1>2. Offset \in Nat /\ Offset >= 2 /\ data = SubSeq(J, 1, Offset)
  BY Numbers DEF ScanInv, ReaderInv
<1>3. data \in Seq(Byte)
  BY DEF ScanInv, ScanTypeOK
<1>. HIDE DEF body, J
<1>4. SubSeq(J, 1, Offset + 1) = Append(SubSeq(J, 1, Offset), J[Offset + 1])
  BY <1>1, <1>2
<1>5. Append(data, b) \in Seq(Byte) /\ Len(Append(data, b)) = Len(data) + 1
  BY <1>3
<1>6. outcome = "none"
  BY DEF ScanInv, OutcomeInv
<1>7. Offset < Len(body) + 4
  BY <1>1, <1>2
<1>8. Append(data, b) = SubSeq(J, 1, Offset + 1)
  BY ONLY <1>1, <1>2, <1>4
<1>. QED
  BY ONLY <1>1, <1>2, <1>5, <1>6, <1>7, <1>8 DEF body, J

(* A complete picture is delivered.                                          *)
LEMMA DeliverStep ==
    ASSUME ScanInv, at = "bodyFF", read < written, read' = read + 1, Stream[read + 1] = "D9",
           delivered' = Append(delivered, Append(data, "D9")),
           at' = "top", data' = << >>,
           UNCHANGED <<ffmpegVars, cancelled, retries, outcome>>
    PROVE  ScanInv'
<1>. DEFINE body == pictures[Current]  J == Jpegs[Current]
<1>0. "D9" \in Byte
  BY DEF Byte
<1>1. /\ Current \in 1 .. Len(pictures) /\ Current <= Len(Jpegs)
      /\ body \in Bodies /\ J = Jpeg(body) /\ J \in Seq(Byte)
      /\ Len(body) \in Nat /\ Len(J) = Len(body) + 4
      /\ Offset \in Nat /\ Offset >= 2 /\ Offset < Len(body) + 4 /\ J[Offset + 1] = "D9"
      /\ Append(data, "D9") = SubSeq(J, 1, Offset + 1)
      /\ outcome = "none"
  BY <1>0, BodyByte
<1>2. Offset >= 3 /\ J[Offset] = "FF"
  BY DEF ScanInv, ReaderInv
<1>. HIDE DEF body, J
<1>3. Offset = Len(body) + 3
  <2>1. Offset \in 3 .. Len(body) + 3
    BY <1>1, <1>2
  <2>. QED
    BY <1>1, <1>2, <2>1, JpegMarkers
<1>4. delivered' = Append(delivered, J)
  <2>1. SubSeq(J, 1, Len(J)) = J
    BY <1>1
  <2>2. Offset + 1 = Len(J)
    BY <1>1, <1>3
  <2>. QED
    BY ONLY <1>1, <2>1, <2>2, delivered' = Append(delivered, Append(data, "D9"))
<1>5. pictures' = pictures /\ written' = written /\ running' = running
  BY DEF ffmpegVars
<1>6. Jpegs' = Jpegs /\ Stream' = Stream
  BY <1>5, SamePictures
<1>7. delivered \in Seq(Seq(Byte)) /\ Len(delivered) \in Nat /\ Current = Len(delivered) + 1
  BY DEF ScanInv, ScanTypeOK, Current
<1>8. /\ delivered' \in Seq(Seq(Byte)) /\ Len(delivered') = Current
      /\ \A n \in 1 .. Len(delivered) : delivered'[n] = delivered[n]
      /\ delivered'[Current] = J
  <2>. DEFINE d == delivered  S == Seq(Byte)
  <2>1. d \in Seq(S) /\ J \in S /\ Len(d) \in Nat
    BY <1>1, <1>7
  <2>. HIDE DEF d, S
  <2>2. /\ Append(d, J) \in Seq(S) /\ Len(Append(d, J)) = Len(d) + 1
        /\ \A n \in 1 .. Len(d) : Append(d, J)[n] = d[n]
        /\ Append(d, J)[Len(d) + 1] = J
    BY ONLY <2>1
  <2>. QED
    BY ONLY <1>4, <1>7, <2>2 DEF d, S
<1>9. Ends(Jpegs, Current) = Ends(Jpegs, Len(delivered)) + Len(J)
  <2>1. Current \in 1 .. Len(Jpegs) /\ Current - 1 = Len(delivered)
    BY <1>1, <1>7, Numbers
  <2>2. Ends(Jpegs, Current) = Ends(Jpegs, Current - 1) + Len(Jpegs[Current])
    BY <2>1, EndsAre, Numbers
  <2>. QED
    BY <2>1, <2>2 DEF J
<1>10. Offset' = 0 /\ Current' = Current + 1
  <2>1. Offset' = read' - Ends(Jpegs, Current)
    BY <1>6, <1>8 DEF Offset
  <2>2. Current' = Current + 1
    BY ONLY <1>8 DEF Current
  <2>3. read = Ends(Jpegs, Len(delivered)) + Offset /\ Ends(Jpegs, Len(delivered)) \in Nat
    BY Numbers
  <2>4. Offset' = (read + 1) - (Ends(Jpegs, Len(delivered)) + Len(J))
    BY ONLY <1>9, <2>1, read' = read + 1
  <2>5. Offset + 1 = Len(J) /\ Offset \in Nat /\ Len(J) \in Nat
    BY <1>1, <1>3
  <2>6. read \in Nat
    BY Numbers
  <2>7. Offset' = 0
    <3>. DEFINE e == Ends(Jpegs, Len(delivered))  l == Len(J)  o == Offset  r == read
    <3>1. /\ Offset' = (r + 1) - (e + l) /\ r = e + o /\ o + 1 = l
          /\ e \in Nat /\ l \in Nat /\ o \in Nat /\ r \in Nat
      BY ONLY <2>3, <2>4, <2>5, <2>6
    <3>. HIDE DEF e, l, o, r
    <3>. QED
      BY ONLY <3>1, SMTT(30)
  <2>. QED
    BY ONLY <2>2, <2>7
<1>11. Place'
  <2>1. \A n \in 1 .. Len(delivered) : delivered[n] = Jpegs[n]
    BY DEF ScanInv, Place
  <2>2. ASSUME NEW n \in 1 .. Current PROVE delivered'[n] = Jpegs[n]
    <3>1. CASE n = Current
      BY <1>8, <3>1 DEF J
    <3>2. CASE n # Current
      <4>1. n \in 1 .. Len(delivered)
        BY <1>7, <3>2
      <4>. QED
        BY <1>8, <2>1, <4>1
    <3>. QED
      BY <3>1, <3>2
  <2>3. ASSUME Current + 1 <= Len(Jpegs) PROVE 0 < Len(Jpegs[Current + 1])
    <3>1. Current + 1 \in 1 .. Len(pictures)
      BY <1>1, <2>3, Numbers
    <3>2. pictures[Current + 1] \in Bodies /\ Jpegs[Current + 1] = Jpeg(pictures[Current + 1])
      BY <3>1, JpegsAre DEF ScanInv
    <3>. QED
      BY <3>2, JpegIs
  <2>. QED
    BY <1>1, <1>6, <1>8, <1>10, <2>2, <2>3 DEF Place
<1>12. ScanTypeOK'
  <2>1. written' \in 0 .. Len(Stream)' /\ read' \in 0 .. written'
    <3>1. /\ read \in Nat /\ written \in Nat /\ Len(Stream) \in Nat
          /\ read < written /\ written <= Len(Stream)
      BY Numbers
    <3>2. read' = read + 1 /\ written' = written /\ Len(Stream)' = Len(Stream)
      BY <1>5, <1>6
    <3>. QED
      BY ONLY <3>1, <3>2
  <2>2. data' \in Seq(Byte) /\ Len(data') <= MaxSize + 2
    BY FrameScannerAssumption
  <2>. QED
    BY <1>5, <1>8, <2>1, <2>2 DEF ScanInv, ScanTypeOK
<1>13. ReaderInv' /\ OutcomeInv'
  BY <1>1, <1>10 DEF ReaderInv, OutcomeInv
<1>14. pictures' \in Seq(Bodies)
  BY <1>5 DEF ScanInv
<1>. QED
  BY <1>11, <1>12, <1>13, <1>14 DEF ScanInv

(* A byte goes into the picture, or is one too many for it.                  *)
LEMMA GrowStep ==
    ASSUME ScanInv, at \in {"body", "bodyFF"}, NEW b \in Byte, read < written,
           b = Stream[read + 1], read' = read + 1, data' = Append(data, b),
           \/ at = "body" /\ b = "FF" /\ at' = "bodyFF" /\ Stay
           \/ /\ b # (IF at = "body" THEN "FF" ELSE "D9")
              /\ \/ Len(data') <= MaxSize /\ at' = "body" /\ Stay
                 \/ Return("tooLarge")
                 \/ Return("cancelled"),
           UNCHANGED <<ffmpegVars, retries, delivered>>
    PROVE  ScanInv'
<1>. DEFINE body == pictures[Current]  J == Jpegs[Current]
<1>1. /\ Current <= Len(Jpegs)
      /\ body \in Bodies /\ J = Jpeg(body) /\ J \in Seq(Byte)
      /\ Len(body) \in Nat /\ Len(J) = Len(body) + 4
      /\ Offset \in Nat /\ Offset >= 2 /\ Offset < Len(body) + 4 /\ b = J[Offset + 1]
      /\ data' = SubSeq(J, 1, Offset + 1)
      /\ data' \in Seq(Byte) /\ Len(data') = Len(data) + 1
      /\ outcome = "none"
  BY BodyByte
<1>2. /\ at = "body" => Offset <= Len(body) + 2 /\ Len(data) <= MaxSize
      /\ at = "bodyFF" => Offset >= 3 /\ J[Offset] = "FF" /\ Len(data) <= MaxSize + 1
  BY DEF ScanInv, ReaderInv
<1>3. J[Len(body) + 3] = "FF"
  BY <1>1, JpegIs
<1>. HIDE DEF body, J
<1>4. /\ Offset <= Len(body) + 2
      /\ b # (IF at = "body" THEN "FF" ELSE "D9") => Offset + 1 <= Len(body) + 2
  <2>1. CASE at = "body"
    <3>1. ASSUME Offset = Len(body) + 2 PROVE b = "FF"
      <4>1. Offset + 1 = Len(body) + 3
        BY <1>1, <3>1
      <4>. QED
        BY ONLY <1>1, <1>3, <4>1
    <3>. QED
      BY <1>1, <1>2, <2>1, <3>1
  <2>2. CASE at = "bodyFF"
    <3>1. b # "D9"
      BY <2>2
    <3>2. Offset \in 3 .. Len(body) + 3 /\ J[Offset] = "FF"
      BY <1>1, <1>2, <2>2
    <3>3. Offset < Len(body) + 2
      BY <1>1, <3>1, <3>2, JpegMarkers
    <3>. QED
      BY <1>1, <3>3
  <2>. QED
    BY <2>1, <2>2
<1>5. Offset + 1 < Len(J)
  BY <1>1, <1>4
<1>6. /\ pictures' \in Seq(Bodies) /\ Place'
      /\ Current' = Current /\ Offset' = Offset + 1 /\ Jpegs' = Jpegs /\ Stream' = Stream
      /\ written' \in 0 .. Len(Stream)' /\ read' \in 0 .. written' /\ pictures' = pictures
      /\ running' = running /\ delivered' = delivered
  BY <1>5, Advance DEF J
<1>7. Len(data) \in Nat /\ MaxSize \in Nat
  <2>1. data \in Seq(Byte)
    BY DEF ScanInv, ScanTypeOK
  <2>. QED
    BY <2>1, FrameScannerAssumption
<1>8. ScanTypeOK'
  <2>1. Len(data') <= MaxSize + 2
    BY <1>1, <1>2, <1>7
  <2>. QED
    BY <1>1, <1>6, <2>1 DEF ScanInv, ScanTypeOK, Stay, Return
<1>9. ReaderInv'
  <2>1. /\ Current' <= Len(Jpegs)' /\ Offset' >= 2
        /\ data' = SubSeq(Jpegs'[Current'], 1, Offset')
    <3>1. data' = SubSeq(Jpegs'[Current'], 1, Offset')
      BY ONLY <1>1, <1>6 DEF J
    <3>2. Current' <= Len(Jpegs)' /\ Offset' >= 2
      BY ONLY <1>1, <1>6
    <3>. QED
      BY <3>1, <3>2
  <2>2. CASE at' = "bodyFF"
    <3>1. at = "body" /\ b = "FF"
      BY <2>2 DEF Return
    <3>2. Offset' >= 3 /\ Jpegs'[Current'][Offset'] = "FF"
      BY <1>1, <1>6, <3>1 DEF J
    <3>3. Len(data') <= MaxSize + 1
      BY <1>1, <1>2, <1>7, <3>1
    <3>. QED
      BY <2>1, <2>2, <3>2, <3>3 DEF ReaderInv
  <2>3. CASE at' = "body"
    <3>1. b # (IF at = "body" THEN "FF" ELSE "D9") /\ Len(data') <= MaxSize
      BY <2>3 DEF Return
    <3>2. Offset' <= Len(pictures'[Current']) + 2
      BY <1>4, <1>6, <3>1 DEF body
    <3>. QED
      BY <2>1, <2>3, <3>1, <3>2 DEF ReaderInv
  <2>4. CASE at' = "over"
    BY <2>4 DEF ReaderInv
  <2>. QED
    BY <2>2, <2>3, <2>4 DEF Return
<1>10. OutcomeInv'
  BY <1>1 DEF OutcomeInv, Stay, Return
<1>. QED
  BY <1>6, <1>8, <1>9, <1>10 DEF ScanInv

LEMMA ReadBodyStep ==
    ASSUME ScanInv, NEW b \in Byte, ReadBody(b)
    PROVE  ScanInv'
<1>1. /\ at \in {"body", "bodyFF"} /\ read < written /\ b = Stream[read + 1]
      /\ read' = read + 1
      /\ UNCHANGED <<ffmpegVars, retries>>
  BY DEF ReadBody, GetByte
<1>2. CASE /\ at = "bodyFF" /\ b = "D9"
           /\ delivered' = Append(delivered, Append(data, b))
           /\ at' = "top" /\ data' = << >> /\ Stay
  BY <1>1, <1>2, DeliverStep DEF Stay
<1>3. CASE /\ at = "body" /\ b = "FF"
           /\ data' = Append(data, b)
           /\ at' = "bodyFF" /\ Stay /\ UNCHANGED delivered
  BY <1>1, <1>3, GrowStep
<1>4. CASE /\ b # (IF at = "body" THEN "FF" ELSE "D9")
           /\ data' = Append(data, b)
           /\ IF Len(data') > MaxSize THEN ReturnError("tooLarge") ELSE at' = "body" /\ Stay
           /\ UNCHANGED delivered
  <2>1. data \in Seq(Byte)
    BY DEF ScanInv, ScanTypeOK
  <2>2. Len(data') \in Nat /\ MaxSize \in Nat
    BY <1>4, <2>1, FrameScannerAssumption
  <2>3. \/ Len(data') <= MaxSize /\ at' = "body" /\ Stay
        \/ Return("tooLarge")
        \/ Return("cancelled")
    BY <1>4, <2>2 DEF ReturnError
  <2>. QED
    BY <1>1, <1>4, <2>3, GrowStep
<1>. QED
  BY <1>2, <1>3, <1>4 DEF ReadBody

LEMMA IdleSteps ==
    ASSUME ScanInv, CheckContext \/ StartEOF \/ BodyEOF \/ WaitForExit
    PROVE  ScanInv'
<1>1. retries \in 0 .. MaxStartupRetries /\ MaxStartupRetries \in Nat
  BY FrameScannerAssumption DEF ScanInv, ScanTypeOK
<1>2. CASE CheckContext
  <2>1. /\ at = "top" /\ UNCHANGED <<ffmpegVars, read, data, retries, delivered>>
        /\ Return("cancelled") \/ (at' = "start" /\ Stay)
    BY <1>2 DEF CheckContext
  <2>. QED
    BY <1>1, <2>1, IdleStep
<1>3. CASE StartEOF
  <2>1. /\ at # "over" /\ UNCHANGED <<ffmpegVars, read, data, delivered>> /\ AtEOF
    BY <1>3 DEF StartEOF
  <2>2. \/ retries < MaxStartupRetries /\ retries' = retries + 1 /\ at' = "top" /\ Stay
        \/ delivered = << >> /\ Return("noFrames") /\ UNCHANGED retries
        \/ Return("cancelled") /\ UNCHANGED retries
        \/ delivered # << >> /\ at' = "wait" /\ Stay /\ UNCHANGED retries
    BY <1>3 DEF StartEOF, ReturnError
  <2>3. retries' \in 0 .. MaxStartupRetries
    BY <1>1, <2>2
  <2>. QED
    BY <2>1, <2>2, <2>3, IdleStep
<1>4. CASE BodyEOF
  <2>1. /\ at # "over" /\ UNCHANGED <<ffmpegVars, read, data, retries, delivered>> /\ AtEOF
    BY <1>4 DEF BodyEOF
  <2>2. \/ delivered # << >> /\ at' = "wait" /\ Stay
        \/ delivered = << >> /\ Return("EOF")
        \/ Return("cancelled")
    BY <1>4 DEF BodyEOF, ReturnError
  <2>. QED
    BY <1>1, <2>1, <2>2, IdleStep
<1>5. CASE WaitForExit
  <2>1. /\ at = "wait" /\ UNCHANGED <<ffmpegVars, read, data, retries, delivered>>
        /\ Return("end") \/ Return("exitError")
    BY <1>5 DEF WaitForExit
  <2>2. AtEOF /\ delivered # << >>
    BY <2>1 DEF ScanInv, ReaderInv
  <2>. QED
    BY <1>1, <2>1, <2>2, IdleStep
<1>. QED
  BY <1>2, <1>3, <1>4, <1>5

LEMMA ScanNextInv ==
    ASSUME ScanInv, [ScanNext]_scanVars
    PROVE  ScanInv'
<1>1. CASE Write
  BY <1>1, WriteStep
<1>2. CASE FFmpegExits
  BY <1>2, ExitStep
<1>3. CASE Cancel
  BY <1>3, CancelStep DEF Cancel
<1>4. CASE CheckContext \/ StartEOF \/ BodyEOF \/ WaitForExit
  BY <1>4, IdleSteps
<1>5. CASE \E b \in Byte : FindStart(b) \/ ReadBody(b)
  BY <1>5, FindStartStep, ReadBodyStep
<1>6. CASE UNCHANGED scanVars
  <2>1. cancelled' \in BOOLEAN
    BY <1>6 DEF scanVars, ScanInv, ScanTypeOK
  <2>. QED
    BY <1>6, <2>1, CancelStep DEF scanVars
<1>. QED
  BY <1>1, <1>2, <1>3, <1>4, <1>5, <1>6 DEF ScanNext, Reader

-----------------------------------------------------------------------------
(* The theorems about pictures.                                            *)

(* The reader stands where the invariant says, in every reachable state.     *)
THEOREM ScanInductive == ScanSpec => []ScanInv
<1>. QED
  BY ScanInitInv, ScanNextInv, PTL DEF ScanSpec

(* Type correctness; the bound on data says that a picture is given up once  *)
(* it is longer than MaxSize, and that the two bytes which may come between  *)
(* two looks at the size are all it can be too long (ffmpeg.go:184-211).     *)
THEOREM ScanTypeCorrect == ScanSpec => []ScanTypeOK
<1>1. ScanInv => ScanTypeOK
  BY DEF ScanInv
<1>. QED
  BY <1>1, ScanInductive, PTL

(* The reader is behind the pictures it delivered and before the next one's  *)
(* end.                                                                      *)
LEMMA Between ==
    ASSUME ScanInv
    PROVE  /\ \A n \in 1 .. Len(delivered) : End(n) <= read
           /\ End(Len(delivered)) <= read
           /\ \A n \in Current .. Len(pictures) : read < End(n)
<1>. DEFINE n0 == Len(delivered)
<1>1. /\ Jpegs \in Seq(Seq(Byte)) /\ Len(Jpegs) = Len(pictures) /\ Len(Jpegs) \in Nat
      /\ n0 \in 0 .. Len(Jpegs) /\ Ends(Jpegs, n0) \in Nat /\ Offset \in Nat
      /\ read = Ends(Jpegs, n0) + Offset /\ Current = n0 + 1 /\ read \in Nat
  BY Numbers DEF Current
<1>2. \A n \in Nat : End(n) = Ends(Jpegs, n)
  BY DEF End, Ends, Flat
<1>. HIDE DEF n0
<1>3. \A n \in 0 .. Len(Jpegs) : Ends(Jpegs, n) \in Nat
  BY <1>1, EndsAre
<1>4. ASSUME NEW n \in 0 .. n0 PROVE End(n) <= read
  <2>1. n \in 0 .. Len(Jpegs) /\ n0 \in n .. Len(Jpegs) /\ n \in Nat
    BY <1>1
  <2>2. Ends(Jpegs, n) <= Ends(Jpegs, n0)
    BY <1>1, <2>1, EndsGrow
  <2>. QED
    BY <1>1, <1>2, <1>3, <2>1, <2>2
<1>5. ASSUME NEW n \in Current .. Len(pictures) PROVE read < End(n)
  <2>1. /\ n \in Nat /\ n \in 0 .. Len(Jpegs) /\ Current \in 1 .. Len(Jpegs)
        /\ Current \in 0 .. Len(Jpegs) /\ n \in Current .. Len(Jpegs)
        /\ Current - 1 = n0 /\ Current <= Len(Jpegs)
    BY <1>1
  <2>2. Ends(Jpegs, Current) <= Ends(Jpegs, n)
    BY <1>1, <2>1, EndsGrow
  <2>3. Ends(Jpegs, Current) = Ends(Jpegs, Current - 1) + Len(Jpegs[Current])
    BY <1>1, <2>1, EndsAre
  <2>4. Offset < Len(Jpegs[Current])
    BY <2>1 DEF ScanInv, Place
  <2>5. Jpegs[Current] \in Seq(Byte)
    BY <1>1, <2>1
  <2>6. Len(Jpegs[Current]) \in Nat
    BY <2>5
  <2>7. End(n) = Ends(Jpegs, n) /\ Ends(Jpegs, n) \in Nat /\ Ends(Jpegs, Current) \in Nat
    BY <1>2, <1>3, <2>1
  <2>8. Ends(Jpegs, Current) = Ends(Jpegs, n0) + Len(Jpegs[Current])
    BY ONLY <2>1, <2>3
  <2>. DEFINE e == Ends(Jpegs, n0)  c == Ends(Jpegs, Current)  l == Len(Jpegs[Current])
              o == Offset  r == read  z == End(n)
  <2>9. /\ r = e + o /\ o < l /\ c = e + l /\ c <= z
        /\ e \in Nat /\ o \in Nat /\ l \in Nat /\ c \in Nat /\ z \in Nat
    BY <1>1, <2>2, <2>4, <2>6, <2>7, <2>8
  <2>. HIDE DEF e, c, l, o, r, z
  <2>10. r < z
    BY ONLY <2>9, SMTT(30)
  <2>. QED
    BY ONLY <2>10 DEF r, z
<1>6. \A n \in 1 .. n0 : n \in 0 .. n0
  OBVIOUS
<1>7. n0 \in 0 .. n0
  BY <1>1
<1>. QED
  BY <1>4, <1>5, <1>6, <1>7 DEF n0

(* The callback gets the pictures ffmpeg wrote, each whole, in order and     *)
(* once, and none that has been read is missing (ffmpeg.go:128-163).         *)
THEOREM Exact == ScanSpec => []DeliveredIsExact
<1>1. ScanInv => DeliveredIsExact
  <2>. SUFFICES ASSUME ScanInv PROVE DeliveredIsExact
    OBVIOUS
  <2>1. delivered \in Seq(Seq(Byte)) /\ Jpegs \in Seq(Seq(Byte)) /\ Len(Jpegs) = Len(pictures)
    BY Numbers DEF ScanInv, ScanTypeOK
  <2>2. Len(delivered) <= Len(Jpegs) /\ \A n \in 1 .. Len(delivered) : delivered[n] = Jpegs[n]
    BY DEF ScanInv, Place
  <2>3. IsPrefix(delivered, Jpegs)
    <3>. DEFINE S == Seq(Byte)
    <3>. HIDE DEF S
    <3>1. delivered \in Seq(S) /\ Jpegs \in Seq(S)
      BY <2>1 DEF S
    <3>2. /\ SubSeq(delivered, 1, Len(delivered)) = delivered
          /\ SubSeq(Jpegs, 1, Len(delivered)) \in Seq(S)
          /\ Len(SubSeq(Jpegs, 1, Len(delivered))) = Len(delivered)
          /\ \A n \in 1 .. Len(delivered) : SubSeq(Jpegs, 1, Len(delivered))[n] = Jpegs[n]
      BY <2>2, <3>1
    <3>3. SubSeq(Jpegs, 1, Len(delivered)) = delivered
      BY <2>2, <3>1, <3>2, SeqEqual
    <3>. QED
      BY <2>2, <3>2, <3>3 DEF IsPrefix
  <2>4. End(Len(delivered)) <= read
    BY Between
  <2>5. ASSUME Len(delivered) < Len(pictures) PROVE read < End(Len(delivered) + 1)
    <3>1. Len(delivered) + 1 \in Current .. Len(pictures)
      BY <2>5, Numbers DEF Current
    <3>. QED
      BY <3>1, Between
  <2>. QED
    BY <2>3, <2>4, <2>5 DEF DeliveredIsExact
<1>. QED
  BY <1>1, ScanInductive, PTL

(* How an extraction ends tells the truth of what ffmpeg wrote               *)
(* (ffmpeg.go:94-103, 134-155).                                              *)
THEOREM OutcomeTrue == ScanSpec => []OutcomeIsTrue
<1>1. ScanInv => OutcomeIsTrue
  <2>. SUFFICES ASSUME ScanInv PROVE OutcomeIsTrue
    OBVIOUS
  <2>. DEFINE complete == {n \in DOMAIN pictures : End(n) <= written}
  <2>1. /\ DOMAIN pictures = 1 .. Len(pictures) /\ Len(pictures) \in Nat
        /\ Len(delivered) \in 0 .. Len(pictures) /\ Current = Len(delivered) + 1
        /\ read \in Nat
    BY Numbers, JpegsAre DEF Current, ScanInv
  <2>2. DOMAIN delivered = 1 .. Len(delivered)
    BY DEF ScanInv, ScanTypeOK
  <2>3. ASSUME AtEOF PROVE complete = DOMAIN delivered
    <3>1. written = read
      BY <2>3 DEF AtEOF
    <3>2. ASSUME NEW n \in 1 .. Len(pictures), End(n) <= read PROVE n \in 1 .. Len(delivered)
      <4>1. ASSUME n > Len(delivered) PROVE FALSE
        <5>1. n \in Current .. Len(pictures)
          BY <2>1, <4>1
        <5>2. read < End(n)
          BY <5>1, Between
        <5>3. End(n) \in Int
          <6>1. n \in 0 .. Len(Jpegs) /\ Jpegs \in Seq(Seq(Byte))
            BY <2>1, Numbers
          <6>2. Ends(Jpegs, n) \in Nat
            BY <6>1, EndsAre
          <6>. QED
            BY <6>2 DEF Ends, Flat, End
        <5>. QED
          BY <2>1, <3>2, <5>2, <5>3
      <4>. QED
        BY <2>1, <4>1
    <3>3. ASSUME NEW n \in 1 .. Len(delivered) PROVE n \in 1 .. Len(pictures) /\ End(n) <= read
      BY <2>1, Between
    <3>. QED
      BY <2>1, <2>2, <3>1, <3>2, <3>3
  <2>4. delivered # << >> => DOMAIN delivered # {}
    <3>1. delivered \in Seq(Seq(Byte))
      BY DEF ScanInv, ScanTypeOK
    <3>2. delivered # << >> => 1 \in DOMAIN delivered
      BY <3>1
    <3>. QED
      BY <3>2
  <2>5. delivered = << >> => DOMAIN delivered = {}
    OBVIOUS
  <2>6. /\ outcome \in {"noFrames", "EOF"} => AtEOF /\ delivered = << >>
        /\ outcome \in {"end", "exitError"} => AtEOF /\ delivered # << >>
    BY DEF ScanInv, OutcomeInv
  <2>. HIDE DEF complete
  <2>7. /\ outcome \in {"noFrames", "EOF"} => complete = {}
        /\ outcome \in {"end", "exitError"} => complete # {} /\ complete = DOMAIN delivered
    BY <2>3, <2>4, <2>5, <2>6
  <2>. QED
    BY <2>7 DEF OutcomeIsTrue, complete
<1>. QED
  BY <1>1, ScanInductive, PTL

-----------------------------------------------------------------------------
(* The run of both modules.                                                  *)

(* An extraction and the way of a picture through the boxes do not touch     *)
(* each other's state, so each keeps its own invariant.                      *)
THEOREM ImageInductive == ImageSpec => [](ScanInv /\ BoxInv)
<1>1. ImageInit => ScanInv /\ BoxInv
  <2>. SUFFICES ASSUME ImageInit PROVE ScanInv /\ BoxInv
    OBVIOUS
  <2>1. BoxInv
    BY BoxInitInv DEF ImageInit
  <2>2. CASE ScanInit
    BY <2>1, <2>2, ScanInitInv
  <2>3. CASE ~ ScanInit
    <3>1. /\ pictures = << >> /\ written = 0 /\ running = FALSE /\ cancelled = TRUE
          /\ at = "over" /\ read = 0 /\ data = << >> /\ retries = 0
          /\ delivered = << >> /\ outcome = "cancelled"
      BY <2>3 DEF ImageInit
    <3>2. pictures \in Seq(Bodies)
      BY <3>1
    <3>. QED
      BY <2>1, <3>1, <3>2, Fresh
  <2>. QED
    BY <2>2, <2>3
<1>2. ASSUME ScanInv /\ BoxInv, [ImageNext]_<<scanVars, boxVars>>
      PROVE  (ScanInv /\ BoxInv)'
  <2>1. [ScanNext]_scanVars /\ [BoxNext]_boxVars
    BY <1>2 DEF ImageNext
  <2>. QED
    BY <1>2, <2>1, ScanNextInv, BoxNextInv
<1>. QED
  BY <1>1, <1>2, PTL DEF ImageSpec

(* Type correctness of both.                                                 *)
THEOREM ImageTypeCorrect == ImageSpec => []ImageTypeOK
<1>1. ScanInv /\ BoxInv => ImageTypeOK
  BY DEF ScanInv, BoxInv, ImageTypeOK
<1>. QED
  BY <1>1, ImageInductive, PTL
=============================================================================
