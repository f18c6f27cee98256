-------------------------- MODULE FaceTrackerProofs --------------------------
(* Proofs about FaceTracker for any workers, faces, boxes and ages. The      *)
(* argument: the ledger of a worker knows all numbers its tracker gave away  *)
(* (LedgerInv), its tracks are in the ledger and have missed no more updates *)
(* than frames (TrackInv), the loop only meets such tracks (LoopInv), and    *)
(* the events of the running process carry the birth the ledger has for them *)
(* (EventInv). If every frame has a face, updates are frames (Even).         *)
(* A matching is one to one, and the detections it leaves out get the new    *)
(* numbers one by one, so that Update pairs detections with tracks of their  *)
(* own (Paired); the loop changes neither. TypeOK follows from what a frame  *)
(* can add at most to the numbers given away and to the hits (Bounded).      *)
EXTENDS FaceTracker, FiniteSetTheorems, TLAPS

Shape ==
    /\ tracks = [w \in Workers |-> tracks[w]]
    /\ ledger = [w \in Workers |-> ledger[w]]
    /\ frame = [w \in Workers |-> frame[w]]
    /\ nextID \in [Workers -> Nat]
    /\ updates \in [Workers -> Seq([id : Nat, isNew : BOOLEAN])]
    /\ at \in [Workers -> Nat]
    /\ born \in Nat
    /\ restarts \in Nat

Life == [birth : Nat, missed : Nat]

TrackRecord == [box : Boxes, hits : Nat, tsu : Nat, embedded : BOOLEAN]

(* Every number a tracker gave to a track is behind its counter.             *)
LedgerInv ==
    \A w \in Workers :
        /\ DOMAIN ledger[w] \subseteq 1 .. nextID[w]
        /\ ledger[w] \in [DOMAIN ledger[w] -> Life]

(* TimeSinceUpdate counts the updates that missed a track, the ledger counts *)
(* the frames.                                                               *)
TrackInv ==
    \A w \in Workers :
        /\ tracks[w] \in [DOMAIN tracks[w] -> TrackRecord]
        /\ DOMAIN tracks[w] \subseteq DOMAIN ledger[w]
        /\ \A t \in DOMAIN tracks[w] :
              tracks[w][t].tsu <= ledger[w][t].missed /\ tracks[w][t].tsu <= MaxAge

(* So far the two were the same.                                             *)
Even ==
    \A w \in Workers : \A t \in DOMAIN tracks[w] :
        tracks[w][t].tsu = ledger[w][t].missed

LoopInv ==
    \A w \in Workers : ~Idle(w) =>
        /\ at[w] \in DOMAIN updates[w]
        /\ \A k \in DOMAIN updates[w] : updates[w][k].id \in DOMAIN tracks[w]

EventInv ==
    \A e \in events :
        /\ e.worker \in Workers
        /\ e.boot \in 0 .. restarts
        /\ e.boot = restarts =>
              /\ e.id \in DOMAIN ledger[e.worker]
              /\ e.birth = ledger[e.worker][e.id].birth

IInv ==
    /\ Shape /\ LedgerInv /\ TrackInv /\ LoopInv /\ EventInv
    /\ TracksAreKept /\ WorkerIdsAreUnique

LEMMA Bounds == MaxAge \in Nat /\ MaxFaces \in Nat
BY FaceTrackerAssumption

USE Bounds

-----------------------------------------------------------------------------
LEMMA InitInv == Init => IInv
<1>. SUFFICES ASSUME Init PROVE IInv
  OBVIOUS
<1>1. Shape
  <2>1. << >> \in Seq([id : Nat, isNew : BOOLEAN])
    OBVIOUS
  <2>. QED
    BY <2>1 DEF Init, Shape
<1>2. /\ \A w \in Workers : ledger[w] = << >> /\ tracks[w] = << >> /\ Idle(w)
      /\ DOMAIN << >> = {}
  BY DEF Init, Idle
<1>3. << >> \in [{} -> Life]
      /\ << >> \in [{} -> TrackRecord]
  BY <1>2
<1>4. LedgerInv
  BY <1>2, <1>3 DEF LedgerInv
<1>5. TrackInv
  BY <1>2, <1>3 DEF TrackInv
<1>. QED
  BY <1>1, <1>2, <1>4, <1>5
  DEF Init, IInv, LoopInv, EventInv, TracksAreKept, WorkerIdsAreUnique

(* What does not touch the events keeps their births, if the ledger does.    *)
LEMMA EventsKept ==
    ASSUME IInv, Shape', UNCHANGED <<events, restarts>>,
           \A w \in Workers : \A t \in DOMAIN ledger[w] :
              t \in DOMAIN ledger'[w] /\ ledger'[w][t].birth = ledger[w][t].birth
    PROVE  EventInv' /\ WorkerIdsAreUnique'
BY DEF IInv, EventInv, WorkerIdsAreUnique

(* The detections split into those with and those without a track.           *)
LEMMA Split ==
    ASSUME NEW d \in Detections, NEW m,
           NEW v \in Ascending(Matched(d, m)), NEW u \in Ascending(Unmatched(d, m))
    PROVE  /\ Len(u) \in Nat /\ DOMAIN u = 1 .. Len(u)
           /\ Len(v) \in Nat /\ DOMAIN v = 1 .. Len(v)
           /\ \A k \in DOMAIN u : u[k] \in DOMAIN d /\ m[u[k]] = 0
           /\ \A k \in DOMAIN v : v[k] \in DOMAIN d /\ m[v[k]] # 0
           /\ Len(v) + Len(u) = Len(d)
           /\ Len(d) \in Nat \ {0}
<1>1. PICK n \in 1 .. MaxFaces : d \in [1 .. n -> Detection]
  BY DEF Detections
<1>2. n \in Nat /\ n > 0 /\ DOMAIN d = 1 .. n /\ Len(d) = n
  BY <1>1
<1>3. IsFiniteSet(1 .. n) /\ Cardinality(1 .. n) = n
  BY <1>2, FS_Interval
<1>4. /\ IsFiniteSet(Matched(d, m)) /\ IsFiniteSet(Unmatched(d, m))
      /\ Cardinality(Matched(d, m)) \in Nat /\ Cardinality(Unmatched(d, m)) \in Nat
  BY <1>2, <1>3, FS_Subset, FS_CardinalityType DEF Matched, Unmatched
<1>5. Cardinality(Matched(d, m)) + Cardinality(Unmatched(d, m)) = n
  <2>1. /\ Matched(d, m) \cup Unmatched(d, m) = 1 .. n
        /\ Matched(d, m) \cap Unmatched(d, m) = {}
    BY <1>2 DEF Matched, Unmatched
  <2>2. Cardinality(Matched(d, m) \cap Unmatched(d, m)) = 0
    BY <2>1, FS_EmptySet
  <2>3. Cardinality(Matched(d, m) \cup Unmatched(d, m))
          = Cardinality(Matched(d, m)) + Cardinality(Unmatched(d, m))
              - Cardinality(Matched(d, m) \cap Unmatched(d, m))
    BY <1>4, FS_Union
  <2>4. n = Cardinality(Matched(d, m)) + Cardinality(Unmatched(d, m)) - 0
    BY <1>3, <2>1, <2>2, <2>3
  <2>. QED
    BY <1>2, <1>4, <2>4
<1>6. /\ u \in [1 .. Cardinality(Unmatched(d, m)) -> Unmatched(d, m)]
      /\ v \in [1 .. Cardinality(Matched(d, m)) -> Matched(d, m)]
  BY DEF Ascending
<1>7. /\ Len(u) = Cardinality(Unmatched(d, m))
      /\ Len(v) = Cardinality(Matched(d, m))
  BY <1>4, <1>6
<1>8. /\ \A k \in DOMAIN u : u[k] \in Unmatched(d, m)
      /\ \A k \in DOMAIN v : v[k] \in Matched(d, m)
      /\ DOMAIN u = 1 .. Len(u) /\ DOMAIN v = 1 .. Len(v)
  BY <1>4, <1>6, <1>7
<1>9. Len(u) \in Nat /\ Len(v) \in Nat /\ Len(v) + Len(u) = Len(d) /\ Len(d) \in Nat \ {0}
  BY <1>2, <1>4, <1>5, <1>7
<1>. QED
  BY <1>8, <1>9 DEF Matched, Unmatched

-----------------------------------------------------------------------------
LEMMA ConcatIs ==
    ASSUME NEW S, NEW p \in Seq(S), NEW q \in Seq(S)
    PROVE  /\ p \o q \in Seq(S)
           /\ DOMAIN (p \o q) = 1 .. Len(p) + Len(q)
           /\ \A k \in 1 .. Len(p) : (p \o q)[k] = p[k]
           /\ \A k \in 1 .. Len(q) : (p \o q)[Len(p) + k] = q[k]
OBVIOUS

(* The new tracks, numbered behind all there were.                           *)
LEMMA Numbers ==
    ASSUME IInv, NEW w \in Workers, NEW u, Len(u) \in Nat, DOMAIN u = 1 .. Len(u)
    PROVE  /\ Range(NewIds(w, u)) = nextID[w] + 1 .. nextID[w] + Len(u)
           /\ \A k \in DOMAIN u : NewIds(w, u)[k] = nextID[w] + k
           /\ nextID[w] \in Nat
<1>1. nextID[w] \in Nat
  BY DEF IInv, Shape
<1>2. \A k \in DOMAIN u : NewIds(w, u)[k] = nextID[w] + k
  BY DEF NewIds
<1>3. DOMAIN NewIds(w, u) = 1 .. Len(u)
  BY DEF NewIds
<1>4. ASSUME NEW t \in nextID[w] + 1 .. nextID[w] + Len(u)
      PROVE  t \in Range(NewIds(w, u))
  <2>1. t - nextID[w] \in 1 .. Len(u) /\ nextID[w] + (t - nextID[w]) = t
    BY <1>1
  <2>. QED
    BY <1>2, <1>3, <2>1 DEF Range
<1>5. ASSUME NEW t \in Range(NewIds(w, u))
      PROVE  t \in nextID[w] + 1 .. nextID[w] + Len(u)
  <2>1. PICK k \in 1 .. Len(u) : t = nextID[w] + k
    BY <1>2, <1>3 DEF Range
  <2>. QED
    BY <1>1, <2>1
<1>. QED
  BY <1>1, <1>2, <1>4, <1>5

(* What Moved, Record and Keep return.                                       *)
LEMMA BoxType ==
    ASSUME NEW d \in Detections
    PROVE  \A i \in DOMAIN d : d[i].box \in Boxes
BY DEF Detections, Detection

LEMMA HitIs ==
    ASSUME NEW r \in TrackRecord, NEW b \in Boxes
    PROVE  Hit(r, b) \in TrackRecord /\ Hit(r, b).tsu = 0
<1>. DEFINE h == r.hits + 1
            n == 0
<1>1. h \in Nat /\ n \in Nat
  BY DEF TrackRecord
<1>2. Hit(r, b) = [r EXCEPT !.box = b, !.hits = h, !.tsu = n]
  BY DEF Hit
<1>3. Hit(r, b) \in TrackRecord /\ Hit(r, b).tsu = n
  <2>. HIDE DEF h, n
  <2>. QED
    BY <1>1, <1>2 DEF TrackRecord
<1>. QED
  BY <1>3

LEMMA MissIs ==
    ASSUME NEW r \in TrackRecord
    PROVE  Miss(r) \in TrackRecord /\ Miss(r).tsu = r.tsu + 1
BY DEF TrackRecord, Miss

LEMMA KnownIs ==
    ASSUME NEW r \in TrackRecord
    PROVE  Known(r) \in TrackRecord /\ Known(r).tsu = r.tsu
BY DEF TrackRecord, Known

LEMMA SpottedIs ==
    ASSUME NEW r \in Life
    PROVE  Spotted(r) \in Life /\ Spotted(r).birth = r.birth /\ Spotted(r).missed = 0
BY DEF Life, Spotted

LEMMA PassedIs ==
    ASSUME NEW r \in Life
    PROVE  Passed(r) \in Life /\ Passed(r).birth = r.birth /\ Passed(r).missed = r.missed + 1
<1>. DEFINE n == r.missed + 1
<1>1. n \in Nat
  BY DEF Life
<1>2. Passed(r) = [r EXCEPT !.missed = n]
  BY DEF Passed
<1>3. Passed(r) \in Life /\ Passed(r).birth = r.birth /\ Passed(r).missed = n
  <2>. HIDE DEF n
  <2>. QED
    BY <1>1, <1>2 DEF Life
<1>. QED
  BY <1>3

LEMMA MovedIs ==
    ASSUME NEW d \in Detections, NEW T, T \in [DOMAIN T -> TrackRecord],
           NEW m \in [DOMAIN d -> DOMAIN T \cup {0}]
    PROVE  /\ DOMAIN Moved(T, d, m) = DOMAIN T
           /\ \A t \in DOMAIN T :
                /\ Moved(T, d, m)[t] \in TrackRecord
                /\ Moved(T, d, m)[t].tsu = IF t \in Range(m) THEN 0 ELSE T[t].tsu + 1
<1>1. \A t \in Range(m) : d[CHOOSE i \in DOMAIN d : m[i] = t].box \in Boxes
  BY BoxType DEF Range
<1>2. ASSUME NEW t \in DOMAIN T
      PROVE  /\ Moved(T, d, m)[t] \in TrackRecord
             /\ Moved(T, d, m)[t].tsu = IF t \in Range(m) THEN 0 ELSE T[t].tsu + 1
  <2>1. T[t] \in TrackRecord
    OBVIOUS
  <2>. QED
    BY <1>1, <2>1, HitIs, MissIs DEF Moved
<1>. QED
  BY <1>2 DEF Moved

LEMMA RecordIs ==
    ASSUME NEW D, NEW L \in [D -> Life], NEW N, NEW new \in [N -> Nat], NEW seen
    PROVE  /\ DOMAIN Record(L, seen, new) = D \cup N
           /\ Record(L, seen, new) \in [D \cup N -> Life]
           /\ \A t \in N : Record(L, seen, new)[t].missed = 0
           /\ \A t \in D \ N :
                /\ Record(L, seen, new)[t].birth = L[t].birth
                /\ Record(L, seen, new)[t].missed = IF t \in seen THEN 0 ELSE L[t].missed + 1
<1>1. ASSUME NEW t \in N
      PROVE  Record(L, seen, new)[t] \in Life /\ Record(L, seen, new)[t].missed = 0
  BY DEF Record, Life
<1>2. ASSUME NEW t \in D \ N
      PROVE  /\ Record(L, seen, new)[t] \in Life
             /\ Record(L, seen, new)[t].birth = L[t].birth
             /\ Record(L, seen, new)[t].missed = IF t \in seen THEN 0 ELSE L[t].missed + 1
  <2>1. L[t] \in Life
    OBVIOUS
  <2>. QED
    BY <2>1, SpottedIs, PassedIs DEF Record
<1>3. /\ DOMAIN Record(L, seen, new) = D \cup N
      /\ Record(L, seen, new) = [t \in DOMAIN Record(L, seen, new) |-> Record(L, seen, new)[t]]
  BY DEF Record
<1>. QED
  BY <1>1, <1>2, <1>3

LEMMA RecordNone ==
    ASSUME NEW D, NEW L \in [D -> Life]
    PROVE  /\ DOMAIN Record(L, {}, << >>) = D
           /\ Record(L, {}, << >>) \in [D -> Life]
           /\ \A t \in D :
                /\ Record(L, {}, << >>)[t].birth = L[t].birth
                /\ Record(L, {}, << >>)[t].missed = L[t].missed + 1
<1>1. /\ DOMAIN Record(L, {}, << >>) = D
      /\ Record(L, {}, << >>) = [t \in D |-> Record(L, {}, << >>)[t]]
      /\ \A t \in D : Record(L, {}, << >>)[t] = Passed(L[t])
  <2>1. DOMAIN << >> = {} /\ DOMAIN L = D
    OBVIOUS
  <2>2. Record(L, {}, << >>) = [t \in D |-> Passed(L[t])]
    BY <2>1 DEF Record
  <2>. QED
    BY <2>2
<1>2. \A t \in D : L[t] \in Life
  OBVIOUS
<1>. QED
  BY <1>1, <1>2, PassedIs

LEMMA KeepIs ==
    ASSUME NEW T
    PROVE  /\ DOMAIN Keep(T) = {t \in DOMAIN T : T[t].tsu <= MaxAge}
           /\ \A t \in DOMAIN Keep(T) : Keep(T)[t] = T[t]
           /\ Keep(T) = [t \in DOMAIN Keep(T) |-> Keep(T)[t]]
BY DEF Keep, Restrict

(* What ProcessFrame does to a worker's tracker, for one matching.           *)
LEMMA UpdateStep ==
    ASSUME IInv, NEW w \in Workers, NEW d \in Detections, Update(w, d)
    PROVE  IInv' /\ (Even => Even')
<1>1. PICK m \in Matchings(tracks[w], d) :
        \E v \in Ascending(Matched(d, m)), u \in Ascending(Unmatched(d, m)) :
           MatchAndCreate(w, d, m, v, u)
  BY DEF Update
<1>2. PICK v \in Ascending(Matched(d, m)), u \in Ascending(Unmatched(d, m)) :
        MatchAndCreate(w, d, m, v, u)
  BY <1>1
<1>. DEFINE new  == nextID[w] + 1 .. nextID[w] + Len(u)
            ids  == NewIds(w, u)
            nth  == [t \in Range(ids) |-> CHOOSE k \in DOMAIN u : ids[k] = t]
            aged == Moved(tracks[w], d, m)
            all  == [t \in DOMAIN aged \cup DOMAIN nth |->
                       IF t \in DOMAIN nth THEN NewTrack(d[u[nth[t]]]) ELSE aged[t]]
            births == [t \in DOMAIN nth |-> born + nth[t]]
            book == Record(ledger[w], Range(m), births)
<1>3. /\ Len(u) \in Nat /\ DOMAIN u = 1 .. Len(u)
      /\ Len(v) \in Nat /\ DOMAIN v = 1 .. Len(v)
      /\ \A k \in DOMAIN u : u[k] \in DOMAIN d /\ m[u[k]] = 0
      /\ \A k \in DOMAIN v : v[k] \in DOMAIN d /\ m[v[k]] # 0
      /\ Len(v) + Len(u) > 0
  BY Split
<1>4. Range(ids) = new /\ nextID[w] \in Nat /\ \A k \in DOMAIN u : ids[k] = nextID[w] + k
  BY <1>3, Numbers
<1>5. \A t \in new : nth[t] \in DOMAIN u
  <2>. SUFFICES ASSUME NEW t \in new PROVE nth[t] \in DOMAIN u
    OBVIOUS
  <2>1. \E k \in DOMAIN u : ids[k] = t
    BY <1>4 DEF NewIds, Range
  <2>. QED
    BY <1>4, <2>1
<1>6. /\ m \in [DOMAIN d -> DOMAIN tracks[w] \cup {0}]
      /\ \A i \in DOMAIN d : m[i] \in Range(m)
      /\ Range(m) \subseteq DOMAIN tracks[w] \cup {0}
  BY DEF Matchings, Range
<1>7. /\ tracks' = [tracks EXCEPT ![w] = Keep(all)]
      /\ nextID' = [nextID EXCEPT ![w] = @ + Len(u)]
      /\ updates' = [updates EXCEPT ![w] =
                       [k \in DOMAIN v |-> [id |-> m[v[k]], isNew |-> FALSE]] \o
                       [k \in DOMAIN u |-> [id |-> ids[k], isNew |-> TRUE]]]
      /\ born' = born + Len(u)
      /\ ledger' = [ledger EXCEPT ![w] = book]
  BY <1>2 DEF MatchAndCreate, IInv, Shape
<1>8. /\ DOMAIN tracks[w] \subseteq DOMAIN ledger[w]
      /\ DOMAIN ledger[w] \subseteq 1 .. nextID[w]
      /\ \A t \in DOMAIN ledger[w] : t # 0 /\ t \notin new
  BY <1>4 DEF IInv, TrackInv, LedgerInv
<1>9. /\ DOMAIN aged = DOMAIN tracks[w]
      /\ \A t \in DOMAIN tracks[w] :
            /\ aged[t] \in TrackRecord
            /\ aged[t].tsu = IF t \in Range(m) THEN 0 ELSE tracks[w][t].tsu + 1
  BY <1>6, MovedIs DEF IInv, TrackInv
<1>10. /\ DOMAIN book = DOMAIN ledger[w] \cup new
       /\ book \in [DOMAIN book -> Life]
       /\ \A t \in new : book[t].missed = 0
       /\ \A t \in DOMAIN ledger[w] :
             /\ book[t].birth = ledger[w][t].birth
             /\ book[t].missed = IF t \in Range(m) THEN 0 ELSE ledger[w][t].missed + 1
  <2>1. births \in [new -> Nat] /\ DOMAIN births = new
    <3>1. ASSUME NEW t \in new PROVE born + nth[t] \in Nat
      <4>1. nth[t] \in 1 .. Len(u)
        BY <1>3, <1>5
      <4>. HIDE DEF nth
      <4>. QED
        BY <1>3, <4>1, SMTT(30) DEF IInv, Shape
    <3>2. DOMAIN nth = new
      BY <1>4
    <3>. HIDE DEF nth
    <3>. QED
      BY <3>1, <3>2
  <2>2. ledger[w] \in [DOMAIN ledger[w] -> Life]
    BY DEF IInv, LedgerInv
  <2>. HIDE DEF births
  <2>3. /\ DOMAIN book = DOMAIN ledger[w] \cup new
        /\ book \in [DOMAIN ledger[w] \cup new -> Life]
        /\ \A t \in new : book[t].missed = 0
        /\ \A t \in DOMAIN ledger[w] \ new :
              /\ book[t].birth = ledger[w][t].birth
              /\ book[t].missed = IF t \in Range(m) THEN 0 ELSE ledger[w][t].missed + 1
    <3>. DEFINE L == ledger[w]
                S == Range(m)
                D == DOMAIN L
                B == Record(L, S, births)
    <3>1. L \in [D -> Life]
      BY <2>2
    <3>2. /\ DOMAIN B = D \cup new
          /\ B \in [D \cup new -> Life]
          /\ \A t \in new : B[t].missed = 0
          /\ \A t \in D \ new :
                /\ B[t].birth = L[t].birth
                /\ B[t].missed = IF t \in S THEN 0 ELSE L[t].missed + 1
      <4>. HIDE DEF new, L, S, D
      <4>. QED
        BY <2>1, <3>1, RecordIs
    <3>. QED
      BY <3>2
  <2>. HIDE DEF book
  <2>. QED
    BY <1>8, <2>3
<1>11. /\ DOMAIN all = DOMAIN tracks[w] \cup new
       /\ \A t \in new : all[t] \in TrackRecord /\ all[t].tsu = 0
       /\ \A t \in DOMAIN tracks[w] : all[t] = aged[t]
  <2>1. ASSUME NEW t \in new PROVE d[u[nth[t]]].box \in Boxes
    <3>1. u[nth[t]] \in DOMAIN d
      BY <1>3, <1>5
    <3>. QED
      BY <3>1, BoxType
  <2>2. \A b \in Boxes : [box |-> b, hits |-> 1, tsu |-> 0, embedded |-> FALSE] \in TrackRecord
    BY DEF TrackRecord
  <2>. QED
    BY <1>4, <1>8, <1>9, <2>1, <2>2 DEF NewTrack
<1>. HIDE DEF ids, nth, aged, all, book
<1>12. ASSUME NEW t \in DOMAIN tracks[w]
       PROVE  /\ all[t] \in TrackRecord /\ all[t].tsu \in Nat
              /\ all[t].tsu <= book[t].missed
              /\ tracks[w][t].tsu = ledger[w][t].missed => all[t].tsu = book[t].missed
  <2>1. /\ t \in DOMAIN ledger[w] /\ tracks[w][t].tsu <= ledger[w][t].missed
        /\ tracks[w][t].tsu \in Nat /\ ledger[w][t].missed \in Nat
    BY <1>8 DEF IInv, TrackInv, LedgerInv, Life, TrackRecord
  <2>2. /\ all[t] \in TrackRecord
        /\ all[t].tsu = IF t \in Range(m) THEN 0 ELSE tracks[w][t].tsu + 1
        /\ book[t].missed = IF t \in Range(m) THEN 0 ELSE ledger[w][t].missed + 1
    BY <1>9, <1>10, <1>11, <2>1
  <2>. QED
    BY ONLY <2>1, <2>2
<1>13. /\ DOMAIN Keep(all) = {t \in DOMAIN all : all[t].tsu <= MaxAge}
       /\ DOMAIN Keep(all) \subseteq DOMAIN book
       /\ \A t \in DOMAIN book : book[t].missed <= MaxAge => t \in DOMAIN Keep(all)
       /\ \A t \in DOMAIN Keep(all) : Keep(all)[t] = all[t]
       /\ Keep(all) = [t \in DOMAIN Keep(all) |-> Keep(all)[t]]
       /\ DOMAIN Keep(all) \subseteq DOMAIN all
  <2>1. ASSUME NEW t \in DOMAIN ledger[w] \ DOMAIN tracks[w]
        PROVE  book[t].missed > MaxAge
    <3>1. ledger[w][t].missed \in Nat /\ ledger[w][t].missed > MaxAge
      BY DEF IInv, TracksAreKept, LedgerInv, Life
    <3>2. t \notin Range(m)
      BY <1>6, <1>8
    <3>. QED
      BY <1>10, <3>1, <3>2
  <2>2. ASSUME NEW t \in new PROVE t \in DOMAIN all /\ all[t].tsu <= MaxAge
    BY <1>11
  <2>3. ASSUME NEW t \in DOMAIN book, book[t].missed <= MaxAge
        PROVE  t \in DOMAIN all /\ all[t].tsu <= MaxAge
    <3>1. book[t].missed \in Nat
      BY <1>10 DEF Life
    <3>2. CASE t \in new
      BY <2>2, <3>2
    <3>3. CASE t \in DOMAIN tracks[w]
      BY <1>11, <1>12, <2>3, <3>1, <3>3
    <3>4. t \in new \/ t \in DOMAIN tracks[w]
      BY <1>10, <2>1, <2>3, <3>1
    <3>. QED
      BY <3>2, <3>3, <3>4
  <2>4. DOMAIN all \subseteq DOMAIN book
    BY <1>8, <1>10, <1>11
  <2>5. /\ DOMAIN Keep(all) = {t \in DOMAIN all : all[t].tsu <= MaxAge}
        /\ \A t \in DOMAIN Keep(all) : Keep(all)[t] = all[t]
        /\ Keep(all) = [t \in DOMAIN Keep(all) |-> Keep(all)[t]]
    BY ONLY KeepIs
  <2>. QED
    BY ONLY <2>3, <2>4, <2>5
<1>. DEFINE pairs == [k \in DOMAIN v |-> [id |-> m[v[k]], isNew |-> FALSE]] \o
                     [k \in DOMAIN u |-> [id |-> ids[k], isNew |-> TRUE]]
<1>14. /\ pairs \in Seq([id : Nat, isNew : BOOLEAN])
       /\ 1 \in DOMAIN pairs
       /\ \A k \in DOMAIN pairs : pairs[k].id \in DOMAIN Keep(all)
  <2>1. \A k \in 1 .. Len(v) : m[v[k]] \in DOMAIN tracks[w] /\ m[v[k]] \in Range(m)
    BY <1>3, <1>6
  <2>2. \A k \in 1 .. Len(v) : m[v[k]] \in Nat /\ m[v[k]] \in DOMAIN Keep(all)
    BY <1>4, <1>8, <1>10, <1>13, <2>1
  <2>3. \A k \in 1 .. Len(u) : ids[k] \in Nat /\ ids[k] \in new
    BY <1>3, <1>4
  <2>4. \A k \in 1 .. Len(u) : ids[k] \in DOMAIN Keep(all)
    BY <1>10, <1>13, <2>3
  <2>. DEFINE p == [k \in 1 .. Len(v) |-> [id |-> m[v[k]], isNew |-> FALSE]]
              q == [k \in 1 .. Len(u) |-> [id |-> ids[k], isNew |-> TRUE]]
  <2>5. /\ p \in Seq([id : Nat, isNew : BOOLEAN]) /\ Len(p) = Len(v)
        /\ \A k \in 1 .. Len(v) : p[k].id = m[v[k]]
    BY <1>3, <2>2
  <2>6. /\ q \in Seq([id : Nat, isNew : BOOLEAN]) /\ Len(q) = Len(u)
        /\ \A k \in 1 .. Len(u) : q[k].id = ids[k]
    BY <1>3, <2>3
  <2>7. pairs = p \o q
    BY <1>3
  <2>. HIDE DEF p, q, pairs
  <2>8. /\ pairs \in Seq([id : Nat, isNew : BOOLEAN])
        /\ DOMAIN pairs = 1 .. Len(v) + Len(u)
        /\ \A k \in 1 .. Len(v) : pairs[k] = p[k]
        /\ \A k \in 1 .. Len(u) : pairs[Len(v) + k] = q[k]
    <3>. DEFINE R == [id : Nat, isNew : BOOLEAN]
    <3>1. p \in Seq(R) /\ q \in Seq(R) /\ Len(p) = Len(v) /\ Len(q) = Len(u)
      BY <2>5, <2>6
    <3>2. pairs \in Seq(R)
      <4>. HIDE DEF R
      <4>. QED
        BY <2>7, <3>1, ConcatIs
    <3>3. /\ DOMAIN pairs = 1 .. Len(v) + Len(u)
          /\ \A k \in 1 .. Len(v) : pairs[k] = p[k]
          /\ \A k \in 1 .. Len(u) : pairs[Len(v) + k] = q[k]
      <4>. HIDE DEF R
      <4>1. /\ DOMAIN (p \o q) = 1 .. Len(p) + Len(q)
            /\ \A k \in 1 .. Len(p) : (p \o q)[k] = p[k]
            /\ \A k \in 1 .. Len(q) : (p \o q)[Len(p) + k] = q[k]
        BY <3>1
      <4>. QED
        BY <2>7, <3>1, <4>1
    <3>. QED
      BY <3>2, <3>3
  <2>9. ASSUME NEW k \in 1 .. Len(v) + Len(u)
        PROVE  pairs[k].id \in DOMAIN Keep(all)
    <3>1. CASE k \in 1 .. Len(v)
      <4>1. pairs[k] = p[k] /\ p[k].id = m[v[k]]
        BY ONLY <2>5, <2>8, <3>1
      <4>2. m[v[k]] \in DOMAIN Keep(all)
        BY ONLY <2>2, <3>1
      <4>. QED
        BY ONLY <4>1, <4>2
    <3>2. CASE k > Len(v)
      <4>1. PICK n \in 1 .. Len(u) : k = Len(v) + n
        <5>1. k - Len(v) \in 1 .. Len(u) /\ k = Len(v) + (k - Len(v))
          BY <1>3, <3>2
        <5>. QED
          BY <5>1
      <4>. QED
        BY <2>4, <2>6, <2>8, <4>1
    <3>. QED
      BY <1>3, <3>1, <3>2
  <2>. QED
    BY <1>3, <2>8, <2>9
<1>. HIDE DEF pairs
<1>15. /\ tracks' = [tracks EXCEPT ![w] = Keep(all)]
       /\ ledger' = [ledger EXCEPT ![w] = book]
       /\ updates' = [updates EXCEPT ![w] = pairs]
       /\ nextID' = [nextID EXCEPT ![w] = @ + Len(u)]
       /\ at' = [at EXCEPT ![w] = 1]
       /\ frame' = [frame EXCEPT ![w] = d]
       /\ born' = born + Len(u)
       /\ UNCHANGED <<events, restarts>>
  BY <1>7 DEF Update, pairs
<1>16. Shape'
  <2>1. /\ tracks' = [x \in Workers |-> tracks'[x]]
        /\ ledger' = [x \in Workers |-> ledger'[x]]
        /\ frame' = [x \in Workers |-> frame'[x]]
    BY <1>15 DEF IInv, Shape
  <2>2. nextID' \in [Workers -> Nat] /\ at' \in [Workers -> Nat]
    BY <1>3, <1>15 DEF IInv, Shape
  <2>3. updates' \in [Workers -> Seq([id : Nat, isNew : BOOLEAN])]
    BY <1>14, <1>15 DEF IInv, Shape
  <2>4. born' \in Nat /\ restarts' \in Nat
    BY <1>3, <1>15 DEF IInv, Shape
  <2>. QED
    BY <2>1, <2>2, <2>3, <2>4 DEF Shape
<1>17. /\ \A x \in Workers \ {w} :
            /\ tracks'[x] = tracks[x] /\ ledger'[x] = ledger[x] /\ frame'[x] = frame[x]
            /\ updates'[x] = updates[x] /\ nextID'[x] = nextID[x] /\ at'[x] = at[x]
       /\ tracks'[w] = Keep(all) /\ ledger'[w] = book /\ updates'[w] = pairs
       /\ nextID'[w] = nextID[w] + Len(u) /\ at'[w] = 1
  BY <1>15 DEF IInv, Shape
<1>18. LedgerInv'
  <2>1. DOMAIN book \subseteq 1 .. nextID[w] + Len(u)
    BY <1>3, <1>4, <1>8, <1>10
  <2>. QED
    BY <1>10, <1>17, <2>1 DEF IInv, LedgerInv
<1>19. TrackInv'
  <2>1. /\ Keep(all) \in [DOMAIN Keep(all) -> TrackRecord]
        /\ \A t \in DOMAIN Keep(all) :
              Keep(all)[t].tsu <= book[t].missed /\ Keep(all)[t].tsu <= MaxAge
    <3>1. ASSUME NEW t \in DOMAIN Keep(all)
          PROVE  /\ all[t] \in TrackRecord /\ all[t].tsu <= book[t].missed
                 /\ all[t].tsu <= MaxAge
      <4>1. (t \in new \/ t \in DOMAIN tracks[w]) /\ all[t].tsu <= MaxAge
        BY <1>11, <1>13
      <4>. QED
        BY <1>10, <1>11, <1>12, <4>1
    <3>. QED
      BY <1>13, <3>1
  <2>. QED
    BY <1>13, <1>17, <2>1 DEF IInv, TrackInv
<1>20. LoopInv'
  BY <1>14, <1>17 DEF IInv, LoopInv, Idle
<1>21. TracksAreKept'
  BY <1>13, <1>17 DEF IInv, TracksAreKept
<1>22. EventInv' /\ WorkerIdsAreUnique'
  <2>1. \A x \in Workers : \A t \in DOMAIN ledger[x] :
           t \in DOMAIN ledger'[x] /\ ledger'[x][t].birth = ledger[x][t].birth
    BY <1>10, <1>17
  <2>. QED
    BY <1>15, <1>16, <2>1, EventsKept
<1>23. ASSUME Even PROVE Even'
  <2>1. ASSUME NEW t \in DOMAIN Keep(all) PROVE Keep(all)[t].tsu = book[t].missed
    <3>1. (t \in new \/ t \in DOMAIN tracks[w]) /\ Keep(all)[t] = all[t]
      BY <1>11, <1>13
    <3>2. \A i \in DOMAIN tracks[w] : tracks[w][i].tsu = ledger[w][i].missed
      BY <1>23 DEF Even
    <3>. QED
      BY <1>10, <1>11, <1>12, <3>1, <3>2
  <2>. QED
    BY <1>17, <1>23, <2>1 DEF Even
<1>. QED
  BY <1>16, <1>18, <1>19, <1>20, <1>21, <1>22, <1>23 DEF IInv

-----------------------------------------------------------------------------
LEMMA NoFacesStep ==
    ASSUME IInv, NEW w \in Workers, NoFaces(w)
    PROVE  IInv'
<1>. DEFINE L == ledger[w]  book == Record(L, {}, << >>)
<1>1. /\ UNCHANGED <<tracks, nextID, frame, updates, at, events, born, restarts>>
      /\ ledger' = [ledger EXCEPT ![w] = book]
  BY DEF NoFaces
<1>2. /\ DOMAIN book = DOMAIN L
      /\ book \in [DOMAIN L -> Life]
      /\ \A t \in DOMAIN L :
            book[t].birth = L[t].birth /\ book[t].missed = L[t].missed + 1
  <2>1. L \in [DOMAIN L -> Life]
    BY DEF IInv, LedgerInv
  <2>. HIDE DEF L
  <2>. QED
    BY <2>1, RecordNone
<1>. HIDE DEF book
<1>3. /\ ledger' = [x \in Workers |-> ledger'[x]]
      /\ ledger'[w] = book
      /\ \A x \in Workers \ {w} : ledger'[x] = ledger[x]
  BY <1>1 DEF IInv, Shape
<1>4. Shape'
  BY <1>1, <1>3 DEF IInv, Shape
<1>5. LedgerInv'
  BY <1>1, <1>2, <1>3 DEF IInv, LedgerInv
<1>6. \A x \in Workers : /\ DOMAIN ledger'[x] = DOMAIN ledger[x]
                         /\ \A t \in DOMAIN ledger[x] :
                               /\ ledger'[x][t].birth = ledger[x][t].birth
                               /\ ledger[x][t].missed \in Nat
                               /\ ledger'[x][t].missed \in
                                     {ledger[x][t].missed, ledger[x][t].missed + 1}
  BY <1>2, <1>3 DEF IInv, LedgerInv, Life
<1>7. TrackInv'
  <2>1. ASSUME NEW x \in Workers, NEW t \in DOMAIN tracks[x]
        PROVE  /\ t \in DOMAIN ledger'[x] /\ tracks[x][t].tsu <= ledger'[x][t].missed
               /\ tracks[x][t].tsu <= MaxAge
    <3>1. /\ t \in DOMAIN ledger[x] /\ tracks[x][t].tsu \in Nat
          /\ tracks[x][t].tsu <= ledger[x][t].missed /\ tracks[x][t].tsu <= MaxAge
      BY DEF IInv, TrackInv, TrackRecord
    <3>. QED
      BY <1>6, <3>1
  <2>. QED
    BY <1>1, <2>1 DEF IInv, TrackInv
<1>8. TracksAreKept'
  BY <1>1, <1>6 DEF IInv, TracksAreKept
<1>9. LoopInv'
  BY <1>1 DEF IInv, LoopInv, Idle
<1>10. EventInv' /\ WorkerIdsAreUnique'
  BY <1>1, <1>4, <1>6, EventsKept
<1>. QED
  BY <1>4, <1>5, <1>7, <1>8, <1>9, <1>10 DEF IInv

(* The loop goes on, or ends.                                                *)
LEMMA AdvanceStep ==
    ASSUME IInv, NEW w \in Workers, ~Idle(w), Advance(w),
           \A x \in Workers : DOMAIN tracks'[x] = DOMAIN tracks[x]
    PROVE  /\ LoopInv'
           /\ frame' = [x \in Workers |-> frame'[x]]
           /\ updates' \in [Workers -> Seq([id : Nat, isNew : BOOLEAN])]
           /\ at' \in [Workers -> Nat]
<1>1. /\ frame = [x \in Workers |-> frame[x]]
      /\ updates \in [Workers -> Seq([id : Nat, isNew : BOOLEAN])]
      /\ at \in [Workers -> Nat]
  BY DEF IInv, Shape
<1>2. at[w] \in 1 .. Len(updates[w]) /\ DOMAIN updates[w] = 1 .. Len(updates[w])
  BY <1>1 DEF IInv, LoopInv
<1>3. CASE at[w] = Len(updates[w])
  <2>1. << >> \in Seq([id : Nat, isNew : BOOLEAN])
    OBVIOUS
  <2>2. /\ frame' = [frame EXCEPT ![w] = << >>]
        /\ updates' = [updates EXCEPT ![w] = << >>]
        /\ at' = [at EXCEPT ![w] = 1]
    BY <1>3 DEF Advance
  <2>3. frame'[w] = << >>
    BY <1>1, <2>2
  <2>4. \A x \in Workers \ {w} :
           frame'[x] = frame[x] /\ updates'[x] = updates[x] /\ at'[x] = at[x]
    BY <1>1, <2>2
  <2>5. LoopInv'
    BY <2>3, <2>4 DEF IInv, LoopInv, Idle
  <2>. QED
    BY <1>1, <2>1, <2>2, <2>5
<1>4. CASE at[w] # Len(updates[w])
  <2>1. /\ at' = [at EXCEPT ![w] = @ + 1]
        /\ UNCHANGED <<frame, updates>>
    BY <1>4 DEF Advance
  <2>2. at'[w] \in DOMAIN updates[w] /\ \A x \in Workers \ {w} : at'[x] = at[x]
    BY <1>1, <1>2, <1>4, <2>1
  <2>3. LoopInv'
    BY <2>1, <2>2 DEF IInv, LoopInv, Idle
  <2>. QED
    BY <1>1, <2>1, <2>3
<1>. QED
  BY <1>3, <1>4

LEMMA SkipStep ==
    ASSUME IInv, NEW w \in Workers, Skip(w)
    PROVE  IInv' /\ (Even => Even')
<1>1. ~Idle(w) /\ Advance(w)
      /\ UNCHANGED <<tracks, nextID, events, frames, born, ledger, restarts>>
  BY DEF Skip
<1>2. LoopInv' /\ Shape'
  BY <1>1, AdvanceStep DEF IInv, Shape
<1>3. LedgerInv' /\ TrackInv' /\ TracksAreKept'
  BY <1>1 DEF IInv, LedgerInv, TrackInv, TracksAreKept
<1>4. EventInv' /\ WorkerIdsAreUnique'
  BY <1>1, <1>2, EventsKept
<1>5. Even => Even'
  BY <1>1 DEF Even
<1>. QED
  BY <1>2, <1>3, <1>4, <1>5 DEF IInv

LEMMA RecognizeStep ==
    ASSUME IInv, NEW w \in Workers, NEW elapsed \in BOOLEAN, NEW stored \in BOOLEAN,
           Recognize(w, elapsed, stored)
    PROVE  IInv' /\ (Even => Even')
<1>. DEFINE t   == Current(w).id
            det == CHOOSE x \in Range(frame[w]) : x.box = tracks[w][t].box
            ev  == [worker |-> w, boot |-> restarts, id |-> t,
                    birth |-> ledger[w][t].birth, face |-> det.face, conf |-> det.conf]
<1>1. /\ ~Idle(w) /\ Advance(w)
      /\ tracks' = [tracks EXCEPT ![w][t] = Known(@)]
      /\ events' \in {events, events \cup {ev}}
      /\ UNCHANGED <<nextID, frames, born, ledger, restarts>>
  BY DEF Recognize
<1>2. t \in DOMAIN tracks[w] /\ t \in DOMAIN ledger[w]
  BY <1>1 DEF IInv, LoopInv, Current, TrackInv
<1>3. ev.worker = w /\ ev.boot = restarts /\ ev.id = t /\ ev.birth = ledger[w][t].birth
  OBVIOUS
<1>. HIDE DEF t, det, ev
<1>4. /\ tracks' = [x \in Workers |-> tracks'[x]]
      /\ \A x \in Workers \ {w} : tracks'[x] = tracks[x]
      /\ tracks'[w] = [tracks[w] EXCEPT ![t] = Known(@)]
  BY <1>1 DEF IInv, Shape
<1>5. /\ DOMAIN tracks'[w] = DOMAIN tracks[w]
      /\ tracks'[w] \in [DOMAIN tracks[w] -> TrackRecord]
      /\ \A i \in DOMAIN tracks[w] : tracks'[w][i].tsu = tracks[w][i].tsu
  <2>1. tracks[w] \in [DOMAIN tracks[w] -> TrackRecord]
    BY DEF IInv, TrackInv
  <2>2. Known(tracks[w][t]) \in TrackRecord /\ Known(tracks[w][t]).tsu = tracks[w][t].tsu
    BY <1>2, <2>1, KnownIs
  <2>. QED
    BY <1>2, <1>4, <2>1, <2>2
<1>6. \A x \in Workers : DOMAIN tracks'[x] = DOMAIN tracks[x]
  BY <1>4, <1>5
<1>7. LoopInv' /\ Shape'
  BY <1>1, <1>4, <1>6, AdvanceStep DEF IInv, Shape
<1>8. LedgerInv'
  BY <1>1 DEF IInv, LedgerInv
<1>9. TrackInv'
  BY <1>1, <1>4, <1>5 DEF IInv, TrackInv
<1>10. TracksAreKept' /\ (Even => Even')
  <2>1. TracksAreKept'
    BY <1>1, <1>6 DEF IInv, TracksAreKept
  <2>2. Even => Even'
    BY <1>1, <1>4, <1>5 DEF Even
  <2>. QED
    BY <2>1, <2>2
<1>11. EventInv'
  <2>1. restarts \in 0 .. restarts
    BY DEF IInv, Shape
  <2>. QED
    BY <1>1, <1>2, <1>3, <2>1 DEF IInv, EventInv
<1>12. WorkerIdsAreUnique'
  BY <1>1, <1>2, <1>3 DEF IInv, EventInv, WorkerIdsAreUnique
<1>. QED
  BY <1>7, <1>8, <1>9, <1>10, <1>11, <1>12 DEF IInv

LEMMA RestartStep ==
    ASSUME IInv, Restart
    PROVE  IInv' /\ Even'
<1>1. Shape'
  <2>1. << >> \in Seq([id : Nat, isNew : BOOLEAN])
    OBVIOUS
  <2>. QED
    BY <2>1 DEF Restart, IInv, Shape
<1>2. /\ \A w \in Workers : ledger'[w] = << >> /\ tracks'[w] = << >> /\ frame'[w] = << >>
      /\ DOMAIN << >> = {}
  BY DEF Restart
<1>3. << >> \in [{} -> Life] /\ << >> \in [{} -> TrackRecord]
  BY <1>2
<1>4. LedgerInv' /\ TrackInv'
  BY <1>2, <1>3 DEF LedgerInv, TrackInv
<1>5. LoopInv' /\ TracksAreKept' /\ Even'
  BY <1>2 DEF LoopInv, Idle, TracksAreKept, Even
<1>6. EventInv'
  BY DEF Restart, IInv, Shape, EventInv
<1>7. WorkerIdsAreUnique'
  BY DEF Restart, IInv, WorkerIdsAreUnique
<1>. QED
  BY <1>1, <1>4, <1>5, <1>6, <1>7 DEF IInv

LEMMA Step == IInv /\ [Next]_vars => IInv'
<1>. SUFFICES ASSUME IInv, [Next]_vars PROVE IInv'
  OBVIOUS
<1>1. CASE \E w \in Workers, d \in Detections : Update(w, d)
  BY <1>1, UpdateStep
<1>2. CASE \E w \in Workers : NoFaces(w)
  BY <1>2, NoFacesStep
<1>3. CASE \E w \in Workers : Skip(w)
  BY <1>3, SkipStep
<1>4. CASE \E w \in Workers, elapsed, stored \in BOOLEAN : Recognize(w, elapsed, stored)
  BY <1>4, RecognizeStep
<1>5. CASE Restart
  BY <1>5, RestartStep
<1>6. CASE UNCHANGED vars
  BY <1>6 DEF vars, IInv, Shape, LedgerInv, TrackInv, LoopInv, EventInv, Idle,
              TracksAreKept, WorkerIdsAreUnique
<1>. QED
  BY <1>1, <1>2, <1>3, <1>4, <1>5, <1>6 DEF Next

(* The tracks, the numbers given away, the loop and the events fit together. *)
THEOREM Inductive == Spec => []IInv
<1>. QED
  BY InitInv, Step, PTL DEF Spec

(* For any max_age, and whatever detections and empty frames there were, no  *)
(* track is lost that was detected in one of the last max_age frames.        *)
THEOREM NotLostEarly == Spec => []TracksAreKept
<1>1. IInv => TracksAreKept
  BY DEF IInv
<1>. QED
  BY <1>1, Inductive, PTL

(* Only frames without a face make a track outlive its max_age: if a face is *)
(* found in every frame, a track is gone once more than max_age frames have  *)
(* missed it, as the documents say.                                          *)
THEOREM LostOnTime ==
    Spec /\ [][\A w \in Workers : ~NoFaces(w)]_vars => []LostAfterMaxAge
<1>1. Init => Even
  BY DEF Init, Even
<1>2. IInv /\ Even /\ [Next]_vars /\ [\A w \in Workers : ~NoFaces(w)]_vars => Even'
  <2>. SUFFICES ASSUME IInv, Even, [Next]_vars, [\A w \in Workers : ~NoFaces(w)]_vars
                PROVE  Even'
    OBVIOUS
  <2>1. CASE \E w \in Workers, d \in Detections : Update(w, d)
    BY <2>1, UpdateStep
  <2>2. CASE \E w \in Workers : Skip(w)
    BY <2>2, SkipStep
  <2>3. CASE \E w \in Workers, elapsed, stored \in BOOLEAN : Recognize(w, elapsed, stored)
    BY <2>3, RecognizeStep
  <2>4. CASE Restart
    BY <2>4, RestartStep
  <2>5. CASE UNCHANGED vars
    BY <2>5 DEF vars, Even
  <2>. QED
    BY <2>1, <2>2, <2>3, <2>4, <2>5 DEF Next
<1>3. IInv /\ Even => LostAfterMaxAge
  BY DEF IInv, TrackInv, Even, LostAfterMaxAge
<1>. QED
  BY <1>1, <1>2, <1>3, Inductive, PTL DEF Spec

(* As long as a worker runs, its tracker never numbers two tracks alike.     *)
THEOREM IdsAreUnique == Spec => []WorkerIdsAreUnique
<1>1. IInv => WorkerIdsAreUnique
  BY DEF IInv
<1>. QED
  BY <1>1, Inductive, PTL
-----------------------------------------------------------------------------
(* One track per detection. The updates list the matched detections first,   *)
(* then the others; no two of them share a track, since no two detections    *)
(* are matched with one and the new tracks are numbered apart.               *)

(* A strictly ascending enumeration of a set of numbers meets each once.     *)
LEMMA Enumerates ==
    ASSUME NEW S, S \subseteq Nat, IsFiniteSet(S), NEW s \in Ascending(S)
    PROVE  /\ DOMAIN s = 1 .. Cardinality(S) /\ Cardinality(S) \in Nat
           /\ \A k \in DOMAIN s : s[k] \in S
           /\ \A j, k \in DOMAIN s : s[j] = s[k] => j = k
           /\ \A x \in S : \E k \in DOMAIN s : s[k] = x
<1>1. Cardinality(S) \in Nat
  BY FS_CardinalityType
<1>. DEFINE n == Cardinality(S)
<1>2. /\ s \in [1 .. n -> S] /\ DOMAIN s = 1 .. n
      /\ \A i, j \in 1 .. n : i < j => s[i] < s[j]
  BY DEF Ascending
<1>3. \A j, k \in 1 .. n : s[j] = s[k] => j = k
  <2> SUFFICES ASSUME NEW j \in 1 .. n, NEW k \in 1 .. n, s[j] = s[k] PROVE j = k
    OBVIOUS
  <2>1. s[j] \in Nat /\ s[k] \in Nat
    BY <1>2
  <2>2. j < k \/ k < j \/ j = k
    BY <1>1
  <2>. QED
    BY <1>2, <2>1, <2>2
<1>4. s \in Injection(1 .. n, S)
  BY <1>2, <1>3 DEF Injection, IsInjective
<1>5. Cardinality(1 .. n) = Cardinality(S)
  <2>1. n \in Nat
    BY <1>1
  <2>2. Cardinality(1 .. n) = IF 1 > n THEN 0 ELSE n - 1 + 1
    BY <2>1, FS_Interval
  <2>3. Cardinality(1 .. n) = n
    BY <2>1, <2>2
  <2>. QED
    BY <2>3
<1>6. s \in Surjection(1 .. n, S)
  <2>. HIDE DEF n
  <2>. QED
    BY <1>4, <1>5, FS_Injection
<1>7. \A x \in S : \E k \in 1 .. n : s[k] = x
  BY <1>6 DEF Surjection
<1>. QED
  BY <1>1, <1>2, <1>3, <1>7

(* No two detections take one track.                                         *)
LEMMA OneToOne ==
    ASSUME NEW T, NEW d \in Detections, NEW m \in Matchings(T, d),
           NEW i \in DOMAIN d, NEW j \in DOMAIN d, m[i] # 0, m[i] = m[j]
    PROVE  i = j
<1>1. DOMAIN d \subseteq Nat
  BY DEF Detections
<1>2. \A x \in DOMAIN d : m[x] # 0 => \A y \in 1 .. x - 1 : m[y] # m[x]
  BY DEF Matchings
<1>3. i \in Nat /\ j \in Nat /\ i > 0 /\ j > 0
  BY DEF Detections
<1>4. CASE i < j
  BY <1>2, <1>3, <1>4
<1>5. CASE j < i
  BY <1>2, <1>3, <1>5
<1>. QED
  BY <1>3, <1>4, <1>5

LEMMA MovedBox ==
    ASSUME NEW T, T \in [DOMAIN T -> TrackRecord], NEW d \in Detections,
           NEW m \in Matchings(T, d), NEW i \in DOMAIN d, m[i] # 0
    PROVE  m[i] \in DOMAIN T /\ Moved(T, d, m)[m[i]].box = d[i].box
<1>1. m \in [DOMAIN d -> DOMAIN T \cup {0}] /\ m[i] \in DOMAIN T /\ m[i] \in Range(m)
  BY DEF Matchings, Range
<1>2. \A j \in DOMAIN d : m[j] = m[i] => j = i
  BY OneToOne
<1>3. (CHOOSE j \in DOMAIN d : m[j] = m[i]) = i
  BY <1>2
<1>4. Moved(T, d, m)[m[i]] = Hit(T[m[i]], d[i].box)
  BY <1>1, <1>3 DEF Moved
<1>5. T[m[i]] \in TrackRecord /\ d[i].box \in Boxes
  BY <1>1, BoxType
<1>6. \A r \in TrackRecord, b \in Boxes : Hit(r, b).box = b
  BY DEF Hit, TrackRecord
<1>. QED
  BY <1>1, <1>4, <1>5, <1>6

(* OneTrackPerDetection of one worker.                                       *)
OneTrack(w) ==
    /\ frame[w] \in Detections
    /\ Len(updates[w]) = Len(frame[w])
    /\ \A i, j \in DOMAIN updates[w] : updates[w][i].id = updates[w][j].id => i = j
    /\ \A i \in DOMAIN updates[w] : updates[w][i].id \in DOMAIN tracks[w]
    /\ {tracks[w][updates[w][i].id].box : i \in DOMAIN updates[w]}
         = {frame[w][i].box : i \in DOMAIN frame[w]}

Paired == \A w \in Workers : ~Idle(w) => OneTrack(w)

(* What Update leaves in its worker's tracker: behind the matched detections *)
(* the others, each with a track at its own place.                           *)
LEMMA UpdatePairs ==
    ASSUME IInv, NEW w \in Workers, NEW d \in Detections, Update(w, d)
    PROVE  OneTrack(w)'
<1>1. PICK m \in Matchings(tracks[w], d) :
        \E v \in Ascending(Matched(d, m)), u \in Ascending(Unmatched(d, m)) :
           MatchAndCreate(w, d, m, v, u)
  BY DEF Update
<1>2. PICK v \in Ascending(Matched(d, m)), u \in Ascending(Unmatched(d, m)) :
        MatchAndCreate(w, d, m, v, u)
  BY <1>1
<1>. DEFINE new  == nextID[w] + 1 .. nextID[w] + Len(u)
            ids  == NewIds(w, u)
            nth  == [t \in Range(ids) |-> CHOOSE k \in DOMAIN u : ids[k] = t]
            aged == Moved(tracks[w], d, m)
            all  == [t \in DOMAIN aged \cup DOMAIN nth |->
                       IF t \in DOMAIN nth THEN NewTrack(d[u[nth[t]]]) ELSE aged[t]]
            p    == [k \in DOMAIN v |-> [id |-> m[v[k]], isNew |-> FALSE]]
            q    == [k \in DOMAIN u |-> [id |-> ids[k], isNew |-> TRUE]]
<1>3. /\ Len(u) \in Nat /\ DOMAIN u = 1 .. Len(u)
      /\ Len(v) \in Nat /\ DOMAIN v = 1 .. Len(v)
      /\ \A k \in DOMAIN u : u[k] \in DOMAIN d /\ m[u[k]] = 0
      /\ \A k \in DOMAIN v : v[k] \in DOMAIN d /\ m[v[k]] # 0
      /\ Len(v) + Len(u) = Len(d)
  BY Split
<1>4. /\ \A j, k \in DOMAIN u : u[j] = u[k] => j = k
      /\ \A j, k \in DOMAIN v : v[j] = v[k] => j = k
      /\ \A i \in DOMAIN d : \/ \E k \in DOMAIN u : u[k] = i
                             \/ \E k \in DOMAIN v : v[k] = i
  <2>1. PICK n \in 1 .. MaxFaces : d \in [1 .. n -> Detection]
    BY DEF Detections
  <2>2. IsFiniteSet(1 .. n) /\ DOMAIN d = 1 .. n
    BY <2>1, FS_Interval
  <2>3. Matched(d, m) \in SUBSET (1 .. n) /\ Unmatched(d, m) \in SUBSET (1 .. n)
    BY <2>2 DEF Matched, Unmatched
  <2>4. IsFiniteSet(Matched(d, m)) /\ IsFiniteSet(Unmatched(d, m))
    BY <2>2, <2>3, FS_Subset
  <2>5. Matched(d, m) \subseteq Nat /\ Unmatched(d, m) \subseteq Nat
    BY <2>3
  <2>6. /\ \A j, k \in DOMAIN v : v[j] = v[k] => j = k
        /\ \A x \in Matched(d, m) : \E k \in DOMAIN v : v[k] = x
    BY <2>4, <2>5, Enumerates
  <2>7. /\ \A j, k \in DOMAIN u : u[j] = u[k] => j = k
        /\ \A x \in Unmatched(d, m) : \E k \in DOMAIN u : u[k] = x
    BY <2>4, <2>5, Enumerates
  <2>. QED
    BY <2>6, <2>7 DEF Matched, Unmatched
<1>5. Range(ids) = new /\ nextID[w] \in Nat /\ \A k \in DOMAIN u : ids[k] = nextID[w] + k
  BY <1>3, Numbers
<1>6. /\ tracks'[w] = Keep(all)
      /\ updates'[w] = p \o q
      /\ frame'[w] = d
  <2>1. /\ tracks' = [tracks EXCEPT ![w] = Keep(all)]
        /\ updates' = [updates EXCEPT ![w] = p \o q]
    BY <1>2 DEF MatchAndCreate
  <2>. HIDE DEF all, p, q
  <2>. QED
    BY <2>1 DEF Update, IInv, Shape
<1>7. /\ DOMAIN tracks[w] \subseteq DOMAIN ledger[w]
      /\ DOMAIN ledger[w] \subseteq 1 .. nextID[w]
      /\ \A t \in DOMAIN tracks[w] : t \in Nat /\ t \notin new
      /\ tracks[w] \in [DOMAIN tracks[w] -> TrackRecord]
  BY <1>5 DEF IInv, LedgerInv, TrackInv
<1>8. /\ DOMAIN aged = DOMAIN tracks[w]
      /\ \A k \in DOMAIN v : /\ m[v[k]] \in DOMAIN tracks[w]
                             /\ aged[m[v[k]]].box = d[v[k]].box
  <2>1. \A i \in DOMAIN d : m[i] # 0 =>
           m[i] \in DOMAIN tracks[w] /\ Moved(tracks[w], d, m)[m[i]].box = d[i].box
    BY <1>7, MovedBox
  <2>2. DOMAIN aged = DOMAIN tracks[w]
    BY DEF Moved
  <2>. QED
    BY <1>3, <2>1, <2>2
<1>9. \A k \in DOMAIN u : all[ids[k]].box = d[u[k]].box
  <2> SUFFICES ASSUME NEW k \in DOMAIN u PROVE all[ids[k]].box = d[u[k]].box
    OBVIOUS
  <2>1. ids[k] \in Range(ids) /\ \A j \in DOMAIN u : ids[j] = ids[k] => j = k
    BY <1>3, <1>5 DEF NewIds, Range
  <2>2. nth[ids[k]] = k
    BY <2>1
  <2>3. all[ids[k]] = NewTrack(d[u[k]])
    BY <2>1, <2>2
  <2>. QED
    BY ONLY <2>3 DEF NewTrack
<1>10. \A t \in DOMAIN tracks[w] : all[t] = aged[t]
  BY <1>5, <1>7, <1>8
<1>11. \A k \in DOMAIN v : all[m[v[k]]].box = d[v[k]].box
  BY <1>8, <1>10
<1>. HIDE DEF nth, aged, all
<1>12. /\ p \in Seq([id : Nat, isNew : BOOLEAN]) /\ Len(p) = Len(v)
       /\ \A k \in 1 .. Len(v) : p[k].id = m[v[k]]
  <2>1. \A k \in 1 .. Len(v) : m[v[k]] \in Nat
    BY <1>3, <1>7, <1>8
  <2>. QED
    BY <1>3, <2>1
<1>13. /\ q \in Seq([id : Nat, isNew : BOOLEAN]) /\ Len(q) = Len(u)
       /\ \A k \in 1 .. Len(u) : q[k].id = nextID[w] + k
  <2>1. \A k \in 1 .. Len(u) : ids[k] = nextID[w] + k /\ nextID[w] + k \in Nat
    BY <1>3, <1>5
  <2>2. q = [k \in 1 .. Len(u) |-> [id |-> nextID[w] + k, isNew |-> TRUE]]
    BY <1>3, <2>1
  <2>. HIDE DEF ids, q
  <2>. QED
    BY <1>3, <2>1, <2>2
<1>. HIDE DEF p, q
<1>. DEFINE r == updates'[w]
<1>14. /\ Len(r) = Len(v) + Len(u)
       /\ DOMAIN r = 1 .. Len(v) + Len(u)
       /\ \A k \in 1 .. Len(v) : r[k].id = m[v[k]]
       /\ \A k \in 1 .. Len(u) : r[Len(v) + k].id = nextID[w] + k
  <2>. DEFINE R == [id : Nat, isNew : BOOLEAN]
  <2>1. p \in Seq(R) /\ q \in Seq(R)
    BY <1>12, <1>13
  <2>. HIDE DEF R
  <2>2. /\ DOMAIN (p \o q) = 1 .. Len(p) + Len(q) /\ Len(p \o q) = Len(p) + Len(q)
        /\ \A k \in 1 .. Len(p) : (p \o q)[k] = p[k]
        /\ \A k \in 1 .. Len(q) : (p \o q)[Len(p) + k] = q[k]
    BY <2>1
  <2>. QED
    BY <1>6, <1>12, <1>13, <2>2, SMTT(30)
<1>15. \A k \in DOMAIN r : r[k].id \in DOMAIN tracks'[w]
  <2>1. LoopInv'
    BY UpdateStep DEF IInv
  <2>2. d # << >>
    BY DEF Detections
  <2>. QED
    BY <1>6, <2>1, <2>2 DEF LoopInv, Idle
<1>. HIDE DEF r, ids
<1>16. \A k \in DOMAIN r : tracks'[w][r[k].id] = all[r[k].id]
  <2>1. \A t \in DOMAIN Keep(all) : Keep(all)[t] = all[t]
    BY KeepIs
  <2>. QED
    BY <1>6, <1>15, <2>1
<1>17. ASSUME NEW k \in DOMAIN r
       PROVE  \/ k \in 1 .. Len(v)
              \/ \E n \in 1 .. Len(u) : k = Len(v) + n
  <2>1. CASE k > Len(v)
    <3>1. k - Len(v) \in 1 .. Len(u) /\ k = Len(v) + (k - Len(v))
      BY <1>3, <1>14, <2>1
    <3>. QED
      BY <3>1
  <2>. QED
    BY <1>3, <1>14, <2>1
<1>18. \A i, j \in DOMAIN r : r[i].id = r[j].id => i = j
  <2> SUFFICES ASSUME NEW i \in DOMAIN r, NEW j \in DOMAIN r, r[i].id = r[j].id
               PROVE  i = j
    OBVIOUS
  <2>1. \A k \in 1 .. Len(v), n \in 1 .. Len(u) : r[k].id # r[Len(v) + n].id
    <3> SUFFICES ASSUME NEW k \in 1 .. Len(v), NEW n \in 1 .. Len(u)
                 PROVE  r[k].id # r[Len(v) + n].id
      OBVIOUS
    <3>1. r[k].id \in DOMAIN tracks[w]
      BY <1>3, <1>8, <1>14
    <3>2. r[Len(v) + n].id \in new
      <4>1. r[Len(v) + n].id = nextID[w] + n
        BY <1>14
      <4>. QED
        BY <1>3, <1>5, <4>1
    <3>. QED
      BY <1>7, <3>1, <3>2
  <2>2. CASE i \in 1 .. Len(v) /\ j \in 1 .. Len(v)
    <3>1. m[v[i]] = m[v[j]] /\ m[v[i]] # 0 /\ v[i] \in DOMAIN d /\ v[j] \in DOMAIN d
      BY <1>3, <1>14, <2>2
    <3>2. v[i] = v[j]
      BY <3>1, OneToOne
    <3>. QED
      BY <1>3, <1>4, <2>2, <3>2
  <2>3. ASSUME NEW k \in 1 .. Len(u), NEW n \in 1 .. Len(u),
               i = Len(v) + k, j = Len(v) + n
        PROVE  i = j
    <3>1. nextID[w] + k = nextID[w] + n
      <4>1. r[Len(v) + k].id = nextID[w] + k /\ r[Len(v) + n].id = nextID[w] + n
        BY <1>14
      <4>2. r[Len(v) + k].id = r[Len(v) + n].id
        BY <2>3
      <4>. QED
        BY ONLY <4>1, <4>2
    <3>2. nextID[w] \in Nat /\ k \in Nat /\ n \in Nat
      BY <1>3, <1>5
    <3>3. k = n
      BY ONLY <3>1, <3>2
    <3>. QED
      BY ONLY <2>3, <3>3
  <2>. QED
    BY <1>17, <2>1, <2>2, <2>3
<1>19. {tracks'[w][r[k].id].box : k \in DOMAIN r} = {d[i].box : i \in DOMAIN d}
  <2>1. ASSUME NEW k \in DOMAIN r
        PROVE  \E i \in DOMAIN d : tracks'[w][r[k].id].box = d[i].box
    <3>1. CASE k \in 1 .. Len(v)
      <4>1. tracks'[w][r[k].id].box = d[v[k]].box /\ v[k] \in DOMAIN d
        BY <1>3, <1>11, <1>14, <1>16, <3>1
      <4>. QED
        BY <4>1
    <3>2. ASSUME NEW n \in 1 .. Len(u), k = Len(v) + n
          PROVE  \E i \in DOMAIN d : tracks'[w][r[k].id].box = d[i].box
      <4>1. r[k].id = ids[n]
        BY <1>3, <1>5, <1>14, <3>2
      <4>2. tracks'[w][r[k].id].box = d[u[n]].box /\ u[n] \in DOMAIN d
        BY <1>3, <1>9, <1>16, <4>1
      <4>. QED
        BY <4>2
    <3>. QED
      BY <1>17, <3>1, <3>2
  <2>2. ASSUME NEW i \in DOMAIN d
        PROVE  \E k \in DOMAIN r : tracks'[w][r[k].id].box = d[i].box
    <3>1. CASE \E k \in DOMAIN v : v[k] = i
      <4>1. PICK k \in 1 .. Len(v) : v[k] = i
        BY <1>3, <3>1
      <4>2. k \in DOMAIN r
        BY <1>3, <1>14
      <4>3. tracks'[w][r[k].id].box = d[i].box
        BY <1>3, <1>11, <1>14, <1>16, <4>1, <4>2
      <4>. QED
        BY <4>2, <4>3
    <3>2. CASE \E k \in DOMAIN u : u[k] = i
      <4>1. PICK n \in 1 .. Len(u) : u[n] = i
        BY <1>3, <3>2
      <4>2. Len(v) + n \in DOMAIN r
        BY <1>3, <1>14
      <4>3. r[Len(v) + n].id = ids[n]
        BY <1>3, <1>5, <1>14
      <4>4. tracks'[w][r[Len(v) + n].id].box = d[i].box
        BY <1>3, <1>9, <1>16, <4>1, <4>2, <4>3
      <4>. QED
        BY <4>2, <4>4
    <3>. QED
      BY <1>4, <3>1, <3>2
  <2>. QED
    BY <2>1, <2>2
<1>20. Len(r) = Len(d) /\ frame'[w] = d
  BY <1>3, <1>6, <1>14
<1>. QED
  BY <1>15, <1>18, <1>19, <1>20 DEF OneTrack, r

(* The other steps leave the boxes of the loop's tracks where they are.      *)
LEMMA LoopPairs ==
    ASSUME IInv, Paired, NEW w \in Workers, ~Idle(w), Advance(w),
           tracks = [x \in Workers |-> tracks[x]],
           \A x \in Workers : DOMAIN tracks'[x] = DOMAIN tracks[x],
           \A x \in Workers : \A t \in DOMAIN tracks[x] : tracks'[x][t].box = tracks[x][t].box
    PROVE  Paired'
<1> SUFFICES ASSUME NEW x \in Workers, ~Idle(x)' PROVE OneTrack(x)'
  BY DEF Paired
<1>1. /\ frame = [y \in Workers |-> frame[y]]
      /\ updates \in [Workers -> Seq([id : Nat, isNew : BOOLEAN])]
  BY DEF IInv, Shape
<1>2. frame'[x] = frame[x] /\ updates'[x] = updates[x] /\ ~Idle(x)
  <2>1. CASE at[w] = Len(updates[w])
    <3>1. /\ frame' = [frame EXCEPT ![w] = << >>]
          /\ updates' = [updates EXCEPT ![w] = << >>]
      BY <2>1 DEF Advance
    <3>2. x # w
      BY <1>1, <3>1 DEF Idle
    <3>. QED
      BY <1>1, <3>1, <3>2 DEF Idle
  <2>2. CASE at[w] # Len(updates[w])
    BY <2>2 DEF Advance, Idle
  <2>. QED
    BY <2>1, <2>2
<1>3. OneTrack(x)
  BY <1>2 DEF Paired
<1>4. \A i \in DOMAIN updates[x] :
         tracks'[x][updates[x][i].id].box = tracks[x][updates[x][i].id].box
  BY <1>3 DEF OneTrack
<1>5. {tracks'[x][updates[x][i].id].box : i \in DOMAIN updates[x]}
        = {tracks[x][updates[x][i].id].box : i \in DOMAIN updates[x]}
  BY <1>4
<1>6. /\ (frame[x] \in Detections)'
      /\ (Len(updates[x]) = Len(frame[x]))'
      /\ (\A i, j \in DOMAIN updates[x] : updates[x][i].id = updates[x][j].id => i = j)'
      /\ (\A i \in DOMAIN updates[x] : updates[x][i].id \in DOMAIN tracks[x])'
  BY <1>2, <1>3 DEF OneTrack
<1>7. {tracks'[x][updates'[x][i].id].box : i \in DOMAIN updates'[x]}
        = {frame'[x][i].box : i \in DOMAIN frame'[x]}
  <2>1. updates'[x] = updates[x] /\ frame'[x] = frame[x]
    BY <1>2
  <2>2. {tracks'[x][updates'[x][i].id].box : i \in DOMAIN updates'[x]}
          = {tracks'[x][updates[x][i].id].box : i \in DOMAIN updates[x]}
    BY ONLY <2>1
  <2>3. {frame'[x][i].box : i \in DOMAIN frame'[x]} = {frame[x][i].box : i \in DOMAIN frame[x]}
    BY ONLY <2>1
  <2>4. {tracks[x][updates[x][i].id].box : i \in DOMAIN updates[x]}
          = {frame[x][i].box : i \in DOMAIN frame[x]}
    BY <1>3 DEF OneTrack
  <2>. QED
    BY ONLY <1>5, <2>2, <2>3, <2>4
<1>. QED
  BY <1>6, <1>7 DEF OneTrack

(* A worker that is not stepping.                                            *)
LEMMA SamePaired ==
    ASSUME NEW w \in Workers, ~Idle(w) => OneTrack(w),
           frame'[w] = frame[w], updates'[w] = updates[w], tracks'[w] = tracks[w]
    PROVE  ~Idle(w)' => OneTrack(w)'
BY ZenonT(40) DEF Idle, OneTrack

LEMMA StepPairs ==
    ASSUME IInv, Paired, [Next]_vars PROVE Paired'
<1>1. ASSUME NEW w \in Workers, NEW d \in Detections, Update(w, d) PROVE Paired'
  <2> SUFFICES ASSUME NEW x \in Workers PROVE ~Idle(x)' => OneTrack(x)'
    BY DEF Paired
  <2>1. CASE x = w
    BY <1>1, <2>1, UpdatePairs
  <2>2. CASE x # w
    <3>1. frame'[x] = frame[x] /\ updates'[x] = updates[x] /\ tracks'[x] = tracks[x]
      BY <1>1, <2>2 DEF Update, MatchAndCreate, IInv, Shape
    <3>. QED
      BY <3>1, SamePaired DEF Paired
  <2>. QED
    BY <2>1, <2>2
<1>2. CASE (\E w \in Workers : NoFaces(w)) \/ UNCHANGED vars
  <2>1. UNCHANGED <<frame, updates, tracks>>
    BY <1>2 DEF NoFaces, vars
  <2>. QED
    BY <2>1, SamePaired DEF Paired
<1>3. ASSUME NEW w \in Workers, Skip(w) PROVE Paired'
  <2>1. ~Idle(w) /\ Advance(w) /\ tracks' = tracks /\ tracks = [x \in Workers |-> tracks[x]]
    BY <1>3 DEF Skip, IInv, Shape
  <2>. QED
    BY <2>1, LoopPairs
<1>4. ASSUME NEW w \in Workers, NEW elapsed \in BOOLEAN, NEW stored \in BOOLEAN,
             Recognize(w, elapsed, stored)
      PROVE  Paired'
  <2>. DEFINE t == Current(w).id
  <2>1. /\ ~Idle(w) /\ Advance(w)
        /\ tracks' = [tracks EXCEPT ![w][t] = Known(@)]
        /\ tracks = [x \in Workers |-> tracks[x]]
    BY <1>4 DEF Recognize, IInv, Shape
  <2>2. \A x \in Workers : DOMAIN tracks'[x] = DOMAIN tracks[x]
    BY <2>1
  <2>3. t \in DOMAIN tracks[w] /\ tracks[w] \in [DOMAIN tracks[w] -> TrackRecord]
    BY <2>1 DEF IInv, LoopInv, Current, TrackInv
  <2>. HIDE DEF t
  <2>4. \A x \in Workers : \A i \in DOMAIN tracks[x] : tracks'[x][i].box = tracks[x][i].box
    <3> SUFFICES ASSUME NEW x \in Workers, NEW i \in DOMAIN tracks[x]
                 PROVE  tracks'[x][i].box = tracks[x][i].box
      OBVIOUS
    <3>1. CASE x = w /\ i = t
      <4>1. tracks[w][t] \in TrackRecord /\ tracks'[w][t] = Known(tracks[w][t])
        BY <2>1, <2>3
      <4>2. \A r \in TrackRecord : Known(r).box = r.box
        BY DEF Known, TrackRecord
      <4>. QED
        BY <3>1, <4>1, <4>2
    <3>2. CASE x # w \/ i # t
      BY <2>1, <3>2
    <3>. QED
      BY <3>1, <3>2
  <2>. QED
    BY <2>1, <2>2, <2>4, LoopPairs
<1>5. CASE Restart
  BY <1>5 DEF Restart, Paired, Idle
<1>. QED
  BY <1>1, <1>2, <1>3, <1>4, <1>5 DEF Next

LEMMA Pairs == Spec => []Paired
<1>1. Init => Paired
  BY DEF Init, Paired, Idle
<1>2. IInv /\ Paired /\ [Next]_vars => Paired'
  BY StepPairs
<1>. QED
  BY <1>1, <1>2, Inductive, PTL DEF Spec

(* Whatever overlaps what, each detection of a frame gets a track of its own *)
(* that is alive as long as the loop over the updates uses it.               *)
THEOREM NoFaceIsMerged == Spec => []OneTrackPerDetection
<1>1. Paired => OneTrackPerDetection
  BY DEF Paired, OneTrack, OneTrackPerDetection
<1>. QED
  BY <1>1, Pairs, PTL

-----------------------------------------------------------------------------
(* Types. Every frame gives at most MaxFaces numbers away and adds at most   *)
(* one hit to a track.                                                       *)
EventType ==
    [worker : Workers, boot : 0 .. MaxRestarts, id : Nat, birth : Nat,
     face : Faces, conf : Confidences]

Bounded ==
    /\ frames \in 0 .. MaxFrames
    /\ restarts \in 0 .. MaxRestarts
    /\ born <= frames * MaxFaces
    /\ \A w \in Workers :
          /\ nextID[w] <= frames * MaxFaces
          /\ at[w] \in 1 .. MaxFaces + 1
          /\ \A t \in DOMAIN tracks[w] : tracks[w][t].hits \in 1 .. frames
    /\ events \subseteq EventType

LEMMA Limits == MaxFrames \in Nat /\ MaxRestarts \in Nat
BY FaceTrackerAssumption

LEMMA FrameSize ==
    ASSUME NEW d \in Detections
    PROVE  Len(d) \in 1 .. MaxFaces /\ DOMAIN d = 1 .. Len(d)
BY DEF Detections

(* One frame more.                                                           *)
LEMMA OneMore ==
    ASSUME NEW n \in Nat, NEW k \in Nat, NEW x \in Nat, x <= n * MaxFaces, k <= MaxFaces
    PROVE  x + k <= (n + 1) * MaxFaces /\ x <= (n + 1) * MaxFaces
<1>1. (n + 1) * MaxFaces = n * MaxFaces + MaxFaces
  OBVIOUS
<1>2. n * MaxFaces \in Nat
  OBVIOUS
<1>. QED
  BY <1>1, <1>2

LEMMA AtMost ==
    ASSUME NEW n \in Nat, n <= MaxFrames
    PROVE  n * MaxFaces <= MaxFrames * MaxFaces
<1>1. MaxFrames * MaxFaces = n * MaxFaces + (MaxFrames - n) * MaxFaces
  BY Limits
<1>2. (MaxFrames - n) * MaxFaces \in Nat /\ n * MaxFaces \in Nat
  BY Limits
<1>. QED
  BY <1>1, <1>2

LEMMA MovedHits ==
    ASSUME NEW T, T \in [DOMAIN T -> TrackRecord], NEW d \in Detections, NEW m,
           NEW n \in Nat, \A t \in DOMAIN T : T[t].hits \in 1 .. n
    PROVE  \A t \in DOMAIN T : Moved(T, d, m)[t].hits \in 1 .. n + 1
<1> SUFFICES ASSUME NEW t \in DOMAIN T PROVE Moved(T, d, m)[t].hits \in 1 .. n + 1
  OBVIOUS
<1>1. \A b : \A r \in TrackRecord : Hit(r, b).hits = r.hits + 1 /\ Miss(r).hits = r.hits
  BY DEF Hit, Miss, TrackRecord
<1>2. T[t] \in TrackRecord /\ T[t].hits \in 1 .. n
  OBVIOUS
<1>3. \/ Moved(T, d, m)[t] = Hit(T[t], d[CHOOSE i \in DOMAIN d : m[i] = t].box)
      \/ Moved(T, d, m)[t] = Miss(T[t])
  BY DEF Moved
<1>4. \/ Moved(T, d, m)[t].hits = T[t].hits + 1
      \/ Moved(T, d, m)[t].hits = T[t].hits
  BY <1>1, <1>2, <1>3
<1>. QED
  BY <1>2, <1>4

LEMMA UpdateBounds ==
    ASSUME IInv, Bounded, NEW w \in Workers, NEW d \in Detections, Update(w, d)
    PROVE  Bounded'
<1>1. PICK m \in Matchings(tracks[w], d) :
        \E v \in Ascending(Matched(d, m)), u \in Ascending(Unmatched(d, m)) :
           MatchAndCreate(w, d, m, v, u)
  BY DEF Update
<1>2. PICK v \in Ascending(Matched(d, m)), u \in Ascending(Unmatched(d, m)) :
        MatchAndCreate(w, d, m, v, u)
  BY <1>1
<1>. DEFINE ids  == NewIds(w, u)
            nth  == [t \in Range(ids) |-> CHOOSE k \in DOMAIN u : ids[k] = t]
            aged == Moved(tracks[w], d, m)
            all  == [t \in DOMAIN aged \cup DOMAIN nth |->
                       IF t \in DOMAIN nth THEN NewTrack(d[u[nth[t]]]) ELSE aged[t]]
<1>3. Len(u) \in Nat /\ Len(u) <= MaxFaces
  <2>1. Len(u) \in Nat /\ Len(v) \in Nat /\ Len(v) + Len(u) = Len(d)
    BY Split
  <2>. QED
    BY <2>1, FrameSize
<1>4. frames \in Nat /\ frames' = frames + 1 /\ frames' <= MaxFrames
      /\ UNCHANGED <<events, restarts>>
  BY Limits DEF Update, Bounded
<1>5. born' = born + Len(u) /\ born \in Nat
      /\ nextID' = [nextID EXCEPT ![w] = @ + Len(u)] /\ nextID \in [Workers -> Nat]
      /\ at' = [at EXCEPT ![w] = 1] /\ at \in [Workers -> Nat]
      /\ tracks' = [tracks EXCEPT ![w] = Keep(all)] /\ tracks = [x \in Workers |-> tracks[x]]
  BY <1>2 DEF MatchAndCreate, Update, IInv, Shape
<1>6. born' <= frames' * MaxFaces
  BY <1>3, <1>4, <1>5, OneMore DEF Bounded
<1>7. ASSUME NEW x \in Workers PROVE nextID'[x] <= frames' * MaxFaces
  <2>1. nextID[x] \in Nat /\ nextID[x] <= frames * MaxFaces
    BY <1>5 DEF Bounded
  <2>2. nextID[x] + Len(u) <= (frames + 1) * MaxFaces /\ nextID[x] <= (frames + 1) * MaxFaces
    BY <1>3, <1>4, <2>1, OneMore
  <2>3. nextID'[x] \in {nextID[x], nextID[x] + Len(u)}
    BY <1>5
  <2>. QED
    BY <1>4, <2>2, <2>3
<1>8. \A x \in Workers : at'[x] \in 1 .. MaxFaces + 1
  BY <1>5 DEF Bounded
<1>9. ASSUME NEW t \in DOMAIN all PROVE all[t].hits \in 1 .. frames + 1
  <2>1. tracks[w] \in [DOMAIN tracks[w] -> TrackRecord]
    BY DEF IInv, TrackInv
  <2>2. \A i \in DOMAIN tracks[w] : aged[i].hits \in 1 .. frames + 1
    BY <1>4, <2>1, MovedHits DEF Bounded
  <2>3. \A det : NewTrack(det).hits = 1
    BY DEF NewTrack
  <2>4. DOMAIN aged = DOMAIN tracks[w]
    BY DEF Moved
  <2>5. CASE t \in DOMAIN nth
    <3>1. all[t] = NewTrack(d[u[nth[t]]])
      BY <2>5
    <3>2. all[t].hits = 1
      BY <2>3, <3>1
    <3>. HIDE DEF all
    <3>. QED
      BY <1>4, <3>2
  <2>6. CASE t \notin DOMAIN nth
    <3>1. all[t] = aged[t] /\ t \in DOMAIN tracks[w]
      BY <2>4, <2>6
    <3>. HIDE DEF all, aged
    <3>. QED
      BY <2>2, <3>1
  <2>. QED
    BY <2>5, <2>6
<1>. HIDE DEF all
<1>10. ASSUME NEW x \in Workers, NEW t \in DOMAIN tracks'[x]
       PROVE  tracks'[x][t].hits \in 1 .. frames'
  <2>1. CASE x = w
    <3>1. tracks'[x] = Keep(all)
      BY <1>5, <2>1
    <3>2. t \in DOMAIN all /\ Keep(all)[t] = all[t]
      BY <3>1, KeepIs
    <3>. QED
      BY <1>4, <1>9, <3>1, <3>2
  <2>2. CASE x # w
    <3>1. tracks'[x] = tracks[x]
      BY <1>5, <2>2
    <3>2. tracks[x][t].hits \in 1 .. frames
      BY <3>1 DEF Bounded
    <3>. QED
      BY <1>4, <3>1, <3>2
  <2>. QED
    BY <2>1, <2>2
<1>. QED
  BY <1>4, <1>6, <1>7, <1>8, <1>10 DEF Bounded

LEMMA AdvanceBounds ==
    ASSUME IInv, Paired, Bounded, NEW w \in Workers, ~Idle(w), Advance(w)
    PROVE  \A x \in Workers : at'[x] \in 1 .. MaxFaces + 1
<1>1. at \in [Workers -> Nat] /\ updates \in [Workers -> Seq([id : Nat, isNew : BOOLEAN])]
  BY DEF IInv, Shape
<1>2. at[w] \in 1 .. Len(updates[w]) /\ Len(updates[w]) \in Nat
  BY <1>1 DEF IInv, LoopInv
<1>3. Len(updates[w]) <= MaxFaces
  <2>1. frame[w] \in Detections /\ Len(updates[w]) = Len(frame[w])
    BY DEF Paired, OneTrack
  <2>. QED
    BY <2>1, FrameSize
<1>4. CASE at[w] = Len(updates[w])
  <2>1. at' = [at EXCEPT ![w] = 1]
    BY <1>4 DEF Advance
  <2>2. 1 \in 1 .. MaxFaces + 1
    OBVIOUS
  <2>. QED
    BY <1>1, <2>1, <2>2 DEF Bounded
<1>5. CASE at[w] # Len(updates[w])
  <2>1. at' = [at EXCEPT ![w] = at[w] + 1]
    BY <1>5 DEF Advance
  <2>2. at[w] + 1 \in 1 .. MaxFaces + 1
    BY <1>2, <1>3, <1>5
  <2>. QED
    BY <1>1, <2>1, <2>2 DEF Bounded
<1>. QED
  BY <1>4, <1>5

LEMMA RecognizeBounds ==
    ASSUME IInv, Paired, Bounded, NEW w \in Workers, NEW elapsed \in BOOLEAN,
           NEW stored \in BOOLEAN, Recognize(w, elapsed, stored)
    PROVE  Bounded'
<1>. DEFINE t   == Current(w).id
            det == CHOOSE x \in Range(frame[w]) : x.box = tracks[w][t].box
            ev  == [worker |-> w, boot |-> restarts, id |-> t,
                    birth |-> ledger[w][t].birth, face |-> det.face, conf |-> det.conf]
<1>1. /\ ~Idle(w) /\ Advance(w)
      /\ tracks' = [tracks EXCEPT ![w][t] = Known(@)]
      /\ events' \in {events, events \cup {ev}}
      /\ UNCHANGED <<nextID, frames, born, ledger, restarts>>
  BY DEF Recognize
<1>2. at[w] \in DOMAIN updates[w] /\ t \in DOMAIN tracks[w] /\ t \in DOMAIN ledger[w]
  BY <1>1 DEF IInv, LoopInv, Current, TrackInv
<1>3. det \in Detection
  <2>1. OneTrack(w)
    BY <1>1 DEF Paired
  <2>2. tracks[w][t].box \in {frame[w][i].box : i \in DOMAIN frame[w]}
    BY <1>2, <2>1 DEF OneTrack, Current
  <2>3. \A x \in Range(frame[w]) : x \in Detection
    BY <2>1 DEF OneTrack, Detections, Range
  <2>4. \E x \in Range(frame[w]) : x.box = tracks[w][t].box
    BY <2>2 DEF Range
  <2>. QED
    BY <2>3, <2>4
<1>4. t \in Nat /\ ledger[w][t].birth \in Nat
  <2>1. ledger[w][t] \in Life /\ t \in Nat
    BY <1>2 DEF IInv, LedgerInv
  <2>. QED
    BY <2>1 DEF Life
<1>5. ev \in EventType
  <2>1. det.face \in Faces /\ det.conf \in Confidences
    BY <1>3 DEF Detection
  <2>. HIDE DEF t, det
  <2>. QED
    BY <1>4, <2>1 DEF EventType, Bounded
<1>. HIDE DEF t, det, ev
<1>6. ASSUME NEW x \in Workers, NEW i \in DOMAIN tracks'[x]
      PROVE  tracks'[x][i].hits \in 1 .. frames
  <2>1. tracks = [y \in Workers |-> tracks[y]]
    BY DEF IInv, Shape
  <2>2. i \in DOMAIN tracks[x] /\ tracks[x][i].hits \in 1 .. frames
    BY <1>1, <2>1 DEF Bounded
  <2>3. CASE x = w /\ i = t
    <3>1. tracks'[x][i] = Known(tracks[w][t]) /\ tracks[w][t] \in TrackRecord
      BY <1>1, <1>2, <2>1, <2>3 DEF IInv, TrackInv
    <3>2. \A r \in TrackRecord : Known(r).hits = r.hits
      BY DEF Known, TrackRecord
    <3>. QED
      BY <2>2, <2>3, <3>1, <3>2
  <2>4. CASE x # w \/ i # t
    BY <1>1, <2>1, <2>2, <2>4
  <2>. QED
    BY <2>3, <2>4
<1>7. \A x \in Workers : at'[x] \in 1 .. MaxFaces + 1
  BY <1>1, AdvanceBounds
<1>. QED
  BY <1>1, <1>5, <1>6, <1>7 DEF Bounded

LEMMA StepBounds ==
    ASSUME IInv, Paired, Bounded, [Next]_vars PROVE Bounded'
<1>1. ASSUME NEW w \in Workers, NEW d \in Detections, Update(w, d) PROVE Bounded'
  BY <1>1, UpdateBounds
<1>2. ASSUME NEW w \in Workers, NoFaces(w) PROVE Bounded'
  <2>1. /\ UNCHANGED <<tracks, nextID, at, events, born, restarts>>
        /\ frames \in Nat /\ frames' = frames + 1 /\ frames' <= MaxFrames
    BY <1>2, Limits DEF NoFaces, Bounded
  <2>2. born <= frames' * MaxFaces /\ \A x \in Workers : nextID[x] <= frames' * MaxFaces
    <3>1. born \in Nat /\ nextID \in [Workers -> Nat] /\ 0 \in Nat /\ 0 <= MaxFaces
      BY DEF IInv, Shape
    <3>. QED
      BY <2>1, <3>1, OneMore DEF Bounded
  <2>3. \A x \in Workers : \A t \in DOMAIN tracks[x] : tracks[x][t].hits \in 1 .. frames'
    BY <2>1 DEF Bounded
  <2>. QED
    BY <2>1, <2>2, <2>3 DEF Bounded
<1>3. ASSUME NEW w \in Workers, Skip(w) PROVE Bounded'
  <2>1. ~Idle(w) /\ Advance(w)
        /\ UNCHANGED <<tracks, nextID, events, frames, born, restarts>>
    BY <1>3 DEF Skip
  <2>2. \A x \in Workers : at'[x] \in 1 .. MaxFaces + 1
    BY <2>1, AdvanceBounds
  <2>. QED
    BY <2>1, <2>2 DEF Bounded
<1>4. ASSUME NEW w \in Workers, NEW elapsed \in BOOLEAN, NEW stored \in BOOLEAN,
             Recognize(w, elapsed, stored)
      PROVE  Bounded'
  BY <1>4, RecognizeBounds
<1>5. CASE Restart
  <2>1. /\ \A w \in Workers : tracks'[w] = << >> /\ nextID'[w] = 0 /\ at'[w] = 1
        /\ UNCHANGED <<events, frames, born>>
        /\ restarts' \in 0 .. MaxRestarts
    BY <1>5, Limits DEF Restart, Bounded
  <2>2. 0 <= frames * MaxFaces
    <3>1. frames \in Nat
      BY DEF Bounded
    <3>. QED
      BY <3>1
  <2>. QED
    BY <2>1, <2>2 DEF Bounded
<1>6. CASE UNCHANGED vars
  BY <1>6 DEF vars, Bounded
<1>. QED
  BY <1>1, <1>2, <1>3, <1>4, <1>5, <1>6 DEF Next

LEMMA TypesFollow ==
    ASSUME IInv, Paired, Bounded PROVE TypeOK
<1>1. /\ nextID \in [Workers -> Nat] /\ born \in Nat
      /\ updates \in [Workers -> Seq([id : Nat, isNew : BOOLEAN])]
      /\ frames \in Nat /\ frames <= MaxFrames
  BY Limits DEF IInv, Shape, Bounded
<1>2. /\ \A w \in Workers : nextID[w] \in 0 .. MaxFrames * MaxFaces
      /\ born \in 0 .. MaxFrames * MaxFaces
  <2>1. frames * MaxFaces <= MaxFrames * MaxFaces
    BY <1>1, AtMost
  <2>2. frames * MaxFaces \in Nat /\ MaxFrames * MaxFaces \in Nat
    BY <1>1, Limits
  <2>. QED
    BY <1>1, <2>1, <2>2 DEF Bounded
<1>3. nextID \in [Workers -> 0 .. MaxFrames * MaxFaces]
  BY <1>1, <1>2
<1>4. ASSUME NEW w \in Workers
      PROVE  /\ DOMAIN tracks[w] \subseteq 1 .. nextID[w]
             /\ \A i \in DOMAIN tracks[w] : tracks[w][i] \in Track
             /\ frame[w] \in Detections \cup {<< >>}
             /\ updates[w] \in Seq([id : Nat, isNew : BOOLEAN])
             /\ at[w] \in 1 .. MaxFaces + 1
             /\ DOMAIN ledger[w] \subseteq 1 .. nextID[w]
  <2>1. DOMAIN ledger[w] \subseteq 1 .. nextID[w] /\ DOMAIN tracks[w] \subseteq DOMAIN ledger[w]
    BY DEF IInv, LedgerInv, TrackInv
  <2>2. ASSUME NEW i \in DOMAIN tracks[w] PROVE tracks[w][i] \in Track
    <3>1. tracks[w][i] \in TrackRecord
      BY DEF IInv, TrackInv
    <3>2. tracks[w][i].hits \in 1 .. MaxFrames
      <4>1. tracks[w][i].hits \in 1 .. frames
        BY DEF Bounded
      <4>. QED
        BY <1>1, <4>1, Limits
    <3>3. tracks[w][i].tsu \in 0 .. MaxAge
      <4>1. tracks[w][i].tsu <= MaxAge
        BY DEF IInv, TrackInv
      <4>2. tracks[w][i].tsu \in Nat
        BY <3>1 DEF TrackRecord
      <4>. QED
        BY <4>1, <4>2
    <3>. QED
      BY <3>1, <3>2, <3>3 DEF TrackRecord, Track
  <2>3. frame[w] \in Detections \cup {<< >>}
    BY DEF Paired, OneTrack, Idle
  <2>4. at[w] \in 1 .. MaxFaces + 1
    BY DEF Bounded
  <2>. QED
    BY <1>1, <2>1, <2>2, <2>3, <2>4
<1>. QED
  BY <1>2, <1>3, <1>4 DEF TypeOK, Bounded, EventType

(* The state keeps its shape: a track is hit at most once in a frame and is  *)
(* gone when it was missed too often, a tracker gives away at most MaxFaces  *)
(* numbers for a frame, and an event is made of a detection of the frame.    *)
THEOREM TypeCorrect == Spec => []TypeOK
<1>1. Init => Bounded
  <2> SUFFICES ASSUME Init PROVE Bounded
    OBVIOUS
  <2>1. 0 * MaxFaces = 0
    OBVIOUS
  <2>. QED
    BY <2>1, Limits DEF Init, Bounded
<1>2. IInv /\ Paired /\ Bounded /\ [Next]_vars => Bounded'
  BY StepBounds
<1>3. IInv /\ Paired /\ Bounded => TypeOK
  BY TypesFollow
<1>. QED
  BY <1>1, <1>2, <1>3, Inductive, Pairs, PTL DEF Spec
=============================================================================
