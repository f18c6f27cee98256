----------------------------- MODULE FaceTracker -----------------------------
(* The vision workers on the frames of one stream: ProcessFrame of           *)
(* internal/vision/pipeline.go with Tracker.Update and ShouldRecognize of    *)
(* internal/vision/track.go. Every worker goroutine owns a Pipeline, and a   *)
(* Pipeline one Tracker per stream, so each worker sees a part of the        *)
(* stream's frames. Events are those that reach the events table; a track id *)
(* is the stream id, which is left out, and the tracker's number.            *)
(*                                                                           *)
(* A detection is a face, where it is and how sure the detector was. Which   *)
(* frame comes next, and which worker gets it, is open: frames are lost,     *)
(* repeated and reordered before they come here.                             *)
EXTENDS Integers, Sequences, FiniteSets, Functions

CONSTANTS
    Workers,      \* worker goroutines
    Faces,        \* people who come before the camera
    Boxes,        \* places in the picture
    Overlap,      \* IoU of two boxes, in tenths
    Place,        \* the boxes in which each face may be detected
    Confidences,  \* confidence of a detection
    MaxFaces,     \* bound: detections in a frame
    MaxAge,       \* tracking.max_age
    MinHits,      \* tracking.min_hits
    MaxFrames,    \* bound: frames processed
    MaxRestarts   \* bound: restarts of the worker process

ASSUME FaceTrackerAssumption ==
    /\ Overlap \in [Boxes \X Boxes -> 0 .. 10]
    /\ \A b \in Boxes : Overlap[<<b, b>>] = 10
    /\ Place \in [Faces -> SUBSET Boxes]
    /\ Confidences \subseteq Nat
    /\ MaxFaces \in Nat /\ MaxAge \in Nat /\ MinHits \in Nat
    /\ MaxFrames \in Nat /\ MaxRestarts \in Nat

VARIABLES
    tracks,   \* Tracker.tracks of each worker
    nextID,   \* Tracker.nextID
    frame,    \* detections of the frame a worker is at, << >>: none
    updates,  \* what Update returned for it
    at,       \* position of its loop over the updates
    events,   \* the events table
    frames,   \* history: frames processed
    born,     \* history: tracks created by all workers
    ledger,   \* history: what became of every track of the running process
    restarts

vars == <<tracks, nextID, frame, updates, at, events, frames, born, ledger, restarts>>

MinIoU == 3   \* a match needs more, track.go:72
NmsIoU == 4   \* two detections of a frame have at most this, detect.go:127

(* iou of two boxes, in tenths.                                             *)
IoU(a, b) == Overlap[<<a, b>>]

Detection == [face : Faces, box : Boxes, conf : Confidences]

(* What Detect may return for a frame with faces in it, after nms and the    *)
(* filter on min_face_size: in descending order of confidence.               *)
Detections ==
    {d \in UNION {[1 .. n -> Detection] : n \in 1 .. MaxFaces} :
        /\ \A i \in DOMAIN d : d[i].box \in Place[d[i].face]
        /\ \A i, j \in DOMAIN d : i < j =>
              /\ d[i].face # d[j].face
              /\ IoU(d[i].box, d[j].box) <= NmsIoU
              /\ d[i].conf >= d[j].conf}

Track == [box : Boxes, hits : 1 .. MaxFrames, tsu : 0 .. MaxAge, embedded : BOOLEAN]

TypeOK ==
    /\ nextID \in [Workers -> 0 .. MaxFrames * MaxFaces]
    /\ \A w \in Workers :
          /\ DOMAIN tracks[w] \subseteq 1 .. nextID[w]
          /\ \A i \in DOMAIN tracks[w] : tracks[w][i] \in Track
          /\ frame[w] \in Detections \cup {<< >>}
          /\ updates[w] \in Seq([id : Nat, isNew : BOOLEAN])
          /\ at[w] \in 1 .. MaxFaces + 1
          /\ DOMAIN ledger[w] \subseteq 1 .. nextID[w]
    /\ events \subseteq [worker : Workers, boot : 0 .. MaxRestarts, id : Nat,
                         birth : Nat, face : Faces, conf : Confidences]
    /\ frames \in 0 .. MaxFrames
    /\ born \in 0 .. MaxFrames * MaxFaces
    /\ restarts \in 0 .. MaxRestarts

Init ==
    /\ tracks = [w \in Workers |-> << >>]
    /\ nextID = [w \in Workers |-> 0]
    /\ frame = [w \in Workers |-> << >>]
    /\ updates = [w \in Workers |-> << >>]
    /\ at = [w \in Workers |-> 1]
    /\ events = {}
    /\ frames = 0 /\ born = 0 /\ restarts = 0
    /\ ledger = [w \in Workers |-> << >>]

-----------------------------------------------------------------------------
(* Tracker.Update.                                                           *)

(* Mutant: without the look at matched[tr.ID].                               *)
MatchingsTwice(T, d) ==
    {m \in [DOMAIN d -> DOMAIN T \cup {0}] :
        \A i \in DOMAIN d :
            LET near == {t \in DOMAIN T : IoU(d[i].box, T[t].box) > MinIoU}
            IN  IF near = {} THEN m[i] = 0 ELSE m[i] \in near}

(* Each detection in turn takes the free track it overlaps most; 0: none     *)
(* overlaps enough. Among equals the order of a Go map decides.              *)
Matchings(T, d) ==
    {m \in [DOMAIN d -> DOMAIN T \cup {0}] :
        \A i \in DOMAIN d :
            LET free == {t \in DOMAIN T :
                           /\ IoU(d[i].box, T[t].box) > MinIoU
                           /\ \A j \in 1 .. i - 1 : m[j] # t}
            IN  IF free = {} THEN m[i] = 0
                ELSE /\ m[i] \in free
                     /\ \A t \in free :
                          IoU(d[i].box, T[t].box) <= IoU(d[i].box, T[m[i]].box)}

(* A track that a detection took, and one that none did.                     *)
Hit(track, b) == [track EXCEPT !.box = b, !.hits = @ + 1, !.tsu = 0]
Miss(track)   == [track EXCEPT !.tsu = @ + 1]

(* The tracks there were, aged by one or moved to their detection.           *)
Moved(T, d, m) ==
    [t \in DOMAIN T |->
        IF t \in Range(m) THEN Hit(T[t], d[CHOOSE i \in DOMAIN d : m[i] = t].box)
        ELSE Miss(T[t])]

(* The sequence of the numbers in S, from the first to the last.             *)
Ascending(S) ==
    {s \in [1 .. Cardinality(S) -> S] : \A i, j \in DOMAIN s : i < j => s[i] < s[j]}

(* Detections with and without a track there was.                            *)
Matched(d, m)   == {i \in DOMAIN d : m[i] # 0}
Unmatched(d, m) == {i \in DOMAIN d : m[i] = 0}

(* Mutant: numbered by the tracks there are instead of nextID.               *)
NewIdsByCount(w, u) ==
    [k \in DOMAIN u |-> Cardinality(DOMAIN tracks[w]) + k]

(* The ids of the new tracks.                                                *)
NewIds(w, u) == [k \in DOMAIN u |-> nextID[w] + k]

(* Mutant: >= for >.                                                         *)
KeepYoung(T) == Restrict(T, {t \in DOMAIN T : T[t].tsu < MaxAge})

(* Mutant: stale tracks stay.                                                *)
KeepAll(T) == T

(* Removes the stale tracks.                                                 *)
Keep(T) == Restrict(T, {t \in DOMAIN T : T[t].tsu <= MaxAge})

NewTrack(det) == [box |-> det.box, hits |-> 1, tsu |-> 0, embedded |-> FALSE]

(* History: a track's birth, and for how many frames of its worker it has    *)
(* not been detected.                                                        *)
Spotted(life) == [life EXCEPT !.missed = 0]
Passed(life)  == [life EXCEPT !.missed = @ + 1]

Record(L, seen, new) ==
    [t \in DOMAIN L \cup DOMAIN new |->
        IF t \in DOMAIN new THEN [birth |-> new[t], missed |-> 0]
        ELSE IF t \in seen THEN Spotted(L[t])
        ELSE Passed(L[t])]

Idle(w) == frame[w] = << >>

(* Tracks, counter and updates after the matching m; u and v are the         *)
(* detections without and with a track, in their order.                      *)
MatchAndCreate(w, d, m, v, u) ==
    LET ids  == NewIds(w, u)
        nth  == [t \in Range(ids) |-> CHOOSE k \in DOMAIN u : ids[k] = t]
        aged == Moved(tracks[w], d, m)
    IN  /\ tracks' = [tracks EXCEPT ![w] = Keep([t \in DOMAIN aged \cup DOMAIN nth |->
                        IF t \in DOMAIN nth THEN NewTrack(d[u[nth[t]]]) ELSE aged[t]])]
        /\ nextID' = [nextID EXCEPT ![w] = @ + Len(u)]
        /\ updates' = [updates EXCEPT ![w] =
                         [k \in DOMAIN v |-> [id |-> m[v[k]], isNew |-> FALSE]] \o
                         [k \in DOMAIN u |-> [id |-> ids[k], isNew |-> TRUE]]]
        /\ born' = born + Len(u)
        /\ ledger' = [ledger EXCEPT ![w] =
                        Record(@, Range(m), [t \in DOMAIN nth |-> born + nth[t]])]

(* ProcessFrame up to its loop, for a frame in which faces are found.        *)
Update(w, d) ==
    /\ Idle(w)
    /\ frames < MaxFrames
    /\ \E m \in Matchings(tracks[w], d) :
       \E v \in Ascending(Matched(d, m)), u \in Ascending(Unmatched(d, m)) :
          MatchAndCreate(w, d, m, v, u)
    /\ frame' = [frame EXCEPT ![w] = d]
    /\ at' = [at EXCEPT ![w] = 1]
    /\ frames' = frames + 1
    /\ UNCHANGED <<events, restarts>>

(* No face, or none that is large enough: Update is not called. The ledger   *)
(* counts the frame all the same.                                            *)
NoFaces(w) ==
    /\ Idle(w)
    /\ frames < MaxFrames
    /\ frames' = frames + 1
    /\ ledger' = [ledger EXCEPT ![w] = Record(@, {}, << >>)]
    /\ UNCHANGED <<tracks, nextID, frame, updates, at, events, born, restarts>>

-----------------------------------------------------------------------------
(* The loop over the updates.                                                *)

Current(w) == updates[w][at[w]]

(* elapsed: re_recognize_interval has passed since LastRecognized.           *)
ShouldRecognize(track, elapsed) ==
    /\ track.hits >= MinHits
    /\ ~track.embedded \/ elapsed

Wanted(w, elapsed) ==
    Current(w).isNew \/ ShouldRecognize(tracks[w][Current(w).id], elapsed)

(* The track has an embedding, and LastRecognized is now.                    *)
Known(track) == [track EXCEPT !.embedded = TRUE]

Advance(w) ==
    IF at[w] = Len(updates[w])
      THEN /\ frame' = [frame EXCEPT ![w] = << >>]
           /\ updates' = [updates EXCEPT ![w] = << >>]
           /\ at' = [at EXCEPT ![w] = 1]
      ELSE /\ at' = [at EXCEPT ![w] = @ + 1]
           /\ UNCHANGED <<frame, updates>>

(* Not wanted, or the crop is empty, or Extract fails.                       *)
Skip(w) ==
    /\ ~Idle(w)
    /\ Advance(w)
    /\ UNCHANGED <<tracks, nextID, events, frames, born, ledger, restarts>>

(* The face is cut out at the track's box. Snapshot, search and attributes   *)
(* may fail without consequence here; the event may not get through.         *)
Recognize(w, elapsed, stored) ==
    /\ ~Idle(w)
    /\ Wanted(w, elapsed)
    /\ LET t   == Current(w).id
           det == CHOOSE x \in Range(frame[w]) : x.box = tracks[w][t].box
       IN  /\ tracks' = [tracks EXCEPT ![w][t] = Known(@)]
           /\ events' = IF ~stored THEN events
                        ELSE events \cup {[worker |-> w, boot |-> restarts, id |-> t,
                                           birth |-> ledger[w][t].birth,
                                           face |-> det.face, conf |-> det.conf]}
    /\ Advance(w)
    /\ UNCHANGED <<nextID, frames, born, ledger, restarts>>

(* The worker process is started again, with new pipelines.                  *)
Restart ==
    /\ restarts < MaxRestarts
    /\ restarts' = restarts + 1
    /\ tracks' = [w \in Workers |-> << >>]
    /\ nextID' = [w \in Workers |-> 0]
    /\ frame' = [w \in Workers |-> << >>]
    /\ updates' = [w \in Workers |-> << >>]
    /\ at' = [w \in Workers |-> 1]
    /\ ledger' = [w \in Workers |-> << >>]
    /\ UNCHANGED <<events, frames, born>>

Next ==
    \/ \E w \in Workers :
          \/ \E d \in Detections : Update(w, d)
          \/ NoFaces(w)
          \/ Skip(w)
          \/ \E elapsed, stored \in BOOLEAN : Recognize(w, elapsed, stored)
    \/ Restart

Spec == Init /\ [][Next]_vars

-----------------------------------------------------------------------------
(* Properties.                                                               *)

(* Update returns each detection of the frame once, with a track of its own  *)
(* that the tracker still has: no face is merged into another's track, and   *)
(* the loop never holds a track that was removed as stale (track.go:71-131). *)
OneTrackPerDetection ==
    \A w \in Workers : ~Idle(w) =>
        /\ Len(updates[w]) = Len(frame[w])
        /\ \A i, j \in DOMAIN updates[w] :
              updates[w][i].id = updates[w][j].id => i = j
        /\ \A i \in DOMAIN updates[w] : updates[w][i].id \in DOMAIN tracks[w]
        /\ {tracks[w][updates[w][i].id].box : i \in DOMAIN updates[w]}
              = {frame[w][i].box : i \in DOMAIN frame[w]}

(* A face that comes back within MaxAge frames finds its track: none is lost *)
(* earlier, whatever detections and empty frames came in between             *)
(* (track.go:54-57, 92, 126-131).                                            *)
TracksAreKept ==
    \A w \in Workers : \A t \in DOMAIN ledger[w] :
        ledger[w][t].missed <= MaxAge => t \in DOMAIN tracks[w]

(* "frames before losing a track" (README.md:412), "max frames without       *)
(* detection before track is removed" (track.go:33): a track that was not    *)
(* detected in more than MaxAge frames of its worker is gone.                *)
LostAfterMaxAge ==
    \A w \in Workers : \A t \in DOMAIN tracks[w] : ledger[w][t].missed <= MaxAge

(* As long as a worker runs, a track id means one track: the numbers of dead *)
(* tracks do not come back (track.go:109-110).                               *)
WorkerIdsAreUnique ==
    \A e, f \in events :
        e.worker = f.worker /\ e.boot = f.boot /\ e.id = f.id => e.birth = f.birth

(* GetEmbeddingByTrackID: the face of an event of that track that the        *)
(* detector was most sure of.                                                *)
GetEmbeddingByTrackID(id) ==
    {e.face : e \in {x \in events : /\ x.id = id
                                    /\ \A y \in events : y.id = id => y.conf <= x.conf}}

(* "Find all events across all streams where the same face appeared,         *)
(* identified by a track_id from a known event" (README.md:247): the search  *)
(* for an event's track starts from that event's face.                       *)
SimilarFindsTheFace ==
    \A e \in events : GetEmbeddingByTrackID(e.id) = {e.face}
=============================================================================
