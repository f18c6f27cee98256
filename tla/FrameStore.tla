----------------------------- MODULE FrameStore -----------------------------
(* The frames in the object store: the extraction callback that uploads a    *)
(* frame and then publishes its task (internal/ingest/manager.go:161-190),   *)
(* the ingestor's cleanup goroutine (cmd/ingestor/main.go:24-47 and 132-147),*)
(* and the worker, which loads what the task names (vision/pipeline.go:132). *)
(*                                                                           *)
(* A key is frames/<stream>/<uuid>.jpg with a random uuid: its place in a    *)
(* listing has nothing to do with its age. Keys are numbered in the order of *)
(* a listing, and an upload may get any number that is free.                 *)
EXTENDS Integers, FiniteSets

CONSTANTS
    Streams,
    Keys,        \* bound: keys that uploads may get, a set of numbers
    None,        \* no stream, no key
    Retention,   \* storage.frame_retention, 1000 in the configuration file
    MaxDeliver   \* of the frame queue: 3

VARIABLES
    listed,     \* streams that have a row
    owner,      \* the stream of each key in use
    age,        \* its rank among the uploads
    objects,    \* keys the bucket holds
    uploading,  \* the frame that a stream's callback has uploaded, not published
    tasks,      \* frames whose task is in the queue
    tries,      \* deliveries of the task so far
    todo,       \* streams the cleanup has still to go through
    at,         \* the stream whose objects it is deleting
    doomed,     \* toDelete, less what is deleted already
    purged      \* history: keys the cleanup deleted

frameVars   == <<owner, age>>
queueVars   == <<tasks, tries>>
cleanupVars == <<todo, at, doomed>>
vars == <<listed, frameVars, objects, uploading, queueVars, cleanupVars, purged>>

Of(s) == {k \in objects : owner[k] = s}

TypeOK ==
    /\ listed \in SUBSET Streams
    /\ owner \in [Keys -> Streams \cup {None}]
    /\ age \in [Keys -> Nat]
    /\ objects \in SUBSET {k \in Keys : owner[k] # None}
    /\ uploading \in [Streams -> Keys \cup {None}]
    /\ tasks \in SUBSET Keys
    /\ tries \in [Keys -> 0 .. MaxDeliver]
    /\ todo \in SUBSET Streams
    /\ at \in Streams \cup {None}
    /\ doomed \in SUBSET Keys
    /\ purged \in SUBSET Keys

Init ==
    /\ listed = Streams
    /\ owner = [k \in Keys |-> None]
    /\ age = [k \in Keys |-> 0]
    /\ objects = {}
    /\ uploading = [s \in Streams |-> None]
    /\ tasks = {} /\ tries = [k \in Keys |-> 0]
    /\ todo = {} /\ at = None /\ doomed = {}
    /\ purged = {}

-----------------------------------------------------------------------------
(* The callback of StartExtraction.                                          *)

Used == {k \in Keys : owner[k] # None}

(* PutObject. When it reports an error, the frame is skipped, also where the *)
(* object is there; one that stored nothing changes nothing.                 *)
Upload(s, k, ok) ==
    /\ uploading[s] = None
    /\ k \in Keys \ Used
    /\ owner' = [owner EXCEPT ![k] = s]
    /\ age' = [age EXCEPT ![k] = Cardinality(Used) + 1]
    /\ objects' = objects \cup {k}
    /\ uploading' = IF ok THEN [uploading EXCEPT ![s] = k] ELSE uploading
    /\ UNCHANGED <<listed, queueVars, cleanupVars, purged>>

(* PublishFrame. When it fails the frame has no task, and stays.             *)
Publish(s, ok) ==
    /\ uploading[s] # None
    /\ tasks' = IF ok THEN tasks \cup {uploading[s]} ELSE tasks
    /\ uploading' = [uploading EXCEPT ![s] = None]
    /\ UNCHANGED <<listed, frameVars, objects, tries, cleanupVars, purged>>

(* ProcessFrame loads the frame: a nak when it is gone, an ack otherwise.    *)
Load(k) ==
    /\ k \in tasks
    /\ tries[k] < MaxDeliver
    /\ tries' = [tries EXCEPT ![k] = @ + 1]
    /\ tasks' = IF k \in objects THEN tasks \ {k} ELSE tasks
    /\ UNCHANGED <<listed, frameVars, objects, uploading, cleanupVars, purged>>

(* The API deletes a stream's row, and none of its objects.                  *)
DeleteStream(s) ==
    /\ s \in listed
    /\ listed' = listed \ {s}
    /\ UNCHANGED <<frameVars, objects, uploading, queueVars, cleanupVars, purged>>

-----------------------------------------------------------------------------
(* cleanupFrames, once in sixty seconds.                                     *)

(* ListStreams. An error ends the round.                                     *)
StartRound ==
    /\ at = None /\ todo = {}
    /\ todo' = listed
    /\ UNCHANGED <<listed, frameVars, objects, uploading, queueVars, at, doomed, purged>>

(* The n keys that come first in a listing of K.                             *)
First(K, n) == {k \in K : Cardinality({j \in K : j < k}) < n}

(* ListObjects, and which of them to delete. An error goes on to the next    *)
(* stream, as does a stream that does not have too many.                     *)
ListFrames(s, ok) ==
    /\ at = None
    /\ s \in todo
    /\ todo' = todo \ {s}
    /\ LET excess == Cardinality(Of(s)) - Retention
       IN  IF ok /\ excess > 0
             THEN at' = s /\ doomed' = First(Of(s), excess)
             ELSE UNCHANGED <<at, doomed>>
    /\ UNCHANGED <<listed, frameVars, objects, uploading, queueVars, purged>>

(* DeleteObjects: one object after another.                                  *)
DeleteFrame(k) ==
    /\ k \in doomed
    /\ objects' = objects \ {k}
    /\ doomed' = doomed \ {k}
    /\ purged' = purged \cup {k}
    /\ UNCHANGED <<listed, frameVars, uploading, queueVars, todo, at>>

(* It returns after the last one, or with the first error.                   *)
EndDelete ==
    /\ at # None
    /\ at' = None
    /\ doomed' = {}
    /\ UNCHANGED <<listed, frameVars, objects, uploading, queueVars, todo, purged>>

(* The ingestor is restarted: callbacks and cleanup begin again.             *)
Restart ==
    /\ uploading' = [s \in Streams |-> None]
    /\ todo' = {} /\ at' = None /\ doomed' = {}
    /\ UNCHANGED <<listed, frameVars, objects, queueVars, purged>>

Next ==
    \/ \E s \in Streams, ok \in BOOLEAN :
          \/ \E k \in Keys : Upload(s, k, ok)
          \/ Publish(s, ok) \/ ListFrames(s, ok)
    \/ \E k \in Keys : Load(k) \/ DeleteFrame(k)
    \/ \E s \in Streams : DeleteStream(s)
    \/ StartRound \/ EndDelete \/ Restart

Spec == Init /\ [][Next]_vars

-----------------------------------------------------------------------------
(* Properties.                                                               *)

(* README.md:475, the cleanup purges the oldest frames: no frame of a stream *)
(* is kept that is older than one that was deleted.                          *)
PurgesOldest ==
    \A k \in purged, o \in objects \ doomed :
        owner[k] = owner[o] => age[k] < age[o]

(* However uploads, failing calls and restarts come in between, the cleanup  *)
(* leaves a stream its last Retention frames in number: none is missing as   *)
(* long as no more were uploaded (cmd/ingestor/main.go:37-40).               *)
KeepsRetention ==
    \A s \in Streams :
        LET uploaded == {k \in Keys : owner[k] = s}
        IN  \/ uploaded \subseteq objects
            \/ Cardinality(Of(s)) >= Retention
=============================================================================
