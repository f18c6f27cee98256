# FD face detection service in TLA+

The repository holds a face detection service in Go: an API, an ingestor that
pulls frames out of video streams, and vision workers that find and recognise
faces. This directory models its concurrent core in TLA+, checks it with TLC on
small instances and proves what matters most with TLAPS for all of them.
`PROJECT.json` is the machine-readable index: components, runs, mutants,
findings, hazards, theorems, and the source lines of every definition.

Run `tlc -config X.cfg M.tla` and `tlapm M.tla` in this directory.

## The system

Three processes share Postgres (rows), MinIO (images) and NATS (messages).

| component | state | operations | talks to |
|---|---|---|---|
| API handlers (`internal/api/handlers`) | none of its own, one goroutine per request | Create, Start, Stop, Delete, persons, events, search | rows; publishes on `stream.control` |
| Ingest manager (`internal/ingest/manager.go`, `cmd/ingestor`) | `m.streams`: a cancel function per stream | HandleCommand (one callback at a time), a goroutine per stream with up to five retries, StopAll | reads `stream.control`; writes `streams.status`, frames, frame tasks |
| Extraction (`ffmpeg.go`, `ytdlp.go`) | an ffmpeg child process | StartExtraction, Stop, ResolveYouTubeURL | the goroutine above |
| Frame queue (`internal/queue`) | FRAMES work queue, one channel per worker | PublishFrame, ConsumeFramesWithIndex | redelivery after 30 s, at most three deliveries |
| Vision workers (`cmd/worker`, `internal/vision`) | per worker: ONNX tensors and a tracker per stream | ProcessFrame, Tracker.Update, ShouldRecognize | frames, SearchFaces, events |
| Event delivery (`cmd/api`, ConsumeEvents) | EVENTS stream, `events` rows | CreateEvent, BroadcastEvent | redelivery after 10 s |
| WebSocket hub (`internal/api/ws/hub.go`) | clients, their send channels | Run, HandleWS, readPump, writePump | the event consumer |
| Shared embedding pipeline (`cmd/api/main.go:149`) | one set of tensors | EmbedImage from every handler | persons and event search |
| Frame store (`minio.go`, cleanupFrames) | objects `frames/<stream>/<uuid>` | put, get, list, delete | ingestor, workers, cleanup ticker |
| Geometry (`detect.go`, `pipeline.go`) | none | iou, nms, cropFace, age buckets | pipeline |

How they interact. A request writes the stream's row and publishes a command;
the ingestor's subscription callback handles commands one after another and
starts or cancels a goroutine per stream, which writes the same row. Frames go
to MinIO and their tasks to FRAMES. A worker's dispatcher deals tasks to worker
goroutines, which own a tracker per stream and publish events. The API stores
each event and hands it to the hub, which hands it to WebSocket clients.

What is hard in it: unsynchronised writers of one status column; a retry loop
that a stop has to get through; commands that are lost while nobody listens;
at-least-once delivery without idempotence; a tracker per worker; a channel
closed from two sides; tensors without a lock. What makes each component right:

| component | it is right if |
|---|---|
| stream control | one extraction per stream, always reachable by a stop; the last stop wins; the row tells the truth |
| frame queue | no frame leaves it unprocessed; its three chances are not wasted; twice only after a timeout; none waits for ever |
| tracker | one track per detection; tracks go when they should and not before; an id means one track |
| extraction | what reaches the store are whole pictures, each once; the error that counts as a failed attempt is true; no ffmpeg is left behind |
| hub | no panic on a closed channel; a client gets its events in order without a hole; a slow client stops nobody |
| event delivery | an event that clients saw is stored, once, and none is acknowledged that they did not see; they see them in order |
| embedding pipeline | an embedding belongs to the image it was asked for; table, image store and answer agree |
| frame store | retention takes the oldest frames, and no more than it should |
| geometry | nobody is reported twice or lost by nms; no pixel is read outside the picture |

## Modules

    Session            what the manager promises about one stream (abstract)
      ^ implemented by
    StreamControl      API handlers + control subject + ingestor
    FrameQueue         FRAMES, dispatcher, worker goroutines
    FaceTracker        ProcessFrame and Tracker of several workers
    EventDelivery      EVENTS, the API's consumer, the events table
    Hub                WebSocket hub and its clients
    FaceEnrolment      handlers that share one pipeline in the API
    FrameStore         uploads, tasks and the retention of frames
    FrameScanner       ffmpeg's pipe and the reader that cuts pictures out of it
    FaceBoxes          boxes from the network to pixels
    MC*                constants for TLC (MCImage: FrameScanner and FaceBoxes;
                       MCVision: FaceTracker and FaceEnrolment)
    *Proofs            theorems (ImageProofs: FrameScanner and FaceBoxes)

Where components meet, the module on one side has the other side's whole effect:
FrameScanner ends with the outcomes that StreamControl's goroutine takes an
extraction to have, its callback is FrameStore's Upload and Publish, the task it
publishes is FrameQueue's frame, the worker's handler there is FaceTracker's and
FaceBoxes' ProcessFrame, the event it publishes is EventDelivery's, and what
EventDelivery announces is what Hub's BroadcastEvent receives, in the order
that FirstDeliveriesInOrder gives and DeliveryIsGapFree keeps for each client.

### StreamControl

`db` is the `status` column, `request` the handler goroutines, `control` the
subscription's queue, `cmd` the callback, `streams` the map `m.streams`, `job`
the extraction goroutines, `ingestor` the process. One action is one database
statement, one publish, one critical section of `m.mu` or one local decision:
Stop, for instance, is StopRequest (read the row, decide), StopPublish and
StopMark. The callback is Receive, then for a start HandleStart (first critical
section), ResolveSucceeds or ResolveFails (yt-dlp), Insert (second critical
section) and Started; for a stop HandleStop. A goroutine goes through
NextAttempt, an extraction that ends, fails or is cancelled, the backoff, the
re-resolution, WriteFinalStatus and Cleanup, its deferred delete. `last` is a
history variable: the last command delivered for a stream.

Faults are a constant: "db" (a statement fails; handlers and manager only log
it or answer 500), "nats" (a publish fails or the command gets lost), "api"
(the API dies between two statements), "restart" (the ingestor crashes, or is
stopped with its two-second grace period, and starts with an empty map).

`Session` is the abstract specification: a stream has no session, one that is
on, or one that is ending; an ending session never comes back on, and a new one
opens only after it is gone. ImplementsSession instantiates it with the
goroutines that are live for a stream.

### FrameQueue

`stored`, `delivered` and `unacked` are JetStream's side (external, from the
configuration in consumer.go:120-130); `want`, `batch` and `idx` the fetch loop,
`channels` and `busy` the worker goroutines. Deliver hands out a frame that is
not waiting for an ack, MaxDeliver times at most; AckWaitExpires makes an
unacked frame available again, also while a worker still holds it. Fetch,
FetchTimeout, Dispatch and CloseChannels are the loop, Take, Succeed and Fail a
worker; Shutdown, Exit and Restart the process. Acks may get lost.

### FaceTracker

The workers of one process on the frames of one stream, which are spread over
them. The state of a worker is its tracker (`tracks`, `nextID`) and the frame it
is at (`frame`, `updates`, `at`). Update is ProcessFrame up to its loop with the
whole of Tracker.Update: Matchings are the outcomes of the greedy matching under
any order of the map, Moved, NewIds and Keep the rest. NoFaces is the early
return. Skip and Recognize are one round of the loop. `events` is the table the
SimilarByTrack endpoint searches with GetEmbeddingByTrackID. Faces, boxes and
confidences are model values; what overlaps what is a constant. `ledger` is
history: when each track was born and for how many frames of its worker, those
without a face included, it has not been detected. `tsu` counts what the code
counts, the updates.

### Hub

`clients` is the hub's map, `current` and `todo` the broadcast that Run is in
the middle of, `send` and `closed` the clients' channels, `reader` and `writer`
their goroutines. Register, Unregister, TakeMessage and Offer are the branches
of Run's select; Offer gives one client one event, skips it or drops it. A
writer may hang in WriteMessage for ever, as the code sets no deadline. A send
on, or a close of, a closed channel sets `panic`.

### EventDelivery

From the worker's PublishEvent to the table and the hub. `stored`, `delivered`
and `unacked` are the server's side of the EVENTS stream and its durable
consumer (external; interest retention keeps nothing before the `consumer`
exists); `want` and `batch` the fetch loop of ConsumeEvents, `copy` and `step`
main's handler: Take unmarshals, Store is CreateEvent, Broadcast the hub, Answer
the ack or nak, both of which may get lost. A copy is one delivery of one event,
and stands for the row id CreateEvent makes for that delivery. Store fails with
the database, with a cancelled context and with a deleted stream (foreign key),
and the handler goes on. Start, Shutdown and Exit are the process; `deaf` is the
API whose ConsumeEvents failed. `Order` names the handler's three steps once.

### FaceEnrolment

AddFace, Search (which stands for SearchEvents too) and DeleteFace. A request is
one goroutine; `detIn`, `detOut`, `embIn`, `embOut` are the tensors of the one
detector and the one embedder that all of them use. A picture is an atom, a box
is named by the picture it was found in and an embedding is the crop it was made
of, so a property can tell whose it is. A copy or a Run that meets another
request inside the same session leaves either value or a mixture. CopyPicture,
RunDetector, FindFace or FindNoFace, CopyCrop, RunEmbedder and ReadEmbedding are
EmbedImage; PutImage and InsertFace the rest of AddFace, each of which may fail
after it took effect. `collided` is history: who met whom in a session.

### FrameStore

Keys are numbered in the order of a listing, which is that of random uuids: an
upload may get any free number. Upload and Publish are the extraction's
callback, Load the worker's GetObject (a nak when the frame is gone), StartRound,
ListFrames, DeleteFrame and EndDelete are cleanupFrames.

### FrameScanner

One StartExtraction: Write and FFmpegExits are ffmpeg (external), FindStart and
StartEOF findJPEGStart and the start-up retries, ReadBody and BodyEOF
readUntilJPEGEnd, WaitForExit cmd.Wait, Cancel Stop or the end of the context. A
byte is one of the three that markers are made of or stands for all others.
ReadBody has the code's three cases: the end marker, an FF whose second byte is
read next without a look at the size, and a byte after which the size counts.
After an error the code returns without Wait: the process is killed by the
deferred cancel, which ExtractionEnds is about, but is not reaped by that call.

### FaceBoxes

One picture through parseDetections, nms, the filter for small faces and
cropFace, in ProcessFrame or EmbedImage. Coordinates are integers in sub-pixels,
so that the truncation of float32 to int is a division; rounding errors of
float32 are not modelled. Sorted is the set of all orders sort.Slice may leave,
which is not stable. The network's boxes may lie anywhere: outside the picture,
empty, inverted. Their coordinates are numbers; a NaN, which clampF lets through
and whose conversion to int the platform decides, is not modelled.

## Runs

Each property is broken by at least one mutant of the code (`PROJECT.json`,
"mutants"); the mutated definitions stand beside the originals.

| run | instance | distinct states | what it shows |
|---|---|---|---|
| control_sequential | two streams (one YouTube), one client, no fault, one retry | 811 000 | a row that says running, stopped or error tells the truth |
| control_faults | one YouTube stream, two clients, two goroutines, two retries, every fault | 195 000 | registration, mutual exclusion, StopIsEffective, a cancelled goroutine ends and a stop takes effect, refinement of Session |
| control_delete | one client, no fault | - | violation: a deleted stream goes on (finding 1) |
| queue | two workers, two frames (one may expire), channels of one, three deliveries, one restart | 648 000 | NothingLost, DeliveriesAccounted, DuplicatesNeedTimeout, FrameSettles |
| hub | two clients, one filtered, buffers of one, three events | 252 000 | no panic, no hole, the gauge settles, events are handed out, leavers forgotten |
| vision | the tracker: one worker, two people, three boxes in a row, four frames, max_age 1, one restart; the API's pipeline: two requests, pictures of two faces and of none, one person and an unknown id | 480 000 | one track per detection, no track is lost early, ids are not used again; WrongNeedsCollision, AnswerMatchesStore |
| tracker_age | one worker, two people far apart, four frames, max_age 1 | - | violation: a track outlives max_age frames (finding 5) |
| tracker_similar | two workers, two people far apart | - | violation: one id for two people (finding 2) |
| events | two events of one stream, one perhaps unreadable and one mortal, batches of two, two deliveries, two starts | 158 000 | acknowledged events were announced, announced ones stored, once, in order; every event settles |
| enrolment_shared | two requests, as in vision | - | violation: another picture's embedding (finding 3) |
| store_purge | one stream, three keys, two frames to keep | - | violation: a newer frame is deleted (finding 4) |
| image | up to two pictures of seven bodies through a pipe of three bytes; up to three of seven boxes on 4 by 3 pixels | 29 000 | DeliveredIsExact, OutcomeIsTrue, ExtractionEnds; KeptAreApart, DroppedAreCovered, PixelsInPicture |

Why the bounds are enough. The control runs need two goroutines per stream for
a second start beside a dying one, two retries to reach both an intermediate
and the last attempt, and room for three commands so that a start waits between
two stops; handlers and goroutines are anonymous, so symmetry is used where no
liveness is checked. In the queue two workers suffice for a dispatcher that
blocks on one while the other idles; channels of one fill at once; three
deliveries are the code's number. Two hub clients suffice for one that is
dropped in the middle of a broadcast to another, and three events for a hole in
the middle. In the tracker three boxes in a row give a detection a choice of
two tracks and a track a choice of two detections; with max_age 1 a track can be
missed, kept, missed again and removed within four frames, and its number could
then come back. Two events make a batch in which one waits behind another, is
redelivered after it or is handled by the next process; two deliveries reach
MaxDeliver. Two requests are all it takes to meet in a session, and a third
picture without a face tells a wrong refusal. The bodies of FrameScanner are
those that could confuse it: empty, stuffing, D8 and D9 without FF, one beyond
the limit of size; a pipe of three bytes fills within every picture, and two
start-up retries have a first, a middle and a last. Three boxes in a row of which
neighbours overlap give nms a box that only a dropped one would drop; halves of
pixels and boxes that are thin, inverted or outside give cropFace its edges.
control_faults has symmetry off because it checks liveness; vision and
control_sequential use it. The runs vision and image each hold two components
that share no state: in a behaviour one of them moves while the other stands
still, so they have the states of both and not their product.

Deadlock is checked in the control runs. In the others the system may stop: all
frames settled, all clients gone, the bound on frames reached.

## Fairness

* StreamControl: weak fairness of the callback and of the steps by which a
  *cancelled* goroutine unwinds: the context kills ffmpeg, timers fire, yt-dlp
  returns, and the database answers each status write, with success or with an
  error. The last is an assumption: the write uses context.Background() and has
  no deadline. Nothing says that a healthy extraction ends, that a request is
  made or that a publish succeeds.
* FrameQueue: weak fairness of the dispatcher, of each worker's Take and of its
  handler's return, of AckWaitExpires, of the exit of a closing worker and of
  Restart; strong fairness of Deliver, because the pull request is repeated but
  not open all the time. Fairness of Restart is an assumption about the
  environment: somebody starts the worker again. Nothing in the repository does,
  deploy/docker-compose.yml has no service for it; README.md:483 tells the
  operator to. FrameSettles holds only where that is done.
* EventDelivery: weak fairness of the loop, of the handler (the insert's context
  has no deadline either; pgx returns an answer or an error), of AckWaitExpires,
  of the end of a process that is closing and of Start; strong fairness of
  Deliver, as for the frame queue. Fairness of Start is the same assumption
  about the environment, that an API which is down is started again. Nothing
  says that an insert succeeds.
* FrameScanner: weak fairness of the reader, and of the death of an ffmpeg whose
  context is done (exec.CommandContext kills it). Nothing says that ffmpeg
  writes or exits on its own.
* Hub: weak fairness of Run and of a reader whose peer has gone (ReadMessage
  fails). No fairness of writers: WriteMessage may hang.

## Proofs

All for any value of the constants, from the named assumptions of each module
(sizes are natural numbers, markers like NoJob lie outside their sets).

* StreamControlProofs. IInv is TypeOK, Registration (a goroutine of a stream is
  the one in the map, and an entry points at such a goroutine; the first half is
  ExtractionIsRegistered), CallbackInv (between the two critical sections of a
  start the stream has no entry; only this makes the second one safe) and
  StopPending. StopIsEffective alone is not inductive: it says nothing while
  commands wait. StopPending says that while the last command delivered is a
  stop, every waiting start, the callback and every extraction that goes on has
  a stop still behind it in the queue. Theorems TypeCorrect, AlwaysRegistered,
  MutualExclusion, StopWorks. With IInv, a row that says running belongs to a
  goroutine whose last write is still ahead (Backed): theorem RunningTrue. The
  refinement maps each action to a step of Session or a stutter: theorem
  Refinement. StatusTrue, that a settled row which says stopped or error is true,
  needs two hypotheses, of which the run control_sequential is an instance:
  Sequential (one client, which waits for each answer) and Reliable (statements
  succeed and commands arrive). The API and the ingestor may both go down and
  come back at any step. None of it can be dropped: TLC refutes the property
  with two clients (a Stop's write may come after a Start's command), with
  commands that get lost and with statements that fail. Its invariant
  OneClientInv says that if an extraction goes on behind such a row, a stop is
  the last command and no start is about to be sent (StatusInv), that an
  ingestor which is down has no goroutine (DownInv), that nothing happens for a
  stream before it is created (AbsentInv), and that a goroutine is new only
  until the callback has written its row (NewInv).
* HubProofs. The broadcast queue holds the published events behind the current
  one, so the current one is newer than whatever a client has; clients in the
  map have open channels; a client that was refused an event is out of the map;
  the gauge counts the connections that are not unregistered. Theorems
  TypeCorrect, NoPanic, OrderedDelivery, GaugeIsRight.
* FrameQueueProofs. TypeOK and NothingLost are inductive together: TypeCorrect,
  AtLeastOnce. Balance is the ledger of deliveries: while no AckWait of a frame
  ran out, there is one copy or one success of it at most, and none of either
  while the server may deliver it again. Lemmas count the copies in the batch,
  the channels and the workers' hands and say which of them a step moves.
  Theorems NoDeliveryWasted, AtMostOnceInTime.
* FaceTrackerProofs. The ledger knows every number a tracker gave away
  (LedgerInv), TimeSinceUpdate is at most what the ledger counts (TrackInv), the
  loop only meets tracks that are there (LoopInv), and an event of the running
  process has the birth the ledger has for its id (EventInv): NotLostEarly,
  IdsAreUnique. If every frame has a face the two counts are the same (Even), so
  tracks go after max_age frames: LostOnTime says that finding 5 has no cause
  but the frames without a face. A matching is one to one and the detections it
  leaves out get new numbers one by one (Paired): NoFaceIsMerged. What a frame
  can add to the numbers and the hits bounds them (Bounded): TypeCorrect.
* ImageProofs, for boxes. The loop of nms is a fold over the sorted list, so its
  invariant speaks of the part gone through: nothing kept overlaps anything
  kept before it (Cleared), everything dropped overlaps a kept box that is at
  least as good (Covered), and the list descends by confidence (Descending).
  The argument uses nothing of the IoU: it holds for any relation Overlap that
  says which boxes are too close. Crops are non-empty rectangles inside the
  picture. Theorems BoxInductive, BoxTypeCorrect, Apart, DroppedCovered,
  ReadsInside.
* ImageProofs, for pictures. The reader stands behind the pictures it delivered
  and within the next one, data is exactly what it has read of that one (Place,
  ReaderInv), and an FF in a body is followed by 00, so the first FF D9 it meets
  is the picture's own. Theorems ScanInductive, ScanTypeCorrect, Exact,
  OutcomeTrue. They need what the fold FlattenSeq computes for every sequence of
  pictures, which is an induction over data. No induction theorem of the library
  can be instantiated, but that the numbers are well founded is stated of a set:
  the lemma Induct (a set with 0 and every successor has all numbers) carries
  the lemmas TableExists, TableFlattens and FlatUnfolds, and no other fact about
  FlattenSeq is used. The proof showed that the type invariant is false for
  MaxSize = 1, a limit below the two bytes of a marker; the assumption of
  FrameScanner excludes it (the code has 10 MB). ImageInductive and
  ImageTypeCorrect are about the specification of the run, where an extraction
  or a picture's way through the boxes goes on and the other stands still.
* EventDeliveryProofs. HandlerInv says what is known of an event at each step
  of main's handler, CopyInv that every copy in a batch, a row or an
  announcement comes from a delivery that took place, RedeliveryInv that a
  second delivery has a timeout or an unreadable event behind it, NewestInv and
  OrderInv that first deliveries come in the order of publication and that
  the announcements, the copy in hand and the batch are in that order. None of
  the four properties is inductive alone. Theorems Inductive, TypeCorrect,
  NoSilentAck, AnnouncedHasRow, OneRowEach, InOrder.
* FaceEnrolmentProofs. A request that has met nobody is alone in its session
  (DetectorInv, EmbedderInv), hence what it finds in the tensors is what it
  put there; ShapeInv excludes None where TypeOK allows it; StoreInv says how
  far a request has come with the image and the row. Theorems Inductive,
  TypeCorrect, AloneIsRight, AnswersAreTrue. That embeddings may be wrong when
  requests do meet is the violation run.
* FrameStoreProofs. A list of objects to delete leaves the limit without it
  (FirstLeaves: the first n keys of a listing are n at most), and while the
  cleanup works it off nothing else removes objects, so what a stream has
  without the rest of the list only grows (SpareInv). Theorems Inductive and
  RetentionKept: KeepsRetention, for any number of streams and frames, under
  the hypothesis Setting (keys are numbers, None is none of them). No run checks
  KeepsRetention: the module's only run refutes PurgesOldest. The cleanup takes
  the wrong frames, then, but never too many.

Every safety invariant and every action property that a passing run checks is
proved. Only model-checked are the liveness properties (CancelledJobEnds,
StopLeadsToEnd, FrameSettles, EventsAreHandedOut, LeaversAreForgotten,
EventSettles, ExtractionEnds), which are beyond the prover. The violations are
counterexamples of runs and not theorems.

## Findings

1. Delete leaves a starting stream running. It sends the stop only if the row it
   read says running (streams.go:186); openapi.yaml:508 promises a stop.
2. A track id does not identify a face: every worker has its own tracker per
   stream and all number from 1, as they do again after a restart, so the search
   by track id (README.md:247) may start from another person's face.
3. The API's handlers share one set of tensors without a lock (api/main.go:159),
   although a comment of the worker says that sessions are not thread-safe: a
   request may get, and AddFace may store, the embedding of another picture.
4. The cleanup does not purge the oldest frames (README.md:475) but those whose
   random uuids come first (ingestor/main.go:40).
5. Tracks age by updates, not by frames: ProcessFrame returns before Update when
   no face is found (pipeline.go:160). While nobody is in the picture a track
   stays for longer than the max_age that README.md:412 and track.go:33 count in
   frames.

Consequences of the design that the modules show without a run of their own:
after a crash of the ingestor, or a shutdown whose two seconds were too short,
the row keeps saying running and Start answers 409 until somebody calls Stop
(RunningIsLive therefore excludes restarts); a stream that is stopped while its
last re-resolution fails ends with the status error (TerminalStatusIsTrue
accepts either); a command that gets lost leaves the row at starting; an API
whose ConsumeEvents failed serves on without announcing anything (EventSettles
excepts it).

## Not modelled

* `onnxruntime-linux-x64-1.17.3/include`, the headers of the vendored ONNX
  runtime. They are the only C code in the repository and by far its longest
  files, but they declare a third party's API: no function of this service is
  in them, the Go code reaches the runtime through the onnxruntime_go package,
  and there is no behaviour in them to translate. What the service depends on,
  that a session's Run reads and writes the tensors bound to it and is not
  thread-safe, is in FaceEnrolment. All the modules translate Go code.
* What the networks compute: detections, embeddings, gender and age are free
  inputs. Attributes, person search and snapshots inside ProcessFrame change no
  state that the properties look at.
* upscaleFace, the age buckets, softmax and normalisation: pure functions of one
  value, better tested than modelled.
* Single-statement CRUD of persons and collections, the event and frame queries,
  router, authentication, middleware, configuration, metrics, migrations.
* DiscardOld at 100 000 waiting frames, MaxMsgs of EVENTS, and ConsumeFrames,
  which nothing calls.
* Time. A timeout may fire at any moment at which it may be running.

## Plan

What is left, in this order.

1. That the findings vanish under a hypothesis, as theorems: an embedding is its
   picture's if requests do not overlap, the search by track id finds the face
   with one worker that never restarts, the cleanup purges the oldest frames if
   keys are listed by age.
2. The composition of FrameStore with FrameQueue, so that a task finds its frame
   unless the cleanup took it.
3. What StatusTrue says with several clients: which rows may lie, and until when.
