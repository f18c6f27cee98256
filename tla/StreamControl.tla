---------------------------- MODULE StreamControl ----------------------------
(* The life cycle of a video stream, across the two processes that share it. *)
(*                                                                           *)
(*   API        internal/api/handlers/streams.go: each HTTP request is a     *)
(*              goroutine that reads the stream's row, writes its status and *)
(*              publishes a command, one statement at a time.                *)
(*   NATS       the raw subject "stream.control": FIFO, at most once, and a  *)
(*              command published while no ingestor is subscribed is gone.   *)
(*   Ingestor   internal/ingest/manager.go: a single subscription callback   *)
(*              handles the commands one after another and keeps the map     *)
(*              m.streams; every started stream has an extraction goroutine  *)
(*              (a "job" here) that retries, writes the final status and     *)
(*              removes its own entry from the map.                          *)
(*                                                                           *)
(* One action is one step no other goroutine can cut: a database statement,  *)
(* a publish, a critical section of m.mu, or a purely local computation.     *)
EXTENDS Naturals, Sequences

CONSTANTS
    Streams,      \* stream ids (uuids: an id is never used again)
    YouTube,      \* the streams of type "youtube", resolved with yt-dlp
    Handlers,     \* HTTP handler goroutines that run at the same time
    Jobs,         \* identities for extraction goroutines
    MaxRetries,   \* const maxRetries of startStream (5 in the code)
    MaxPending,   \* bound: commands waiting in the subscription
    Faults,       \* what may go wrong, a subset of AllFaults
    NoStream, NoJob

AllFaults == {"db", "nats", "api", "restart"}

ASSUME StreamControlAssumption ==
    /\ YouTube \subseteq Streams
    /\ MaxRetries \in Nat
    /\ MaxPending \in Nat \ {0}
    /\ Faults \subseteq AllFaults
    /\ NoStream \notin Streams
    /\ NoJob \notin Jobs

Status == {"stopped", "starting", "running", "error"}
NoRow  == {"absent", "deleted"}

Commands == [action : {"start", "stop"}, stream : Streams]

RequestPc == {"startMark", "startPublish", "startFailed", "stopPublish",
              "stopMark", "deletePublish", "deleteRow"}
CmdPc == {"resolve", "insert", "started"}
JobPc == {"new", "extract", "backoff", "resolve", "stopped", "failed", "cleanup"}

IdleRequest == [pc |-> "idle", stream |-> NoStream]
IdleCmd     == [pc |-> "idle", stream |-> NoStream, job |-> NoJob]
IdleJob     == [pc |-> "idle", stream |-> NoStream, attempt |-> 0, cancelled |-> FALSE]

VARIABLES
    db,        \* streams.status of every row, or why there is no row
    control,   \* commands delivered to the subscription and not yet handled
    request,   \* the API's handler goroutines
    ingestor,  \* "up", "stopping" (signal received) or "down"
    cmd,       \* the subscription callback
    streams,   \* Manager.streams: the job registered for a stream
    job,       \* the extraction goroutines
    last       \* history: the last command delivered for a stream

apiVars == <<request>>
ingestorVars == <<ingestor, cmd, streams, job>>
vars == <<db, control, request, ingestor, cmd, streams, job, last>>

TypeOK ==
    /\ db \in [Streams -> Status \cup NoRow]
    /\ control \in Seq(Commands)
    /\ request \in [Handlers -> {IdleRequest} \cup [pc : RequestPc, stream : Streams]]
    /\ ingestor \in {"up", "stopping", "down"}
    /\ cmd \in {IdleCmd} \cup [pc : CmdPc, stream : Streams, job : Jobs \cup {NoJob}]
    /\ streams \in [Streams -> Jobs \cup {NoJob}]
    /\ job \in [Jobs -> {IdleJob} \cup
                  [pc : JobPc, stream : Streams, attempt : 0 .. MaxRetries,
                   cancelled : BOOLEAN]]
    /\ last \in [Streams -> {"none", "start", "stop"}]

Init ==
    /\ db = [s \in Streams |-> "absent"]
    /\ control = << >>
    /\ request = [h \in Handlers |-> IdleRequest]
    /\ ingestor = "up"
    /\ cmd = IdleCmd
    /\ streams = [s \in Streams |-> NoJob]
    /\ job = [j \in Jobs |-> IdleJob]
    /\ last = [s \in Streams |-> "none"]

-----------------------------------------------------------------------------
(* The services both processes use.                                          *)

(* UPDATE streams SET status = st WHERE id = s: no effect without a row.     *)
Stored(s, st) == [db EXCEPT ![s] = IF @ \in NoRow THEN @ ELSE st]

(* Manager.updateStatus: a failed statement is logged and forgotten.         *)
UpdateStatus(s, st) ==
    \/ db' = Stored(s, st)
    \/ "db" \in Faults /\ UNCHANGED db

(* Producer.PublishControl. Raw NATS delivers to the subscribers there are.  *)
PublishControl(c) ==
    \/ /\ ingestor # "down"
       /\ Len(control) < MaxPending
       /\ control' = Append(control, c)
       /\ last' = [last EXCEPT ![c.stream] = c.action]
    \/ /\ ingestor = "down" \/ "nats" \in Faults
       /\ UNCHANGED <<control, last>>

-----------------------------------------------------------------------------
(* The API's handlers.                                                       *)

Goto(h, pc, s) == request' = [request EXCEPT ![h] = [pc |-> pc, stream |-> s]]
Reply(h)       == request' = [request EXCEPT ![h] = IdleRequest]

Create(s) ==
    /\ db[s] = "absent"
    /\ db' = [db EXCEPT ![s] = "stopped"]
    /\ UNCHANGED <<control, last, apiVars, ingestorVars>>

(* GetStream decides: no row is 404, a row that says "running" is 409.       *)
StartRequest(h, s) ==
    /\ request[h].pc = "idle"
    /\ IF db[s] \in NoRow \cup {"running"}
         THEN UNCHANGED request
         ELSE Goto(h, "startMark", s)
    /\ UNCHANGED <<db, control, last, ingestorVars>>

StartMark(h) ==
    /\ request[h].pc = "startMark"
    /\ \/ /\ db' = Stored(request[h].stream, "starting")
          /\ Goto(h, "startPublish", request[h].stream)
       \/ /\ "db" \in Faults
          /\ Reply(h)
          /\ UNCHANGED db
    /\ UNCHANGED <<control, last, ingestorVars>>

StartPublish(h) ==
    /\ request[h].pc = "startPublish"
    /\ \/ /\ PublishControl([action |-> "start", stream |-> request[h].stream])
          /\ Reply(h)
       \/ /\ "nats" \in Faults
          /\ Goto(h, "startFailed", request[h].stream)
          /\ UNCHANGED <<control, last>>
    /\ UNCHANGED <<db, ingestorVars>>

StartFailed(h) ==
    /\ request[h].pc = "startFailed"
    /\ UpdateStatus(request[h].stream, "error")
    /\ Reply(h)
    /\ UNCHANGED <<control, last, ingestorVars>>

(* Mutant of StopRequest: only a row that says "running" is worth a command. *)
StopRequestIfRunning(h, s) ==
    /\ request[h].pc = "idle"
    /\ IF db[s] \in NoRow THEN UNCHANGED request
       ELSE Goto(h, IF db[s] = "running" THEN "stopPublish" ELSE "stopMark", s)
    /\ UNCHANGED <<db, control, last, ingestorVars>>

StopRequest(h, s) ==
    /\ request[h].pc = "idle"
    /\ IF db[s] \in NoRow THEN UNCHANGED request ELSE Goto(h, "stopPublish", s)
    /\ UNCHANGED <<db, control, last, ingestorVars>>

(* The error of PublishControl is ignored.                                   *)
StopPublish(h) ==
    /\ request[h].pc = "stopPublish"
    /\ PublishControl([action |-> "stop", stream |-> request[h].stream])
    /\ Goto(h, "stopMark", request[h].stream)
    /\ UNCHANGED <<db, ingestorVars>>

StopMark(h) ==
    /\ request[h].pc = "stopMark"
    /\ UpdateStatus(request[h].stream, "stopped")
    /\ Reply(h)
    /\ UNCHANGED <<control, last, ingestorVars>>

(* Only a row that says "running" makes Delete send a stop.                  *)
DeleteRequest(h, s) ==
    /\ request[h].pc = "idle"
    /\ Goto(h, IF db[s] = "running" THEN "deletePublish" ELSE "deleteRow", s)
    /\ UNCHANGED <<db, control, last, ingestorVars>>

DeletePublish(h) ==
    /\ request[h].pc = "deletePublish"
    /\ PublishControl([action |-> "stop", stream |-> request[h].stream])
    /\ Goto(h, "deleteRow", request[h].stream)
    /\ UNCHANGED <<db, ingestorVars>>

DeleteRow(h) ==
    /\ request[h].pc = "deleteRow"
    /\ \/ db' = [db EXCEPT ![request[h].stream] = IF @ \in NoRow THEN @ ELSE "deleted"]
       \/ "db" \in Faults /\ UNCHANGED db
    /\ Reply(h)
    /\ UNCHANGED <<control, last, ingestorVars>>

(* The API process dies between two steps of its handlers.                   *)
ApiCrash ==
    /\ "api" \in Faults
    /\ \E h \in Handlers : request[h] # IdleRequest
    /\ request' = [h \in Handlers |-> IdleRequest]
    /\ UNCHANGED <<db, control, last, ingestorVars>>

-----------------------------------------------------------------------------
(* The ingestor's subscription callback: Manager.HandleCommand.              *)

Receive(action) ==
    /\ ingestor # "down"
    /\ cmd = IdleCmd
    /\ control # << >>
    /\ Head(control).action = action
    /\ control' = Tail(control)

CmdGoto(pc, s, j) == cmd' = [pc |-> pc, stream |-> s, job |-> j]

(* Mutants of HandleStart: no look at m.streams at all; and one that takes an *)
(* entry whose context is already cancelled for a free place.                *)
HandleStartUnchecked ==
    /\ Receive("start")
    /\ LET s == Head(control).stream IN
         CmdGoto(IF s \in YouTube THEN "resolve" ELSE "insert", s, NoJob)
    /\ UNCHANGED <<db, request, ingestor, streams, job, last>>

HandleStartOverCancelled ==
    /\ Receive("start")
    /\ LET s == Head(control).stream IN
         IF streams[s] # NoJob /\ ~job[streams[s]].cancelled
           THEN UNCHANGED cmd
           ELSE CmdGoto(IF s \in YouTube THEN "resolve" ELSE "insert", s, NoJob)
    /\ UNCHANGED <<db, request, ingestor, streams, job, last>>

(* startStream up to the first unlock: a registered stream refuses.          *)
HandleStart ==
    /\ Receive("start")
    /\ LET s == Head(control).stream IN
         IF streams[s] # NoJob
           THEN UNCHANGED cmd
           ELSE CmdGoto(IF s \in YouTube THEN "resolve" ELSE "insert", s, NoJob)
    /\ UNCHANGED <<db, request, ingestor, streams, job, last>>

(* ResolveYouTubeURL under the process context, cancelled at shutdown.       *)
ResolveSucceeds ==
    /\ cmd.pc = "resolve"
    /\ ingestor = "up"
    /\ CmdGoto("insert", cmd.stream, NoJob)
    /\ UNCHANGED <<db, control, request, ingestor, streams, job, last>>

ResolveFails ==
    /\ cmd.pc = "resolve"
    /\ UpdateStatus(cmd.stream, "error")
    /\ cmd' = IdleCmd
    /\ UNCHANGED <<control, request, ingestor, streams, job, last>>

(* The second critical section: a fresh streamCtx, derived from the process  *)
(* context, is registered for the stream.                                    *)
Insert ==
    /\ cmd.pc = "insert"
    /\ \E j \in Jobs :
         /\ job[j] = IdleJob
         /\ job' = [job EXCEPT ![j] = [pc |-> "new", stream |-> cmd.stream,
                                       attempt |-> 0,
                                       cancelled |-> ingestor = "stopping"]]
         /\ streams' = [streams EXCEPT ![cmd.stream] = j]
         /\ CmdGoto("started", cmd.stream, j)
    /\ UNCHANGED <<db, control, request, ingestor, last>>

(* The status, then the go statement.                                        *)
Started ==
    /\ cmd.pc = "started"
    /\ UpdateStatus(cmd.stream, "running")
    /\ job' = [job EXCEPT ![cmd.job].pc = "extract"]
    /\ cmd' = IdleCmd
    /\ UNCHANGED <<control, request, ingestor, streams, last>>

(* Mutants of HandleStop: ffmpeg is killed but the retry loop is not         *)
(* cancelled; and the entry is removed before the goroutine has returned.    *)
HandleStopKillOnly ==
    /\ Receive("stop")
    /\ LET s == Head(control).stream IN
         job' = [j \in Jobs |-> IF j = streams[s] /\ job[j].pc = "extract"
                                  THEN [job[j] EXCEPT !.cancelled = TRUE]
                                  ELSE job[j]]
    /\ UNCHANGED <<db, request, ingestor, cmd, streams, last>>

HandleStopDeletes ==
    /\ Receive("stop")
    /\ LET s == Head(control).stream IN
         /\ job' = [j \in Jobs |-> IF j = streams[s]
                                     THEN [job[j] EXCEPT !.cancelled = TRUE]
                                     ELSE job[j]]
         /\ streams' = [streams EXCEPT ![s] = NoJob]
    /\ UNCHANGED <<db, request, ingestor, cmd, last>>

(* stopStream: an unknown stream is already stopped.                         *)
HandleStop ==
    /\ Receive("stop")
    /\ LET s == Head(control).stream IN
         job' = [j \in Jobs |-> IF j = streams[s]
                                  THEN [job[j] EXCEPT !.cancelled = TRUE]
                                  ELSE job[j]]
    /\ UNCHANGED <<db, request, ingestor, cmd, streams, last>>

-----------------------------------------------------------------------------
(* The extraction goroutine of startStream.                                  *)

AtJob(j, pc)   == job[j].pc = pc
JobGoto(j, pc) == job' = [job EXCEPT ![j].pc = pc]

JobOnly == UNCHANGED <<db, control, request, ingestor, cmd, streams, last>>

(* Mutant of NextAttempt: one attempt more than the loop allows.             *)
NextAttemptOffByOne(j) ==
    IF job[j].attempt <= MaxRetries
      THEN job' = [job EXCEPT ![j].pc = "backoff", ![j].attempt = @ + 1]
      ELSE JobGoto(j, "failed")

(* The next iteration of the retry loop, or its end.                         *)
NextAttempt(j) ==
    IF job[j].attempt < MaxRetries
      THEN job' = [job EXCEPT ![j].pc = "backoff", ![j].attempt = @ + 1]
      ELSE JobGoto(j, "failed")

(* StartExtraction returns nil: the source ended after some frames.          *)
ExtractionEnds(j) ==
    /\ AtJob(j, "extract")
    /\ JobGoto(j, "stopped")
    /\ JobOnly

(* StartExtraction returns because streamCtx is done.                        *)
ExtractionCancelled(j) ==
    /\ AtJob(j, "extract")
    /\ job[j].cancelled
    /\ JobGoto(j, "stopped")
    /\ JobOnly

(* StartExtraction fails while streamCtx is still live.                      *)
ExtractionFails(j) ==
    /\ AtJob(j, "extract")
    /\ ~job[j].cancelled
    /\ NextAttempt(j)
    /\ JobOnly

(* The select of the retry delay; both branches may be ready.                *)
BackoffCancelled(j) ==
    /\ AtJob(j, "backoff")
    /\ job[j].cancelled
    /\ JobGoto(j, "stopped")
    /\ JobOnly

BackoffExpires(j) ==
    /\ AtJob(j, "backoff")
    /\ JobGoto(j, IF job[j].stream \in YouTube THEN "resolve" ELSE "extract")
    /\ JobOnly

(* The re-resolve runs under streamCtx; its failure is a "continue", which   *)
(* does not look at streamCtx.                                               *)
ReresolveSucceeds(j) ==
    /\ AtJob(j, "resolve")
    /\ ~job[j].cancelled
    /\ JobGoto(j, "extract")
    /\ JobOnly

(* Mutant of ReresolveFails: the "continue" does not count as an attempt.    *)
ReresolveFailsForFree(j) ==
    /\ AtJob(j, "resolve")
    /\ JobGoto(j, "backoff")
    /\ JobOnly

ReresolveFails(j) ==
    /\ AtJob(j, "resolve")
    /\ NextAttempt(j)
    /\ JobOnly

(* Mutant of WriteFinalStatus: nothing is written when the retries run out.  *)
WriteFinalStatusIfStopped(j) ==
    /\ job[j].pc \in {"stopped", "failed"}
    /\ IF AtJob(j, "stopped") THEN UpdateStatus(job[j].stream, "stopped") ELSE UNCHANGED db
    /\ JobGoto(j, "cleanup")
    /\ UNCHANGED <<control, request, ingestor, cmd, streams, last>>

(* The status the goroutine leaves behind.                                   *)
WriteFinalStatus(j) ==
    /\ job[j].pc \in {"stopped", "failed"}
    /\ UpdateStatus(job[j].stream, IF AtJob(j, "stopped") THEN "stopped" ELSE "error")
    /\ JobGoto(j, "cleanup")
    /\ UNCHANGED <<control, request, ingestor, cmd, streams, last>>

(* The deferred delete(m.streams, cmd.StreamID).                             *)
Cleanup(j) ==
    /\ AtJob(j, "cleanup")
    /\ streams' = [streams EXCEPT ![job[j].stream] = NoJob]
    /\ job' = [job EXCEPT ![j] = IdleJob]
    /\ UNCHANGED <<db, control, request, ingestor, cmd, last>>

-----------------------------------------------------------------------------
(* The ingestor process.                                                     *)

(* SIGTERM: cancel() ends every context derived from ctx; StopAll then kills *)
(* the same jobs. The callback keeps running during the two-second sleep.    *)
Shutdown ==
    /\ "restart" \in Faults
    /\ ingestor = "up"
    /\ ingestor' = "stopping"
    /\ job' = [j \in Jobs |-> IF job[j] = IdleJob THEN IdleJob
                              ELSE [job[j] EXCEPT !.cancelled = TRUE]]
    /\ UNCHANGED <<db, control, request, cmd, streams, last>>

(* A crash, or the end of main when the sleep is over: whatever was in       *)
(* memory, and the commands not handled yet, are lost.                       *)
Exit ==
    /\ "restart" \in Faults
    /\ ingestor # "down"
    /\ ingestor' = "down"
    /\ control' = << >>
    /\ cmd' = IdleCmd
    /\ streams' = [s \in Streams |-> NoJob]
    /\ job' = [j \in Jobs |-> IdleJob]
    /\ UNCHANGED <<db, request, last>>

(* main subscribes again and reads nothing back from the database.           *)
Restart ==
    /\ ingestor = "down"
    /\ ingestor' = "up"
    /\ UNCHANGED <<db, control, request, cmd, streams, job, last>>

-----------------------------------------------------------------------------
Request(h) ==
    \/ \E s \in Streams : StartRequest(h, s) \/ StopRequest(h, s) \/ DeleteRequest(h, s)
    \/ StartMark(h) \/ StartPublish(h) \/ StartFailed(h)
    \/ StopPublish(h) \/ StopMark(h)
    \/ DeletePublish(h) \/ DeleteRow(h)

Callback ==
    \/ HandleStart \/ ResolveSucceeds \/ ResolveFails \/ Insert \/ Started
    \/ HandleStop

(* What a goroutine does by itself, extraction of a live source apart.       *)
Unwind(j) ==
    \/ ExtractionCancelled(j) \/ BackoffCancelled(j) \/ BackoffExpires(j)
    \/ ReresolveSucceeds(j) \/ ReresolveFails(j)
    \/ WriteFinalStatus(j) \/ Cleanup(j)

Job(j) == ExtractionEnds(j) \/ ExtractionFails(j) \/ Unwind(j)

Process == Shutdown \/ Exit \/ Restart \/ ApiCrash

Next ==
    \/ \E s \in Streams : Create(s)
    \/ \E h \in Handlers : Request(h)
    \/ Callback
    \/ \E j \in Jobs : Job(j)
    \/ Process

Spec == Init /\ [][Next]_vars

(* A command that was delivered is handled, and a goroutine that has nothing *)
(* to wait for but a timer, a statement or its own cancelled context goes    *)
(* on: both are the Go scheduler's. Nothing says that a client sends another *)
(* request, that a live source ends, or that a process fails.                *)
Fairness ==
    /\ WF_vars(Callback)
    /\ \A j \in Jobs : WF_vars(Unwind(j))

FairSpec == Spec /\ Fairness

-----------------------------------------------------------------------------
(* Properties.                                                               *)

Live(j, s) == job[j].stream = s

(* A goroutine that goes on taking frames from the source.                   *)
Extracting(j, s) ==
    /\ Live(j, s)
    /\ ~job[j].cancelled
    /\ job[j].pc \in {"new", "extract", "backoff", "resolve"}

Concerns(i, s) == control[i].stream = s

(* Nobody has a step left to take for the stream.                            *)
Settled(s) ==
    /\ \A i \in DOMAIN control : ~Concerns(i, s)
    /\ cmd.stream # s
    /\ \A h \in Handlers : request[h].stream # s

(* startStream never runs two extractions of one stream, although it looks   *)
(* at m.streams in one critical section, may spend seconds in yt-dlp, and    *)
(* inserts in another (manager.go:69-112).                                   *)
OneExtractionPerStream ==
    \A j, k \in Jobs, s \in Streams : Live(j, s) /\ Live(k, s) => j = k

(* Every goroutine stays reachable through m.streams until its deferred      *)
(* delete, so that a stop command can always cancel it (manager.go:211-225). *)
ExtractionIsRegistered ==
    \A j \in Jobs, s \in Streams : Live(j, s) => streams[s] = j

(* Once the last command delivered for a stream is a stop and nothing for    *)
(* the stream is waiting or being handled, no extraction goes on uncancelled,*)
(* whatever requests, retries, failed statements and restarts did meanwhile. *)
StopIsEffective ==
    \A s \in Streams :
        /\ last[s] = "stop"
        /\ \A i \in DOMAIN control : ~Concerns(i, s)
        /\ cmd.stream # s
        => \A j \in Jobs : ~Extracting(j, s)

(* openapi.yaml:534 describes the 409 of Start as "Stream already running":  *)
(* the row that makes Start answer 409 belongs to a goroutine that exists.   *)
ConflictMeansRunning ==
    \A s \in Streams : db[s] = "running" => \E j \in Jobs : Live(j, s)

(* The same, as long as the ingestor lives and its statements succeed.       *)
RunningIsLive == Faults \cap {"db", "restart"} = {} => ConflictMeansRunning

(* With one request at a time and no failure, a settled stream whose row     *)
(* says "stopped" or "error" is not being extracted: the two processes'      *)
(* unsynchronised writes of streams.status never leave that lie behind.      *)
TerminalStatusIsTrue ==
    \A s \in Streams :
        db[s] \in {"stopped", "error"} /\ Settled(s)
            => \A j \in Jobs : ~Extracting(j, s)

(* openapi.yaml:508 says of DELETE /v1/streams/{id}: "Delete a stream (stops *)
(* if running)". Once a deleted stream has settled, nothing extracts it.     *)
DeletedStreamStops ==
    \A s \in Streams :
        db[s] = "deleted" /\ Settled(s) => \A j \in Jobs : ~Extracting(j, s)

(* A cancelled goroutine returns and frees its entry in m.streams, from any  *)
(* point of the retry loop, the "continue" that skips the check included.    *)
CancelledJobEnds ==
    \A j \in Jobs : job[j].cancelled ~> job[j] = IdleJob

(* After a stop is delivered the stream's goroutine ends, unless another     *)
(* start is delivered first.                                                 *)
StopLeadsToEnd ==
    \A s \in Streams :
        last[s] = "stop" ~> (last[s] # "stop" \/ \A j \in Jobs : ~Live(j, s))

(* The goroutines of a stream, seen as one session.                          *)
SessionOf(s) ==
    IF \A j \in Jobs : ~Live(j, s) THEN "none"
    ELSE IF \E j \in Jobs : Live(j, s) /\ ~job[j].cancelled THEN "on"
    ELSE "ending"

Sessions == INSTANCE Session WITH session <- [s \in Streams |-> SessionOf(s)]

(* The manager implements Session: no second session beside the first, and   *)
(* none that comes back after a stop (manager.go:68-225).                    *)
ImplementsSession == Sessions!Spec
=============================================================================
