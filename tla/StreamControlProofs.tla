------------------------- MODULE StreamControlProofs -------------------------
(* Proofs about StreamControl for any streams, clients, retries and faults.  *)
(* The argument: the map m.streams and the goroutines point at each other    *)
(* (Registration), the callback's progress is consistent with the map        *)
(* (CallbackInv), and as long as a stop is the last command delivered for a  *)
(* stream, every start still ahead of it has that stop behind (StopPending). *)
(*                                                                           *)
(* With these, a row that says "running" belongs to a goroutine whose last   *)
(* write is still ahead (Backed), and the manager implements Session: each   *)
(* action is a step of the session of the stream's registered goroutine, or  *)
(* a stutter. A row that says "stopped" or "error" is true only of a client  *)
(* that makes one request at a time: then a stop is on its way whenever such *)
(* a row has an extraction going on behind it (OneClientInv).                *)
EXTENDS StreamControl, SequenceTheorems, TLAPS

StartOf(s) == [action |-> "start", stream |-> s]
StopOf(s)  == [action |-> "stop", stream |-> s]

(* Map and goroutines agree in both directions.                              *)
Registration ==
    /\ ExtractionIsRegistered
    /\ \A s \in Streams : streams[s] # NoJob => job[streams[s]].stream = s

CallbackInv ==
    /\ cmd.pc \in {"resolve", "insert"} => streams[cmd.stream] = NoJob
    /\ cmd.pc = "started" =>
          /\ cmd.job \in Jobs
          /\ job[cmd.job].pc = "new"
          /\ job[cmd.job].stream = cmd.stream

(* What keeps a stream going is followed by a stop in the queue.             *)
StopPending ==
    \A s \in Streams : last[s] = "stop" =>
        /\ \A i \in DOMAIN control : control[i] = StartOf(s) =>
              \E k \in DOMAIN control : k > i /\ control[k] = StopOf(s)
        /\ cmd.stream = s \/ (\E j \in Jobs : Extracting(j, s)) =>
              \E k \in DOMAIN control : control[k] = StopOf(s)

IInv == TypeOK /\ Registration /\ CallbackInv /\ StopPending

(* Constants and record shapes every step needs.                             *)
USE StreamControlAssumption
    DEF AllFaults, Status, NoRow, Commands, RequestPc, CmdPc, JobPc,
        IdleRequest, IdleCmd, IdleJob

-----------------------------------------------------------------------------
(* A step that leaves the ingestor, the queue and the history alone.         *)
LEMMA Frame ==
    ASSUME IInv, UNCHANGED <<control, last, ingestorVars>>
    PROVE  Registration' /\ CallbackInv' /\ StopPending'
BY DEF IInv, Registration, ExtractionIsRegistered, CallbackInv, StopPending,
       Live, Extracting, ingestorVars, StartOf, StopOf

(* A publish appends behind whatever is pending, or changes nothing.         *)
LEMMA PublishStep ==
    ASSUME IInv, NEW c \in Commands, PublishControl(c), UNCHANGED ingestorVars
    PROVE  /\ control' \in Seq(Commands)
           /\ last' \in [Streams -> {"none", "start", "stop"}]
           /\ Registration' /\ CallbackInv' /\ StopPending'
<1>1. CASE UNCHANGED <<control, last>>
  BY <1>1, Frame DEF IInv, TypeOK
<1>2. CASE /\ control' = Append(control, c)
           /\ last' = [last EXCEPT ![c.stream] = c.action]
  <2>1. /\ control' \in Seq(Commands)
        /\ Len(control') = Len(control) + 1
        /\ DOMAIN control = 1 .. Len(control)
        /\ DOMAIN control' = 1 .. Len(control')
        /\ Len(control) \in Nat
        /\ \A i \in DOMAIN control : control'[i] = control[i]
        /\ control'[Len(control')] = c
    BY <1>2 DEF IInv, TypeOK
  <2>2. last' \in [Streams -> {"none", "start", "stop"}]
    BY <1>2 DEF IInv, TypeOK
  <2>3. Registration' /\ CallbackInv'
    BY DEF IInv, Registration, ExtractionIsRegistered, CallbackInv, Live, ingestorVars
  <2>4. ASSUME NEW s \in Streams, last'[s] = "stop", c.stream = s
        PROVE  c = StopOf(s)
    BY <1>2, <2>4 DEF IInv, TypeOK, StopOf
  <2>5. ASSUME NEW s \in Streams, last'[s] = "stop", c.stream # s
        PROVE  last[s] = "stop" /\ c # StartOf(s)
    BY <1>2, <2>5 DEF IInv, TypeOK, StartOf
  <2>6. StopPending'
    <3> SUFFICES ASSUME NEW s \in Streams, last'[s] = "stop"
                 PROVE  /\ \A i \in DOMAIN control' : control'[i] = StartOf(s) =>
                              \E k \in DOMAIN control' : k > i /\ control'[k] = StopOf(s)
                        /\ cmd'.stream = s \/ (\E j \in Jobs : Extracting(j, s)') =>
                              \E k \in DOMAIN control' : control'[k] = StopOf(s)
      BY DEF StopPending, StartOf, StopOf
    <3>1. CASE c.stream = s
      <4>1. control'[Len(control')] = StopOf(s) /\ Len(control') \in DOMAIN control'
        BY <2>1, <2>4, <3>1
      <4>2. ASSUME NEW i \in DOMAIN control', control'[i] = StartOf(s)
            PROVE  Len(control') > i
        BY <2>1, <4>1, <4>2 DEF StartOf, StopOf
      <4> QED BY <4>1, <4>2
    <3>2. CASE c.stream # s
      <4>1. last[s] = "stop" /\ c # StartOf(s)
        BY <2>5, <3>2
      <4>2. /\ \A i \in DOMAIN control : control[i] = StartOf(s) =>
                  \E k \in DOMAIN control : k > i /\ control[k] = StopOf(s)
            /\ cmd.stream = s \/ (\E j \in Jobs : Extracting(j, s)) =>
                  \E k \in DOMAIN control : control[k] = StopOf(s)
        BY <4>1 DEF IInv, StopPending
      <4>3. cmd' = cmd /\ \A j \in Jobs : Extracting(j, s)' <=> Extracting(j, s)
        BY DEF ingestorVars, Extracting, Live
      <4>4. DOMAIN control \subseteq DOMAIN control'
        BY <2>1
      <4>5. ASSUME NEW i \in DOMAIN control', control'[i] = StartOf(s)
            PROVE  i \in DOMAIN control /\ control[i] = StartOf(s)
        BY <2>1, <4>1, <4>5
      <4> QED BY <2>1, <4>2, <4>3, <4>4, <4>5
    <3> QED BY <3>1, <3>2
  <2> QED BY <2>1, <2>2, <2>3, <2>6
<1> QED BY <1>1, <1>2 DEF PublishControl

(* A step by which a running goroutine moves on within its life.             *)
JobRecord == [pc : JobPc, stream : Streams, attempt : 0 .. MaxRetries, cancelled : BOOLEAN]

LEMMA JobMoves ==
    ASSUME IInv, NEW j \in Jobs, NEW r \in JobRecord,
           job[j].pc \in JobPc \ {"new"},
           r.stream = job[j].stream, r.cancelled = job[j].cancelled,
           r.pc \in {"extract", "backoff", "resolve"} =>
                job[j].pc \in {"extract", "backoff", "resolve"},
           r.pc # "new",
           job' = [job EXCEPT ![j] = r],
           UNCHANGED <<control, request, ingestor, cmd, streams, last>>,
           db' \in [Streams -> Status \cup NoRow]
    PROVE  IInv'
<1>1. TypeOK'
  BY DEF IInv, TypeOK, JobRecord
<1>2. \A k \in Jobs : job'[k].stream = job[k].stream
  BY DEF IInv, TypeOK
<1>3. Registration'
  BY <1>2 DEF IInv, TypeOK, Registration, ExtractionIsRegistered, Live
<1>4. CallbackInv'
  BY <1>2 DEF IInv, TypeOK, CallbackInv
<1>5. \A k \in Jobs, s \in Streams : Extracting(k, s)' => Extracting(k, s)
  <2> SUFFICES ASSUME NEW k \in Jobs, NEW s \in Streams, Extracting(k, s)'
               PROVE  Extracting(k, s)
    OBVIOUS
  <2>1. CASE k = j
    BY <2>1 DEF IInv, TypeOK, Extracting, Live
  <2>2. CASE k # j
    BY <2>2 DEF IInv, TypeOK, Extracting, Live
  <2> QED BY <2>1, <2>2
<1>6. StopPending'
  BY <1>5 DEF IInv, StopPending, StartOf, StopOf
<1> QED BY <1>1, <1>3, <1>4, <1>6 DEF IInv

(* Everything a goroutine does.                                              *)
LEMMA JobStep ==
    ASSUME IInv, NEW j \in Jobs, Job(j)
    PROVE  IInv'
<1> USE DEF JobRecord
<1>t. job \in [Jobs -> {IdleJob} \cup JobRecord] /\ db \in [Streams -> Status \cup NoRow]
  BY DEF IInv, TypeOK
<1>0. \A pc \in JobPc : job[j].pc = pc => job[j] \in JobRecord
  BY <1>t
<1>1. ASSUME ExtractionEnds(j) \/ ExtractionCancelled(j) PROVE IInv'
  <2> DEFINE r == [job[j] EXCEPT !.pc = "stopped"]
  <2>1. job[j].pc = "extract" /\ job' = [job EXCEPT ![j] = r] /\ JobOnly
    BY <1>1, <1>t DEF ExtractionEnds, ExtractionCancelled, AtJob, JobGoto
  <2>2. r \in JobRecord /\ r.pc = "stopped" /\ r.stream = job[j].stream
        /\ r.cancelled = job[j].cancelled
    BY <2>1, <1>0
  <2> HIDE DEF r
  <2> QED BY <2>1, <2>2, <1>t, JobMoves DEF JobOnly
<1>2. ASSUME ExtractionFails(j) \/ ReresolveFails(j) PROVE IInv'
  <2>1. job[j].pc \in {"extract", "resolve"} /\ NextAttempt(j) /\ JobOnly
    BY <1>2 DEF ExtractionFails, ReresolveFails, AtJob
  <2>2. job[j] \in JobRecord
    BY <2>1, <1>0
  <2>3. CASE job[j].attempt < MaxRetries
    <3> DEFINE r == [job[j] EXCEPT !.pc = "backoff", !.attempt = @ + 1]
    <3>1. job' = [job EXCEPT ![j] = r]
      BY <2>1, <2>2, <2>3, <1>t DEF NextAttempt
    <3>2. job[j].attempt + 1 \in 0 .. MaxRetries
      <4>1. job[j].attempt \in 0 .. MaxRetries
        BY <2>2
      <4> QED BY <4>1, <2>3
    <3>3. r \in JobRecord /\ r.pc = "backoff" /\ r.stream = job[j].stream
          /\ r.cancelled = job[j].cancelled
      BY <2>2, <3>2
    <3> HIDE DEF r
    <3> QED BY <2>1, <3>1, <3>3, <1>t, JobMoves DEF JobOnly
  <2>4. CASE ~(job[j].attempt < MaxRetries)
    <3> DEFINE r == [job[j] EXCEPT !.pc = "failed"]
    <3>1. job' = [job EXCEPT ![j] = r]
      BY <2>1, <2>2, <2>4, <1>t DEF NextAttempt, JobGoto
    <3>2. r \in JobRecord /\ r.pc = "failed" /\ r.stream = job[j].stream
          /\ r.cancelled = job[j].cancelled
      BY <2>2
    <3> HIDE DEF r
    <3> QED BY <2>1, <3>1, <3>2, <1>t, JobMoves DEF JobOnly
  <2> QED BY <2>3, <2>4
<1>3. ASSUME BackoffCancelled(j) \/ BackoffExpires(j) \/ ReresolveSucceeds(j) PROVE IInv'
  <2>1. PICK pc \in {"stopped", "resolve", "extract"} :
            job' = [job EXCEPT ![j] = [job[j] EXCEPT !.pc = pc]]
    BY <1>3, <1>t DEF BackoffCancelled, BackoffExpires, ReresolveSucceeds, JobGoto
  <2> DEFINE r == [job[j] EXCEPT !.pc = pc]
  <2>2. job[j].pc \in {"backoff", "resolve"} /\ JobOnly
    BY <1>3 DEF BackoffCancelled, BackoffExpires, ReresolveSucceeds, AtJob
  <2>3. r \in JobRecord /\ r.pc = pc /\ r.stream = job[j].stream
        /\ r.cancelled = job[j].cancelled
    BY <2>2, <1>0
  <2>4. job' = [job EXCEPT ![j] = r]
    BY <2>1
  <2> HIDE DEF r
  <2> QED BY <2>2, <2>3, <2>4, <1>t, JobMoves DEF JobOnly
<1>4. ASSUME WriteFinalStatus(j) PROVE IInv'
  <2> DEFINE r == [job[j] EXCEPT !.pc = "cleanup"]
  <2>1. job[j].pc \in {"stopped", "failed"} /\ job' = [job EXCEPT ![j] = r]
    BY <1>4, <1>t DEF WriteFinalStatus, JobGoto
  <2>2. r \in JobRecord /\ r.pc = "cleanup" /\ r.stream = job[j].stream
        /\ r.cancelled = job[j].cancelled
    BY <2>1, <1>0
  <2>3. db' \in [Streams -> Status \cup NoRow]
    BY <1>4, <1>t DEF WriteFinalStatus, UpdateStatus, Stored
  <2>4. UNCHANGED <<control, request, ingestor, cmd, streams, last>>
    BY <1>4 DEF WriteFinalStatus
  <2> HIDE DEF r
  <2> QED BY <2>1, <2>2, <2>3, <2>4, JobMoves
<1>5. ASSUME Cleanup(j) PROVE IInv'
  <2>1. /\ job[j].pc = "cleanup" /\ job[j] \in JobRecord
        /\ streams' = [streams EXCEPT ![job[j].stream] = NoJob]
        /\ job' = [job EXCEPT ![j] = IdleJob]
        /\ UNCHANGED <<db, control, request, ingestor, cmd, last>>
    BY <1>5, <1>0 DEF Cleanup, AtJob
  <2>2. TypeOK'
    BY <2>1 DEF IInv, TypeOK
  <2>3. Registration'
    BY <2>1 DEF IInv, TypeOK, Registration, ExtractionIsRegistered, Live
  <2>4. CallbackInv'
    BY <2>1 DEF IInv, TypeOK, CallbackInv
  <2>5. \A k \in Jobs, s \in Streams : Extracting(k, s)' => Extracting(k, s)
    BY <2>1 DEF IInv, TypeOK, Extracting, Live
  <2>6. StopPending'
    BY <2>1, <2>5 DEF IInv, StopPending, StartOf, StopOf
  <2> QED BY <2>2, <2>3, <2>4, <2>6 DEF IInv
<1> QED BY <1>1, <1>2, <1>3, <1>4, <1>5 DEF Job, Unwind

-----------------------------------------------------------------------------
(* Everything an HTTP handler does: it touches its own record, the row and,  *)
(* when it publishes, the queue.                                             *)
LEMMA RequestType ==
    ASSUME TypeOK, NEW h \in Handlers, NEW s \in Streams, NEW pc \in RequestPc
    PROVE  /\ Goto(h, pc, s) =>
                request' \in [Handlers -> {IdleRequest} \cup [pc : RequestPc, stream : Streams]]
           /\ Reply(h) =>
                request' \in [Handlers -> {IdleRequest} \cup [pc : RequestPc, stream : Streams]]
<1> DEFINE R == {IdleRequest} \cup [pc : RequestPc, stream : Streams]
<1>1. request \in [Handlers -> R] /\ IdleRequest \in R /\ [pc |-> pc, stream |-> s] \in R
  BY DEF TypeOK
<1> HIDE DEF R
<1>2. \A r \in R : [request EXCEPT ![h] = r] \in [Handlers -> R]
  BY <1>1
<1>3. Goto(h, pc, s) => request' \in [Handlers -> R]
  BY <1>1, <1>2 DEF Goto
<1>4. Reply(h) => request' \in [Handlers -> R]
  BY <1>1, <1>2 DEF Reply
<1> QED BY <1>3, <1>4 DEF R

LEMMA StoredType ==
    ASSUME TypeOK, NEW s \in Streams, NEW st \in Status, UpdateStatus(s, st)
    PROVE  db' \in [Streams -> Status \cup NoRow]
BY DEF TypeOK, UpdateStatus, Stored

LEMMA RequestStep ==
    ASSUME IInv, NEW h \in Handlers, Request(h)
    PROVE  IInv'
<1> DEFINE RequestOK == request \in
              [Handlers -> {IdleRequest} \cup [pc : RequestPc, stream : Streams]]
<1> DEFINE s == request[h].stream
<1>0. TypeOK /\ RequestOK
  BY DEF IInv, TypeOK
<1>s. request[h].pc # "idle" => s \in Streams
  BY <1>0
<1>1. ASSUME UNCHANGED <<control, last, ingestorVars>>,
             db' \in [Streams -> Status \cup NoRow], RequestOK'
      PROVE  IInv'
  <2>1. TypeOK'
    BY <1>0, <1>1 DEF TypeOK, ingestorVars
  <2> QED BY <1>1, <2>1, Frame DEF IInv
<1>2. ASSUME NEW c \in Commands, PublishControl(c), UNCHANGED <<db, ingestorVars>>, RequestOK'
      PROVE  IInv'
  <2>1. /\ control' \in Seq(Commands)
        /\ last' \in [Streams -> {"none", "start", "stop"}]
        /\ Registration' /\ CallbackInv' /\ StopPending'
    BY <1>2, PublishStep
  <2>2. TypeOK'
    BY <1>0, <1>2, <2>1 DEF TypeOK, ingestorVars
  <2> QED BY <2>1, <2>2 DEF IInv
<1>3. ASSUME NEW t \in Streams,
             StartRequest(h, t) \/ StopRequest(h, t) \/ DeleteRequest(h, t)
      PROVE  IInv'
  <2>1. RequestOK'
    BY <1>0, <1>3, RequestType DEF StartRequest, StopRequest, DeleteRequest
  <2>2. db' = db /\ UNCHANGED <<control, last, ingestorVars>>
    BY <1>3 DEF StartRequest, StopRequest, DeleteRequest
  <2> QED BY <1>0, <1>1, <2>1, <2>2 DEF TypeOK
<1>4. ASSUME StartMark(h) PROVE IInv'
  <2>0. s \in Streams /\ UNCHANGED <<control, last, ingestorVars>>
    BY <1>4, <1>s DEF StartMark
  <2>1. db' \in [Streams -> Status \cup NoRow]
    BY <1>0, <1>4, <2>0 DEF TypeOK, StartMark, Stored
  <2>2. RequestOK'
    BY <1>0, <1>4, <2>0, RequestType DEF StartMark
  <2> QED BY <1>1, <2>0, <2>1, <2>2
<1>5. ASSUME StartPublish(h) PROVE IInv'
  <2>0. s \in Streams /\ UNCHANGED <<db, ingestorVars>>
    BY <1>5, <1>s DEF StartPublish
  <2>1. RequestOK'
    BY <1>0, <1>5, <2>0, RequestType DEF StartPublish
  <2>2. CASE PublishControl([action |-> "start", stream |-> s])
    BY <1>2, <2>0, <2>1, <2>2
  <2>3. CASE UNCHANGED <<control, last>>
    BY <1>0, <1>1, <2>0, <2>1, <2>3 DEF TypeOK
  <2> QED BY <1>5, <2>2, <2>3 DEF StartPublish
<1>6. ASSUME StartFailed(h) \/ StopMark(h) PROVE IInv'
  <2>0. s \in Streams /\ Reply(h) /\ UNCHANGED <<control, last, ingestorVars>>
    BY <1>6, <1>s DEF StartFailed, StopMark
  <2>1. db' \in [Streams -> Status \cup NoRow]
    BY <1>0, <1>6, <2>0, StoredType DEF StartFailed, StopMark
  <2>2. RequestOK'
    BY <1>0, <2>0, RequestType
  <2> QED BY <1>1, <2>0, <2>1, <2>2
<1>7. ASSUME StopPublish(h) \/ DeletePublish(h) PROVE IInv'
  <2>0. /\ s \in Streams /\ UNCHANGED <<db, ingestorVars>>
        /\ PublishControl([action |-> "stop", stream |-> s])
    BY <1>7, <1>s DEF StopPublish, DeletePublish
  <2>1. RequestOK'
    BY <1>0, <1>7, <2>0, RequestType DEF StopPublish, DeletePublish
  <2> QED BY <1>2, <2>0, <2>1
<1>8. ASSUME DeleteRow(h) PROVE IInv'
  <2>0. s \in Streams /\ Reply(h) /\ UNCHANGED <<control, last, ingestorVars>>
    BY <1>8, <1>s DEF DeleteRow
  <2>1. db' \in [Streams -> Status \cup NoRow]
    BY <1>0, <1>8, <2>0 DEF TypeOK, DeleteRow
  <2>2. RequestOK'
    BY <1>0, <2>0, RequestType
  <2> QED BY <1>1, <2>0, <2>1, <2>2
<1> HIDE DEF RequestOK, s
<1> QED BY <1>3, <1>4, <1>5, <1>6, <1>7, <1>8 DEF Request

-----------------------------------------------------------------------------
(* Taking the first command off the queue.                                   *)
LEMMA HeadTail ==
    ASSUME IInv, control # << >>, control' = Tail(control)
    PROVE  /\ Head(control) = control[1] /\ Head(control) \in Commands
           /\ control' \in Seq(Commands)
           /\ DOMAIN control = 1 .. Len(control) /\ Len(control) \in Nat \ {0}
           /\ DOMAIN control' = 1 .. (Len(control) - 1)
           /\ \A i \in DOMAIN control' : control'[i] = control[i + 1]
<1>1. control \in Seq(Commands)
  BY DEF IInv, TypeOK
<1>2. /\ DOMAIN control = 1 .. Len(control) /\ Len(control) \in Nat \ {0}
      /\ Head(control) = control[1] /\ Head(control) \in Commands
  <2>1. Len(control) \in Nat \ {0}
    BY <1>1, EmptySeq
  <2>2. DOMAIN control = 1 .. Len(control) /\ Head(control) = control[1]
    BY <1>1, LenProperties
  <2>3. Head(control) \in Commands
    BY <1>1, HeadTailProperties
  <2> QED BY <2>1, <2>2, <2>3
<1>3. /\ Tail(control) \in Seq(Commands) /\ Len(Tail(control)) = Len(control) - 1
      /\ \A i \in 1 .. Len(Tail(control)) : Tail(control)[i] = control[i + 1]
  BY <1>1, HeadTailProperties
<1>4. DOMAIN Tail(control) = 1 .. Len(Tail(control))
  BY <1>3, LenProperties
<1> QED BY <1>2, <1>3, <1>4

(* Whatever command is taken, a later stop still stands behind each start.   *)
LEMMA StopStillBehind ==
    ASSUME IInv, control # << >>, control' = Tail(control), UNCHANGED last,
           NEW s \in Streams, last'[s] = "stop"
    PROVE  /\ \A i \in DOMAIN control' : control'[i] = StartOf(s) =>
                \E k \in DOMAIN control' : k > i /\ control'[k] = StopOf(s)
           /\ Head(control) = StartOf(s) =>
                \E k \in DOMAIN control' : control'[k] = StopOf(s)
           /\ Head(control).stream # s /\ (\E k \in DOMAIN control : control[k] = StopOf(s)) =>
                \E k \in DOMAIN control' : control'[k] = StopOf(s)
<1>0. /\ Head(control) = control[1]
      /\ DOMAIN control = 1 .. Len(control) /\ Len(control) \in Nat \ {0}
      /\ DOMAIN control' = 1 .. (Len(control) - 1)
      /\ \A i \in DOMAIN control' : control'[i] = control[i + 1]
  BY HeadTail
<1>1. \A i \in DOMAIN control : control[i] = StartOf(s) =>
         \E k \in DOMAIN control : k > i /\ control[k] = StopOf(s)
  BY DEF IInv, StopPending
<1>2. \A k \in DOMAIN control : k > 1 => k - 1 \in DOMAIN control' /\ control'[k - 1] = control[k]
  BY <1>0
<1>3. ASSUME NEW i \in DOMAIN control', control'[i] = StartOf(s)
      PROVE  \E k \in DOMAIN control' : k > i /\ control'[k] = StopOf(s)
  <2>1. i + 1 \in DOMAIN control /\ control[i + 1] = StartOf(s)
    BY <1>0, <1>3
  <2>2. PICK k \in DOMAIN control : k > i + 1 /\ control[k] = StopOf(s)
    BY <1>1, <2>1
  <2>3. k - 1 > i /\ k > 1
    BY <1>0, <2>2
  <2> QED BY <1>2, <2>2, <2>3
<1>4. ASSUME Head(control) = StartOf(s)
      PROVE  \E k \in DOMAIN control' : control'[k] = StopOf(s)
  <2>1. PICK k \in DOMAIN control : k > 1 /\ control[k] = StopOf(s)
    BY <1>0, <1>1, <1>4
  <2> QED BY <1>2, <2>1
<1>5. ASSUME Head(control).stream # s, NEW k \in DOMAIN control, control[k] = StopOf(s)
      PROVE  \E m \in DOMAIN control' : control'[m] = StopOf(s)
  <2>1. k > 1
    BY <1>0, <1>5 DEF StopOf
  <2> QED BY <1>2, <1>5, <2>1
<1> QED BY <1>3, <1>4, <1>5

LEMMA CallbackStep ==
    ASSUME IInv, Callback
    PROVE  IInv'
<1> DEFINE CmdOK == cmd \in {IdleCmd} \cup [pc : CmdPc, stream : Streams, job : Jobs \cup {NoJob}]
<1>0. TypeOK /\ CmdOK
  BY DEF IInv, TypeOK
<1>1. ASSUME HandleStart PROVE IInv'
  <2> DEFINE s == Head(control).stream
  <2>1. /\ cmd = IdleCmd /\ control # << >> /\ control' = Tail(control)
        /\ Head(control).action = "start"
        /\ UNCHANGED <<db, request, ingestor, streams, job, last>>
    BY <1>1 DEF HandleStart, Receive
  <2>2. s \in Streams /\ Head(control) = StartOf(s) /\ control' \in Seq(Commands)
    BY <2>1, HeadTail DEF StartOf
  <2>3. \/ cmd' = cmd
        \/ /\ streams[s] = NoJob
           /\ cmd'.stream = s /\ cmd'.pc \in {"resolve", "insert"} /\ CmdOK'
    BY <1>1, <2>2 DEF HandleStart, CmdGoto
  <2>4. TypeOK'
    BY <1>0, <2>1, <2>2, <2>3 DEF TypeOK
  <2>5. Registration' /\ CallbackInv'
    BY <2>1, <2>3 DEF IInv, Registration, ExtractionIsRegistered, Live, CallbackInv
  <2>6. StopPending'
    <3> SUFFICES ASSUME NEW t \in Streams, last'[t] = "stop"
                 PROVE  /\ \A i \in DOMAIN control' : control'[i] = StartOf(t) =>
                              \E k \in DOMAIN control' : k > i /\ control'[k] = StopOf(t)
                        /\ cmd'.stream = t \/ (\E j \in Jobs : Extracting(j, t)') =>
                              \E k \in DOMAIN control' : control'[k] = StopOf(t)
      BY DEF StopPending, StartOf, StopOf
    <3>1. (\E j \in Jobs : Extracting(j, t)') => \E k \in DOMAIN control : control[k] = StopOf(t)
      BY <2>1 DEF IInv, StopPending, Extracting, Live
    <3>2. cmd'.stream = t => t = s
      BY <2>1, <2>3
    <3> QED BY <2>1, <2>2, <3>1, <3>2, StopStillBehind
  <2> QED BY <2>4, <2>5, <2>6 DEF IInv
<1>2. ASSUME HandleStop PROVE IInv'
  <2> DEFINE s == Head(control).stream
  <2>1. /\ cmd = IdleCmd /\ control # << >> /\ control' = Tail(control)
        /\ Head(control).action = "stop"
        /\ job' = [j \in Jobs |-> IF j = streams[s] THEN [job[j] EXCEPT !.cancelled = TRUE]
                                  ELSE job[j]]
        /\ UNCHANGED <<db, request, ingestor, cmd, streams, last>>
    BY <1>2 DEF HandleStop, Receive
  <2>2. s \in Streams /\ control' \in Seq(Commands)
    BY <2>1, HeadTail
  <2>3. \A j \in Jobs : j = streams[s] => job[j].stream = s
    BY <2>2 DEF IInv, Registration
  <2>4. \A j \in Jobs : /\ job'[j].stream = job[j].stream
                        /\ job'[j].pc = job[j].pc
                        /\ job'[j] = job[j] \/ job'[j].cancelled
                        /\ j = streams[s] => job'[j].cancelled
    BY <1>0, <2>1, <2>2, <2>3 DEF TypeOK
  <2>5. job' \in [Jobs -> {IdleJob} \cup JobRecord]
    <3> SUFFICES ASSUME NEW j \in Jobs
                 PROVE  job'[j] \in {IdleJob} \cup JobRecord
      BY <2>1
    <3>1. job[j] \in {IdleJob} \cup JobRecord
      BY <1>0 DEF TypeOK, JobRecord
    <3>2. j = streams[s] => job[j] \in JobRecord
      BY <2>2, <2>3, <3>1
    <3> QED BY <2>1, <3>1, <3>2 DEF JobRecord
  <2>6. TypeOK'
    BY <1>0, <2>1, <2>2, <2>5 DEF TypeOK, JobRecord
  <2>7. Registration' /\ CallbackInv'
    BY <1>0, <2>1, <2>4 DEF IInv, TypeOK, Registration, ExtractionIsRegistered, Live, CallbackInv
  <2>8. \A j \in Jobs, t \in Streams : Extracting(j, t)' => Extracting(j, t) /\ t # s
    BY <2>2, <2>4 DEF IInv, Registration, ExtractionIsRegistered, Extracting, Live
  <2>9. StopPending'
    <3> SUFFICES ASSUME NEW t \in Streams, last'[t] = "stop"
                 PROVE  /\ \A i \in DOMAIN control' : control'[i] = StartOf(t) =>
                              \E k \in DOMAIN control' : k > i /\ control'[k] = StopOf(t)
                        /\ cmd'.stream = t \/ (\E j \in Jobs : Extracting(j, t)') =>
                              \E k \in DOMAIN control' : control'[k] = StopOf(t)
      BY DEF StopPending, StartOf, StopOf
    <3>1. (\E j \in Jobs : Extracting(j, t)') =>
              t # s /\ \E k \in DOMAIN control : control[k] = StopOf(t)
      BY <2>1, <2>8 DEF IInv, StopPending
    <3>2. cmd'.stream # t
      BY <2>1
    <3> QED BY <2>1, <3>1, <3>2, StopStillBehind
  <2> QED BY <2>6, <2>7, <2>9 DEF IInv
<1>3. ASSUME ResolveSucceeds PROVE IInv'
  <2>1. /\ cmd.pc = "resolve" /\ cmd' = [pc |-> "insert", stream |-> cmd.stream, job |-> NoJob]
        /\ UNCHANGED <<db, control, request, ingestor, streams, job, last>>
    BY <1>3 DEF ResolveSucceeds, CmdGoto
  <2>2. TypeOK'
    BY <1>0, <2>1 DEF TypeOK
  <2>3. Registration' /\ CallbackInv'
    BY <2>1 DEF IInv, Registration, ExtractionIsRegistered, Live, CallbackInv
  <2>4. StopPending'
    BY <2>1 DEF IInv, StopPending, Extracting, Live, StartOf, StopOf
  <2> QED BY <2>2, <2>3, <2>4 DEF IInv
<1>4. ASSUME ResolveFails PROVE IInv'
  <2>1. /\ cmd.stream \in Streams /\ cmd' = IdleCmd /\ UpdateStatus(cmd.stream, "error")
        /\ UNCHANGED <<control, request, ingestor, streams, job, last>>
    BY <1>0, <1>4 DEF ResolveFails
  <2>2. TypeOK'
    BY <1>0, <2>1, StoredType DEF TypeOK
  <2>3. Registration' /\ CallbackInv'
    BY <2>1 DEF IInv, Registration, ExtractionIsRegistered, Live, CallbackInv
  <2>4. StopPending'
    BY <2>1 DEF IInv, StopPending, Extracting, Live, StartOf, StopOf
  <2> QED BY <2>2, <2>3, <2>4 DEF IInv
<1>5. ASSUME Insert PROVE IInv'
  <2> DEFINE s == cmd.stream
  <2>1. PICK j \in Jobs : /\ job[j] = IdleJob
                          /\ job' = [job EXCEPT ![j] =
                                [pc |-> "new", stream |-> cmd.stream, attempt |-> 0,
                                 cancelled |-> ingestor = "stopping"]]
                          /\ streams' = [streams EXCEPT ![cmd.stream] = j]
                          /\ cmd' = [pc |-> "started", stream |-> cmd.stream, job |-> j]
    BY <1>5 DEF Insert, CmdGoto
  <2>2. /\ cmd.pc = "insert" /\ s \in Streams /\ streams[s] = NoJob
        /\ UNCHANGED <<db, control, request, ingestor, last>>
    BY <1>0, <1>5 DEF Insert, IInv, CallbackInv
  <2>3. TypeOK'
    <3>1. [pc |-> "new", stream |-> cmd.stream, attempt |-> 0, cancelled |-> ingestor = "stopping"]
            \in JobRecord
      BY <2>2 DEF JobRecord
    <3>2. job' \in [Jobs -> {IdleJob} \cup JobRecord]
      BY <1>0, <2>1, <3>1 DEF TypeOK, JobRecord
    <3> QED BY <1>0, <2>1, <2>2, <3>2 DEF TypeOK, JobRecord
  <2>4. /\ \A k \in Jobs : k # j => job'[k] = job[k]
        /\ job'[j].pc = "new" /\ job'[j].stream = s
        /\ \A t \in Streams : t # s => streams'[t] = streams[t]
        /\ streams'[s] = j
    BY <1>0, <2>1, <2>2 DEF TypeOK
  <2>5. \A k \in Jobs : k # j => job[k].stream # s
    BY <2>2 DEF IInv, Registration, ExtractionIsRegistered, Live
  <2>6. \A t \in Streams : streams[t] # j
    BY <2>1 DEF IInv, Registration
  <2>7. Registration'
    <3>1. ASSUME NEW k \in Jobs, NEW t \in Streams, job'[k].stream = t
          PROVE  streams'[t] = k
      BY <2>4, <2>5, <3>1 DEF IInv, Registration, ExtractionIsRegistered, Live
    <3>2. ASSUME NEW t \in Streams, streams'[t] # NoJob
          PROVE  job'[streams'[t]].stream = t
      BY <1>0, <2>4, <2>6, <3>2 DEF IInv, TypeOK, Registration
    <3> QED BY <3>1, <3>2 DEF Registration, ExtractionIsRegistered, Live
  <2>8. CallbackInv'
    BY <2>1, <2>4 DEF CallbackInv
  <2>9. StopPending'
    <3>1. \A k \in Jobs, t \in Streams : Extracting(k, t)' => Extracting(k, t) \/ t = s
      BY <2>4 DEF Extracting, Live
    <3> QED BY <2>1, <2>2, <3>1 DEF IInv, StopPending, StartOf, StopOf
  <2> QED BY <2>3, <2>7, <2>8, <2>9 DEF IInv
<1>6. ASSUME Started PROVE IInv'
  <2> DEFINE s == cmd.stream
             j == cmd.job
  <2>1. /\ cmd.pc = "started" /\ cmd' = IdleCmd /\ UpdateStatus(s, "running")
        /\ job' = [job EXCEPT ![j].pc = "extract"]
        /\ UNCHANGED <<control, request, ingestor, streams, last>>
    BY <1>6 DEF Started
  <2>2. s \in Streams /\ j \in Jobs /\ job[j].pc = "new" /\ job[j].stream = s
    BY <1>0, <2>1 DEF IInv, CallbackInv
  <2>3. job[j] \in JobRecord
    BY <1>0, <2>2 DEF TypeOK, JobRecord
  <2>4. \A k \in Jobs : job'[k].stream = job[k].stream /\ (k # j => job'[k] = job[k])
    BY <1>0, <2>1, <2>2, <2>3 DEF TypeOK, JobRecord
  <2>5. TypeOK'
    <3>1. job' \in [Jobs -> {IdleJob} \cup JobRecord]
      BY <1>0, <2>1, <2>2, <2>3 DEF TypeOK, JobRecord
    <3> QED BY <1>0, <2>1, <2>2, <3>1, StoredType DEF TypeOK, JobRecord
  <2>6. Registration' /\ CallbackInv'
    BY <1>0, <2>1, <2>4 DEF IInv, TypeOK, Registration, ExtractionIsRegistered, Live, CallbackInv
  <2>7. StopPending'
    <3>1. \A k \in Jobs, t \in Streams : Extracting(k, t)' => Extracting(k, t) \/ t = s
      BY <2>2, <2>4 DEF Extracting, Live
    <3> QED BY <2>1, <3>1 DEF IInv, StopPending, StartOf, StopOf
  <2> QED BY <2>5, <2>6, <2>7 DEF IInv
<1> QED BY <1>1, <1>2, <1>3, <1>4, <1>5, <1>6 DEF Callback

-----------------------------------------------------------------------------
LEMMA ProcessStep ==
    ASSUME IInv, Process
    PROVE  IInv'
<1>0. TypeOK /\ job \in [Jobs -> {IdleJob} \cup JobRecord]
  BY DEF IInv, TypeOK, JobRecord
<1>1. ASSUME Shutdown PROVE IInv'
  <2>1. /\ job' = [j \in Jobs |-> IF job[j] = IdleJob THEN IdleJob
                                  ELSE [job[j] EXCEPT !.cancelled = TRUE]]
        /\ ingestor' = "stopping"
        /\ UNCHANGED <<db, control, request, cmd, streams, last>>
    BY <1>1 DEF Shutdown
  <2>2. job' \in [Jobs -> {IdleJob} \cup JobRecord]
    BY <1>0, <2>1, ZenonT(40) DEF JobRecord
  <2>3. \A j \in Jobs : /\ job'[j].stream = job[j].stream
                        /\ job'[j].pc = job[j].pc
                        /\ job'[j] = job[j] \/ job'[j].cancelled
    BY <1>0, <2>1 DEF JobRecord
  <2>4. TypeOK'
    BY <1>0, <2>1, <2>2 DEF TypeOK, JobRecord
  <2>5. Registration' /\ CallbackInv'
    BY <1>0, <2>1, <2>3 DEF IInv, TypeOK, Registration, ExtractionIsRegistered, Live, CallbackInv
  <2>6. \A j \in Jobs, s \in Streams : Extracting(j, s)' => Extracting(j, s)
    BY <2>3 DEF Extracting, Live
  <2>7. StopPending'
    BY <2>1, <2>6 DEF IInv, StopPending, StartOf, StopOf
  <2> QED BY <2>4, <2>5, <2>7 DEF IInv
<1>2. ASSUME Exit PROVE IInv'
  <2>1. /\ control' = << >> /\ cmd' = IdleCmd /\ ingestor' = "down"
        /\ streams' = [s \in Streams |-> NoJob] /\ job' = [j \in Jobs |-> IdleJob]
        /\ UNCHANGED <<db, request, last>>
    BY <1>2 DEF Exit
  <2>2. TypeOK'
    BY <1>0, <2>1 DEF TypeOK
  <2>3. Registration' /\ CallbackInv'
    BY <2>1 DEF Registration, ExtractionIsRegistered, Live, CallbackInv
  <2>4. StopPending'
    BY <2>1 DEF StopPending, Extracting, Live, StartOf, StopOf
  <2> QED BY <2>2, <2>3, <2>4 DEF IInv
<1>3. ASSUME Restart PROVE IInv'
  <2>1. ingestor' = "up" /\ UNCHANGED <<db, control, request, cmd, streams, job, last>>
    BY <1>3 DEF Restart
  <2>2. TypeOK'
    BY <1>0, <2>1 DEF TypeOK
  <2>3. Registration' /\ CallbackInv'
    BY <2>1 DEF IInv, Registration, ExtractionIsRegistered, Live, CallbackInv
  <2>4. StopPending'
    BY <2>1 DEF IInv, StopPending, Extracting, Live, StartOf, StopOf
  <2> QED BY <2>2, <2>3, <2>4 DEF IInv
<1>4. ASSUME ApiCrash PROVE IInv'
  <2>1. request' = [h \in Handlers |-> IdleRequest] /\ UNCHANGED <<db, control, last, ingestorVars>>
    BY <1>4 DEF ApiCrash
  <2>2. TypeOK'
    BY <1>0, <2>1 DEF TypeOK, ingestorVars
  <2> QED BY <2>1, <2>2, Frame DEF IInv
<1> QED BY <1>1, <1>2, <1>3, <1>4 DEF Process

LEMMA CreateStep ==
    ASSUME IInv, NEW s \in Streams, Create(s)
    PROVE  IInv'
<1>1. /\ db' = [db EXCEPT ![s] = "stopped"]
      /\ UNCHANGED <<control, last, apiVars, ingestorVars>>
  BY DEF Create
<1>2. TypeOK'
  BY <1>1 DEF IInv, TypeOK, apiVars, ingestorVars
<1> QED BY <1>1, <1>2, Frame DEF IInv

LEMMA Stutter == IInv /\ UNCHANGED vars => IInv'
<1> SUFFICES ASSUME IInv, UNCHANGED vars PROVE IInv'
  OBVIOUS
<1>1. UNCHANGED <<control, last, ingestorVars>>
  BY DEF vars, ingestorVars
<1>2. TypeOK'
  BY DEF IInv, TypeOK, vars
<1> QED BY <1>1, <1>2, Frame DEF IInv

(* The inductive invariant: types, the two-way link between the map and the  *)
(* goroutines, the callback's assumptions, and the pending stops.            *)
THEOREM Inductive == Spec => []IInv
<1>1. Init => IInv
  <2> SUFFICES ASSUME Init PROVE IInv
    OBVIOUS
  <2>1. TypeOK
    BY DEF Init, TypeOK
  <2>2. Registration /\ CallbackInv /\ StopPending
    BY DEF Init, Registration, ExtractionIsRegistered, Live, CallbackInv, StopPending
  <2> QED BY <2>1, <2>2 DEF IInv
<1>2. IInv /\ [Next]_vars => IInv'
  BY CreateStep, RequestStep, CallbackStep, JobStep, ProcessStep, Stutter DEF Next
<1> QED BY <1>1, <1>2, PTL DEF Spec

(* Type correctness.                                                         *)
THEOREM TypeCorrect == Spec => []TypeOK
BY Inductive, PTL DEF IInv

(* Each running goroutine stays reachable by a stop command.                 *)
THEOREM AlwaysRegistered == Spec => []ExtractionIsRegistered
BY Inductive, PTL DEF IInv, Registration

(* At most one extraction per stream, however the checks interleave.         *)
THEOREM MutualExclusion == Spec => []OneExtractionPerStream
<1>1. IInv => OneExtractionPerStream
  BY DEF IInv, Registration, ExtractionIsRegistered, OneExtractionPerStream
<1> QED BY <1>1, Inductive, PTL

(* A stop that was delivered last, and handled, has stopped the stream.      *)
THEOREM StopWorks == Spec => []StopIsEffective
<1>1. IInv => StopIsEffective
  BY DEF IInv, StopPending, StopIsEffective, Concerns, StopOf
<1> QED BY <1>1, Inductive, PTL

-----------------------------------------------------------------------------
(* While no statement fails and the ingestor does not go down, a row that    *)
(* says "running" belongs to a goroutine that has its last write still ahead.*)
Unfinished == {"extract", "backoff", "resolve", "stopped", "failed"}

Backed ==
    Faults \cap {"db", "restart"} = {} =>
        \A s \in Streams : db[s] = "running" =>
            \E j \in Jobs : Live(j, s) /\ job[j].pc \in Unfinished

LEMMA BackedFrame ==
    ASSUME IInv, Backed,
           \A s \in Streams : db'[s] = "running" => db[s] = "running",
           \A j \in Jobs : job[j].pc \in Unfinished =>
               job'[j].pc \in Unfinished /\ job'[j].stream = job[j].stream
    PROVE  Backed'
BY DEF Backed, Live

LEMMA NoNewRunning ==
    ASSUME IInv, NEW s \in Streams, NEW st \in Status \ {"running"}
    PROVE  /\ \A t \in Streams : Stored(s, st)[t] = "running" => db[t] = "running"
           /\ UpdateStatus(s, st) =>
                \A t \in Streams : db'[t] = "running" => db[t] = "running"
BY DEF IInv, TypeOK, Stored, UpdateStatus

LEMMA BackedStep == IInv /\ Backed /\ [Next]_vars => Backed'
<1> SUFFICES ASSUME IInv, Backed, [Next]_vars, Faults \cap {"db", "restart"} = {}
             PROVE  Backed'
  BY DEF Backed
<1>0. TypeOK /\ "db" \notin Faults /\ "restart" \notin Faults
  BY DEF IInv
<1>1. ASSUME NEW h \in Handlers, Request(h) PROVE Backed'
  <2>1. job' = job
    BY <1>1 DEF Request, StartRequest, StopRequest, DeleteRequest, StartMark, StartPublish,
                StartFailed, StopPublish, StopMark, DeletePublish, DeleteRow, ingestorVars
  <2>2. request[h].pc # "idle" => request[h].stream \in Streams
    BY <1>0 DEF TypeOK
  <2>3. \A t \in Streams : db'[t] = "running" => db[t] = "running"
    <3>1. ASSUME StartMark(h) \/ StartFailed(h) \/ StopMark(h)
          PROVE  \A t \in Streams : db'[t] = "running" => db[t] = "running"
      BY <2>2, <3>1, NoNewRunning DEF StartMark, StartFailed, StopMark
    <3>2. ASSUME DeleteRow(h)
          PROVE  \A t \in Streams : db'[t] = "running" => db[t] = "running"
      BY <1>0, <2>2, <3>2 DEF TypeOK, DeleteRow
    <3>3. ASSUME \/ \E s \in Streams : StartRequest(h, s) \/ StopRequest(h, s) \/ DeleteRequest(h, s)
                 \/ StartPublish(h) \/ StopPublish(h) \/ DeletePublish(h)
          PROVE  db' = db
      BY <3>3 DEF StartRequest, StopRequest, DeleteRequest, StartPublish, StopPublish,
                  DeletePublish
    <3> QED BY <1>1, <3>1, <3>2, <3>3 DEF Request
  <2> QED BY <2>1, <2>3, BackedFrame
<1>2. ASSUME NEW s \in Streams, Create(s) PROVE Backed'
  BY <1>0, <1>2, BackedFrame DEF TypeOK, Create, ingestorVars
<1>3. ASSUME HandleStart \/ ResolveSucceeds PROVE Backed'
  BY <1>3, BackedFrame DEF HandleStart, ResolveSucceeds
<1>4. ASSUME ResolveFails PROVE Backed'
  <2>1. cmd.stream \in Streams /\ job' = job /\ UpdateStatus(cmd.stream, "error")
    BY <1>0, <1>4 DEF TypeOK, ResolveFails
  <2> QED BY <2>1, NoNewRunning, BackedFrame
<1>5. ASSUME Insert PROVE Backed'
  <2>1. PICK j \in Jobs : job[j] = IdleJob /\ \A k \in Jobs : k # j => job'[k] = job[k]
    BY <1>0, <1>5 DEF TypeOK, Insert
  <2>2. db' = db /\ job[j].pc \notin Unfinished
    BY <1>5, <2>1 DEF Insert, Unfinished
  <2> QED BY <2>1, <2>2, BackedFrame
<1>6. ASSUME Started PROVE Backed'
  <2>1. /\ cmd.stream \in Streams /\ cmd.job \in Jobs
        /\ job[cmd.job].pc = "new" /\ job[cmd.job].stream = cmd.stream
        /\ db' = Stored(cmd.stream, "running")
        /\ job' = [job EXCEPT ![cmd.job].pc = "extract"]
    BY <1>0, <1>6 DEF TypeOK, IInv, CallbackInv, Started, UpdateStatus
  <2>2. \A k \in Jobs : k # cmd.job => job'[k] = job[k]
    BY <1>0, <2>1 DEF TypeOK
  <2>3. job'[cmd.job].pc = "extract" /\ job'[cmd.job].stream = cmd.stream
    BY <1>0, <2>1 DEF TypeOK
  <2>4. \A t \in Streams : t # cmd.stream => db'[t] = db[t]
    BY <1>0, <2>1 DEF TypeOK, Stored
  <2>5. ASSUME NEW t \in Streams, db'[t] = "running"
        PROVE  \E j \in Jobs : job'[j].stream = t /\ job'[j].pc \in Unfinished
    <3>1. CASE t = cmd.stream
      BY <2>1, <2>3, <3>1 DEF Unfinished
    <3>2. CASE t # cmd.stream
      <4>1. PICK j \in Jobs : job[j].stream = t /\ job[j].pc \in Unfinished
        BY <2>4, <2>5, <3>2 DEF Backed, Live
      <4> QED BY <2>1, <2>2, <3>2, <4>1
    <3> QED BY <3>1, <3>2
  <2> QED BY <2>5 DEF Backed, Live
<1>7. ASSUME HandleStop PROVE Backed'
  <2>1. db' = db /\ \A j \in Jobs : job'[j].pc = job[j].pc /\ job'[j].stream = job[j].stream
    BY <1>0, <1>7 DEF TypeOK, HandleStop
  <2> QED BY <2>1, BackedFrame
<1>8. ASSUME NEW j \in Jobs, Job(j) PROVE Backed'
  <2>0. job \in [Jobs -> {IdleJob} \cup JobRecord]
    BY <1>0 DEF TypeOK, JobRecord
  <2>1. ASSUME \/ ExtractionEnds(j) \/ ExtractionFails(j) \/ ExtractionCancelled(j)
               \/ BackoffCancelled(j) \/ BackoffExpires(j)
               \/ ReresolveSucceeds(j) \/ ReresolveFails(j)
        PROVE  Backed'
    <3>1. /\ db' = db
          /\ \A k \in Jobs : k # j => job'[k] = job[k]
          /\ job'[j].pc \in Unfinished /\ job'[j].stream = job[j].stream
      BY <2>0, <2>1 DEF ExtractionEnds, ExtractionFails, ExtractionCancelled, BackoffCancelled,
         BackoffExpires, ReresolveSucceeds, ReresolveFails, NextAttempt, JobGoto, JobOnly,
         Unfinished, AtJob, JobRecord
    <3> QED BY <3>1, BackedFrame
  <2>2. ASSUME WriteFinalStatus(j) PROVE Backed'
    <3> DEFINE s == job[j].stream
    <3>1. s \in Streams /\ \E st \in {"stopped", "error"} : db' = Stored(s, st)
      BY <1>0, <2>0, <2>2 DEF WriteFinalStatus, UpdateStatus, JobRecord
    <3>2. db'[s] # "running" /\ \A t \in Streams : t # s => db'[t] = db[t]
      BY <1>0, <3>1 DEF TypeOK, Stored
    <3>3. \A k \in Jobs : k # j => job'[k] = job[k]
      BY <1>0, <2>2 DEF TypeOK, WriteFinalStatus, JobGoto
    <3> HIDE DEF s
    <3>4. ASSUME NEW t \in Streams, db'[t] = "running"
          PROVE  \E k \in Jobs : job'[k].stream = t /\ job'[k].pc \in Unfinished
      <4>1. t # s /\ db[t] = "running"
        BY <3>2, <3>4
      <4>2. PICK k \in Jobs : job[k].stream = t /\ job[k].pc \in Unfinished
        BY <4>1 DEF Backed, Live
      <4>3. k # j
        BY <4>1, <4>2 DEF s
      <4> QED BY <3>3, <4>2, <4>3
    <3> QED BY <3>4 DEF Backed, Live
  <2>3. ASSUME Cleanup(j) PROVE Backed'
    <3>1. /\ db' = db /\ job[j].pc \notin Unfinished
          /\ \A k \in Jobs : k # j => job'[k] = job[k]
      BY <1>0, <2>3 DEF TypeOK, Cleanup, AtJob, Unfinished
    <3> QED BY <3>1, BackedFrame
  <2> QED BY <1>8, <2>1, <2>2, <2>3 DEF Job, Unwind
<1>9. ASSUME Process \/ UNCHANGED vars PROVE Backed'
  <2>1. db' = db /\ job' = job
    BY <1>0, <1>9 DEF Process, Shutdown, Exit, Restart, ApiCrash, ingestorVars, vars
  <2> QED BY <2>1, BackedFrame
<1> QED BY <1>1, <1>2, <1>3, <1>4, <1>5, <1>6, <1>7, <1>8, <1>9 DEF Next, Callback

(* Start answers 409 only for a stream that has a goroutine, as long as the  *)
(* ingestor stays up and its statements succeed.                             *)
THEOREM RunningTrue == Spec => []RunningIsLive
<1>1. Init => Backed
  BY DEF Init, Backed
<1>2. IInv /\ Backed => RunningIsLive
  BY DEF Backed, RunningIsLive, ConflictMeansRunning
<1> QED BY <1>1, <1>2, BackedStep, Inductive, PTL DEF Spec

-----------------------------------------------------------------------------
(* Refinement of Session.                                                    *)
map == [s \in Streams |-> SessionOf(s)]

LEMMA SameSessions ==
    ASSUME \A j \in Jobs : job'[j].stream = job[j].stream /\ job'[j].cancelled = job[j].cancelled
    PROVE  map' = map
BY DEF map, SessionOf, Live

(* The goroutine registered for a stream is all there is to its session.     *)
SessionView ==
    \A s \in Streams :
        /\ streams[s] = NoJob => SessionOf(s) = "none"
        /\ streams[s] # NoJob =>
              SessionOf(s) = IF job[streams[s]].cancelled THEN "ending" ELSE "on"

LEMMA SessionIs == IInv => SessionView
<1> SUFFICES ASSUME IInv, NEW s \in Streams
             PROVE  /\ streams[s] = NoJob => SessionOf(s) = "none"
                    /\ streams[s] # NoJob =>
                          SessionOf(s) = IF job[streams[s]].cancelled THEN "ending" ELSE "on"
  BY DEF SessionView
<1>1. \A j \in Jobs : Live(j, s) => streams[s] = j
  BY DEF IInv, Registration, ExtractionIsRegistered
<1>2. streams[s] # NoJob => streams[s] \in Jobs /\ Live(streams[s], s)
  BY DEF IInv, TypeOK, Registration, Live
<1> QED BY <1>1, <1>2 DEF SessionOf

LEMMA RefinesInit == Init => Sessions!Init
BY DEF Init, Sessions!Init, SessionOf, Live

LEMMA RefinesNext == IInv /\ IInv' /\ [Next]_vars => [Sessions!Next]_map
<1> SUFFICES ASSUME IInv, IInv', [Next]_vars
             PROVE  Sessions!Next \/ map' = map
  BY DEF map
<1>0. /\ TypeOK /\ streams \in [Streams -> Jobs \cup {NoJob}]
      /\ job \in [Jobs -> {IdleJob} \cup JobRecord]
  BY DEF IInv, TypeOK, JobRecord
<1>v. SessionView
  BY SessionIs
<1>w. SessionView'
  BY SessionIs, PTL
<1>1. ASSUME job' = job PROVE map' = map
  BY <1>1, SameSessions
<1>2. ASSUME NEW h \in Handlers, Request(h) PROVE job' = job
  BY <1>2 DEF Request, StartRequest, StopRequest, DeleteRequest, StartMark, StartPublish,
              StartFailed, StopPublish, StopMark, DeletePublish, DeleteRow, ingestorVars
<1>3. ASSUME \/ \E s \in Streams : Create(s)
             \/ HandleStart \/ ResolveSucceeds \/ ResolveFails
             \/ Restart \/ ApiCrash \/ UNCHANGED vars
      PROVE  job' = job
  BY <1>3 DEF Create, HandleStart, ResolveSucceeds, ResolveFails, Restart, ApiCrash,
              ingestorVars, vars
<1>4. ASSUME Insert PROVE Sessions!Next
  <2>1. PICK s \in Streams : s = cmd.stream /\ streams[s] = NoJob
    BY <1>0, <1>4 DEF TypeOK, IInv, CallbackInv, Insert
  <2>2. PICK j \in Jobs : /\ streams' = [streams EXCEPT ![s] = j]
                          /\ job[j] = IdleJob
                          /\ \A k \in Jobs : k # j => job'[k] = job[k]
    BY <1>0, <1>4, <2>1 DEF Insert
  <2>3. streams'[s] # NoJob
    BY <1>0, <2>1, <2>2
  <2>4. SessionOf(s) = "none" /\ SessionOf(s)' \in {"on", "ending"}
    BY <2>1, <2>3, <1>v, <1>w DEF SessionView
  <2>5. \A t \in Streams : t # s => SessionOf(t)' = SessionOf(t)
    <3> SUFFICES ASSUME NEW t \in Streams, t # s PROVE SessionOf(t)' = SessionOf(t)
      OBVIOUS
    <3>1. streams'[t] = streams[t] /\ streams[t] # j
      BY <1>0, <2>2 DEF IInv, Registration
    <3>2. streams[t] # NoJob => job'[streams[t]] = job[streams[t]]
      BY <1>0, <2>2, <3>1
    <3> QED BY <3>1, <3>2, <1>v, <1>w DEF SessionView
  <2>6. map' \in {[map EXCEPT ![s] = st] : st \in {"on", "ending"}}
    BY <2>1, <2>4, <2>5 DEF map
  <2> QED BY <2>1, <2>4, <2>6 DEF Sessions!Next, Sessions!Open, map
<1>5. ASSUME Started PROVE job' # job => map' = map
  <2>1. cmd.job \in Jobs /\ job[cmd.job].pc = "new"
    BY <1>5 DEF Started, IInv, CallbackInv
  <2> QED BY <1>0, <1>5, <2>1, SameSessions DEF Started, JobRecord
<1>6. ASSUME HandleStop PROVE Sessions!Next
  <2>0. control # << >> /\ control' = Tail(control)
    BY <1>6 DEF HandleStop, Receive
  <2>2. PICK s \in Streams : s = Head(control).stream
    BY <2>0, HeadTail
  <2>1. /\ streams' = streams
        /\ job' = [j \in Jobs |-> IF j = streams[s] THEN [job[j] EXCEPT !.cancelled = TRUE]
                                  ELSE job[j]]
    BY <1>6, <2>2 DEF HandleStop
  <2>3. streams[s] # NoJob => job'[streams[s]].cancelled = TRUE
    <3>1. streams[s] # NoJob => streams[s] \in Jobs /\ job[streams[s]] \in JobRecord
      BY <1>0, <2>2 DEF IInv, Registration
    <3> QED BY <2>1, <3>1 DEF JobRecord
  <2>4. \A t \in Streams : t # s /\ streams[t] # NoJob => job'[streams[t]] = job[streams[t]]
    BY <1>0, <2>1, <2>2 DEF IInv, Registration
  <2>5. SessionOf(s)' = IF SessionOf(s) = "on" THEN "ending" ELSE SessionOf(s)
    BY <2>1, <2>2, <2>3, <1>v, <1>w DEF SessionView
  <2>6. \A t \in Streams : t # s => SessionOf(t)' = SessionOf(t)
    BY <2>1, <2>4, <1>v, <1>w, ZenonT(40) DEF SessionView
  <2>7. map' = [t \in Streams |-> IF t \in {s} /\ map[t] = "on" THEN "ending" ELSE map[t]]
    BY <2>2, <2>5, <2>6 DEF map
  <2> QED BY <2>2, <2>7 DEF Sessions!Next, Sessions!CloseAll, map
<1>7. ASSUME NEW j \in Jobs, Job(j) PROVE Sessions!Next \/ map' = map
  <2>1. CASE Cleanup(j)
    <3>0. PICK s \in Streams : s = job[j].stream
      BY <1>0, <2>1 DEF Cleanup, AtJob, JobRecord
    <3>1. /\ streams' = [streams EXCEPT ![s] = NoJob]
          /\ \A k \in Jobs : k # j => job'[k] = job[k]
      BY <1>0, <2>1, <3>0 DEF Cleanup
    <3>2. streams[s] = j
      BY <3>0 DEF IInv, Registration, ExtractionIsRegistered, Live
    <3>3. SessionOf(s) # "none" /\ SessionOf(s)' = "none"
      BY <1>0, <3>1, <3>2, <1>v, <1>w DEF SessionView
    <3>4. \A t \in Streams : t # s => SessionOf(t)' = SessionOf(t)
      <4> SUFFICES ASSUME NEW t \in Streams, t # s PROVE SessionOf(t)' = SessionOf(t)
        OBVIOUS
      <4>1. streams'[t] = streams[t] /\ streams[t] # j
        BY <1>0, <3>0, <3>1 DEF IInv, Registration
      <4>2. streams[t] # NoJob => job'[streams[t]] = job[streams[t]]
        BY <1>0, <3>1, <4>1
      <4> QED BY <4>1, <4>2, <1>v, <1>w DEF SessionView
    <3>5. map' = [map EXCEPT ![s] = "none"]
      BY <3>1, <3>3, <3>4 DEF map
    <3> QED BY <3>1, <3>3, <3>5 DEF Sessions!Next, Sessions!Finish, map
  <2>2. CASE ~Cleanup(j)
    <3>1. \A k \in Jobs : job'[k].stream = job[k].stream /\ job'[k].cancelled = job[k].cancelled
      BY <1>0, <1>7, <2>2 DEF Job, Unwind, ExtractionEnds, ExtractionFails, ExtractionCancelled,
         BackoffCancelled, BackoffExpires, ReresolveSucceeds, ReresolveFails, NextAttempt,
         WriteFinalStatus, JobGoto, AtJob, JobRecord
    <3> QED BY <3>1, SameSessions
  <2> QED BY <2>1, <2>2
<1>8. ASSUME Shutdown PROVE Sessions!Next
  <2>1. /\ streams' = streams
        /\ job' = [j \in Jobs |-> IF job[j] = IdleJob THEN IdleJob
                                  ELSE [job[j] EXCEPT !.cancelled = TRUE]]
    BY <1>8 DEF Shutdown
  <2>2. ASSUME NEW s \in Streams
        PROVE  SessionOf(s)' = IF SessionOf(s) = "on" THEN "ending" ELSE SessionOf(s)
    <3>1. streams[s] # NoJob => streams[s] \in Jobs /\ job[streams[s]] \in JobRecord
      BY <1>0 DEF IInv, Registration
    <3>2. streams[s] # NoJob => job'[streams[s]].cancelled = TRUE
      BY <2>1, <3>1 DEF JobRecord
    <3> QED BY <2>1, <3>2, <1>v, <1>w DEF SessionView
  <2>3. map' = [s \in Streams |-> IF s \in Streams /\ map[s] = "on" THEN "ending" ELSE map[s]]
    BY <2>2 DEF map
  <2> QED BY <2>3 DEF Sessions!Next, Sessions!CloseAll, map
<1>9. ASSUME Exit PROVE Sessions!Next
  <2>1. \A s \in Streams : SessionOf(s)' = "none"
    BY <1>9, <1>w DEF SessionView, Exit
  <2>2. map' = [s \in Streams |-> "none"]
    BY <2>1 DEF map
  <2> QED BY <2>2 DEF Sessions!Next, Sessions!Lose, map
<1> QED BY <1>1, <1>2, <1>3, <1>4, <1>5, <1>6, <1>7, <1>8, <1>9
        DEF Next, Callback, Process

(* The manager implements Session: one session per stream, closed for good.  *)
THEOREM Refinement == Spec => ImplementsSession
<1>1. Init => Sessions!Init
  BY RefinesInit
<1>2. IInv /\ IInv' /\ [Next]_vars => [Sessions!Next]_map
  BY RefinesNext
<1> QED BY <1>1, <1>2, Inductive, PTL DEF Spec, ImplementsSession, Sessions!Spec, map

-----------------------------------------------------------------------------
(* A row that says "stopped" or "error" is true when one client waits for    *)
(* each answer, commands arrive and statements succeed. The API and the      *)
(* ingestor may go down at any moment.                                       *)
Sequential == \A g, h \in Handlers : g = h

Reliable == Faults \cap {"db", "nats"} = {}

(* An extraction goes on and its row has been told of it.                    *)
Going(s) == \E j \in Jobs : Extracting(j, s) /\ job[j].pc # "new"

Touched(s) ==
    \/ \E j \in Jobs : Live(j, s)
    \/ cmd.stream = s
    \/ \E i \in DOMAIN control : Concerns(i, s)

(* A goroutine is new only until the callback has written "running".         *)
NewInv == \A j \in Jobs : job[j].pc = "new" => cmd.pc = "started" /\ cmd.job = j

(* Nothing happens for a stream before it is created.                        *)
AbsentInv ==
    \A s \in Streams : db[s] = "absent" =>
        /\ ~ Touched(s)
        /\ \A h \in Handlers : request[h].stream = s => request[h].pc = "deleteRow"

(* Stop writes "stopped" while its command is the last one, or was lost with *)
(* an ingestor that nothing has reached since.                               *)
RequestInv ==
    \A h \in Handlers :
        /\ request[h].pc # "startFailed"
        /\ request[h].pc = "stopMark" =>
              last[request[h].stream] = "stop" \/ ~ Touched(request[h].stream)

(* An ingestor that is down has no memory, and no commands waiting for it.   *)
DownInv == ingestor = "down" => \A s \in Streams : ~ Touched(s)

(* If an extraction goes on behind a row that says that none does, a stop is *)
(* on its way, and no start is about to be sent.                             *)
StatusInv ==
    \A s \in Streams : db[s] \in {"stopped", "error"} /\ Going(s) =>
        /\ last[s] = "stop"
        /\ \A h \in Handlers : ~ (request[h].pc = "startPublish" /\ request[h].stream = s)

OneClientInv == NewInv /\ AbsentInv /\ RequestInv /\ DownInv /\ StatusInv

LEMMA AbsentFrame ==
    ASSUME AbsentInv,
           \A s \in Streams : db'[s] = "absent" =>
               /\ db[s] = "absent"
               /\ Touched(s)' => Touched(s)
               /\ \A h \in Handlers : request'[h].stream = s =>
                     request'[h].pc = "deleteRow" \/ request'[h] = request[h]
    PROVE  AbsentInv'
BY DEF AbsentInv

LEMMA StatusFrame ==
    ASSUME StatusInv, last' = last,
           \A s \in Streams : db'[s] \in {"stopped", "error"} /\ Going(s)' =>
               db[s] \in {"stopped", "error"} /\ Going(s),
           \A h \in Handlers : request'[h].pc = "startPublish" => request'[h] = request[h]
    PROVE  StatusInv'
BY DEF StatusInv

LEMMA SameJobs ==
    ASSUME job' = job
    PROVE  /\ \A s \in Streams : Going(s)' <=> Going(s)
           /\ cmd' = cmd /\ control' = control => \A s \in Streams : Touched(s)' <=> Touched(s)
BY DEF Going, Extracting, Live, Touched, Concerns

LEMMA CreateStatus ==
    ASSUME IInv, OneClientInv, NEW s \in Streams, Create(s)
    PROVE  OneClientInv'
<1>1. /\ db[s] = "absent" /\ db' = [db EXCEPT ![s] = "stopped"]
      /\ UNCHANGED <<control, last, request, ingestor, cmd, streams, job>>
  BY DEF Create, apiVars, ingestorVars
<1>2. db'[s] = "stopped" /\ \A t \in Streams : t # s => db'[t] = db[t]
  BY <1>1 DEF IInv, TypeOK
<1>3. \A t \in Streams : (Going(t)' <=> Going(t)) /\ (Touched(t)' <=> Touched(t))
  BY <1>1, SameJobs
<1>4. ~ Going(s)
  BY <1>1 DEF OneClientInv, AbsentInv, Touched, Going, Extracting
<1>5. AbsentInv'
  BY <1>1, <1>2, <1>3, AbsentFrame DEF OneClientInv
<1>6. StatusInv'
  BY <1>1, <1>2, <1>3, <1>4, StatusFrame DEF OneClientInv
<1>7. RequestInv' /\ DownInv'
  BY <1>1, <1>3 DEF IInv, TypeOK, OneClientInv, RequestInv, DownInv
<1> QED BY <1>1, <1>5, <1>6, <1>7 DEF OneClientInv, NewInv

(* What the request of the only client does.                                 *)
LEMMA RequestStatus ==
    ASSUME Sequential, Reliable, IInv, OneClientInv, NEW h \in Handlers, Request(h)
    PROVE  OneClientInv'
<1>0. /\ UNCHANGED <<ingestor, cmd, streams, job>>
      /\ \A g \in Handlers : g = h
      /\ "db" \notin Faults /\ "nats" \notin Faults
      /\ request \in [Handlers -> {IdleRequest} \cup [pc : RequestPc, stream : Streams]]
      /\ db \in [Streams -> Status \cup NoRow]
      /\ last \in [Streams -> {"none", "start", "stop"}]
  BY DEF Sequential, Reliable, OneClientInv, IInv, TypeOK, Request, StartRequest, StopRequest,
         DeleteRequest, StartMark, StartPublish, StartFailed, StopPublish, StopMark,
         DeletePublish, DeleteRow, ingestorVars
<1>1. NewInv'
  BY <1>0 DEF OneClientInv, NewInv
<1>2. \A s \in Streams : Going(s)' <=> Going(s)
  BY <1>0, SameJobs
<1>3. AbsentInv /\ RequestInv /\ DownInv /\ StatusInv
  BY DEF OneClientInv
<1>4. ASSUME NEW s \in Streams, StartRequest(h, s) \/ StopRequest(h, s) \/ DeleteRequest(h, s)
      PROVE  OneClientInv'
  <2>1. /\ UNCHANGED <<db, control, last>>
        /\ \/ request' = request
           \/ \E pc \in {"startMark", "stopPublish", "deletePublish", "deleteRow"} :
                 /\ request'[h] = [pc |-> pc, stream |-> s]
                 /\ db[s] = "absent" => pc = "deleteRow"
    BY <1>0, <1>4 DEF StartRequest, StopRequest, DeleteRequest, Goto
  <2>2. \A t \in Streams : Touched(t)' <=> Touched(t)
    BY <1>0, <2>1, SameJobs
  <2>3. AbsentInv'
    BY <1>0, <1>3, <2>1, <2>2, AbsentFrame
  <2>4. StatusInv'
    BY <1>0, <1>2, <1>3, <2>1, StatusFrame
  <2>5. RequestInv' /\ DownInv'
    <3>1. request' # request => request'[h].pc \notin {"startFailed", "stopMark"}
      BY <2>1
    <3> QED BY <1>0, <1>3, <2>1, <2>2, <3>1 DEF RequestInv, DownInv
  <2> QED BY <1>1, <2>3, <2>4, <2>5 DEF OneClientInv
<1> DEFINE s == request[h].stream
<1>5. request[h].pc # "idle" => s \in Streams /\ (db[s] = "absent" => request[h].pc = "deleteRow")
  BY <1>0, <1>3 DEF AbsentInv
<1>6. ASSUME StartMark(h) \/ StopMark(h) PROVE OneClientInv'
  <2>1. /\ UNCHANGED <<control, last>> /\ request[h].pc \in {"startMark", "stopMark"}
        /\ \/ /\ request[h].pc = "startMark" /\ db' = Stored(s, "starting")
              /\ request'[h] = [pc |-> "startPublish", stream |-> s]
           \/ /\ request[h].pc = "stopMark" /\ db' = Stored(s, "stopped")
              /\ request'[h] = IdleRequest
    BY <1>0, <1>6 DEF StartMark, StopMark, Goto, Reply, UpdateStatus
  <2>2. s \in Streams /\ db[s] # "absent"
    BY <1>5, <2>1
  <2>3. /\ \A t \in Streams : t # s => db'[t] = db[t]
        /\ db'[s] # "absent"
        /\ request[h].pc = "startMark" => db'[s] \notin {"stopped", "error"}
    BY <1>0, <2>1, <2>2 DEF Stored
  <2>4. \A t \in Streams : Touched(t)' <=> Touched(t)
    BY <1>0, <2>1, SameJobs
  <2>5. AbsentInv'
    <3>1. ASSUME NEW t \in Streams, db'[t] = "absent"
          PROVE  t # s /\ db[t] = "absent" /\ (request'[h].stream # t \/ request'[h] = request[h])
      BY <2>1, <2>2, <2>3, <3>1
    <3> QED BY <1>0, <1>3, <2>4, <3>1, AbsentFrame
  <2>6. StatusInv'
    <3>1. ASSUME NEW t \in Streams, db'[t] \in {"stopped", "error"}, Going(t)'
          PROVE  /\ last'[t] = "stop"
                 /\ ~ (request'[h].pc = "startPublish" /\ request'[h].stream = t)
      <4>1. CASE t = s
        <5>1. request[h].pc = "stopMark" /\ request'[h] = IdleRequest
          BY <2>1, <2>3, <3>1, <4>1
        <5>2. Touched(s)
          BY <1>2, <3>1, <4>1 DEF Going, Extracting, Touched
        <5>3. last[s] = "stop"
          BY <1>3, <5>1, <5>2 DEF RequestInv
        <5> QED BY <2>1, <4>1, <5>1, <5>3
      <4>2. CASE t # s
        <5>1. last[t] = "stop"
          BY <1>2, <1>3, <2>3, <3>1, <4>2 DEF StatusInv
        <5> QED BY <2>1, <2>2, <4>2, <5>1
      <4> QED BY <4>1, <4>2
    <3> QED BY <1>0, <3>1 DEF StatusInv
  <2>7. RequestInv' /\ DownInv'
    BY <1>0, <1>3, <2>1, <2>4 DEF RequestInv, DownInv
  <2> QED BY <1>1, <2>5, <2>6, <2>7 DEF OneClientInv
<1>7. ASSUME StartPublish(h) \/ StopPublish(h) \/ DeletePublish(h) PROVE OneClientInv'
  <2>1. /\ db' = db /\ request[h].pc \in {"startPublish", "stopPublish", "deletePublish"}
        /\ \/ /\ request[h].pc = "startPublish" /\ PublishControl(StartOf(s))
              /\ request'[h] = IdleRequest
           \/ /\ request[h].pc \in {"stopPublish", "deletePublish"} /\ PublishControl(StopOf(s))
              /\ request'[h].pc \in {"stopMark", "deleteRow"} /\ request'[h].stream = s
    BY <1>0, <1>7 DEF StartPublish, StopPublish, DeletePublish, Goto, Reply, StartOf, StopOf
  <2>2. s \in Streams /\ db[s] # "absent"
    BY <1>5, <2>1
  <2>3. /\ \/ request[h].pc = "startPublish" /\ request'[h] = IdleRequest
           \/ /\ request[h].pc \in {"stopPublish", "deletePublish"}
              /\ request'[h].pc \in {"stopMark", "deleteRow"} /\ request'[h].stream = s
              /\ last'[s] = "stop" \/ ingestor = "down"
        /\ \/ /\ ingestor # "down"
              /\ \E c \in {StartOf(s), StopOf(s)} : control' = Append(control, c)
           \/ ingestor = "down" /\ UNCHANGED <<control, last>>
        /\ \A t \in Streams : t # s => last'[t] = last[t]
        /\ request[h].pc # "startPublish" => last'[s] = "stop" \/ last'[s] = last[s]
    BY <1>0, <2>1, <2>2 DEF PublishControl, StartOf, StopOf
  <2>4. \A t \in Streams : t # s => (Touched(t)' => Touched(t))
    <3>1. control \in Seq(Commands) /\ StartOf(s) \in Commands /\ StopOf(s) \in Commands
      BY <2>2 DEF IInv, TypeOK, StartOf, StopOf
    <3>2. \A i \in DOMAIN control' : (i \in DOMAIN control /\ control'[i] = control[i])
                                    \/ control'[i].stream = s
      <4>0. CASE control' = control
        BY <4>0
      <4>1. CASE \E c \in {StartOf(s), StopOf(s)} : control' = Append(control, c)
        <5>1. PICK c \in {StartOf(s), StopOf(s)} : control' = Append(control, c)
          BY <4>1
        <5>2. /\ Len(control) \in Nat /\ DOMAIN control = 1 .. Len(control)
              /\ DOMAIN control' = 1 .. Len(control) + 1
              /\ \A i \in 1 .. Len(control) : control'[i] = control[i]
              /\ control'[Len(control) + 1] = c
          BY <3>1, <5>1, AppendProperties
        <5>3. c.stream = s
          BY DEF StartOf, StopOf
        <5> QED BY <5>2, <5>3
      <4> QED BY <2>3, <4>0, <4>1
    <3> QED BY <1>0, <3>2 DEF Touched, Live, Concerns
  <2>5. AbsentInv'
    <3>1. ASSUME NEW t \in Streams, db'[t] = "absent"
          PROVE  t # s /\ db[t] = "absent" /\ request'[h].stream # t
      BY <2>1, <2>2, <2>3, <3>1
    <3> QED BY <1>0, <1>3, <2>4, <3>1, AbsentFrame
  <2>6. StatusInv'
    <3>1. ASSUME NEW t \in Streams, db'[t] \in {"stopped", "error"}, Going(t)'
          PROVE  last'[t] = "stop"
      <4>1. db[t] \in {"stopped", "error"} /\ Going(t)
        BY <1>2, <2>1, <3>1
      <4>2. last[t] = "stop" /\ ~ (request[h].pc = "startPublish" /\ request[h].stream = t)
        BY <1>3, <4>1 DEF StatusInv
      <4> QED BY <2>3, <4>2
    <3> QED BY <1>0, <2>3, <3>1 DEF StatusInv
  <2>7. ingestor = "down" => \A t \in Streams : ~ Touched(t)'
    BY <1>0, <1>3, <2>3, SameJobs DEF DownInv
  <2>8. RequestInv' /\ DownInv'
    BY <1>0, <2>2, <2>3, <2>7 DEF RequestInv, DownInv
  <2> QED BY <1>1, <2>5, <2>6, <2>8 DEF OneClientInv
<1>8. ASSUME DeleteRow(h) PROVE OneClientInv'
  <2>1. /\ UNCHANGED <<control, last>> /\ request[h].pc = "deleteRow" /\ request'[h] = IdleRequest
        /\ db' = [db EXCEPT ![s] = IF @ \in NoRow THEN @ ELSE "deleted"]
    BY <1>0, <1>8 DEF DeleteRow, Reply
  <2>2. s \in Streams
    BY <1>5, <2>1
  <2>3. \A t \in Streams : db'[t] = db[t] \/ db'[t] = "deleted"
    BY <1>0, <2>1, <2>2
  <2>4. \A t \in Streams : Touched(t)' <=> Touched(t)
    BY <1>0, <2>1, SameJobs
  <2>5. AbsentInv'
    <3>1. \A t \in Streams : request'[h].stream # t
      BY <2>1
    <3> QED BY <1>0, <1>3, <2>3, <2>4, <3>1, AbsentFrame
  <2>6. StatusInv'
    BY <1>0, <1>2, <1>3, <2>1, <2>3, StatusFrame
  <2>7. RequestInv' /\ DownInv'
    BY <1>0, <1>3, <2>1, <2>4 DEF RequestInv, DownInv
  <2> QED BY <1>1, <2>5, <2>6, <2>7 DEF OneClientInv
<1>9. ~ StartFailed(h)
  BY <1>3 DEF StartFailed, RequestInv
<1> QED BY <1>4, <1>6, <1>7, <1>8, <1>9 DEF Request

(* A step that asks nothing of the API and tells it nothing.                 *)
LEMMA ManagerStatus ==
    ASSUME TypeOK, OneClientInv, UNCHANGED <<request, ingestor, last>>, NewInv',
           \A s \in Streams : Touched(s)' => Touched(s),
           \A s \in Streams : db'[s] = "absent" => db[s] = "absent",
           \A s \in Streams : db'[s] \in {"stopped", "error"} /\ Going(s)' =>
               db[s] \in {"stopped", "error"} /\ Going(s)
    PROVE  OneClientInv'
<1>1. AbsentInv'
  BY AbsentFrame DEF OneClientInv
<1>2. StatusInv'
  BY StatusFrame DEF OneClientInv
<1>3. RequestInv' /\ DownInv'
  <2>1. request \in [Handlers -> {IdleRequest} \cup [pc : RequestPc, stream : Streams]]
    BY DEF TypeOK
  <2>2. \A h \in Handlers : request[h].pc = "stopMark" => request[h].stream \in Streams
    BY <2>1
  <2> QED BY <2>2 DEF OneClientInv, RequestInv, DownInv
<1> QED BY <1>1, <1>2, <1>3 DEF OneClientInv

LEMMA TakenWasThere ==
    ASSUME IInv, control # << >>, control' = Tail(control), NEW s \in Streams,
           \A j \in Jobs : job'[j].stream = s => job[j].stream = s,
           cmd'.stream = s => cmd.stream = s \/ Head(control).stream = s
    PROVE  Touched(s)' => Touched(s)
<1>1. /\ Head(control) = control[1] /\ 1 \in DOMAIN control
      /\ \A i \in DOMAIN control' : i + 1 \in DOMAIN control /\ control'[i] = control[i + 1]
  BY HeadTail
<1> QED BY <1>1 DEF Touched, Live, Concerns

LEMMA CallbackStatus ==
    ASSUME Reliable, IInv, OneClientInv, Callback
    PROVE  OneClientInv'
<1>0. /\ UNCHANGED <<request, ingestor, last>>
      /\ "db" \notin Faults /\ TypeOK /\ NewInv
  BY DEF Reliable, OneClientInv, IInv, Callback, HandleStart, ResolveSucceeds, ResolveFails,
         Insert, Started, HandleStop
<1>1. ASSUME HandleStart PROVE OneClientInv'
  <2>1. /\ UNCHANGED <<db, job>> /\ cmd = IdleCmd /\ control # << >> /\ control' = Tail(control)
        /\ cmd' = cmd \/ cmd'.stream = Head(control).stream
    BY <1>1 DEF HandleStart, Receive, CmdGoto
  <2>2. NewInv'
    BY <1>0, <2>1 DEF NewInv
  <2>3. \A s \in Streams : Touched(s)' => Touched(s)
    BY <2>1, TakenWasThere
  <2>4. \A s \in Streams : Going(s)' => Going(s)
    BY <2>1, SameJobs
  <2> QED BY <1>0, <2>1, <2>2, <2>3, <2>4, ManagerStatus
<1>2. ASSUME ResolveSucceeds PROVE OneClientInv'
  <2>1. /\ UNCHANGED <<db, job, control>> /\ cmd.pc = "resolve" /\ cmd'.stream = cmd.stream
    BY <1>2 DEF ResolveSucceeds, CmdGoto
  <2>2. NewInv'
    BY <1>0, <2>1 DEF NewInv
  <2>3. \A s \in Streams : Touched(s)' => Touched(s)
    BY <2>1 DEF Touched, Live, Concerns
  <2>4. \A s \in Streams : Going(s)' => Going(s)
    BY <2>1, SameJobs
  <2> QED BY <1>0, <2>1, <2>2, <2>3, <2>4, ManagerStatus
<1>3. ASSUME ResolveFails PROVE OneClientInv'
  <2>1. /\ UNCHANGED <<job, control>> /\ cmd.pc = "resolve" /\ cmd' = IdleCmd
        /\ cmd.stream \in Streams /\ db' = Stored(cmd.stream, "error")
    BY <1>0, <1>3 DEF ResolveFails, UpdateStatus, TypeOK
  <2>2. NewInv'
    BY <1>0, <2>1 DEF NewInv
  <2>3. \A s \in Streams : Touched(s)' => Touched(s)
    BY <2>1 DEF Touched, Live, Concerns
  <2>4. \A s \in Streams : Going(s)' => Going(s)
    BY <2>1, SameJobs
  <2>5. ~ Going(cmd.stream)
    BY <2>1 DEF IInv, CallbackInv, Registration, ExtractionIsRegistered, Going, Extracting, Live
  <2>6. \A s \in Streams : /\ s # cmd.stream => db'[s] = db[s]
                           /\ db'[s] = "absent" => db[s] = "absent"
    BY <1>0, <2>1 DEF TypeOK, Stored
  <2> QED BY <1>0, <2>2, <2>3, <2>4, <2>5, <2>6, ManagerStatus
<1>4. ASSUME Insert PROVE OneClientInv'
  <2>1. PICK j \in Jobs :
           /\ job[j] = IdleJob
           /\ job' = [job EXCEPT ![j] = [pc |-> "new", stream |-> cmd.stream, attempt |-> 0,
                                         cancelled |-> ingestor = "stopping"]]
           /\ cmd' = [pc |-> "started", stream |-> cmd.stream, job |-> j]
    BY <1>4 DEF Insert, CmdGoto
  <2>2. /\ UNCHANGED <<db, control>> /\ cmd.pc = "insert"
    BY <1>4 DEF Insert
  <2>3. /\ job'[j].pc = "new" /\ job'[j].stream = cmd.stream
        /\ \A k \in Jobs : k # j => job'[k] = job[k]
    BY <1>0, <2>1 DEF TypeOK
  <2>4. NewInv'
    BY <1>0, <2>1, <2>2, <2>3 DEF NewInv
  <2>5. \A s \in Streams : Touched(s)' => Touched(s)
    BY <2>1, <2>2, <2>3 DEF Touched, Live, Concerns
  <2>6. \A s \in Streams : Going(s)' => Going(s)
    BY <2>3 DEF Going, Extracting, Live
  <2> QED BY <1>0, <2>2, <2>4, <2>5, <2>6, ManagerStatus
<1>5. ASSUME Started PROVE OneClientInv'
  <2>1. /\ cmd.stream \in Streams /\ cmd.job \in Jobs /\ cmd' = IdleCmd /\ control' = control
        /\ job[cmd.job].pc = "new" /\ job[cmd.job].stream = cmd.stream
        /\ db' = Stored(cmd.stream, "running")
        /\ job' = [job EXCEPT ![cmd.job].pc = "extract"]
    BY <1>0, <1>5 DEF TypeOK, IInv, CallbackInv, Started, UpdateStatus
  <2>2. /\ job'[cmd.job].pc = "extract" /\ job'[cmd.job].stream = cmd.stream
        /\ \A k \in Jobs : k # cmd.job => job'[k] = job[k]
    BY <1>0, <2>1 DEF TypeOK
  <2>3. \A s \in Streams : /\ s # cmd.stream => db'[s] = db[s]
                           /\ db'[s] = "absent" => db[s] = "absent"
                           /\ db'[cmd.stream] \notin {"stopped", "error"}
    BY <1>0, <2>1 DEF TypeOK, Stored
  <2>4. NewInv'
    BY <1>0, <2>1, <2>2 DEF NewInv
  <2>5. \A s \in Streams : Touched(s)' => Touched(s)
    BY <2>1, <2>2 DEF Touched, Live, Concerns
  <2>6. \A s \in Streams : s # cmd.stream /\ Going(s)' => Going(s)
    BY <2>1, <2>2 DEF Going, Extracting, Live
  <2> QED BY <1>0, <2>3, <2>4, <2>5, <2>6, ManagerStatus
<1>6. ASSUME HandleStop PROVE OneClientInv'
  <2>1. /\ UNCHANGED <<db, cmd>> /\ cmd = IdleCmd /\ control # << >> /\ control' = Tail(control)
    BY <1>6 DEF HandleStop, Receive
  <2>2. \A j \in Jobs : /\ job'[j].pc = job[j].pc /\ job'[j].stream = job[j].stream
                        /\ ~ job'[j].cancelled => ~ job[j].cancelled
    BY <1>0, <1>6 DEF TypeOK, HandleStop
  <2>3. NewInv'
    BY <1>0, <2>1, <2>2 DEF NewInv
  <2>4. \A s \in Streams : Touched(s)' => Touched(s)
    BY <2>1, <2>2, TakenWasThere
  <2>5. \A s \in Streams : Going(s)' => Going(s)
    BY <2>2 DEF Going, Extracting, Live
  <2> QED BY <1>0, <2>1, <2>3, <2>4, <2>5, ManagerStatus
<1> QED BY <1>1, <1>2, <1>3, <1>4, <1>5, <1>6 DEF Callback

LEMMA JobStatus ==
    ASSUME Reliable, IInv, OneClientInv, NEW j \in Jobs, Job(j)
    PROVE  OneClientInv'
<1>0. /\ UNCHANGED <<request, ingestor, last, cmd, control>>
      /\ "db" \notin Faults /\ TypeOK /\ NewInv
      /\ job \in [Jobs -> {IdleJob} \cup JobRecord]
  BY DEF Reliable, OneClientInv, IInv, TypeOK, JobRecord, Job, Unwind, ExtractionEnds,
         ExtractionFails, ExtractionCancelled, BackoffCancelled, BackoffExpires,
         ReresolveSucceeds, ReresolveFails, WriteFinalStatus, Cleanup, JobOnly
<1>1. ASSUME \/ ExtractionEnds(j) \/ ExtractionFails(j) \/ ExtractionCancelled(j)
             \/ BackoffCancelled(j) \/ BackoffExpires(j)
             \/ ReresolveSucceeds(j) \/ ReresolveFails(j)
      PROVE  OneClientInv'
  <2>1. /\ db' = db /\ \A k \in Jobs : k # j => job'[k] = job[k]
        /\ job[j].pc \in {"extract", "backoff", "resolve"} /\ job'[j].pc # "new"
        /\ job'[j].stream = job[j].stream /\ job'[j].cancelled = job[j].cancelled
    BY <1>0, <1>1 DEF ExtractionEnds, ExtractionFails, ExtractionCancelled, BackoffCancelled,
       BackoffExpires, ReresolveSucceeds, ReresolveFails, NextAttempt, JobGoto, JobOnly,
       AtJob, JobRecord
  <2>2. NewInv'
    BY <1>0, <2>1 DEF NewInv
  <2>3. \A s \in Streams : Touched(s)' => Touched(s)
    BY <1>0, <2>1 DEF Touched, Live, Concerns
  <2>4. \A s \in Streams : Going(s)' => Going(s)
    BY <2>1 DEF Going, Extracting, Live
  <2> QED BY <1>0, <2>1, <2>2, <2>3, <2>4, ManagerStatus
<1>2. ASSUME WriteFinalStatus(j) PROVE OneClientInv'
  <2> DEFINE s == job[j].stream
  <2>1. /\ s \in Streams /\ \E st \in {"stopped", "error"} : db' = Stored(s, st)
        /\ \A k \in Jobs : k # j => job'[k] = job[k]
        /\ job'[j].pc = "cleanup" /\ job'[j].stream = s
    BY <1>0, <1>2 DEF WriteFinalStatus, UpdateStatus, JobGoto, AtJob, JobRecord
  <2>2. \A t \in Streams : /\ t # s => db'[t] = db[t]
                           /\ db'[t] = "absent" => db[t] = "absent"
    BY <1>0, <2>1 DEF TypeOK, Stored
  <2>3. \A k \in Jobs : k # j => job[k].stream # s
    BY <2>1 DEF IInv, Registration, ExtractionIsRegistered, Live
  <2> HIDE DEF s
  <2>4. NewInv'
    BY <1>0, <2>1 DEF NewInv
  <2>5. \A t \in Streams : Touched(t)' => Touched(t)
    <3>1. \A k \in Jobs : job'[k].stream = job[k].stream
      BY <2>1 DEF s
    <3> QED BY <1>0, <3>1 DEF Touched, Live, Concerns
  <2>6. \A t \in Streams : Going(t)' => Going(t)
    BY <2>1 DEF Going, Extracting, Live
  <2>7. \A t \in Streams : Going(t)' => t # s
    BY <2>1, <2>3 DEF Going, Extracting, Live
  <2> QED BY <1>0, <2>2, <2>4, <2>5, <2>6, <2>7, ManagerStatus
<1>3. ASSUME Cleanup(j) PROVE OneClientInv'
  <2>1. /\ db' = db /\ job'[j] = IdleJob
        /\ \A k \in Jobs : k # j => job'[k] = job[k]
    BY <1>0, <1>3 DEF Cleanup
  <2>2. NewInv'
    BY <1>0, <2>1 DEF NewInv
  <2>3. \A s \in Streams : Touched(s)' => Touched(s)
    BY <1>0, <2>1 DEF Touched, Live, Concerns
  <2>4. \A s \in Streams : Going(s)' => Going(s)
    BY <2>1 DEF Going, Extracting, Live
  <2> QED BY <1>0, <2>1, <2>2, <2>3, <2>4, ManagerStatus
<1> QED BY <1>1, <1>2, <1>3 DEF Job, Unwind

(* The ingestor's memory only shrinks when a process goes down or comes up.  *)
LEMMA ProcessStatus ==
    ASSUME Reliable, IInv, OneClientInv, Process \/ UNCHANGED vars
    PROVE  OneClientInv'
<1>1. /\ UNCHANGED <<db, last>>
      /\ request' = request \/ request' = [h \in Handlers |-> IdleRequest]
  BY DEF Process, Shutdown, Exit, Restart, ApiCrash, ingestorVars, vars
<1>2. /\ \A s \in Streams : (Going(s)' => Going(s)) /\ (Touched(s)' => Touched(s))
      /\ NewInv' /\ DownInv'
  <2>1. CASE Shutdown
    <3>1. /\ ingestor' = "stopping" /\ UNCHANGED <<control, cmd>>
          /\ \A j \in Jobs : /\ job'[j].pc = job[j].pc /\ job'[j].stream = job[j].stream
                             /\ job[j].cancelled => job'[j].cancelled
      BY <2>1 DEF Shutdown, IInv, TypeOK, JobRecord
    <3>2. \A s \in Streams : Going(s)' => Going(s)
      BY <3>1 DEF Going, Extracting, Live
    <3>3. \A s \in Streams : Touched(s)' => Touched(s)
      BY <3>1 DEF Touched, Live, Concerns
    <3> QED BY <3>1, <3>2, <3>3 DEF OneClientInv, NewInv, DownInv
  <2>2. CASE Exit
    <3>1. control' = << >> /\ cmd' = IdleCmd /\ \A j \in Jobs : job'[j] = IdleJob
      BY <2>2 DEF Exit
    <3>2. \A s \in Streams : ~ Touched(s)' /\ ~ Going(s)'
      BY <3>1 DEF Touched, Going, Extracting, Live, Concerns
    <3> QED BY <3>1, <3>2 DEF NewInv, DownInv
  <2>3. CASE Restart \/ ApiCrash \/ UNCHANGED vars
    <3>1. /\ UNCHANGED <<control, cmd, job>>
          /\ ingestor' = ingestor \/ ingestor' = "up"
      BY <2>3 DEF Restart, ApiCrash, ingestorVars, vars
    <3>2. \A s \in Streams : (Going(s)' <=> Going(s)) /\ (Touched(s)' <=> Touched(s))
      BY <3>1, SameJobs
    <3> QED BY <3>1, <3>2 DEF OneClientInv, NewInv, DownInv
  <2> QED BY <2>1, <2>2, <2>3 DEF Process
<1>3. \A h \in Handlers : request'[h] = request[h] \/ request'[h] = IdleRequest
  BY <1>1
<1>4. AbsentInv'
  <2>1. \A h \in Handlers, s \in Streams : request'[h].stream = s => request'[h] = request[h]
    BY <1>3
  <2> QED BY <1>1, <1>2, <2>1, AbsentFrame DEF OneClientInv
<1>5. StatusInv'
  <2>1. \A h \in Handlers : request'[h].pc = "startPublish" => request'[h] = request[h]
    BY <1>3
  <2> QED BY <1>1, <1>2, <2>1, StatusFrame DEF OneClientInv
<1>6. RequestInv'
  <2>1. request \in [Handlers -> {IdleRequest} \cup [pc : RequestPc, stream : Streams]]
    BY DEF IInv, TypeOK
  <2>2. \A h \in Handlers : request[h].pc = "stopMark" => request[h].stream \in Streams
    BY <2>1
  <2> QED BY <1>1, <1>2, <1>3, <2>2 DEF OneClientInv, RequestInv
<1> QED BY <1>2, <1>4, <1>5, <1>6 DEF OneClientInv

(* With one request at a time, and commands and statements that get through  *)
(* to processes that are up, a settled stream whose row says that it is not  *)
(* extracted is not extracted (streams.go:84-168, manager.go:69-225), for any*)
(* number of streams, crashes and restarts.                                  *)
THEOREM StatusTrue ==
    ASSUME Sequential, Reliable
    PROVE  Spec => []TerminalStatusIsTrue
<1>1. Init => OneClientInv
  <2> SUFFICES ASSUME Init PROVE OneClientInv
    OBVIOUS
  <2>1. /\ ingestor = "up" /\ control = << >> /\ cmd = IdleCmd
        /\ \A j \in Jobs : job[j] = IdleJob
        /\ \A h \in Handlers : request[h] = IdleRequest
    BY DEF Init
  <2>2. NewInv /\ RequestInv /\ DownInv
    BY <2>1 DEF NewInv, RequestInv, DownInv
  <2>3. AbsentInv
    BY <2>1 DEF AbsentInv, Touched, Live, Concerns
  <2>4. StatusInv
    BY <2>1 DEF StatusInv, Going, Extracting, Live
  <2> QED BY <2>1, <2>2, <2>3, <2>4 DEF OneClientInv
<1>2. IInv /\ OneClientInv /\ [Next]_vars => OneClientInv'
  BY CreateStatus, RequestStatus, CallbackStatus, JobStatus, ProcessStatus DEF Next
<1>3. IInv /\ OneClientInv => TerminalStatusIsTrue
  <2> SUFFICES ASSUME IInv, OneClientInv, NEW s \in Streams, NEW j \in Jobs,
                      db[s] \in {"stopped", "error"}, Settled(s), Extracting(j, s)
               PROVE  FALSE
    BY DEF TerminalStatusIsTrue
  <2>1. CASE job[j].pc = "new"
    <3>1. cmd.pc = "started" /\ cmd.job = j
      BY <2>1 DEF OneClientInv, NewInv
    <3>2. cmd.stream = s
      BY <3>1 DEF IInv, CallbackInv, Extracting, Live
    <3> QED BY <3>2 DEF Settled
  <2>2. CASE job[j].pc # "new"
    <3>1. last[s] = "stop"
      BY <2>2 DEF OneClientInv, StatusInv, Going
    <3>2. PICK k \in DOMAIN control : control[k] = StopOf(s)
      BY <3>1 DEF IInv, StopPending
    <3> QED BY <3>2 DEF Settled, Concerns, StopOf
  <2> QED BY <2>1, <2>2
<1> QED BY <1>1, <1>2, <1>3, Inductive, PTL DEF Spec

=============================================================================
