----------------------------- MODULE FrameQueue -----------------------------
(* The frame queue between ingestor and worker: the JetStream stream FRAMES  *)
(* with its durable consumer "vision-workers", and ConsumeFramesWithIndex,   *)
(* internal/queue/consumer.go:114-196, which fetches batches, deals them     *)
(* round-robin to one buffered channel per worker goroutine, and acks or naks*)
(* when the handler returns.                                                 *)
(*                                                                           *)
(* The server's side is external: it redelivers what was not acked within    *)
(* AckWait or was nak'ed, MaxDeliver times at most; an ack counts whichever  *)
(* delivery it answers. Frames are numbered in the order of PublishFrame.    *)
EXTENDS Integers, Sequences, FiniteSets

CONSTANTS
    WorkerCount,  \* vision.worker_count
    ChanCap,      \* capacity of a worker's channel: 2 in the code
    MaxDeliver,   \* 3 in the code
    NumFrames,    \* bound: frames published
    MaxRestarts,  \* bound: times the worker process is started again
    Mortal        \* bound: frames that MaxAge (five minutes) may remove

ASSUME FrameQueueAssumption ==
    /\ WorkerCount \in Nat \ {0}
    /\ ChanCap \in Nat \ {0}
    /\ MaxDeliver \in Nat \ {0}
    /\ NumFrames \in Nat
    /\ MaxRestarts \in Nat
    /\ Mortal \in SUBSET (1 .. NumFrames)

VARIABLES
    published,  \* frames published so far
    stored,     \* frames the stream holds
    delivered,  \* deliveries of each frame
    unacked,    \* frames the server waits for an ack of
    want,       \* messages the open pull request may still get, 0: none open
    batch,      \* batch.Messages(): fetched, not yet dispatched
    idx,        \* idx % workerCount
    channels,   \* channels[w]
    busy,       \* the frame in worker w's handler, 0: none
    open,       \* the fetch loop runs; afterwards the channels are closed
    phase,      \* the process: "up", "closing" once ctx is cancelled, "down"
    restarts,
    succeeded, failed,  \* history: handler calls that returned nil, an error
    lost,       \* history: deliveries that died with the process
    timedOut,   \* history: frames for which AckWait ran out
    expired     \* history: frames removed by MaxAge

serverVars  == <<published, stored, delivered, unacked>>
loopVars    == <<want, batch, idx>>
processVars == <<open, phase, restarts>>
historyVars == <<succeeded, failed, lost, timedOut, expired>>
vars == <<serverVars, loopVars, channels, busy, processVars, historyVars>>

Frames  == 1 .. NumFrames
Workers == 0 .. WorkerCount - 1

ServerTypeOK ==
    /\ published \in 0 .. NumFrames
    /\ stored \in SUBSET (1 .. published)
    /\ delivered \in [Frames -> 0 .. MaxDeliver]
    /\ unacked \in SUBSET stored

LoopTypeOK ==
    /\ want \in 0 .. WorkerCount
    /\ batch \in Seq(Frames) /\ Len(batch) + want <= WorkerCount
    /\ idx \in Workers

WorkerTypeOK ==
    /\ channels \in [Workers -> Seq(Frames)]
    /\ \A w \in Workers : Len(channels[w]) <= ChanCap
    /\ busy \in [Workers -> 0 .. NumFrames]

ProcessTypeOK ==
    /\ open \in BOOLEAN
    /\ phase \in {"up", "closing", "down"}
    /\ restarts \in 0 .. MaxRestarts

HistoryTypeOK ==
    /\ succeeded \in [Frames -> Nat] /\ failed \in [Frames -> Nat]
    /\ lost \in [Frames -> Nat]
    /\ timedOut \in SUBSET Frames /\ expired \in SUBSET Frames

TypeOK == ServerTypeOK /\ LoopTypeOK /\ WorkerTypeOK /\ ProcessTypeOK /\ HistoryTypeOK

Init ==
    /\ published = 0 /\ stored = {} /\ unacked = {}
    /\ delivered = [f \in Frames |-> 0]
    /\ want = 0 /\ batch = << >> /\ idx = 0
    /\ channels = [w \in Workers |-> << >>]
    /\ busy = [w \in Workers |-> 0]
    /\ open = TRUE /\ phase = "up" /\ restarts = 0
    /\ succeeded = [f \in Frames |-> 0] /\ failed = [f \in Frames |-> 0]
    /\ lost = [f \in Frames |-> 0]
    /\ timedOut = {} /\ expired = {}

Occurrences(s, f) == Cardinality({i \in DOMAIN s : s[i] = f})

(* The copies of a frame that the process holds.                             *)
Copies(f) ==
    Occurrences(batch, f)
      + Cardinality({p \in Workers \X (1 .. ChanCap) :
                       p[2] \in DOMAIN channels[p[1]] /\ channels[p[1]][p[2]] = f})
      + Cardinality({w \in Workers : busy[w] = f})

-----------------------------------------------------------------------------
(* The server.                                                               *)

PublishFrame ==
    /\ published < NumFrames
    /\ published' = published + 1
    /\ stored' = stored \cup {published + 1}
    /\ UNCHANGED <<delivered, unacked, loopVars, channels, busy, processVars, historyVars>>

Available(f) == f \in stored \ unacked /\ delivered[f] < MaxDeliver

(* A pull request gets redeliveries, in any order, and new frames in theirs. *)
(* What arrives after the loop has returned is never read.                   *)
Deliver(f) ==
    /\ want > 0
    /\ Available(f)
    /\ delivered[f] = 0 => \A g \in stored : g < f => delivered[g] > 0
    /\ want' = want - 1
    /\ delivered' = [delivered EXCEPT ![f] = @ + 1]
    /\ unacked' = unacked \cup {f}
    /\ IF open
         THEN batch' = Append(batch, f) /\ UNCHANGED lost
         ELSE lost' = [lost EXCEPT ![f] = @ + 1] /\ UNCHANGED batch
    /\ UNCHANGED <<published, stored, idx, channels, busy, processVars,
                   succeeded, failed, timedOut, expired>>

AckWaitExpires(f) ==
    /\ f \in unacked
    /\ unacked' = unacked \ {f}
    /\ timedOut' = timedOut \cup {f}
    /\ UNCHANGED <<published, stored, delivered, loopVars, channels, busy, processVars,
                   succeeded, failed, lost, expired>>

Expire(f) ==
    /\ f \in Mortal
    /\ f \in stored
    /\ stored' = stored \ {f}
    /\ unacked' = unacked \ {f}
    /\ expired' = expired \cup {f}
    /\ UNCHANGED <<published, delivered, loopVars, channels, busy, processVars,
                   succeeded, failed, lost, timedOut>>

-----------------------------------------------------------------------------
(* The fetch loop.                                                           *)

(* Top of the loop: a new pull request for workerCount messages.             *)
Fetch ==
    /\ open
    /\ phase = "up"
    /\ want = 0 /\ batch = << >>
    /\ want' = WorkerCount
    /\ UNCHANGED <<serverVars, batch, idx, channels, busy, processVars, historyVars>>

(* Mutant: return instead of continue after a fetch without a message.       *)
FetchTimeoutReturns ==
    /\ want > 0
    /\ want' = 0
    /\ open' = (open /\ batch # << >>)
    /\ UNCHANGED <<serverVars, batch, idx, channels, busy, phase, restarts, historyVars>>

(* FetchMaxWait is over, or the fetch failed: the batch ends here.           *)
FetchTimeout ==
    /\ want > 0
    /\ want' = 0
    /\ UNCHANGED <<serverVars, batch, idx, channels, busy, processVars, historyVars>>

(* Mutant: a select with a default branch, which skips a busy worker.        *)
DispatchOrDrop ==
    /\ open
    /\ batch # << >>
    /\ batch' = Tail(batch)
    /\ channels' = [channels EXCEPT ![idx] =
                      IF Len(@) < ChanCap THEN Append(@, Head(batch)) ELSE @]
    /\ idx' = (idx + 1) % WorkerCount
    /\ UNCHANGED <<serverVars, want, busy, processVars, historyVars>>

(* Mutant: one message more than the channel holds.                          *)
DispatchOffByOne ==
    /\ open
    /\ batch # << >>
    /\ Len(channels[idx]) <= ChanCap
    /\ channels' = [channels EXCEPT ![idx] = Append(@, Head(batch))]
    /\ batch' = Tail(batch)
    /\ idx' = (idx + 1) % WorkerCount
    /\ UNCHANGED <<serverVars, want, busy, processVars, historyVars>>

(* Waits for the worker whose turn it is, even when others are idle.         *)
Dispatch ==
    /\ open
    /\ batch # << >>
    /\ Len(channels[idx]) < ChanCap
    /\ channels' = [channels EXCEPT ![idx] = Append(@, Head(batch))]
    /\ batch' = Tail(batch)
    /\ idx' = (idx + 1) % WorkerCount
    /\ UNCHANGED <<serverVars, want, busy, processVars, historyVars>>

(* ctx.Done is seen at the top of the loop or while a message waits for its  *)
(* channel: the rest of the batch is dropped, the channels are closed.       *)
CloseChannels ==
    /\ open
    /\ phase = "closing"
    /\ batch # << >> \/ want = 0
    /\ open' = FALSE
    /\ batch' = << >>
    /\ lost' = [f \in Frames |-> lost[f] + Occurrences(batch, f)]
    /\ UNCHANGED <<serverVars, want, idx, channels, busy, phase, restarts,
                   succeeded, failed, timedOut, expired>>

-----------------------------------------------------------------------------
(* The worker goroutines.                                                    *)

(* Mutant: the message is acked before the handler is called.                *)
TakeAndAck(w) ==
    /\ phase # "down"
    /\ busy[w] = 0
    /\ channels[w] # << >>
    /\ busy' = [busy EXCEPT ![w] = Head(channels[w])]
    /\ channels' = [channels EXCEPT ![w] = Tail(@)]
    /\ stored' = stored \ {Head(channels[w])}
    /\ unacked' = unacked \ {Head(channels[w])}
    /\ UNCHANGED <<published, delivered, loopVars, processVars, historyVars>>

Take(w) ==
    /\ phase # "down"
    /\ busy[w] = 0
    /\ channels[w] # << >>
    /\ busy' = [busy EXCEPT ![w] = Head(channels[w])]
    /\ channels' = [channels EXCEPT ![w] = Tail(@)]
    /\ UNCHANGED <<serverVars, loopVars, processVars, historyVars>>

(* Mutant: a nak whatever the handler returned.                              *)
SucceedNaks(w, arrives) ==
    /\ busy[w] # 0
    /\ busy' = [busy EXCEPT ![w] = 0]
    /\ succeeded' = [succeeded EXCEPT ![busy[w]] = @ + 1]
    /\ unacked' = IF arrives THEN unacked \ {busy[w]} ELSE unacked
    /\ UNCHANGED <<published, stored, delivered, loopVars, channels, processVars,
                   failed, lost, timedOut, expired>>

(* The handler returns nil. Ack's error is ignored: it may not arrive.       *)
Succeed(w, arrives) ==
    /\ busy[w] # 0
    /\ busy' = [busy EXCEPT ![w] = 0]
    /\ succeeded' = [succeeded EXCEPT ![busy[w]] = @ + 1]
    /\ stored' = IF arrives THEN stored \ {busy[w]} ELSE stored
    /\ unacked' = IF arrives THEN unacked \ {busy[w]} ELSE unacked
    /\ UNCHANGED <<published, delivered, loopVars, channels, processVars,
                   failed, lost, timedOut, expired>>

(* The handler returns an error: Nak, which may not arrive either.           *)
Fail(w, arrives) ==
    /\ busy[w] # 0
    /\ busy' = [busy EXCEPT ![w] = 0]
    /\ failed' = [failed EXCEPT ![busy[w]] = @ + 1]
    /\ unacked' = IF arrives THEN unacked \ {busy[w]} ELSE unacked
    /\ UNCHANGED <<published, stored, delivered, loopVars, channels, processVars,
                   succeeded, lost, timedOut, expired>>

-----------------------------------------------------------------------------
(* The process, cmd/worker/main.go:166-174.                                  *)

Shutdown ==
    /\ phase = "up"
    /\ restarts < MaxRestarts
    /\ phase' = "closing"
    /\ UNCHANGED <<serverVars, loopVars, channels, busy, open, restarts, historyVars>>

(* A crash, or the end of the two seconds that main sleeps.                  *)
Exit ==
    /\ \/ phase = "up" /\ restarts < MaxRestarts
       \/ phase = "closing"
    /\ phase' = "down"
    /\ open' = FALSE
    /\ want' = 0 /\ batch' = << >> /\ idx' = 0
    /\ channels' = [w \in Workers |-> << >>]
    /\ busy' = [w \in Workers |-> 0]
    /\ lost' = [f \in Frames |-> lost[f] + Copies(f)]
    /\ UNCHANGED <<serverVars, restarts, succeeded, failed, timedOut, expired>>

Restart ==
    /\ phase = "down"
    /\ restarts < MaxRestarts
    /\ phase' = "up"
    /\ open' = TRUE
    /\ restarts' = restarts + 1
    /\ UNCHANGED <<serverVars, loopVars, channels, busy, historyVars>>

-----------------------------------------------------------------------------
Loop == Fetch \/ FetchTimeout \/ Dispatch \/ CloseChannels

Handler(w) == \E arrives \in BOOLEAN : Succeed(w, arrives) \/ Fail(w, arrives)

Next ==
    \/ PublishFrame
    \/ \E f \in Frames : Deliver(f) \/ AckWaitExpires(f) \/ Expire(f)
    \/ Loop
    \/ \E w \in Workers : Take(w) \/ Handler(w)
    \/ Shutdown \/ Exit \/ Restart

Spec == Init /\ [][Next]_vars

(* The server answers a pull request that is repeated often enough and       *)
(* notices what AckWait is for; the loop and the workers run, every handler  *)
(* returns, and a stopped worker is started again.                           *)
FairSpec ==
    /\ Spec
    /\ SF_vars(\E f \in Frames : Deliver(f))
    /\ \A f \in Frames : WF_vars(AckWaitExpires(f))
    /\ WF_vars(Loop)
    /\ \A w \in Workers : WF_vars(Take(w)) /\ WF_vars(Handler(w))
    /\ WF_vars(phase = "closing" /\ Exit)
    /\ WF_vars(Restart)

-----------------------------------------------------------------------------
(* Properties.                                                               *)

(* A frame leaves the stream by a handler that returned nil for it or by its *)
(* age, whatever crashes, shutdowns and lost acks come between delivery and  *)
(* ack (consumer.go:184-188).                                                *)
NothingLost ==
    \A f \in 1 .. published : f \in stored \/ succeeded[f] > 0 \/ f \in expired

(* Every delivery is in the process's hands, has been through a handler, or  *)
(* died with the process: none of the MaxDeliver chances of a frame is used  *)
(* up by the loop itself (consumer.go:166-176, 183-189).                     *)
DeliveriesAccounted ==
    \A f \in Frames : delivered[f] = Copies(f) + succeeded[f] + failed[f] + lost[f]

(* Two successful handler calls for one frame, and so its events twice, come *)
(* only from an AckWait that ran out: never from a nak, a batch or a restart *)
(* alone.                                                                    *)
DuplicatesNeedTimeout ==
    \A f \in Frames : succeeded[f] > 1 => f \in timedOut

(* No frame waits in the queue for ever: it is acked or has had its MaxDeliver*)
(* deliveries, although the loop blocks on one busy worker while others idle.*)
FrameSettles ==
    \A f \in Frames : f \in stored ~>
        (f \notin stored \/ delivered[f] = MaxDeliver)
=============================================================================
