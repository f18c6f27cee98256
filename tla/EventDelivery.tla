---------------------------- MODULE EventDelivery ----------------------------
(* From the worker's PublishEvent to the events table and the WebSocket hub: *)
(* the JetStream stream EVENTS with the durable consumer "api-events", the   *)
(* loop of ConsumeEvents (internal/queue/consumer.go:199-248) and the handler*)
(* that cmd/api/main.go:90-143 gives it. One goroutine fetches a batch and   *)
(* handles its messages in turn: insert a row, broadcast, return nil, ack.   *)
(*                                                                           *)
(* The server's side is external: interest retention keeps nothing before    *)
(* the consumer exists, then everything until it is acked; what was not acked*)
(* in AckWait or was nak'ed is delivered again, MaxDeliver times at most.    *)
(* Events are numbered in the order of PublishEvent; a copy is one delivery  *)
(* of one event and stands for the row id that CreateEvent makes for it.     *)
EXTENDS Integers, Sequences, FiniteSets

CONSTANTS
    NumEvents,   \* bound: events published
    Suspects,    \* events whose message json.Unmarshal may refuse
    StreamOf,    \* DetectionResult.StreamID
    BatchSize,   \* 10 in the code
    MaxDeliver,  \* 3 in the code
    MaxStarts,   \* bound: times the API process is started
    Mortal,      \* bound: events that MaxAge (24 hours) may remove
    DbMayFail    \* whether an insert may fail for a reason of its own

Events == 1 .. NumEvents

ASSUME EventDeliveryAssumption ==
    /\ NumEvents \in Nat
    /\ Suspects \subseteq Events
    /\ DOMAIN StreamOf = Events
    /\ BatchSize \in Nat \ {0}
    /\ MaxDeliver \in Nat \ {0}
    /\ MaxStarts \in Nat
    /\ Mortal \subseteq Events
    /\ DbMayFail \in BOOLEAN

VARIABLES
    consumer,   \* the durable consumer exists on the server
    published,  \* calls of PublishEvent so far
    stored,     \* events the stream holds
    delivered,  \* deliveries of each event
    unacked,    \* events the server waits for an ack of
    phase,      \* the API: "up", "closing" once ctx is cancelled, "down"
    starts,
    loop,       \* the goroutine of ConsumeEvents runs
    deaf,       \* ConsumeEvents failed at the start: main only warned
    want,       \* messages the open pull request may still get, 0: none open
    batch,      \* batch.Messages(): copies fetched, not yet handled
    copy,       \* the copy in the handler, NoCopy: none
    step,       \* where the handler is
    unreadable, \* those it does refuse
    streams,    \* the streams that have not been deleted
    rows,       \* the table events, by copy
    announced,  \* history: the copies given to hub.BroadcastEvent, in order
    unsaved,    \* history: copies whose insert failed
    unsent,     \* history: events whose publish failed
    early,      \* history: events published while there was no consumer
    timedOut,   \* history: events for which AckWait ran out
    expired     \* history: events removed by MaxAge

serverVars  == <<consumer, published, stored, delivered, unacked>>
processVars == <<phase, starts, loop, deaf>>
fetchVars   == <<want, batch>>
handlerVars == <<copy, step>>
dataVars    == <<unreadable, streams, rows>>
historyVars == <<announced, unsaved, unsent, early, timedOut, expired>>
vars == <<serverVars, processVars, fetchVars, handlerVars, dataVars, historyVars>>

AllStreams == {StreamOf[e] : e \in Events}

Copies == [event : Events, delivery : 1 .. MaxDeliver]
NoCopy == [event |-> 0, delivery |-> 0]

TypeOK ==
    /\ consumer \in BOOLEAN
    /\ published \in 0 .. NumEvents
    /\ stored \in SUBSET (1 .. published)
    /\ delivered \in [Events -> 0 .. MaxDeliver]
    /\ unacked \in SUBSET stored
    /\ phase \in {"up", "closing", "down"}
    /\ starts \in 0 .. MaxStarts
    /\ loop \in BOOLEAN /\ deaf \in BOOLEAN /\ (deaf => ~loop)
    /\ want \in 0 .. BatchSize
    /\ batch \in Seq(Copies) /\ Len(batch) + want <= BatchSize
    /\ step \in {"idle", "store", "broadcast", "answer", "refuse"}
    /\ copy \in Copies \cup {NoCopy} /\ (copy = NoCopy <=> step = "idle")
    /\ unreadable \in SUBSET Suspects
    /\ streams \in SUBSET AllStreams
    /\ rows \in SUBSET Copies
    /\ announced \in Seq(Copies)
    /\ unsaved \in SUBSET Copies
    /\ unsent \in SUBSET Events /\ early \in SUBSET Events
    /\ timedOut \in SUBSET Events /\ expired \in SUBSET Events

Init ==
    /\ consumer = FALSE
    /\ published = 0 /\ stored = {} /\ unacked = {}
    /\ delivered = [e \in Events |-> 0]
    /\ phase = "down" /\ starts = 0 /\ loop = FALSE /\ deaf = FALSE
    /\ want = 0 /\ batch = << >>
    /\ copy = NoCopy /\ step = "idle"
    /\ unreadable \in SUBSET Suspects
    /\ streams = AllStreams
    /\ rows = {} /\ announced = << >> /\ unsaved = {}
    /\ unsent = {} /\ early = {} /\ timedOut = {} /\ expired = {}

-----------------------------------------------------------------------------
(* The worker publishes an event. An error is only logged (pipeline.go:279); *)
(* the server accepts a message nobody is interested in, and drops it.       *)
PublishEvent ==
    /\ published < NumEvents
    /\ published' = published + 1
    /\ LET e == published + 1
       IN  \/ unsent' = unsent \cup {e} /\ UNCHANGED <<stored, early>>
           \/ IF consumer
                THEN stored' = stored \cup {e} /\ UNCHANGED <<unsent, early>>
                ELSE early' = early \cup {e} /\ UNCHANGED <<stored, unsent>>
    /\ UNCHANGED <<consumer, delivered, unacked, processVars, fetchVars, handlerVars,
                   dataVars, announced, unsaved, timedOut, expired>>

(* The server.                                                               *)

Available(e) == e \in stored \ unacked /\ delivered[e] < MaxDeliver

(* Redeliveries in any order, new events in theirs.                          *)
Deliver(e) ==
    /\ want > 0
    /\ Available(e)
    /\ delivered[e] = 0 => \A g \in stored : g < e => delivered[g] > 0
    /\ want' = want - 1
    /\ delivered' = [delivered EXCEPT ![e] = @ + 1]
    /\ unacked' = unacked \cup {e}
    /\ batch' = Append(batch, [event |-> e, delivery |-> delivered[e] + 1])
    /\ UNCHANGED <<consumer, published, stored, processVars, handlerVars, dataVars,
                   historyVars>>

AckWaitExpires(e) ==
    /\ e \in unacked
    /\ unacked' = unacked \ {e}
    /\ timedOut' = timedOut \cup {e}
    /\ UNCHANGED <<consumer, published, stored, delivered, processVars, fetchVars,
                   handlerVars, dataVars, announced, unsaved, unsent, early, expired>>

Expire(e) ==
    /\ e \in Mortal \cap stored
    /\ stored' = stored \ {e}
    /\ unacked' = unacked \ {e}
    /\ expired' = expired \cup {e}
    /\ UNCHANGED <<consumer, published, delivered, processVars, fetchVars, handlerVars,
                   dataVars, announced, unsaved, unsent, early, timedOut>>

-----------------------------------------------------------------------------
(* The loop of ConsumeEvents.                                                *)

Idle == want = 0 /\ batch = << >> /\ step = "idle"

(* Mutant: the next pull request goes out while a batch is being handled.    *)
FetchAhead ==
    /\ loop /\ phase = "up"
    /\ want = 0
    /\ want' = BatchSize
    /\ UNCHANGED <<serverVars, processVars, batch, handlerVars, dataVars, historyVars>>

Fetch ==
    /\ loop /\ phase = "up"
    /\ Idle
    /\ want' = BatchSize
    /\ UNCHANGED <<serverVars, processVars, batch, handlerVars, dataVars, historyVars>>

(* Mutant: a fetch that brought nothing ends the goroutine.                  *)
FetchEndsOrReturns ==
    /\ want > 0
    /\ want' = 0
    /\ loop' = (batch # << >> \/ step # "idle")
    /\ UNCHANGED <<serverVars, phase, starts, deaf, batch, handlerVars, dataVars, historyVars>>

(* FetchMaxWait is over or the fetch failed: no more messages in this batch. *)
FetchEnds ==
    /\ want > 0
    /\ want' = 0
    /\ UNCHANGED <<serverVars, processVars, batch, handlerVars, dataVars, historyVars>>

(* ctx.Done is looked at between two batches only.                           *)
LoopReturns ==
    /\ loop /\ phase = "closing"
    /\ Idle
    /\ loop' = FALSE
    /\ UNCHANGED <<serverVars, phase, starts, deaf, fetchVars, handlerVars, dataVars, historyVars>>

(* Mutant: clients are told before the row is written.                       *)
OrderSwapped == <<"broadcast", "store", "answer">>

(* What the handler does with an event, in this order; "answer" is its end.  *)
Order == <<"store", "broadcast", "answer">>

FirstStep(c) == IF c.event \in unreadable THEN "refuse" ELSE Order[1]

NextStep == IF step = Order[1] THEN Order[2] ELSE Order[3]

(* Mutant: the message is acked when it is received.                         *)
TakeAndAck ==
    /\ step = "idle"
    /\ batch # << >>
    /\ copy' = Head(batch)
    /\ step' = FirstStep(Head(batch))
    /\ batch' = Tail(batch)
    /\ stored' = stored \ {Head(batch).event}
    /\ unacked' = unacked \ {Head(batch).event}
    /\ UNCHANGED <<consumer, published, delivered, processVars, want, dataVars, historyVars>>

(* Mutant: the messages of a batch are handled in no order.                  *)
TakeAny ==
    /\ step = "idle"
    /\ \E i \in DOMAIN batch :
          /\ copy' = batch[i]
          /\ step' = FirstStep(batch[i])
          /\ batch' = SubSeq(batch, 1, i - 1) \o SubSeq(batch, i + 1, Len(batch))
    /\ UNCHANGED <<serverVars, processVars, want, dataVars, historyVars>>

(* The handler is called with the next message and unmarshals it.            *)
Take ==
    /\ step = "idle"
    /\ batch # << >>
    /\ copy' = Head(batch)
    /\ step' = FirstStep(Head(batch))
    /\ batch' = Tail(batch)
    /\ UNCHANGED <<serverVars, processVars, want, dataVars, historyVars>>

(* CreateEvent. It fails when the event's stream is gone (a foreign key),    *)
(* when ctx has been cancelled (unless the statement got through before) and *)
(* when the database does; the error is logged and the handler goes on.      *)
Store(ok) ==
    /\ step = "store"
    /\ IF ok THEN StreamOf[copy.event] \in streams
       ELSE DbMayFail \/ phase = "closing" \/ StreamOf[copy.event] \notin streams
    /\ rows' = IF ok THEN rows \cup {copy} ELSE rows
    /\ unsaved' = IF ok THEN unsaved ELSE unsaved \cup {copy}
    /\ step' = NextStep
    /\ UNCHANGED <<serverVars, processVars, fetchVars, copy, unreadable, streams,
                   announced, unsent, early, timedOut, expired>>

(* hub.BroadcastEvent returns; it may have waited for room first.            *)
Broadcast ==
    /\ step = "broadcast"
    /\ announced' = Append(announced, copy)
    /\ step' = NextStep
    /\ UNCHANGED <<serverVars, processVars, fetchVars, copy, dataVars, unsaved,
                   unsent, early, timedOut, expired>>

(* Mutant: a nak whatever the handler returned.                              *)
AnswerNaks(arrives) ==
    /\ step \in {"answer", "refuse"}
    /\ copy' = NoCopy /\ step' = "idle"
    /\ unacked' = IF arrives THEN unacked \ {copy.event} ELSE unacked
    /\ UNCHANGED <<consumer, published, stored, delivered, processVars, fetchVars,
                   dataVars, historyVars>>

(* Ack for nil, Nak for the error of json.Unmarshal; neither's own error is  *)
(* looked at, so it may never arrive.                                        *)
Answer(arrives) ==
    /\ step \in {"answer", "refuse"}
    /\ copy' = NoCopy /\ step' = "idle"
    /\ unacked' = IF arrives THEN unacked \ {copy.event} ELSE unacked
    /\ stored' = IF arrives /\ step = "answer" THEN stored \ {copy.event} ELSE stored
    /\ UNCHANGED <<consumer, published, delivered, processVars, fetchVars, dataVars,
                   historyVars>>

-----------------------------------------------------------------------------
(* The API's DeleteStream: the events of the stream go with its row.         *)
DeleteStream(s) ==
    /\ phase # "down"
    /\ s \in streams
    /\ streams' = streams \ {s}
    /\ rows' = {c \in rows : StreamOf[c.event] # s}
    /\ UNCHANGED <<serverVars, processVars, fetchVars, handlerVars, unreadable,
                   historyVars>>

(* cmd/api/main.go. CreateOrUpdateConsumer may fail, with or without having  *)
(* made the consumer: main warns and serves without the loop.                *)
Start ==
    /\ phase = "down"
    /\ starts < MaxStarts
    /\ phase' = "up"
    /\ starts' = starts + 1
    /\ loop' \in BOOLEAN
    /\ consumer' \in {consumer, TRUE}
    /\ loop' => consumer'
    /\ deaf' = ~loop'
    /\ UNCHANGED <<published, stored, delivered, unacked, fetchVars, handlerVars,
                   dataVars, historyVars>>

(* cancel(); srv.Shutdown follows.                                           *)
Shutdown ==
    /\ phase = "up"
    /\ starts < MaxStarts
    /\ phase' = "closing"
    /\ UNCHANGED <<serverVars, starts, loop, deaf, fetchVars, handlerVars, dataVars, historyVars>>

(* main returns, whatever the loop is doing, or the process crashes.         *)
Exit ==
    /\ \/ phase = "up" /\ starts < MaxStarts
       \/ phase = "closing"
    /\ phase' = "down"
    /\ loop' = FALSE /\ deaf' = FALSE
    /\ want' = 0 /\ batch' = << >>
    /\ copy' = NoCopy /\ step' = "idle"
    /\ UNCHANGED <<serverVars, starts, dataVars, historyVars>>

-----------------------------------------------------------------------------
Loop == Fetch \/ FetchEnds \/ LoopReturns \/ Take

Handler == (\E ok \in BOOLEAN : Store(ok)) \/ Broadcast \/ (\E arrives \in BOOLEAN : Answer(arrives))

Next ==
    \/ PublishEvent
    \/ \E e \in Events : Deliver(e) \/ AckWaitExpires(e) \/ Expire(e)
    \/ Loop \/ Handler
    \/ \E s \in AllStreams : DeleteStream(s)
    \/ Start \/ Shutdown \/ Exit

Spec == Init /\ [][Next]_vars

(* The server answers a pull request that is repeated often enough and       *)
(* notices what AckWait is for; the loop and the handler go on, and the API  *)
(* is started again after it went down.                                      *)
FairSpec ==
    /\ Spec
    /\ SF_vars(\E e \in Events : Deliver(e))
    /\ \A e \in Events : WF_vars(AckWaitExpires(e))
    /\ WF_vars(Loop)
    /\ WF_vars(Handler)
    /\ WF_vars(phase = "closing" /\ Exit)
    /\ WF_vars(Start)

-----------------------------------------------------------------------------
(* Properties.                                                               *)

Announced(e) == \E i \in DOMAIN announced : announced[i].event = e

(* A published event is in the stream until clients were told of it: no      *)
(* shutdown, crash or lost ack between delivery and ack loses it, and a      *)
(* restart finds what came in the meantime (consumer.go:232-238). It is lost *)
(* only before the consumer first existed, by its publish, or by its age.    *)
AckedWasAnnounced ==
    \A e \in 1 .. published :
        \/ e \in stored
        \/ Announced(e)
        \/ e \in unsent \cup early \cup expired

(* The id that clients are told, and its snapshot link, are those of a row   *)
(* of the table, except where that very insert failed or the stream with its *)
(* rows has been deleted since (main.go:112-139).                            *)
AnnouncedIsStored ==
    \A i \in DOMAIN announced :
        \/ announced[i] \in rows \cup unsaved
        \/ StreamOf[announced[i].event] \notin streams

(* The same detection gets a second row, with another id, only after an      *)
(* AckWait ran out: never by a batch, a nak or a restart alone.              *)
DuplicateRowsNeedTimeout ==
    \A a, b \in rows : a.event = b.event /\ a # b => a.event \in timedOut

(* Clients hear of events in the order the worker published them, as far as  *)
(* these needed one delivery only.                                           *)
FirstDeliveriesInOrder ==
    \A i, j \in DOMAIN announced :
        LET a == announced[i]  b == announced[j]
        IN  i < j /\ delivered[a.event] = 1 /\ delivered[b.event] = 1
              => a.event < b.event

(* No event waits in the stream for ever: it is acked, expires or has had    *)
(* its MaxDeliver deliveries, also behind one that json.Unmarshal refuses    *)
(* again and again, unless the API runs without its loop.                    *)
EventSettles ==
    \A e \in Events : e \in stored ~>
        (e \notin stored \/ delivered[e] = MaxDeliver \/ deaf)
=============================================================================
