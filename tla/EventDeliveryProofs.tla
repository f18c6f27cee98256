------------------------- MODULE EventDeliveryProofs -------------------------
(* What the way of an event to the table and to the clients guarantees, for  *)
(* any number of events, deliveries, batches and starts of the API.          *)
EXTENDS EventDelivery, TLAPS

(* What the handler knows of its event at each step.                         *)
HandlerInv ==
    /\ step = "refuse" => copy.event \in unreadable
    /\ step \in {"store", "broadcast", "answer"} => copy.event \notin unreadable
    /\ step = "broadcast" =>
          copy \in rows \cup unsaved \/ StreamOf[copy.event] \notin streams
    /\ step = "answer" => Announced(copy.event)

Known(c) == c.delivery <= delivered[c.event]

(* Every copy is one of a delivery that took place.                          *)
CopyInv ==
    /\ \A n \in DOMAIN batch : Known(batch[n])
    /\ copy # NoCopy => Known(copy)
    /\ \A c \in rows : Known(c) /\ c.event \notin unreadable
    /\ \A n \in DOMAIN announced : Known(announced[n])

(* The server does not deliver again for any other reason.                   *)
RedeliveryInv ==
    \A e \in Events :
        /\ delivered[e] >= 1 /\ e \in stored \ unacked => e \in timedOut \cup unreadable
        /\ delivered[e] >= 2 => e \in timedOut \cup unreadable

(* An event that still waits for its first delivery is newer than all that   *)
(* had one.                                                                  *)
NewestInv ==
    /\ \A e \in Events : delivered[e] > 0 => e <= published
    /\ \A e, g \in Events : e \in stored /\ delivered[e] = 0 /\ e < g => delivered[g] = 0

Before(a, b) == delivered[a.event] = 1 /\ delivered[b.event] = 1 => a.event < b.event

Pending == step \in {"store", "broadcast"}

(* What was announced, the copy in the handler and the batch are in order.   *)
OrderInv ==
    /\ \A m, n \in DOMAIN announced : m < n => Before(announced[m], announced[n])
    /\ \A m, n \in DOMAIN batch : m < n => Before(batch[m], batch[n])
    /\ \A m \in DOMAIN announced, n \in DOMAIN batch : Before(announced[m], batch[n])
    /\ Pending => \A m \in DOMAIN announced : Before(announced[m], copy)
    /\ Pending => \A n \in DOMAIN batch : Before(copy, batch[n])

IInv ==
    /\ TypeOK
    /\ HandlerInv /\ CopyInv /\ RedeliveryInv /\ NewestInv /\ OrderInv
    /\ AckedWasAnnounced /\ AnnouncedIsStored

-----------------------------------------------------------------------------
(* Copies.                                                                   *)

LEMMA CopyTypes ==
    /\ \A c \in Copies : c.event \in Events /\ c.delivery \in 1 .. MaxDeliver
    /\ \A c \in Copies : c # NoCopy
    /\ \A a, b \in Copies : a.event = b.event /\ a.delivery = b.delivery => a = b
<1>1. \A c \in Copies : c.event \in Events /\ c.delivery \in 1 .. MaxDeliver
  BY DEF Copies
<1>2. \A c \in Copies : c # NoCopy
  BY <1>1 DEF Events, NoCopy
<1>3. \A a, b \in Copies : a.event = b.event /\ a.delivery = b.delivery => a = b
  BY DEF Copies
<1>. QED
  BY <1>1, <1>2, <1>3

(* The steps of the handler come one after another.                          *)
LEMMA Steps ==
    /\ Order[1] = "store" /\ Order[2] = "broadcast" /\ Order[3] = "answer"
    /\ \A c : FirstStep(c) = IF c.event \in unreadable THEN "refuse" ELSE "store"
    /\ NextStep = IF step = "store" THEN "broadcast" ELSE "answer"
BY DEF Order, FirstStep, NextStep

-----------------------------------------------------------------------------
(* Types, in four parts.                                                     *)

ServerType ==
    /\ consumer \in BOOLEAN
    /\ published \in 0 .. NumEvents
    /\ stored \in SUBSET (1 .. published)
    /\ delivered \in [Events -> 0 .. MaxDeliver]
    /\ unacked \in SUBSET stored

ProcessType ==
    /\ phase \in {"up", "closing", "down"}
    /\ starts \in 0 .. MaxStarts
    /\ loop \in BOOLEAN /\ deaf \in BOOLEAN /\ (deaf => ~loop)

PipeType ==
    /\ want \in 0 .. BatchSize
    /\ batch \in Seq(Copies) /\ Len(batch) + want <= BatchSize
    /\ step \in {"idle", "store", "broadcast", "answer", "refuse"}
    /\ copy \in Copies \cup {NoCopy} /\ (copy = NoCopy <=> step = "idle")

DataType ==
    /\ unreadable \in SUBSET Suspects
    /\ streams \in SUBSET AllStreams
    /\ rows \in SUBSET Copies
    /\ announced \in Seq(Copies)
    /\ unsaved \in SUBSET Copies
    /\ unsent \in SUBSET Events /\ early \in SUBSET Events
    /\ timedOut \in SUBSET Events /\ expired \in SUBSET Events

LEMMA TypeParts == TypeOK <=> ServerType /\ ProcessType /\ PipeType /\ DataType
BY DEF TypeOK, ServerType, ProcessType, PipeType, DataType

LEMMA ServerTypeStep == ServerType /\ PipeType /\ [Next]_vars => ServerType'
<1>. SUFFICES ASSUME ServerType, PipeType, [Next]_vars PROVE ServerType'
  OBVIOUS
<1>. USE EventDeliveryAssumption DEF ServerType, serverVars
<1>1. CASE PublishEvent
  <2>1. published + 1 \in 0 .. NumEvents /\ 1 .. published \subseteq 1 .. (published + 1)
    BY <1>1 DEF PublishEvent
  <2>2. stored' \in SUBSET (1 .. (published + 1)) /\ stored \subseteq stored'
    <3>1. stored' = stored \/ stored' = stored \cup {published + 1}
      BY <1>1, Zenon DEF PublishEvent
    <3>2. published + 1 \in 1 .. (published + 1)
      BY <2>1
    <3>. QED
      BY <2>1, <3>1, <3>2
  <2>3. published' = published + 1 /\ UNCHANGED <<consumer, delivered, unacked>>
    BY <1>1 DEF PublishEvent
  <2>. QED
    BY <2>1, <2>2, <2>3, Zenon
<1>2. ASSUME NEW e \in Events, Deliver(e) PROVE ServerType'
  <2>1. delivered[e] + 1 \in 0 .. MaxDeliver /\ e \in stored
    BY <1>2 DEF Deliver, Available
  <2>2. delivered' \in [Events -> 0 .. MaxDeliver]
    BY <1>2, <2>1 DEF Deliver
  <2>3. unacked' \subseteq stored
    BY <1>2, <2>1 DEF Deliver
  <2>. QED
    BY <1>2, <2>2, <2>3 DEF Deliver
<1>3. ASSUME NEW e \in Events, AckWaitExpires(e) \/ Expire(e) PROVE ServerType'
  BY <1>3 DEF AckWaitExpires, Expire
<1>4. CASE Loop
  BY <1>4 DEF Loop, Fetch, FetchEnds, LoopReturns, Take
<1>5. CASE Handler
  BY <1>5 DEF Handler, Store, Broadcast, Answer
<1>6. ASSUME NEW s \in AllStreams, DeleteStream(s) PROVE ServerType'
  BY <1>6 DEF DeleteStream
<1>7. CASE Start
  BY <1>7, Zenon DEF Start
<1>8. CASE Shutdown \/ Exit
  BY <1>8 DEF Shutdown, Exit
<1>9. CASE UNCHANGED vars
  BY <1>9 DEF vars
<1>. QED
  BY <1>1, <1>2, <1>3, <1>4, <1>5, <1>6, <1>7, <1>8, <1>9 DEF Next

LEMMA ProcessTypeStep == ProcessType /\ [Next]_vars => ProcessType'
<1>. SUFFICES ASSUME ProcessType, [Next]_vars PROVE ProcessType'
  OBVIOUS
<1>. USE DEF ProcessType, processVars
<1>1. CASE LoopReturns
  BY <1>1, Zenon DEF LoopReturns
<1>2. CASE Start
  <2>1. starts' \in 0 .. MaxStarts
    BY <1>2, EventDeliveryAssumption DEF Start
  <2>. QED
    BY <1>2, <2>1, Zenon DEF Start
<1>3. CASE Shutdown \/ Exit
  <2>1. starts' \in 0 .. MaxStarts /\ phase' \in {"up", "closing", "down"}
    BY <1>3 DEF Shutdown, Exit
  <2>2. CASE loop' = loop /\ deaf' = deaf
    BY <2>1, <2>2, Zenon
  <2>3. CASE loop' = FALSE /\ deaf' = FALSE
    BY <2>1, <2>3, Zenon
  <2>. QED
    BY <1>3, <2>2, <2>3, Zenon DEF Shutdown, Exit
<1>4. CASE UNCHANGED processVars
  BY <1>4, Zenon
<1>5. [Next]_vars => LoopReturns \/ Start \/ Shutdown \/ Exit \/ UNCHANGED processVars
  BY DEF Next, Loop, Handler, vars, PublishEvent, Deliver, AckWaitExpires, Expire, Fetch,
         FetchEnds, Take, Store, Broadcast, Answer, DeleteStream
<1>. QED
  BY <1>1, <1>2, <1>3, <1>4, <1>5, Zenon

LEMMA PipeTypeStep == ServerType /\ PipeType /\ [Next]_vars => PipeType'
<1>. SUFFICES ASSUME ServerType, PipeType, [Next]_vars PROVE PipeType'
  OBVIOUS
<1>. USE EventDeliveryAssumption DEF PipeType, fetchVars, handlerVars
<1>1. ASSUME NEW e \in Events, Deliver(e) PROVE PipeType'
  <2>. DEFINE c == [event |-> e, delivery |-> delivered[e] + 1]
  <2>1. c \in Copies
    BY <1>1 DEF Copies, Deliver, Available, ServerType
  <2>2. batch' \in Seq(Copies) /\ Len(batch') = Len(batch) + 1
    BY <1>1, <2>1 DEF Deliver
  <2>. QED
    BY <1>1, <2>2 DEF Deliver
<1>2. CASE Fetch
  BY <1>2 DEF Fetch, Idle
<1>3. CASE FetchEnds
  BY <1>3 DEF FetchEnds
<1>4. CASE Take
  <2>1. Head(batch) \in Copies /\ Tail(batch) \in Seq(Copies) /\ Len(Tail(batch)) = Len(batch) - 1
    BY <1>4 DEF Take
  <2>2. Head(batch) # NoCopy
    BY <2>1, CopyTypes
  <2>3. FirstStep(Head(batch)) \in {"store", "refuse"}
    BY Steps
  <2>. QED
    BY <1>4, <2>1, <2>2, <2>3 DEF Take
<1>5. CASE Handler
  <2>1. NextStep \in {"broadcast", "answer"}
    BY Steps
  <2>. QED
    BY <1>5, <2>1 DEF Handler, Store, Broadcast, Answer
<1>6. CASE Exit
  BY <1>6 DEF Exit
<1>7. CASE UNCHANGED <<fetchVars, handlerVars>>
  BY <1>7
<1>8. \/ \E e \in Events : Deliver(e)
      \/ Fetch \/ FetchEnds \/ Take \/ Handler \/ Exit
      \/ UNCHANGED <<fetchVars, handlerVars>>
  BY DEF Next, Loop, vars, PublishEvent, AckWaitExpires, Expire, LoopReturns, DeleteStream,
         Start, Shutdown
<1>. QED
  BY <1>1, <1>2, <1>3, <1>4, <1>5, <1>6, <1>7, <1>8

LEMMA DataTypeStep == ServerType /\ PipeType /\ DataType /\ [Next]_vars => DataType'
<1>. SUFFICES ASSUME ServerType, PipeType, DataType, [Next]_vars PROVE DataType'
  OBVIOUS
<1>. USE DEF DataType, dataVars, historyVars
<1>1. CASE PublishEvent
  <2>1. published + 1 \in Events
    BY <1>1, EventDeliveryAssumption DEF PublishEvent, ServerType, Events
  <2>. QED
    BY <1>1, <2>1 DEF PublishEvent
<1>2. ASSUME NEW e \in Events, Deliver(e) \/ AckWaitExpires(e) \/ Expire(e) PROVE DataType'
  BY <1>2 DEF Deliver, AckWaitExpires, Expire
<1>3. CASE Loop
  BY <1>3 DEF Loop, Fetch, FetchEnds, LoopReturns, Take
<1>4. ASSUME NEW ok \in BOOLEAN, Store(ok) PROVE DataType'
  <2>1. copy \in Copies
    BY <1>4 DEF Store, PipeType
  <2>. QED
    BY <1>4, <2>1 DEF Store
<1>5. CASE Broadcast
  <2>1. copy \in Copies
    BY <1>5 DEF Broadcast, PipeType
  <2>. QED
    BY <1>5, <2>1 DEF Broadcast
<1>6. ASSUME NEW arrives \in BOOLEAN, Answer(arrives) PROVE DataType'
  BY <1>6 DEF Answer
<1>7. ASSUME NEW s \in AllStreams, DeleteStream(s) PROVE DataType'
  BY <1>7 DEF DeleteStream
<1>8. CASE Start \/ Shutdown \/ Exit
  BY <1>8 DEF Start, Shutdown, Exit
<1>9. CASE UNCHANGED vars
  BY <1>9 DEF vars
<1>. QED
  BY <1>1, <1>2, <1>3, <1>4, <1>5, <1>6, <1>7, <1>8, <1>9 DEF Next, Handler

LEMMA TypeStep == TypeOK /\ [Next]_vars => TypeOK'
<1>1. TypeOK' <=> ServerType' /\ ProcessType' /\ PipeType' /\ DataType'
  BY DEF TypeOK, ServerType, ProcessType, PipeType, DataType
<1>. QED
  BY <1>1, TypeParts, ServerTypeStep, ProcessTypeStep, PipeTypeStep, DataTypeStep

LEMMA InitIInv == Init => IInv
<1>. SUFFICES ASSUME Init PROVE IInv
  OBVIOUS
<1>. USE EventDeliveryAssumption DEF Init
<1>1. ServerType
  <2>1. 0 \in 0 .. NumEvents /\ delivered \in [Events -> 0 .. MaxDeliver]
    OBVIOUS
  <2>. QED
    BY <2>1, Zenon DEF ServerType
<1>2. ProcessType
  <2>1. starts \in 0 .. MaxStarts
    OBVIOUS
  <2>. QED
    BY <2>1, Zenon DEF ProcessType
<1>3. PipeType
  BY DEF PipeType
<1>4. DataType
  BY DEF DataType
<1>5. HandlerInv
  BY DEF HandlerInv
<1>6. CopyInv
  BY DEF CopyInv
<1>7. RedeliveryInv /\ NewestInv
  BY DEF RedeliveryInv, NewestInv
<1>8. OrderInv
  BY DEF OrderInv, Pending
<1>9. AckedWasAnnounced /\ AnnouncedIsStored
  BY DEF AckedWasAnnounced, AnnouncedIsStored
<1>. QED
  BY <1>1, <1>2, <1>3, <1>4, <1>5, <1>6, <1>7, <1>8, <1>9, TypeParts DEF IInv

-----------------------------------------------------------------------------
(* The actions that only the server and the process take part in.            *)
Around ==
    \/ Fetch \/ FetchEnds \/ LoopReturns \/ Start \/ Shutdown \/ UNCHANGED vars

LEMMA Actions ==
    [Next]_vars =>
        \/ PublishEvent
        \/ \E e \in Events : Deliver(e)
        \/ \E e \in Events : AckWaitExpires(e)
        \/ \E e \in Events : Expire(e)
        \/ Take
        \/ \E ok \in BOOLEAN : Store(ok)
        \/ Broadcast
        \/ \E arrives \in BOOLEAN : Answer(arrives)
        \/ \E s \in AllStreams : DeleteStream(s)
        \/ Exit
        \/ Around
BY DEF Next, Loop, Handler, Around

LEMMA AroundKeeps ==
    Around => UNCHANGED <<published, stored, delivered, unacked, batch, handlerVars, dataVars,
                          historyVars>>
BY DEF Around, Fetch, FetchEnds, LoopReturns, Start, Shutdown, vars, serverVars, fetchVars,
       handlerVars, dataVars, historyVars

LEMMA HandlerStep == IInv /\ [Next]_vars => HandlerInv'
<1>. SUFFICES ASSUME IInv, [Next]_vars PROVE HandlerInv'
  OBVIOUS
<1>. USE DEF IInv, HandlerInv
<1>1. CASE Take
  BY <1>1, Steps DEF Take, dataVars, historyVars
<1>2. ASSUME NEW ok \in BOOLEAN, Store(ok) PROVE HandlerInv'
  <2>1. step = "store" /\ step' = "broadcast" /\ UNCHANGED <<copy, unreadable>>
    BY <1>2, Steps DEF Store
  <2>2. copy \in rows' \cup unsaved'
    BY <1>2 DEF Store
  <2>. QED
    BY <2>1, <2>2
<1>3. CASE Broadcast
  <2>1. step = "broadcast" /\ step' = "answer" /\ UNCHANGED <<copy, unreadable>>
    BY <1>3, Steps DEF Broadcast, dataVars
  <2>2. announced' = Append(announced, copy) /\ announced \in Seq(Copies)
    BY <1>3 DEF Broadcast, TypeOK
  <2>3. announced'[Len(announced) + 1] = copy /\ Len(announced) + 1 \in DOMAIN announced'
    BY <2>2
  <2>4. Announced(copy.event)'
    BY <2>1, <2>3 DEF Announced
  <2>. QED
    BY <2>1, <2>4
<1>4. CASE (\E arrives \in BOOLEAN : Answer(arrives)) \/ Exit
  BY <1>4 DEF Answer, Exit
<1>5. ASSUME NEW s \in AllStreams, DeleteStream(s) PROVE HandlerInv'
  <2>1. UNCHANGED <<copy, step, unreadable, announced, unsaved>>
    BY <1>5 DEF DeleteStream, handlerVars, historyVars
  <2>2. Announced(copy.event)' = Announced(copy.event)
    BY <2>1 DEF Announced
  <2>3. copy \in rows => copy \in rows' \/ StreamOf[copy.event] \notin streams'
    BY <1>5 DEF DeleteStream
  <2>4. streams' \subseteq streams
    BY <1>5 DEF DeleteStream
  <2>. QED
    BY <2>1, <2>2, <2>3, <2>4
<1>6. CASE UNCHANGED <<handlerVars, dataVars, announced, unsaved>>
  BY <1>6 DEF handlerVars, dataVars, Announced
<1>7. ASSUME \/ PublishEvent \/ Around
             \/ \E e \in Events : Deliver(e) \/ AckWaitExpires(e) \/ Expire(e)
      PROVE  UNCHANGED <<handlerVars, dataVars, announced, unsaved>>
  BY <1>7, AroundKeeps DEF PublishEvent, Deliver, AckWaitExpires, Expire, historyVars
<1>. QED
  BY <1>1, <1>2, <1>3, <1>4, <1>5, <1>6, <1>7, Actions

(* A delivery counts; what is known stays known.                             *)
LEMMA DeliverCounts ==
    ASSUME TypeOK, NEW e \in Events, Deliver(e)
    PROVE  /\ delivered' = [delivered EXCEPT ![e] = delivered[e] + 1]
           /\ \A g \in Events :
                 /\ delivered[g] \in Nat
                 /\ delivered'[g] = IF g = e THEN delivered[g] + 1 ELSE delivered[g]
           /\ \A c \in Copies : Known(c) => Known(c)'
           /\ batch' = Append(batch, [event |-> e, delivery |-> delivered[e] + 1])
           /\ [event |-> e, delivery |-> delivered[e] + 1] \in Copies
           /\ e \in stored \ unacked /\ e \in 1 .. published
<1>1. /\ delivered' = [delivered EXCEPT ![e] = delivered[e] + 1]
      /\ delivered \in [Events -> 0 .. MaxDeliver]
      /\ delivered[e] < MaxDeliver /\ MaxDeliver \in Nat
      /\ e \in stored \ unacked /\ e \in 1 .. published
      /\ batch' = Append(batch, [event |-> e, delivery |-> delivered[e] + 1])
  BY EventDeliveryAssumption DEF Deliver, Available, TypeOK
<1>2. \A g \in Events :
         /\ delivered[g] \in Nat
         /\ delivered'[g] = IF g = e THEN delivered[g] + 1 ELSE delivered[g]
  BY <1>1
<1>3. \A c \in Copies : Known(c) => Known(c)'
  <2>. SUFFICES ASSUME NEW c \in Copies, Known(c) PROVE c.delivery <= delivered'[c.event]
    BY DEF Known
  <2>1. c.event \in Events /\ c.delivery \in Nat /\ c.delivery <= delivered[c.event]
    BY CopyTypes DEF Known
  <2>2. delivered[c.event] <= delivered'[c.event]
    BY <1>2, <2>1
  <2>. QED
    BY <1>2, <2>1, <2>2
<1>4. [event |-> e, delivery |-> delivered[e] + 1] \in Copies
  BY <1>1 DEF Copies
<1>. QED
  BY <1>1, <1>2, <1>3, <1>4

LEMMA CopyStep == IInv /\ [Next]_vars => CopyInv'
<1>. SUFFICES ASSUME IInv, [Next]_vars PROVE CopyInv'
  OBVIOUS
<1>. USE DEF CopyInv
<1>0. /\ TypeOK /\ CopyInv /\ HandlerInv
      /\ batch \in Seq(Copies) /\ announced \in Seq(Copies) /\ rows \subseteq Copies
      /\ copy \in Copies \cup {NoCopy} /\ (copy = NoCopy <=> step = "idle")
  BY DEF IInv, TypeOK
<1>1. ASSUME NEW e \in Events, Deliver(e) PROVE CopyInv'
  <2>1. UNCHANGED <<copy, rows, unreadable, announced>>
    BY <1>1 DEF Deliver, handlerVars, dataVars, historyVars
  <2>2. PICK c \in Copies : c = [event |-> e, delivery |-> delivered[e] + 1] /\ batch' = Append(batch, c)
    BY <1>0, <1>1, DeliverCounts
  <2>3. c.delivery <= delivered'[c.event]
    BY <1>0, <1>1, <2>2, DeliverCounts
  <2>4. \A n \in DOMAIN batch' : batch'[n] = c \/ (n \in DOMAIN batch /\ batch'[n] = batch[n])
    BY <1>0, <2>2
  <2>5. \A x \in Copies : Known(x) => x.delivery <= delivered'[x.event]
    BY <1>0, <1>1, DeliverCounts DEF Known
  <2>6. \A n \in DOMAIN batch' : batch'[n].delivery <= delivered'[batch'[n].event]
    BY <1>0, <2>3, <2>4, <2>5
  <2>7. /\ copy' # NoCopy => copy'.delivery <= delivered'[copy'.event]
        /\ \A x \in rows' : x.delivery <= delivered'[x.event] /\ x.event \notin unreadable'
        /\ \A n \in DOMAIN announced' : announced'[n].delivery <= delivered'[announced'[n].event]
    BY <1>0, <2>1, <2>5
  <2>. QED
    BY <2>6, <2>7 DEF Known
<1>2. CASE Take
  <2>1. /\ copy' = batch[1] /\ 1 \in DOMAIN batch
        /\ \A n \in DOMAIN batch' : n + 1 \in DOMAIN batch /\ batch'[n] = batch[n + 1]
    BY <1>0, <1>2 DEF Take
  <2>2. UNCHANGED <<delivered, rows, unreadable, announced>>
    BY <1>2 DEF Take, serverVars, dataVars, historyVars
  <2>. QED
    BY <1>0, <2>1, <2>2 DEF Known
<1>3. ASSUME NEW ok \in BOOLEAN, Store(ok) PROVE CopyInv'
  <2>1. /\ UNCHANGED <<delivered, batch, copy, unreadable, announced>>
        /\ step = "store" /\ rows' \subseteq rows \cup {copy}
    BY <1>3 DEF Store, serverVars, fetchVars
  <2>2. copy.event \notin unreadable /\ Known(copy)
    BY <1>0, <2>1 DEF HandlerInv
  <2>. QED
    BY <1>0, <2>1, <2>2 DEF Known
<1>4. CASE Broadcast
  <2>1. /\ UNCHANGED <<delivered, batch, copy, rows, unreadable>>
        /\ step = "broadcast" /\ announced' = Append(announced, copy)
    BY <1>4 DEF Broadcast, serverVars, fetchVars, dataVars
  <2>2. Known(copy) /\ copy \in Copies
    BY <1>0, <2>1
  <2>3. \A n \in DOMAIN announced' :
           announced'[n] = copy \/ (n \in DOMAIN announced /\ announced'[n] = announced[n])
    BY <1>0, <2>1, <2>2
  <2>. QED
    BY <1>0, <2>1, <2>2, <2>3 DEF Known
<1>5. ASSUME NEW arrives \in BOOLEAN, Answer(arrives) PROVE CopyInv'
  <2>1. UNCHANGED <<delivered, batch, rows, unreadable, announced>> /\ copy' = NoCopy
    BY <1>5 DEF Answer, fetchVars, dataVars, historyVars
  <2>. QED
    BY <1>0, <2>1 DEF Known
<1>6. ASSUME NEW s \in AllStreams, DeleteStream(s) PROVE CopyInv'
  <2>1. UNCHANGED <<delivered, batch, copy, unreadable, announced>> /\ rows' \subseteq rows
    BY <1>6 DEF DeleteStream, serverVars, fetchVars, handlerVars, historyVars
  <2>. QED
    BY <1>0, <2>1 DEF Known
<1>7. CASE Exit
  <2>1. UNCHANGED <<delivered, rows, unreadable, announced>> /\ batch' = << >> /\ copy' = NoCopy
    BY <1>7 DEF Exit, serverVars, dataVars, historyVars
  <2>. QED
    BY <1>0, <2>1 DEF Known
<1>8. CASE UNCHANGED <<delivered, batch, copy, rows, unreadable, announced>>
  BY <1>0, <1>8 DEF Known
<1>9. ASSUME PublishEvent \/ Around \/ \E e \in Events : AckWaitExpires(e) \/ Expire(e)
      PROVE  UNCHANGED <<delivered, batch, copy, rows, unreadable, announced>>
  BY <1>9, AroundKeeps
     DEF PublishEvent, AckWaitExpires, Expire, fetchVars, handlerVars, dataVars, historyVars
<1>. QED
  BY <1>1, <1>2, <1>3, <1>4, <1>5, <1>6, <1>7, <1>8, <1>9, Actions

LEMMA RedeliveryStep == IInv /\ [Next]_vars => RedeliveryInv'
<1>. SUFFICES ASSUME IInv, [Next]_vars PROVE RedeliveryInv'
  OBVIOUS
<1>. USE DEF RedeliveryInv
<1>0. /\ TypeOK /\ RedeliveryInv /\ NewestInv /\ HandlerInv
      /\ delivered \in [Events -> Nat] /\ published \in Nat
  BY EventDeliveryAssumption DEF IInv, TypeOK
<1>1. CASE PublishEvent
  <2>1. UNCHANGED <<delivered, unacked, timedOut, unreadable>> /\ stored' \subseteq stored \cup {published + 1}
    BY <1>1 DEF PublishEvent, dataVars
  <2>2. published + 1 \in Events => delivered[published + 1] = 0
    BY <1>0 DEF NewestInv
  <2>. QED
    BY <1>0, <2>1, <2>2
<1>2. ASSUME NEW e \in Events, Deliver(e) PROVE RedeliveryInv'
  <2>1. UNCHANGED <<stored, timedOut, unreadable>> /\ unacked' = unacked \cup {e}
    BY <1>2 DEF Deliver, dataVars, historyVars
  <2>2. /\ e \in stored \ unacked
        /\ \A g \in Events :
              /\ delivered[g] \in Nat
              /\ delivered'[g] = IF g = e THEN delivered[g] + 1 ELSE delivered[g]
    BY <1>0, <1>2, DeliverCounts
  <2>. QED
    BY <1>0, <2>1, <2>2
<1>3. ASSUME NEW e \in Events, AckWaitExpires(e) PROVE RedeliveryInv'
  <2>1. /\ UNCHANGED <<stored, delivered, unreadable>>
        /\ timedOut' = timedOut \cup {e} /\ unacked' = unacked \ {e}
    BY <1>3 DEF AckWaitExpires, dataVars
  <2>. QED
    BY <1>0, <2>1
<1>4. ASSUME NEW e \in Events, Expire(e) PROVE RedeliveryInv'
  <2>1. /\ UNCHANGED <<delivered, timedOut, unreadable>>
        /\ stored' = stored \ {e} /\ unacked' = unacked \ {e}
    BY <1>4 DEF Expire, dataVars
  <2>. QED
    BY <1>0, <2>1
<1>5. ASSUME NEW arrives \in BOOLEAN, Answer(arrives) PROVE RedeliveryInv'
  <2>1. /\ UNCHANGED <<delivered, timedOut, unreadable>>
        /\ \/ UNCHANGED <<stored, unacked>>
           \/ stored' = stored \ {copy.event} /\ unacked' = unacked \ {copy.event}
           \/ step = "refuse" /\ stored' = stored /\ unacked' = unacked \ {copy.event}
    BY <1>5 DEF Answer, dataVars, historyVars
  <2>2. step = "refuse" => copy.event \in unreadable
    BY <1>0 DEF HandlerInv
  <2>. QED
    BY <1>0, <2>1, <2>2
<1>6. CASE UNCHANGED <<stored, delivered, unacked, timedOut, unreadable>>
  BY <1>0, <1>6
<1>7. ASSUME \/ Take \/ Broadcast \/ Exit \/ Around
             \/ \E ok \in BOOLEAN : Store(ok)
             \/ \E s \in AllStreams : DeleteStream(s)
      PROVE  UNCHANGED <<stored, delivered, unacked, timedOut, unreadable>>
  BY <1>7, AroundKeeps
     DEF Take, Broadcast, Exit, Store, DeleteStream, serverVars, dataVars, historyVars
<1>. QED
  BY <1>1, <1>2, <1>3, <1>4, <1>5, <1>6, <1>7, Actions

LEMMA NewestStep == IInv /\ [Next]_vars => NewestInv'
<1>. SUFFICES ASSUME IInv, [Next]_vars PROVE NewestInv'
  OBVIOUS
<1>. USE DEF NewestInv
<1>0. /\ TypeOK /\ NewestInv /\ Events \subseteq Nat
      /\ delivered \in [Events -> Nat] /\ published \in Nat
  BY EventDeliveryAssumption, SMTT(30) DEF IInv, TypeOK, Events
<1>1. CASE PublishEvent
  <2>1. UNCHANGED delivered /\ published' = published + 1 /\ stored' \subseteq stored \cup {published + 1}
    BY <1>1 DEF PublishEvent
  <2>2. \A g \in Events : published + 1 < g => delivered[g] = 0
    BY <1>0
  <2>. QED
    BY <1>0, <2>1, <2>2
<1>2. ASSUME NEW e \in Events, Deliver(e) PROVE NewestInv'
  <2>1. UNCHANGED <<stored, published>>
    BY <1>2 DEF Deliver
  <2>2. delivered[e] = 0 => \A g \in stored : g < e => delivered[g] > 0
    BY <1>2 DEF Deliver
  <2>0. /\ e \in 1 .. published
        /\ \A g \in Events :
              /\ delivered[g] \in Nat
              /\ delivered'[g] = IF g = e THEN delivered[g] + 1 ELSE delivered[g]
    BY <1>0, <1>2, DeliverCounts
  <2>3. \A g \in Events : delivered'[g] > 0 => g <= published'
    BY <1>0, <2>0, <2>1
  <2>4. ASSUME NEW f \in Events, NEW g \in Events, f \in stored, delivered'[f] = 0, f < g
        PROVE  delivered'[g] = 0
    <3>1. f # e /\ delivered[f] = 0 /\ delivered[g] = 0
      BY <1>0, <2>0, <2>4
    <3>2. g # e
      BY <1>0, <2>2, <2>4, <3>1
    <3>. QED
      BY <2>0, <3>1, <3>2
  <2>. QED
    BY <2>1, <2>3, <2>4
<1>3. CASE UNCHANGED <<delivered, published>> /\ stored' \subseteq stored
  BY <1>0, <1>3
<1>4. ASSUME \/ Take \/ Broadcast \/ Exit \/ Around
             \/ \E ok \in BOOLEAN : Store(ok)
             \/ \E arrives \in BOOLEAN : Answer(arrives)
             \/ \E s \in AllStreams : DeleteStream(s)
             \/ \E e \in Events : AckWaitExpires(e) \/ Expire(e)
      PROVE  UNCHANGED <<delivered, published>> /\ stored' \subseteq stored
  BY <1>4, AroundKeeps
     DEF Take, Broadcast, Exit, Store, Answer, DeleteStream, AckWaitExpires, Expire, serverVars
<1>. QED
  BY <1>1, <1>2, <1>3, <1>4, Actions

LEMMA PromiseStep == IInv /\ [Next]_vars => AckedWasAnnounced' /\ AnnouncedIsStored'
<1>. SUFFICES ASSUME IInv, [Next]_vars PROVE AckedWasAnnounced' /\ AnnouncedIsStored'
  OBVIOUS
<1>. USE DEF AckedWasAnnounced, AnnouncedIsStored, Announced
<1>0. /\ AckedWasAnnounced /\ AnnouncedIsStored /\ HandlerInv
      /\ announced \in Seq(Copies) /\ published \in Nat
  BY EventDeliveryAssumption DEF IInv, TypeOK
<1>1. CASE PublishEvent
  <2>1. /\ UNCHANGED <<announced, rows, unsaved, streams, expired>> /\ published' = published + 1
        /\ stored \subseteq stored' /\ unsent \subseteq unsent' /\ early \subseteq early'
        /\ published + 1 \in stored' \cup unsent' \cup early'
    BY <1>1 DEF PublishEvent, dataVars
  <2>2. \A e \in 1 .. published' : e \in 1 .. published \/ e = published + 1
    BY <1>0, <2>1
  <2>. QED
    BY <1>0, <2>1, <2>2
<1>2. ASSUME NEW e \in Events, Expire(e) PROVE AckedWasAnnounced' /\ AnnouncedIsStored'
  <2>1. /\ UNCHANGED <<published, announced, rows, unsaved, streams, unsent, early>>
        /\ stored' = stored \ {e} /\ expired' = expired \cup {e}
    BY <1>2 DEF Expire, dataVars
  <2>. QED
    BY <1>0, <2>1
<1>3. ASSUME NEW ok \in BOOLEAN, Store(ok) PROVE AckedWasAnnounced' /\ AnnouncedIsStored'
  <2>1. /\ UNCHANGED <<published, stored, announced, streams, unsent, early, expired>>
        /\ rows \subseteq rows' /\ unsaved \subseteq unsaved'
    BY <1>3 DEF Store, serverVars
  <2>. QED
    BY <1>0, <2>1
<1>4. CASE Broadcast
  <2>1. /\ UNCHANGED <<published, stored, rows, unsaved, streams, unsent, early, expired>>
        /\ announced' = Append(announced, copy) /\ step = "broadcast"
    BY <1>4 DEF Broadcast, serverVars, dataVars
  <2>2. /\ DOMAIN announced \subseteq DOMAIN announced'
        /\ \A n \in DOMAIN announced : announced'[n] = announced[n]
        /\ \A n \in DOMAIN announced' : n \in DOMAIN announced \/ announced'[n] = copy
    BY <1>0, <2>1
  <2>3. copy \in rows \cup unsaved \/ StreamOf[copy.event] \notin streams
    BY <1>0, <2>1 DEF HandlerInv
  <2>4. AckedWasAnnounced'
    BY <1>0, <2>1, <2>2
  <2>5. AnnouncedIsStored'
    BY <1>0, <2>1, <2>2, <2>3
  <2>. QED
    BY <2>4, <2>5
<1>5. ASSUME NEW arrives \in BOOLEAN, Answer(arrives) PROVE AckedWasAnnounced' /\ AnnouncedIsStored'
  <2>1. /\ UNCHANGED <<published, announced, rows, unsaved, streams, unsent, early, expired>>
        /\ stored' = stored \/ (step = "answer" /\ stored' = stored \ {copy.event})
    BY <1>5 DEF Answer, dataVars, historyVars
  <2>2. step = "answer" => Announced(copy.event)
    BY <1>0 DEF HandlerInv
  <2>. QED
    BY <1>0, <2>1, <2>2
<1>6. ASSUME NEW s \in AllStreams, DeleteStream(s) PROVE AckedWasAnnounced' /\ AnnouncedIsStored'
  <2>1. /\ UNCHANGED <<published, stored, announced, unsaved, unsent, early, expired>>
        /\ streams' = streams \ {s} /\ \A c \in rows : c \in rows' \/ StreamOf[c.event] = s
    BY <1>6 DEF DeleteStream, serverVars, historyVars
  <2>. QED
    BY <1>0, <2>1
<1>7. CASE UNCHANGED <<published, stored, announced, rows, unsaved, streams, unsent, early, expired>>
  BY <1>0, <1>7
<1>8. ASSUME \/ Take \/ Exit \/ Around \/ \E e \in Events : Deliver(e) \/ AckWaitExpires(e)
      PROVE  UNCHANGED <<published, stored, announced, rows, unsaved, streams, unsent, early, expired>>
  BY <1>8, AroundKeeps
     DEF Take, Exit, Deliver, AckWaitExpires, serverVars, dataVars, historyVars
<1>. QED
  BY <1>1, <1>2, <1>3, <1>4, <1>5, <1>6, <1>7, <1>8, Actions

LEMMA OrderStep == IInv /\ [Next]_vars => OrderInv'
<1>. SUFFICES ASSUME IInv, [Next]_vars PROVE OrderInv'
  OBVIOUS
<1>0. /\ TypeOK /\ OrderInv /\ CopyInv /\ NewestInv /\ Events \subseteq Nat
      /\ delivered \in [Events -> Nat]
      /\ batch \in Seq(Copies) /\ announced \in Seq(Copies)
      /\ copy \in Copies \cup {NoCopy} /\ (copy = NoCopy <=> step = "idle")
  BY EventDeliveryAssumption DEF IInv, TypeOK, Events
<1>1. ASSUME NEW e \in Events, Deliver(e) PROVE OrderInv'
  <2>. DEFINE Then(a, b) == delivered'[a.event] = 1 /\ delivered'[b.event] = 1 => a.event < b.event
  <2>1. UNCHANGED <<copy, step, announced>> /\ (Pending => copy \in Copies)
    BY <1>0, <1>1 DEF Deliver, handlerVars, historyVars, Pending
  <2>2. PICK c \in Copies : c = [event |-> e, delivery |-> delivered[e] + 1] /\ batch' = Append(batch, c)
    BY <1>0, <1>1, DeliverCounts
  <2>3. \A n \in DOMAIN batch' : batch'[n] = c \/ (n \in DOMAIN batch /\ batch'[n] = batch[n])
    BY <1>0, <2>2
  <2>4. \A m, n \in DOMAIN batch' : m < n => m \in DOMAIN batch /\ batch'[m] = batch[m]
    BY <1>0, <2>2
  <2>0. /\ e \in stored \ unacked
        /\ \A g \in Events :
              /\ delivered[g] \in Nat
              /\ delivered'[g] = IF g = e THEN delivered[g] + 1 ELSE delivered[g]
    BY <1>0, <1>1, DeliverCounts
  <2>5. ASSUME NEW a \in Copies, Known(a) PROVE delivered[a.event] >= 1 /\ a.event \in Events
    <3>1. a.event \in Events /\ a.delivery \in Nat \ {0}
      BY CopyTypes
    <3>. QED
      BY <2>0, <2>5, <3>1 DEF Known
  <2>6. ASSUME NEW a \in Copies, NEW b \in Copies, Known(a), Known(b), Before(a, b) PROVE Then(a, b)
    <3>1. /\ a.event \in Events /\ delivered[a.event] >= 1
          /\ b.event \in Events /\ delivered[b.event] >= 1
      BY <2>5, <2>6
    <3>. QED
      BY <2>0, <2>6, <3>1 DEF Before
  <2>7. ASSUME NEW a \in Copies, Known(a) PROVE Then(a, c)
    <3>. SUFFICES ASSUME delivered'[a.event] = 1, delivered'[e] = 1 PROVE a.event < e
      BY <2>2
    <3>1. a.event \in Events /\ delivered[a.event] >= 1
      BY <2>5, <2>7
    <3>2. delivered[e] = 0 /\ a.event # e /\ e \in stored
      BY <2>0, <3>1
    <3>3. e < a.event => delivered[a.event] = 0
      BY <1>0, <3>1, <3>2 DEF NewestInv
    <3>4. ~ (e < a.event)
      <4>1. delivered[a.event] \in Nat
        BY <2>0, <3>1
      <4>. QED
        BY <3>1, <3>3, <4>1
    <3>5. e \in Nat /\ a.event \in Nat
      BY <1>0, <3>1
    <3>. QED
      BY <3>2, <3>4, <3>5
  <2>8. \A m, n \in DOMAIN announced' : m < n => Then(announced'[m], announced'[n])
    BY <1>0, <2>1, <2>6 DEF OrderInv, CopyInv
  <2>9. \A m, n \in DOMAIN batch' : m < n => Then(batch'[m], batch'[n])
    BY <1>0, <2>3, <2>4, <2>6, <2>7 DEF OrderInv, CopyInv
  <2>10. \A m \in DOMAIN announced', n \in DOMAIN batch' : Then(announced'[m], batch'[n])
    BY <1>0, <2>1, <2>3, <2>6, <2>7 DEF OrderInv, CopyInv
  <2>11. Pending => Known(copy) /\ copy \in Copies
    BY <1>0, <2>1, CopyTypes DEF CopyInv
  <2>12. Pending => \A m \in DOMAIN announced' : Then(announced'[m], copy')
    BY <1>0, <2>1, <2>6, <2>11 DEF OrderInv, CopyInv
  <2>13. Pending => \A n \in DOMAIN batch' : Then(copy', batch'[n])
    BY <1>0, <2>1, <2>3, <2>6, <2>7, <2>11 DEF OrderInv, CopyInv
  <2>14. Pending' = Pending
    BY <2>1 DEF Pending
  <2>. QED
    BY <2>8, <2>9, <2>10, <2>12, <2>13, <2>14 DEF OrderInv, Before
<1>. USE DEF OrderInv, Before, Pending
<1>2. CASE Take
  <2>1. UNCHANGED <<delivered, announced>> /\ step = "idle"
    BY <1>2 DEF Take, serverVars, historyVars
  <2>2. /\ copy' = batch[1] /\ 1 \in DOMAIN batch
        /\ \A n \in DOMAIN batch' : n + 1 \in DOMAIN batch /\ 1 < n + 1 /\ batch'[n] = batch[n + 1]
        /\ DOMAIN batch' \subseteq Nat
    BY <1>0, <1>2 DEF Take
  <2>3. \A m, n \in DOMAIN batch' : m < n => m + 1 < n + 1
    BY <2>2
  <2>. QED
    BY <1>0, <2>1, <2>2, <2>3
<1>3. ASSUME NEW ok \in BOOLEAN, Store(ok) PROVE OrderInv'
  <2>1. UNCHANGED <<delivered, batch, copy, announced>> /\ step = "store"
    BY <1>3 DEF Store, serverVars, fetchVars
  <2>. QED
    BY <1>0, <2>1
<1>4. CASE Broadcast
  <2>1. /\ UNCHANGED <<delivered, batch>> /\ announced' = Append(announced, copy)
        /\ step = "broadcast" /\ step' = "answer" /\ copy \in Copies
    BY <1>0, <1>4, Steps DEF Broadcast, serverVars, fetchVars
  <2>2. \A n \in DOMAIN announced' : announced'[n] = copy \/ (n \in DOMAIN announced /\ announced'[n] = announced[n])
    BY <1>0, <2>1
  <2>3. \A m, n \in DOMAIN announced' : m < n => m \in DOMAIN announced /\ announced'[m] = announced[m]
    BY <1>0, <2>1
  <2>4. (\A m, n \in DOMAIN announced : m < n => Before(announced[m], announced[n]))'
    BY <1>0, <2>1, <2>2, <2>3
  <2>5. (\A m \in DOMAIN announced, n \in DOMAIN batch : Before(announced[m], batch[n]))'
    BY <1>0, <2>1, <2>2
  <2>6. (\A m, n \in DOMAIN batch : m < n => Before(batch[m], batch[n]))'
    BY <1>0, <2>1
  <2>7. ~ Pending'
    BY <2>1
  <2>. QED
    BY <2>4, <2>5, <2>6, <2>7
<1>5. CASE Exit
  <2>1. UNCHANGED <<delivered, announced>> /\ batch' = << >> /\ step' = "idle"
    BY <1>5 DEF Exit, serverVars, historyVars
  <2>. QED
    BY <1>0, <2>1
<1>6. ASSUME NEW arrives \in BOOLEAN, Answer(arrives) PROVE OrderInv'
  <2>1. UNCHANGED <<delivered, batch, announced>> /\ step' = "idle"
    BY <1>6 DEF Answer, fetchVars, historyVars
  <2>. QED
    BY <1>0, <2>1
<1>7. CASE UNCHANGED <<delivered, batch, copy, step, announced>>
  BY <1>0, <1>7
<1>8. ASSUME \/ PublishEvent \/ Around
             \/ \E e \in Events : AckWaitExpires(e) \/ Expire(e)
             \/ \E s \in AllStreams : DeleteStream(s)
      PROVE  UNCHANGED <<delivered, batch, copy, step, announced>>
  BY <1>8, AroundKeeps
     DEF PublishEvent, AckWaitExpires, Expire, DeleteStream, serverVars, fetchVars, handlerVars,
         historyVars
<1>. QED
  BY <1>1, <1>2, <1>3, <1>4, <1>5, <1>6, <1>7, <1>8, Actions

-----------------------------------------------------------------------------
(* Theorems.                                                                 *)

(* IInv is an invariant for any number of events, deliveries and starts.     *)
THEOREM Inductive == Spec => []IInv
<1>1. IInv /\ [Next]_vars => IInv'
  BY TypeStep, HandlerStep, CopyStep, RedeliveryStep, NewestStep, OrderStep, PromiseStep DEF IInv
<1>. QED
  BY InitIInv, <1>1, PTL DEF Spec

(* The state keeps its shape: the loop never has more than one batch in hand.*)
THEOREM TypeCorrect == Spec => []TypeOK
<1>1. IInv => TypeOK
  BY DEF IInv
<1>. QED
  BY Inductive, <1>1, PTL

(* Whatever is shut down, crashes or gets lost, an event leaves the stream   *)
(* only after clients were told of it, or by its age.                        *)
THEOREM NoSilentAck == Spec => []AckedWasAnnounced
<1>1. IInv => AckedWasAnnounced
  BY DEF IInv
<1>. QED
  BY Inductive, <1>1, PTL

(* An id that clients were told has its row, unless that insert failed or    *)
(* the stream was deleted.                                                   *)
THEOREM AnnouncedHasRow == Spec => []AnnouncedIsStored
<1>1. IInv => AnnouncedIsStored
  BY DEF IInv
<1>. QED
  BY Inductive, <1>1, PTL

(* A second row of an event needs a second delivery, and that an AckWait.    *)
THEOREM OneRowEach == Spec => []DuplicateRowsNeedTimeout
<1>1. IInv => DuplicateRowsNeedTimeout
  <2>. SUFFICES ASSUME IInv, NEW a \in rows, NEW b \in rows, a.event = b.event, a # b
                PROVE  a.event \in timedOut
    BY DEF DuplicateRowsNeedTimeout
  <2>1. a \in Copies /\ b \in Copies /\ delivered \in [Events -> Nat]
    BY EventDeliveryAssumption DEF IInv, TypeOK
  <2>2. /\ a.event \in Events /\ a.delivery \in Nat \ {0} /\ b.delivery \in Nat \ {0}
        /\ a.delivery # b.delivery
    BY <2>1, CopyTypes
  <2>3. a.delivery <= delivered[a.event] /\ b.delivery <= delivered[a.event] /\ a.event \notin unreadable
    BY DEF IInv, CopyInv, Known
  <2>4. delivered[a.event] >= 2
    BY <2>1, <2>2, <2>3
  <2>. QED
    BY <2>2, <2>3, <2>4 DEF IInv, RedeliveryInv
<1>. QED
  BY Inductive, <1>1, PTL

(* Clients hear of events that needed one delivery in the order in which     *)
(* they were published.                                                      *)
THEOREM InOrder == Spec => []FirstDeliveriesInOrder
<1>1. IInv => FirstDeliveriesInOrder
  BY DEF IInv, OrderInv, Before, FirstDeliveriesInOrder
<1>. QED
  BY Inductive, <1>1, PTL
=============================================================================
