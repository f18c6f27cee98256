-------------------------- MODULE FrameQueueProofs --------------------------
(* Proofs about FrameQueue for any number of workers, frames and deliveries. *)
(* NothingLost is inductive with the types. DeliveriesAccounted and          *)
(* DuplicatesNeedTimeout need a ledger of deliveries (Balance): a frame that *)
(* is not published has none, and as long as no AckWait of a frame ran out,  *)
(* it has at most one copy or one success, and none of either while the      *)
(* server may deliver it again. The lemmas count copies in the batch, in the *)
(* channels and with the workers, and say how each step moves one.           *)
EXTENDS FrameQueue, FiniteSetTheorems, FunctionTheorems, SequenceTheorems, TLAPS

IInv == TypeOK /\ NothingLost

USE FrameQueueAssumption

-----------------------------------------------------------------------------
(* The number of times a frame occurs in a sequence is a number.             *)
LEMMA OccurrencesType ==
    ASSUME NEW S, NEW s \in Seq(S), NEW f
    PROVE  Occurrences(s, f) \in Nat
<1>1. IsFiniteSet(1 .. Len(s))
  BY FS_Interval
<1>2. {i \in DOMAIN s : s[i] = f} \subseteq 1 .. Len(s)
  OBVIOUS
<1>. QED
  BY <1>1, <1>2, FS_Subset, FS_CardinalityType DEF Occurrences

(* So is the number of copies the process holds.                             *)
LEMMA CopiesType ==
    ASSUME TypeOK, NEW f \in Frames
    PROVE  Copies(f) \in Nat
<1>1. IsFiniteSet(Workers) /\ IsFiniteSet(1 .. ChanCap)
  BY FS_Interval DEF Workers
<1>2. IsFiniteSet(Workers \X (1 .. ChanCap))
  BY <1>1, FS_Product
<1>3. Cardinality({p \in Workers \X (1 .. ChanCap) :
        p[2] \in DOMAIN channels[p[1]] /\ channels[p[1]][p[2]] = f}) \in Nat
  BY <1>2, FS_Subset, FS_CardinalityType
<1>4. Cardinality({w \in Workers : busy[w] = f}) \in Nat
  BY <1>1, FS_Subset, FS_CardinalityType
<1>5. Occurrences(batch, f) \in Nat
  BY OccurrencesType DEF TypeOK, LoopTypeOK
<1>. QED
  BY <1>3, <1>4, <1>5 DEF Copies

-----------------------------------------------------------------------------
(* What a step leaves alone keeps its type.                                  *)
LEMMA ServerSame ==
    ASSUME ServerTypeOK, UNCHANGED serverVars PROVE ServerTypeOK'
BY DEF ServerTypeOK, serverVars

LEMMA LoopSame ==
    ASSUME LoopTypeOK, UNCHANGED loopVars PROVE LoopTypeOK'
BY DEF LoopTypeOK, loopVars

LEMMA WorkerSame ==
    ASSUME WorkerTypeOK, UNCHANGED <<channels, busy>> PROVE WorkerTypeOK'
BY DEF WorkerTypeOK

LEMMA ProcessSame ==
    ASSUME ProcessTypeOK, UNCHANGED processVars PROVE ProcessTypeOK'
BY DEF ProcessTypeOK, processVars

LEMMA HistorySame ==
    ASSUME HistoryTypeOK, UNCHANGED historyVars PROVE HistoryTypeOK'
BY DEF HistoryTypeOK, historyVars

-----------------------------------------------------------------------------
LEMMA InitOK ==
    ASSUME Init PROVE IInv
<1>. USE DEF Init
<1>1. << >> \in Seq(Frames) /\ Len(<< >>) = 0
  OBVIOUS
<1>2. ServerTypeOK
  BY DEF ServerTypeOK
<1>3. LoopTypeOK
  BY <1>1 DEF LoopTypeOK, Workers
<1>4. WorkerTypeOK
  BY <1>1 DEF WorkerTypeOK
<1>5. ProcessTypeOK /\ HistoryTypeOK
  BY DEF ProcessTypeOK, HistoryTypeOK
<1>6. NothingLost
  BY DEF NothingLost
<1>. QED
  BY <1>2, <1>3, <1>4, <1>5, <1>6 DEF IInv, TypeOK

LEMMA ServerStep ==
    ASSUME IInv,
           \/ PublishFrame
           \/ \E f \in Frames : Deliver(f) \/ AckWaitExpires(f) \/ Expire(f)
    PROVE  IInv'
<1>. USE DEF IInv, TypeOK
<1>1. CASE PublishFrame
  <2>. USE <1>1 DEF PublishFrame
  <2>1. ServerTypeOK'
    BY DEF ServerTypeOK
  <2>2. (LoopTypeOK /\ WorkerTypeOK /\ ProcessTypeOK /\ HistoryTypeOK)'
    BY LoopSame, WorkerSame, ProcessSame, HistorySame
  <2>3. NothingLost'
    BY DEF NothingLost, historyVars, ServerTypeOK
  <2>. QED
    BY <2>1, <2>2, <2>3
<1>2. ASSUME NEW f \in Frames, Deliver(f) PROVE IInv'
  <2>. USE <1>2 DEF Deliver, Available
  <2>1. ServerTypeOK'
    <3>1. delivered[f] \in Nat /\ delivered[f] + 1 <= MaxDeliver
      BY DEF ServerTypeOK
    <3>2. delivered' \in [Frames -> 0 .. MaxDeliver]
      BY <3>1 DEF ServerTypeOK
    <3>. QED
      BY <3>2 DEF ServerTypeOK
  <2>2. LoopTypeOK'
    <3>1. CASE batch' = Append(batch, f)
      <4>1. /\ Append(batch, f) \in Seq(Frames)
            /\ Len(Append(batch, f)) = Len(batch) + 1 /\ Len(batch) \in Nat
        BY DEF LoopTypeOK
      <4>. QED
        BY <3>1, <4>1 DEF LoopTypeOK
    <3>2. CASE batch' = batch
      <4>1. Len(batch) \in Nat
        BY DEF LoopTypeOK
      <4>. QED
        BY <3>2, <4>1 DEF LoopTypeOK
    <3>. QED
      BY <3>1, <3>2
  <2>3. (WorkerTypeOK /\ ProcessTypeOK)'
    BY WorkerSame, ProcessSame
  <2>4. HistoryTypeOK'
    <3>1. lost[f] + 1 \in Nat
      BY DEF HistoryTypeOK
    <3>. QED
      BY <3>1 DEF HistoryTypeOK
  <2>5. NothingLost'
    BY DEF NothingLost
  <2>. QED
    BY <2>1, <2>2, <2>3, <2>4, <2>5
<1>3. ASSUME NEW f \in Frames, AckWaitExpires(f) PROVE IInv'
  <2>. USE <1>3 DEF AckWaitExpires
  <2>1. (ServerTypeOK /\ HistoryTypeOK)'
    BY DEF ServerTypeOK, HistoryTypeOK
  <2>2. (LoopTypeOK /\ WorkerTypeOK /\ ProcessTypeOK)'
    BY LoopSame, WorkerSame, ProcessSame
  <2>3. NothingLost'
    BY DEF NothingLost
  <2>. QED
    BY <2>1, <2>2, <2>3
<1>4. ASSUME NEW f \in Frames, Expire(f) PROVE IInv'
  <2>. USE <1>4 DEF Expire
  <2>1. (ServerTypeOK /\ HistoryTypeOK)'
    BY DEF ServerTypeOK, HistoryTypeOK
  <2>2. (LoopTypeOK /\ WorkerTypeOK /\ ProcessTypeOK)'
    BY LoopSame, WorkerSame, ProcessSame
  <2>3. NothingLost'
    BY DEF NothingLost
  <2>. QED
    BY <2>1, <2>2, <2>3
<1>. QED
  BY <1>1, <1>2, <1>3, <1>4

LEMMA LoopStep ==
    ASSUME IInv, Loop PROVE IInv'
<1>. USE DEF IInv, TypeOK
<1>1. NothingLost'
  BY DEF Loop, Fetch, FetchTimeout, Dispatch, CloseChannels, NothingLost, serverVars, historyVars
<1>2. ServerTypeOK'
  BY ServerSame DEF Loop, Fetch, FetchTimeout, Dispatch, CloseChannels
<1>3. CASE Fetch \/ FetchTimeout
  <2>. USE <1>3 DEF Fetch, FetchTimeout
  <2>1. Len(batch) \in Nat /\ (batch = << >> => Len(batch) = 0)
    BY DEF LoopTypeOK
  <2>2. LoopTypeOK'
    BY <2>1 DEF LoopTypeOK
  <2>3. (WorkerTypeOK /\ ProcessTypeOK /\ HistoryTypeOK)'
    BY WorkerSame, ProcessSame, HistorySame
  <2>. QED
    BY <1>1, <1>2, <2>2, <2>3
<1>4. CASE Dispatch
  <2>. USE <1>4 DEF Dispatch
  <2>1. batch \in Seq(Frames) /\ batch # << >>
    BY DEF LoopTypeOK
  <2>2. /\ Head(batch) \in Frames /\ Tail(batch) \in Seq(Frames)
        /\ Len(Tail(batch)) = Len(batch) - 1 /\ Len(batch) \in Nat
    BY <2>1
  <2>3. channels[idx] \in Seq(Frames) /\ idx \in Workers
    BY DEF LoopTypeOK, WorkerTypeOK
  <2>4. /\ Append(channels[idx], Head(batch)) \in Seq(Frames)
        /\ Len(Append(channels[idx], Head(batch))) <= ChanCap
    BY <2>2, <2>3
  <2>5. WorkerTypeOK'
    BY <2>3, <2>4 DEF WorkerTypeOK
  <2>6. (idx + 1) % WorkerCount \in Workers
    BY <2>3 DEF Workers
  <2>7. LoopTypeOK'
    BY <2>2, <2>6 DEF LoopTypeOK
  <2>8. (ProcessTypeOK /\ HistoryTypeOK)'
    BY ProcessSame, HistorySame
  <2>. QED
    BY <1>1, <1>2, <2>5, <2>7, <2>8
<1>5. CASE CloseChannels
  <2>. USE <1>5 DEF CloseChannels
  <2>1. \A f \in Frames : lost[f] + Occurrences(batch, f) \in Nat
    <3>1. \A f \in Frames : Occurrences(batch, f) \in Nat
      BY OccurrencesType DEF LoopTypeOK
    <3>. QED
      BY <3>1 DEF HistoryTypeOK
  <2>2. HistoryTypeOK'
    BY <2>1 DEF HistoryTypeOK
  <2>3. << >> \in Seq(Frames) /\ Len(<< >>) = 0
    OBVIOUS
  <2>4. LoopTypeOK' /\ ProcessTypeOK'
    <3>1. 0 + want <= WorkerCount
      BY DEF LoopTypeOK
    <3>2. LoopTypeOK'
      BY <2>3, <3>1 DEF LoopTypeOK
    <3>3. ProcessTypeOK'
      BY DEF ProcessTypeOK
    <3>. QED
      BY <3>2, <3>3
  <2>5. WorkerTypeOK'
    BY WorkerSame
  <2>. QED
    BY <1>1, <1>2, <2>2, <2>4, <2>5
<1>. QED
  BY <1>3, <1>4, <1>5 DEF Loop

LEMMA WorkerStep ==
    ASSUME IInv, NEW w \in Workers, Take(w) \/ Handler(w) PROVE IInv'
<1>. USE DEF IInv, TypeOK
<1>1. CASE Take(w)
  <2>. USE <1>1 DEF Take
  <2>1. channels[w] \in Seq(Frames) /\ channels[w] # << >> /\ Len(channels[w]) <= ChanCap
    BY DEF WorkerTypeOK
  <2>2. /\ Head(channels[w]) \in Frames /\ Tail(channels[w]) \in Seq(Frames)
        /\ Len(Tail(channels[w])) <= ChanCap
    BY <2>1
  <2>3. Head(channels[w]) \in 0 .. NumFrames
    BY <2>2 DEF Frames
  <2>4. WorkerTypeOK'
    BY <2>2, <2>3 DEF WorkerTypeOK
  <2>5. (ServerTypeOK /\ LoopTypeOK /\ ProcessTypeOK /\ HistoryTypeOK)'
    BY ServerSame, LoopSame, ProcessSame, HistorySame
  <2>6. NothingLost'
    BY DEF NothingLost, serverVars, historyVars
  <2>. QED
    BY <2>4, <2>5, <2>6
<1>2. ASSUME NEW arrives \in BOOLEAN, Succeed(w, arrives) PROVE IInv'
  <2>. USE <1>2 DEF Succeed
  <2>1. busy[w] \in Frames
    BY DEF WorkerTypeOK, Frames
  <2>2. succeeded[busy[w]] \in Nat /\ 0 \in 0 .. NumFrames
    BY <2>1 DEF HistoryTypeOK
  <2>3. (WorkerTypeOK /\ HistoryTypeOK)'
    BY <2>1, <2>2 DEF WorkerTypeOK, HistoryTypeOK
  <2>4. ServerTypeOK'
    BY DEF ServerTypeOK
  <2>5. (LoopTypeOK /\ ProcessTypeOK)'
    BY LoopSame, ProcessSame
  <2>6. NothingLost'
    <3> SUFFICES ASSUME NEW f \in 1 .. published
                 PROVE  f \in stored' \/ succeeded'[f] > 0 \/ f \in expired
      BY DEF NothingLost
    <3>1. f \in Frames
      BY DEF ServerTypeOK, Frames
    <3>2. CASE f = busy[w]
      BY <2>2, <3>1, <3>2 DEF HistoryTypeOK
    <3>3. CASE f # busy[w]
      BY <3>1, <3>3 DEF HistoryTypeOK, NothingLost
    <3>. QED
      BY <3>2, <3>3
  <2>. QED
    BY <2>3, <2>4, <2>5, <2>6
<1>3. ASSUME NEW arrives \in BOOLEAN, Fail(w, arrives) PROVE IInv'
  <2>. USE <1>3 DEF Fail
  <2>1. busy[w] \in Frames
    BY DEF WorkerTypeOK, Frames
  <2>2. failed[busy[w]] \in Nat /\ 0 \in 0 .. NumFrames
    BY <2>1 DEF HistoryTypeOK
  <2>3. (WorkerTypeOK /\ HistoryTypeOK)'
    BY <2>1, <2>2 DEF WorkerTypeOK, HistoryTypeOK
  <2>4. ServerTypeOK'
    BY DEF ServerTypeOK
  <2>5. (LoopTypeOK /\ ProcessTypeOK)'
    BY LoopSame, ProcessSame
  <2>6. NothingLost'
    BY DEF NothingLost
  <2>. QED
    BY <2>3, <2>4, <2>5, <2>6
<1>. QED
  BY <1>1, <1>2, <1>3 DEF Handler

LEMMA ProcessStep ==
    ASSUME IInv, Shutdown \/ Exit \/ Restart PROVE IInv'
<1>. USE DEF IInv, TypeOK
<1>1. ServerTypeOK'
  BY ServerSame DEF Shutdown, Exit, Restart
<1>2. NothingLost'
  BY DEF Shutdown, Exit, Restart, NothingLost, serverVars, historyVars
<1>3. CASE Shutdown \/ Restart
  <2>. USE <1>3 DEF Shutdown, Restart
  <2>1. ProcessTypeOK'
    <3>1. restarts' \in 0 .. MaxRestarts
      BY DEF ProcessTypeOK
    <3>2. open' \in BOOLEAN
      BY DEF ProcessTypeOK
    <3>3. phase' \in {"up", "closing", "down"}
      OBVIOUS
    <3>. QED
      BY <3>1, <3>2, <3>3 DEF ProcessTypeOK
  <2>2. (LoopTypeOK /\ WorkerTypeOK /\ HistoryTypeOK)'
    BY LoopSame, WorkerSame, HistorySame
  <2>. QED
    BY <1>1, <1>2, <2>1, <2>2
<1>4. CASE Exit
  <2>. USE <1>4 DEF Exit
  <2>1. \A f \in Frames : lost[f] + Copies(f) \in Nat
    <3>1. \A f \in Frames : Copies(f) \in Nat
      BY CopiesType
    <3>. QED
      BY <3>1 DEF HistoryTypeOK
  <2>2. HistoryTypeOK'
    BY <2>1 DEF HistoryTypeOK
  <2>3. << >> \in Seq(Frames) /\ Len(<< >>) = 0
    OBVIOUS
  <2>4. 0 \in Workers
    BY DEF Workers
  <2>5. (LoopTypeOK /\ ProcessTypeOK)'
    <3>1. 0 \in 0 .. WorkerCount /\ Len(<< >>) + 0 <= WorkerCount
      BY <2>3
    <3>2. LoopTypeOK'
      BY <2>3, <2>4, <3>1 DEF LoopTypeOK
    <3>3. ProcessTypeOK'
      BY DEF ProcessTypeOK
    <3>. QED
      BY <3>2, <3>3
  <2>6. WorkerTypeOK'
    BY <2>3 DEF WorkerTypeOK
  <2>. QED
    BY <1>1, <1>2, <2>2, <2>5, <2>6
<1>. QED
  BY <1>3, <1>4

THEOREM Inductive == Spec => []IInv
<1>1. Init => IInv
  BY InitOK
<1>2. IInv /\ [Next]_vars => IInv'
  <2> SUFFICES ASSUME IInv, [Next]_vars PROVE IInv'
    OBVIOUS
  <2>1. CASE UNCHANGED vars
    <3>1. NothingLost'
      BY <2>1 DEF IInv, NothingLost, vars, serverVars, historyVars
    <3>. QED
      BY <2>1, <3>1, ServerSame, LoopSame, WorkerSame, ProcessSame, HistorySame
         DEF IInv, TypeOK, vars
  <2>. QED
    BY <2>1, ServerStep, LoopStep, WorkerStep, ProcessStep DEF Next
<1>. QED
  BY <1>1, <1>2, PTL DEF Spec

(* The state keeps its shape; in particular the process never holds more     *)
(* than a batch, the channels and one frame per worker.                      *)
THEOREM TypeCorrect == Spec => []TypeOK
<1>1. IInv => TypeOK
  BY DEF IInv
<1>. QED
  BY <1>1, Inductive, PTL

(* A frame leaves the stream only processed or expired.                      *)
THEOREM AtLeastOnce == Spec => []NothingLost
<1>1. IInv => NothingLost
  BY DEF IInv
<1>. QED
  BY <1>1, Inductive, PTL
-----------------------------------------------------------------------------
(* Counting. Append adds one occurrence, Tail takes the head's away.         *)
LEMMA OccurrencesEmpty ==
    ASSUME NEW f PROVE Occurrences(<< >>, f) = 0
<1>1. {i \in DOMAIN << >> : << >>[i] = f} = {}
  OBVIOUS
<1>. QED
  BY <1>1, FS_EmptySet DEF Occurrences

LEMMA OccurrencesAppend ==
    ASSUME NEW S, NEW s \in Seq(S), NEW e \in S, NEW f
    PROVE  Occurrences(Append(s, e), f) = Occurrences(s, f) + (IF e = f THEN 1 ELSE 0)
<1>. DEFINE At(t) == {i \in DOMAIN t : t[i] = f}
            n == Len(s) + 1
<1>1. /\ DOMAIN s = 1 .. Len(s) /\ DOMAIN Append(s, e) = 1 .. n /\ Len(s) \in Nat
      /\ \A i \in 1 .. Len(s) : Append(s, e)[i] = s[i]
      /\ Append(s, e)[n] = e
  OBVIOUS
<1>2. IsFiniteSet(At(s)) /\ n \notin At(s)
  <2>1. IsFiniteSet(1 .. Len(s))
    BY <1>1, FS_Interval
  <2>2. At(s) \in SUBSET (1 .. Len(s)) /\ n \notin At(s)
    BY <1>1
  <2>. HIDE DEF At, n
  <2>. QED
    BY <2>1, <2>2, FS_Subset
<1>3. At(Append(s, e)) = IF e = f THEN At(s) \cup {n} ELSE At(s)
  BY <1>1
<1>4. Occurrences(s, f) = Cardinality(At(s))
      /\ Occurrences(Append(s, e), f) = Cardinality(At(Append(s, e)))
  BY DEF Occurrences
<1>. HIDE DEF At, n
<1>5. Cardinality(At(s)) \in Nat
  BY <1>2, FS_CardinalityType
<1>6. Cardinality(At(s) \cup {n}) = Cardinality(At(s)) + 1
  BY <1>2, FS_AddElement
<1>. QED
  BY <1>3, <1>4, <1>5, <1>6

LEMMA OccurrencesTail ==
    ASSUME NEW S, NEW s \in Seq(S), s # << >>, NEW f
    PROVE  Occurrences(s, f) = Occurrences(Tail(s), f) + (IF Head(s) = f THEN 1 ELSE 0)
<1>. DEFINE At(t) == {i \in DOMAIN t : t[i] = f}
            Shift == [i \in At(Tail(s)) |-> i + 1]
<1>1. /\ DOMAIN s = 1 .. Len(s) /\ Len(s) \in Nat /\ Len(s) >= 1
      /\ DOMAIN Tail(s) = 1 .. Len(s) - 1
      /\ \A i \in 1 .. Len(s) - 1 : Tail(s)[i] = s[i + 1]
      /\ Head(s) = s[1]
  OBVIOUS
<1>2. IsFiniteSet(At(s))
  <2>1. IsFiniteSet(1 .. Len(s))
    BY <1>1, FS_Interval
  <2>2. At(s) \in SUBSET (1 .. Len(s))
    BY <1>1
  <2>. HIDE DEF At
  <2>. QED
    BY <2>1, <2>2, FS_Subset
<1>3. Shift \in Bijection(At(Tail(s)), At(s) \ {1})
  <2>1. \A i \in At(Tail(s)) : i + 1 \in At(s) \ {1}
    BY <1>1
  <2>2. \A i, j \in At(Tail(s)) : i + 1 = j + 1 => i = j
    BY <1>1
  <2>3. ASSUME NEW i \in At(s) \ {1} PROVE \E j \in At(Tail(s)) : j + 1 = i
    <3>1. i - 1 \in At(Tail(s)) /\ (i - 1) + 1 = i
      BY <1>1
    <3>. QED
      BY <3>1
  <2>. HIDE DEF At
  <2>. QED
    BY <2>1, <2>2, <2>3 DEF Bijection, Injection, Surjection, IsInjective
<1>. HIDE DEF Shift
<1>5. 1 \in At(s) <=> Head(s) = f
  BY <1>1
<1>7. Occurrences(s, f) = Cardinality(At(s))
      /\ Occurrences(Tail(s), f) = Cardinality(At(Tail(s)))
  BY DEF Occurrences
<1>. HIDE DEF At
<1>8. IsFiniteSet(At(s) \ {1})
      /\ Cardinality(At(s) \ {1}) = Cardinality(At(s)) - (IF 1 \in At(s) THEN 1 ELSE 0)
  <2>1. Cardinality(At(s)) \in Nat
    BY <1>2, FS_CardinalityType
  <2>2. /\ IsFiniteSet(At(s) \ {1})
        /\ Cardinality(At(s) \ {1})
             = IF 1 \in At(s) THEN Cardinality(At(s)) - 1 ELSE Cardinality(At(s))
    BY <1>2, FS_RemoveElement
  <2>. QED
    BY <2>1, <2>2
<1>9. Cardinality(At(s) \ {1}) = Cardinality(At(Tail(s)))
  <2>1. ExistsBijection(At(Tail(s)), At(s) \ {1})
    BY <1>3 DEF ExistsBijection
  <2>2. ExistsBijection(At(s) \ {1}, At(Tail(s)))
    BY <2>1, Fun_ExistsBijSymmetric
  <2>. QED
    BY <1>8, <2>2, FS_Bijection
<1>10. Cardinality(At(s)) \in Nat
  BY <1>2, FS_CardinalityType
<1>. QED
  BY <1>5, <1>7, <1>8, <1>9, <1>10

-----------------------------------------------------------------------------
(* The places of a frame in the channels, and the workers that handle it.    *)
Queued(f) ==
    {p \in Workers \X (1 .. ChanCap) :
        p[2] \in DOMAIN channels[p[1]] /\ channels[p[1]][p[2]] = f}

Handling(f) == {w \in Workers : busy[w] = f}

LEMMA CopiesAre ==
    ASSUME TypeOK, NEW f \in Frames
    PROVE  /\ Copies(f) = Occurrences(batch, f) + Cardinality(Queued(f)) + Cardinality(Handling(f))
           /\ Copies(f)' = Occurrences(batch', f) + Cardinality(Queued(f)') + Cardinality(Handling(f)')
           /\ IsFiniteSet(Queued(f)) /\ IsFiniteSet(Handling(f))
           /\ Cardinality(Queued(f)) \in Nat /\ Cardinality(Handling(f)) \in Nat
           /\ Occurrences(batch, f) \in Nat
<1>1. IsFiniteSet(Workers) /\ IsFiniteSet(1 .. ChanCap)
  BY FS_Interval DEF Workers
<1>2. IsFiniteSet(Workers \X (1 .. ChanCap))
  BY <1>1, FS_Product
<1>3. IsFiniteSet(Queued(f)) /\ IsFiniteSet(Handling(f))
  BY <1>1, <1>2, FS_Subset DEF Queued, Handling
<1>4. Occurrences(batch, f) \in Nat
  BY OccurrencesType DEF TypeOK, LoopTypeOK
<1>5. /\ Copies(f) = Occurrences(batch, f) + Cardinality(Queued(f)) + Cardinality(Handling(f))
      /\ Copies(f)' = Occurrences(batch', f) + Cardinality(Queued(f)') + Cardinality(Handling(f)')
  BY DEF Copies, Queued, Handling
<1>. QED
  BY <1>3, <1>4, <1>5, FS_CardinalityType

(* A step that leaves batch, channels and handlers alone.                    *)
LEMMA SameCopies ==
    ASSUME UNCHANGED <<batch, channels, busy>>, NEW f PROVE Copies(f)' = Copies(f)
BY DEF Copies, Occurrences

LEMMA DeliverCopies ==
    ASSUME TypeOK, NEW f \in Frames, Deliver(f), open, NEW g \in Frames
    PROVE  Copies(g)' = Copies(g) + (IF g = f THEN 1 ELSE 0)
<1>1. batch \in Seq(Frames) /\ batch' = Append(batch, f)
  BY DEF Deliver, TypeOK, LoopTypeOK
<1>2. Occurrences(batch', g) = Occurrences(batch, g) + (IF f = g THEN 1 ELSE 0)
  BY <1>1, OccurrencesAppend
<1>3. Queued(g)' = Queued(g) /\ Handling(g)' = Handling(g)
  BY DEF Deliver, Queued, Handling
<1>. QED
  BY <1>2, <1>3, CopiesAre

LEMMA DispatchCopies ==
    ASSUME TypeOK, Dispatch, NEW g \in Frames
    PROVE  Copies(g)' = Copies(g)
<1>. DEFINE h == Head(batch)
            n == Len(channels[idx]) + 1
<1>1. batch \in Seq(Frames) /\ batch # << >> /\ batch' = Tail(batch) /\ h \in Frames
  BY DEF Dispatch, TypeOK, LoopTypeOK
<1>2. Occurrences(batch, g) = Occurrences(batch', g) + (IF h = g THEN 1 ELSE 0)
  BY <1>1, OccurrencesTail
<1>3. Handling(g)' = Handling(g)
  BY DEF Dispatch, Handling
<1>4. idx \in Workers /\ channels[idx] \in Seq(Frames) /\ n \in 1 .. ChanCap
  BY DEF Dispatch, TypeOK, LoopTypeOK, WorkerTypeOK
<1>5. /\ DOMAIN channels[idx] = 1 .. n - 1
      /\ DOMAIN channels'[idx] = 1 .. n
      /\ \A i \in 1 .. n - 1 : channels'[idx][i] = channels[idx][i]
      /\ channels'[idx][n] = h
      /\ \A w \in Workers : w # idx => channels'[w] = channels[w]
  <2>1. channels'[idx] = Append(channels[idx], h)
    BY <1>4 DEF Dispatch, TypeOK, WorkerTypeOK
  <2>2. \A w \in Workers : w # idx => channels'[w] = channels[w]
    BY <1>4 DEF Dispatch, TypeOK, WorkerTypeOK
  <2>. QED
    BY <1>1, <1>4, <2>1, <2>2
<1>. HIDE DEF h, n
<1>6. <<idx, n>> \notin Queued(g)
  BY <1>4, <1>5 DEF Queued
<1>7. Queued(g)' = IF h = g THEN Queued(g) \cup {<<idx, n>>} ELSE Queued(g)
  <2>1. ASSUME NEW w \in Workers, NEW i \in 1 .. ChanCap
        PROVE  <<w, i>> \in Queued(g)' <=>
                 <<w, i>> \in Queued(g) \/ (h = g /\ w = idx /\ i = n)
    <3>1. CASE w # idx
      BY <1>5, <3>1 DEF Queued
    <3>2. CASE w = idx
      BY <1>4, <1>5, <3>2 DEF Queued
    <3>. QED
      BY <3>1, <3>2
  <2>2. Queued(g) \subseteq Workers \X (1 .. ChanCap)
        /\ Queued(g)' \subseteq Workers \X (1 .. ChanCap)
    BY DEF Queued
  <2>3. <<idx, n>> \in Workers \X (1 .. ChanCap)
    BY <1>4
  <2>4. \A p \in Workers \X (1 .. ChanCap) :
          p \in Queued(g)' <=> p \in Queued(g) \/ (h = g /\ p = <<idx, n>>)
    BY <2>1
  <2>5. CASE h = g
    BY <2>2, <2>3, <2>4, <2>5
  <2>6. CASE h # g
    BY <2>2, <2>4, <2>6
  <2>. QED
    BY <2>5, <2>6
<1>8. Cardinality(Queued(g)') = Cardinality(Queued(g)) + (IF h = g THEN 1 ELSE 0)
  <2>1. IsFiniteSet(Queued(g)) /\ Cardinality(Queued(g)) \in Nat
    BY CopiesAre
  <2>2. Cardinality(Queued(g) \cup {<<idx, n>>}) = Cardinality(Queued(g)) + 1
    BY <1>6, <2>1, FS_AddElement
  <2>. QED
    BY <1>7, <2>1, <2>2
<1>9. Occurrences(batch', g) \in Nat
  <2>1. batch' \in Seq(Frames)
    BY <1>1
  <2>. QED
    BY <2>1, OccurrencesType
<1>. QED
  BY <1>2, <1>3, <1>8, <1>9, CopiesAre

LEMMA TakeCopies ==
    ASSUME TypeOK, NEW w \in Workers, Take(w), NEW g \in Frames
    PROVE  Copies(g)' = Copies(g)
<1>. DEFINE h == Head(channels[w])
            Shift == [p \in Queued(g)' |-> IF p[1] = w THEN <<w, p[2] + 1>> ELSE p]
<1>1. channels[w] \in Seq(Frames) /\ channels[w] # << >> /\ Len(channels[w]) <= ChanCap
  BY DEF Take, TypeOK, WorkerTypeOK
<1>2. h \in Frames
  BY <1>1
<1>3. /\ DOMAIN channels[w] = 1 .. Len(channels[w])
      /\ Len(channels[w]) \in 1 .. ChanCap
      /\ h = channels[w][1]
      /\ DOMAIN channels'[w] = 1 .. Len(channels[w]) - 1
      /\ \A i \in 1 .. Len(channels[w]) - 1 : channels'[w][i] = channels[w][i + 1]
      /\ \A v \in Workers : v # w => channels'[v] = channels[v]
  <2>1. channels'[w] = Tail(channels[w])
    BY DEF Take, TypeOK, WorkerTypeOK
  <2>2. \A v \in Workers : v # w => channels'[v] = channels[v]
    BY DEF Take, TypeOK, WorkerTypeOK
  <2>. QED
    BY <1>1, <2>1, <2>2
<1>. HIDE DEF h
<1>4. \A v \in Workers, i \in 1 .. ChanCap :
        /\ v # w => (<<v, i>> \in Queued(g)' <=> <<v, i>> \in Queued(g))
        /\ <<w, i>> \in Queued(g)' <=> i + 1 \in 1 .. ChanCap /\ <<w, i + 1>> \in Queued(g)
        /\ <<w, 1>> \in Queued(g) <=> h = g
  <2> SUFFICES ASSUME NEW v \in Workers, NEW i \in 1 .. ChanCap
               PROVE  /\ v # w => (<<v, i>> \in Queued(g)' <=> <<v, i>> \in Queued(g))
                      /\ <<w, i>> \in Queued(g)' <=>
                           i + 1 \in 1 .. ChanCap /\ <<w, i + 1>> \in Queued(g)
                      /\ <<w, 1>> \in Queued(g) <=> h = g
    OBVIOUS
  <2>1. v # w => (<<v, i>> \in Queued(g)' <=> <<v, i>> \in Queued(g))
    BY <1>3 DEF Queued
  <2>2. <<w, 1>> \in Queued(g) <=> h = g
    BY <1>3 DEF Queued
  <2>3. <<w, i>> \in Queued(g)' <=> i \in 1 .. Len(channels[w]) - 1 /\ channels[w][i + 1] = g
    BY <1>3 DEF Queued
  <2>4. i + 1 \in 1 .. ChanCap /\ <<w, i + 1>> \in Queued(g)
          <=> i + 1 \in 1 .. Len(channels[w]) /\ channels[w][i + 1] = g
    BY <1>3 DEF Queued
  <2>. QED
    BY <1>3, <2>1, <2>2, <2>3, <2>4
<1>5. /\ \A p \in Queued(g) : p[1] \in Workers /\ p[2] \in 1 .. ChanCap /\ p = <<p[1], p[2]>>
      /\ \A p \in Queued(g)' : p[1] \in Workers /\ p[2] \in 1 .. ChanCap /\ p = <<p[1], p[2]>>
  BY DEF Queued
<1>6. Shift \in Bijection(Queued(g)', Queued(g) \ {<<w, 1>>})
  <2>1. ASSUME NEW p \in Queued(g)' PROVE Shift[p] \in Queued(g) \ {<<w, 1>>}
    <3>1. p[1] \in Workers /\ p[2] \in 1 .. ChanCap /\ p = <<p[1], p[2]>>
      BY <1>5
    <3>2. CASE p[1] = w
      <4>1. <<w, p[2]>> \in Queued(g)'
        BY <3>1, <3>2
      <4>2. <<w, p[2] + 1>> \in Queued(g)
        BY <1>4, <3>1, <4>1
      <4>3. <<w, p[2] + 1>> # <<w, 1>>
        BY <3>1
      <4>. QED
        BY <3>2, <4>2, <4>3
    <3>3. CASE p[1] # w
      <4>1. <<p[1], p[2]>> \in Queued(g)
        BY <1>4, <3>1, <3>3
      <4>. QED
        BY <3>1, <3>3, <4>1
    <3>. QED
      BY <3>2, <3>3
  <2>2. \A p, q \in Queued(g)' : Shift[p] = Shift[q] => p = q
    BY <1>5
  <2>3. ASSUME NEW q \in Queued(g) \ {<<w, 1>>} PROVE \E p \in Queued(g)' : Shift[p] = q
    <3>1. CASE q[1] # w
      <4>1. q[1] \in Workers /\ q[2] \in 1 .. ChanCap /\ q = <<q[1], q[2]>>
        BY <1>5
      <4>2. <<q[1], q[2]>> \in Queued(g)'
        BY <1>4, <3>1, <4>1
      <4>3. q \in Queued(g)' /\ Shift[q] = q
        BY <3>1, <4>1, <4>2
      <4>. QED
        BY <4>3
    <3>2. CASE q[1] = w
      <4>1. q[2] \in 1 .. ChanCap /\ q = <<w, q[2]>> /\ q[2] # 1
        BY <1>5, <3>2
      <4>2. q[2] - 1 \in 1 .. ChanCap /\ (q[2] - 1) + 1 = q[2]
        BY <4>1
      <4>3. <<w, q[2] - 1>> \in Queued(g)'
        BY <1>4, <4>1, <4>2
      <4>4. Shift[<<w, q[2] - 1>>] = q
        BY <4>1, <4>2, <4>3
      <4>. QED
        BY <4>3, <4>4
    <3>. QED
      BY <3>1, <3>2
  <2>4. DOMAIN Shift = Queued(g)' /\ Shift \in [Queued(g)' -> Queued(g) \ {<<w, 1>>}]
    BY <2>1
  <2>. HIDE DEF Shift
  <2>. QED
    BY <2>2, <2>3, <2>4 DEF Bijection, Injection, Surjection, IsInjective
<1>. HIDE DEF Shift
<1>7. IsFiniteSet(Queued(g) \ {<<w, 1>>})
      /\ Cardinality(Queued(g) \ {<<w, 1>>})
           = Cardinality(Queued(g)) - (IF h = g THEN 1 ELSE 0)
  <2>1. 1 \in 1 .. ChanCap
    OBVIOUS
  <2>2. <<w, 1>> \in Queued(g) <=> h = g
    BY <1>4, <2>1
  <2>3. IsFiniteSet(Queued(g)) /\ Cardinality(Queued(g)) \in Nat
    BY CopiesAre
  <2>. QED
    BY <2>2, <2>3, FS_RemoveElement
<1>8. ExistsBijection(Queued(g)', Queued(g) \ {<<w, 1>>})
  BY <1>6 DEF ExistsBijection
<1>9. Cardinality(Queued(g)') = Cardinality(Queued(g)) - (IF h = g THEN 1 ELSE 0)
  <2>1. ExistsBijection(Queued(g) \ {<<w, 1>>}, Queued(g)')
    BY <1>8, Fun_ExistsBijSymmetric
  <2>. QED
    BY <1>7, <2>1, FS_Bijection
<1>10. Cardinality(Handling(g)') = Cardinality(Handling(g)) + (IF h = g THEN 1 ELSE 0)
  <2>1. busy[w] = 0 /\ busy' = [busy EXCEPT ![w] = h] /\ g # 0
    BY DEF Take, h, Frames
  <2>2. w \notin Handling(g)
    BY <2>1 DEF Handling
  <2>3. Handling(g)' = IF h = g THEN Handling(g) \cup {w} ELSE Handling(g)
    BY <2>1 DEF Handling, TypeOK, WorkerTypeOK
  <2>4. IsFiniteSet(Handling(g)) /\ Cardinality(Handling(g)) \in Nat
    BY CopiesAre
  <2>5. Cardinality(Handling(g) \cup {w}) = Cardinality(Handling(g)) + 1
    BY <2>2, <2>4, FS_AddElement
  <2>. QED
    BY <2>3, <2>4, <2>5
<1>11. batch' = batch
  BY DEF Take, loopVars
<1>. QED
  BY <1>9, <1>10, <1>11, CopiesAre

LEMMA HandledCopies ==
    ASSUME TypeOK, NEW w \in Workers, busy[w] # 0, busy' = [busy EXCEPT ![w] = 0],
           UNCHANGED <<batch, channels>>, NEW g \in Frames
    PROVE  Copies(g)' = Copies(g) - (IF busy[w] = g THEN 1 ELSE 0)
<1>1. Queued(g)' = Queued(g)
  BY DEF Queued
<1>2. w \in Handling(g) <=> busy[w] = g
  BY DEF Handling
<1>3. Handling(g)' = Handling(g) \ {w}
  BY DEF Handling, Frames, TypeOK, WorkerTypeOK
<1>4. Cardinality(Handling(g)') = Cardinality(Handling(g)) - (IF busy[w] = g THEN 1 ELSE 0)
  <2>1. IsFiniteSet(Handling(g)) /\ Cardinality(Handling(g)) \in Nat
    BY CopiesAre
  <2>2. Cardinality(Handling(g) \ {w})
          = IF w \in Handling(g) THEN Cardinality(Handling(g)) - 1 ELSE Cardinality(Handling(g))
    BY <2>1, FS_RemoveElement
  <2>. QED
    BY <1>2, <1>3, <2>1, <2>2
<1>. QED
  BY <1>1, <1>4, CopiesAre

LEMMA CloseCopies ==
    ASSUME TypeOK, CloseChannels, NEW g \in Frames
    PROVE  /\ Copies(g)' = Copies(g) - Occurrences(batch, g)
           /\ Copies(g)' >= 0 /\ Occurrences(batch, g) \in Nat
<1>1. Queued(g)' = Queued(g) /\ Handling(g)' = Handling(g)
  BY DEF CloseChannels, Queued, Handling
<1>2. Occurrences(batch', g) = 0
  BY OccurrencesEmpty DEF CloseChannels
<1>. QED
  BY <1>1, <1>2, CopiesAre

(* A process that holds nothing.                                             *)
LEMMA NoCopies ==
    ASSUME batch = << >>, channels = [w \in Workers |-> << >>],
           busy = [w \in Workers |-> 0], NEW g \in Frames
    PROVE  Copies(g) = 0
<1>1. Queued(g) = {}
  BY DEF Queued
<1>2. Handling(g) = {}
  BY DEF Handling, Frames
<1>3. Cardinality(Queued(g)) = 0 /\ Cardinality(Handling(g)) = 0
  BY <1>1, <1>2, FS_EmptySet
<1>4. Occurrences(batch, g) = 0
  BY OccurrencesEmpty
<1>5. Copies(g) = Occurrences(batch, g) + Cardinality(Queued(g)) + Cardinality(Handling(g))
  BY DEF Copies, Queued, Handling
<1>. QED
  BY <1>3, <1>4, <1>5

LEMMA ExitCopies ==
    ASSUME Exit, NEW g \in Frames
    PROVE  Copies(g)' = 0
<1>1. (batch = << >> /\ channels = [w \in Workers |-> << >>] /\ busy = [w \in Workers |-> 0])'
  BY DEF Exit
<1>2. Queued(g)' = {} /\ Handling(g)' = {}
  BY <1>1 DEF Queued, Handling, Frames
<1>3. Cardinality(Queued(g)') = 0 /\ Cardinality(Handling(g)') = 0
  BY <1>2, FS_EmptySet
<1>4. Occurrences(batch', g) = 0
  BY <1>1, OccurrencesEmpty
<1>5. Copies(g)' = Occurrences(batch', g) + Cardinality(Queued(g)') + Cardinality(Handling(g)')
  BY DEF Copies, Queued, Handling
<1>. QED
  BY <1>3, <1>4, <1>5

-----------------------------------------------------------------------------
(* Where the deliveries of a frame went, and what the server may redeliver   *)
(* while no AckWait has run out: a frame that nobody holds and that no       *)
(* handler has finished.                                                     *)
Unpublished == \A f \in Frames : f > published => delivered[f] = 0

OncePerAckWait ==
    \A f \in Frames \ timedOut :
        /\ Copies(f) + succeeded[f] <= 1
        /\ f \in stored \ unacked => Copies(f) + succeeded[f] = 0

Balance == DeliveriesAccounted /\ Unpublished /\ OncePerAckWait

(* The types of the numbers that the balance adds up.                        *)
LEMMA BalanceType ==
    ASSUME TypeOK, NEW f \in Frames
    PROVE  /\ delivered[f] \in Nat /\ Copies(f) \in Nat
           /\ succeeded[f] \in Nat /\ failed[f] \in Nat /\ lost[f] \in Nat
BY CopiesType DEF TypeOK, ServerTypeOK, HistoryTypeOK

LEMMA InitBalances ==
    ASSUME Init PROVE Balance
<1>1. \A f \in Frames : Copies(f) = 0
  BY NoCopies DEF Init
<1>. QED
  BY <1>1 DEF Init, Balance, DeliveriesAccounted, Unpublished, OncePerAckWait

(* A step that touches none of what is counted and frees no frame.           *)
LEMMA SameBalance ==
    ASSUME Balance, \A f \in Frames : Copies(f)' = Copies(f),
           UNCHANGED <<published, delivered, succeeded, failed, lost>>,
           timedOut \subseteq timedOut',
           (stored \ unacked)' \subseteq (stored \ unacked) \cup timedOut'
    PROVE  Balance'
BY DEF Balance, DeliveriesAccounted, Unpublished, OncePerAckWait

LEMMA ServerBalances ==
    ASSUME TypeOK, Balance,
           \/ PublishFrame
           \/ \E f \in Frames : Deliver(f) \/ AckWaitExpires(f) \/ Expire(f)
    PROVE  Balance'
<1>1. CASE PublishFrame
  <2>. USE <1>1 DEF PublishFrame, loopVars, historyVars
  <2>1. \A f \in Frames : Copies(f)' = Copies(f)
    BY SameCopies
  <2>2. published \in Nat
    BY DEF TypeOK, ServerTypeOK
  <2>3. Unpublished' /\ DeliveriesAccounted'
    BY <2>1, <2>2 DEF Balance, DeliveriesAccounted, Unpublished, Frames
  <2>4. ASSUME NEW f \in Frames \ timedOut
        PROVE  /\ (Copies(f) + succeeded[f])' <= 1
               /\ f \in (stored \ unacked)' => (Copies(f) + succeeded[f])' = 0
    <3>1. CASE f = published + 1
      <4>1. delivered[f] = 0
        BY <2>2, <3>1 DEF Balance, Unpublished
      <4>2. delivered[f] = Copies(f) + succeeded[f] + failed[f] + lost[f]
        BY DEF Balance, DeliveriesAccounted
      <4>3. Copies(f) + succeeded[f] = 0
        BY <4>1, <4>2, BalanceType
      <4>. QED
        BY <2>1, <4>3
    <3>2. CASE f # published + 1
      BY <2>1, <2>4, <3>2 DEF Balance, OncePerAckWait
    <3>. QED
      BY <3>1, <3>2
  <2>. QED
    BY <2>3, <2>4 DEF Balance, OncePerAckWait
<1>2. ASSUME NEW f \in Frames, Deliver(f) PROVE Balance'
  <2>. USE <1>2 DEF Deliver, Available
  <2>1. /\ open => /\ \A g \in Frames : Copies(g)' = Copies(g) + (IF g = f THEN 1 ELSE 0)
                   /\ lost' = lost
        /\ ~open => /\ \A g \in Frames : Copies(g)' = Copies(g)
                    /\ \A g \in Frames : lost'[g] = lost[g] + (IF g = f THEN 1 ELSE 0)
    <3>1. CASE open
      BY <3>1, DeliverCopies
    <3>2. CASE ~open
      <4>1. \A g \in Frames : Copies(g)' = Copies(g)
        BY <3>2, SameCopies
      <4>2. \A g \in Frames : lost'[g] = lost[g] + (IF g = f THEN 1 ELSE 0)
        BY <3>2 DEF TypeOK, HistoryTypeOK
      <4>. QED
        BY <3>2, <4>1, <4>2
    <3>. QED
      BY <3>1, <3>2
  <2>2. \A g \in Frames : delivered'[g] = delivered[g] + (IF g = f THEN 1 ELSE 0)
    BY DEF TypeOK, ServerTypeOK
  <2>3. DeliveriesAccounted'
    <3> SUFFICES ASSUME NEW g \in Frames
                 PROVE  (delivered[g] = Copies(g) + succeeded[g] + failed[g] + lost[g])'
      BY DEF DeliveriesAccounted
    <3>1. delivered[g] = Copies(g) + succeeded[g] + failed[g] + lost[g]
      BY DEF Balance, DeliveriesAccounted
    <3>2. delivered[g] \in Nat /\ Copies(g) \in Nat /\ succeeded[g] \in Nat
          /\ failed[g] \in Nat /\ lost[g] \in Nat
      BY BalanceType
    <3>3. succeeded'[g] = succeeded[g] /\ failed'[g] = failed[g]
      OBVIOUS
    <3>4. delivered'[g] = delivered[g] + (IF g = f THEN 1 ELSE 0)
      BY <2>2
    <3>5. CASE open
      <4>1. Copies(g)' = Copies(g) + (IF g = f THEN 1 ELSE 0) /\ lost' = lost
        BY <2>1, <3>5
      <4>. QED
        BY ONLY <3>1, <3>2, <3>3, <3>4, <4>1
    <3>6. CASE ~open
      <4>1. Copies(g)' = Copies(g) /\ lost'[g] = lost[g] + (IF g = f THEN 1 ELSE 0)
        BY <2>1, <3>6
      <4>. QED
        BY ONLY <3>1, <3>2, <3>3, <3>4, <4>1
    <3>. QED
      BY <3>5, <3>6
  <2>4. f <= published /\ published' = published
    BY DEF TypeOK, ServerTypeOK
  <2>5. Unpublished'
    BY <2>2, <2>4 DEF Balance, Unpublished, Frames, TypeOK, ServerTypeOK
  <2>6. OncePerAckWait'
    <3> SUFFICES ASSUME NEW g \in Frames \ timedOut
                 PROVE  /\ (Copies(g) + succeeded[g])' <= 1
                        /\ g \in (stored \ unacked)' => (Copies(g) + succeeded[g])' = 0
      BY DEF OncePerAckWait
    <3>1. /\ Copies(g) + succeeded[g] <= 1
          /\ g \in stored \ unacked => Copies(g) + succeeded[g] = 0
      BY DEF Balance, OncePerAckWait
    <3>2. Copies(g) \in Nat /\ succeeded[g] \in Nat /\ succeeded'[g] = succeeded[g]
      BY BalanceType
    <3>3. CASE g = f
      BY <2>1, <3>1, <3>2, <3>3
    <3>4. CASE g # f
      BY <2>1, <3>1, <3>2, <3>4
    <3>. QED
      BY <3>3, <3>4
  <2>. QED
    BY <2>3, <2>5, <2>6 DEF Balance
<1>3. ASSUME NEW f \in Frames, AckWaitExpires(f) \/ Expire(f) PROVE Balance'
  <2>. USE <1>3 DEF AckWaitExpires, Expire, loopVars
  <2>1. \A g \in Frames : Copies(g)' = Copies(g)
    BY SameCopies
  <2>2. (stored \ unacked)' \subseteq (stored \ unacked) \cup timedOut'
    OBVIOUS
  <2>. QED
    BY <2>1, <2>2, SameBalance
<1>. QED
  BY <1>1, <1>2, <1>3

LEMMA LoopBalances ==
    ASSUME TypeOK, Balance, Loop PROVE Balance'
<1>1. CASE Fetch \/ FetchTimeout
  <2>1. \A g \in Frames : Copies(g)' = Copies(g)
    BY <1>1, SameCopies DEF Fetch, FetchTimeout
  <2>. QED
    BY <1>1, <2>1, SameBalance DEF Fetch, FetchTimeout, serverVars, historyVars
<1>2. CASE Dispatch
  <2>1. \A g \in Frames : Copies(g)' = Copies(g)
    BY <1>2, DispatchCopies
  <2>. QED
    BY <1>2, <2>1, SameBalance DEF Dispatch, serverVars, historyVars
<1>3. CASE CloseChannels
  <2>. USE <1>3 DEF CloseChannels, serverVars
  <2>1. \A g \in Frames : /\ Copies(g)' = Copies(g) - Occurrences(batch, g)
                          /\ Occurrences(batch, g) \in Nat
    BY CloseCopies
  <2>2. \A g \in Frames : lost'[g] = lost[g] + Occurrences(batch, g)
    BY DEF TypeOK, HistoryTypeOK
  <2>3. DeliveriesAccounted'
    <3> SUFFICES ASSUME NEW g \in Frames
                 PROVE  (delivered[g] = Copies(g) + succeeded[g] + failed[g] + lost[g])'
      BY DEF DeliveriesAccounted
    <3>1. delivered[g] = Copies(g) + succeeded[g] + failed[g] + lost[g]
      BY DEF Balance, DeliveriesAccounted
    <3>. QED
      BY <2>1, <2>2, <3>1, BalanceType
  <2>4. Unpublished'
    BY DEF Balance, Unpublished
  <2>5. OncePerAckWait'
    <3> SUFFICES ASSUME NEW g \in Frames \ timedOut
                 PROVE  /\ (Copies(g) + succeeded[g])' <= 1
                        /\ g \in (stored \ unacked)' => (Copies(g) + succeeded[g])' = 0
      BY DEF OncePerAckWait
    <3>1. /\ Copies(g) + succeeded[g] <= 1
          /\ g \in stored \ unacked => Copies(g) + succeeded[g] = 0
      BY DEF Balance, OncePerAckWait
    <3>2. Copies(g)' >= 0
      BY CloseCopies
    <3>. QED
      BY <2>1, <3>1, <3>2, BalanceType
  <2>. QED
    BY <2>3, <2>4, <2>5 DEF Balance
<1>. QED
  BY <1>1, <1>2, <1>3 DEF Loop

(* A worker that has a frame in its handler holds a copy of it.              *)
LEMMA HoldsWhatItHandles ==
    ASSUME TypeOK, NEW w \in Workers, busy[w] \in Frames
    PROVE  Copies(busy[w]) >= 1
<1>. DEFINE f == busy[w]
<1>1. w \in Handling(f)
  BY DEF Handling
<1>2. /\ Copies(f) = Occurrences(batch, f) + Cardinality(Queued(f)) + Cardinality(Handling(f))
      /\ IsFiniteSet(Handling(f)) /\ Cardinality(Handling(f)) \in Nat
      /\ Cardinality(Queued(f)) \in Nat /\ Occurrences(batch, f) \in Nat
  BY CopiesAre
<1>. HIDE DEF f
<1>3. Cardinality(Handling(f)) # 0
  BY <1>1, <1>2, FS_EmptySet
<1>4. Copies(f) >= 1
  BY <1>2, <1>3
<1>. QED
  BY <1>4 DEF f

LEMMA WorkerBalances ==
    ASSUME TypeOK, Balance, NEW w \in Workers, Take(w) \/ Handler(w) PROVE Balance'
<1>1. CASE Take(w)
  <2>1. \A g \in Frames : Copies(g)' = Copies(g)
    BY <1>1, TakeCopies
  <2>. QED
    BY <1>1, <2>1, SameBalance DEF Take, serverVars, historyVars
<1>2. ASSUME NEW arrives \in BOOLEAN, Succeed(w, arrives) \/ Fail(w, arrives)
      PROVE  Balance'
  <2>. DEFINE f == busy[w]
  <2>1. f \in Frames /\ busy[w] # 0
    BY <1>2 DEF Succeed, Fail, TypeOK, WorkerTypeOK, Frames
  <2>2. \A g \in Frames : Copies(g)' = Copies(g) - (IF g = f THEN 1 ELSE 0)
    BY <1>2, <2>1, HandledCopies DEF Succeed, Fail, loopVars
  <2>3. UNCHANGED <<published, delivered, lost, timedOut>>
    BY <1>2 DEF Succeed, Fail
  <2>4. \/ /\ failed' = failed
           /\ \A g \in Frames : succeeded'[g] = succeeded[g] + (IF g = f THEN 1 ELSE 0)
           /\ (stored \ unacked)' \subseteq stored \ unacked
        \/ /\ succeeded' = succeeded
           /\ \A g \in Frames : failed'[g] = failed[g] + (IF g = f THEN 1 ELSE 0)
           /\ (stored \ unacked)' \subseteq (stored \ unacked) \cup {f}
    <3>1. succeeded \in [Frames -> Nat] /\ failed \in [Frames -> Nat]
      BY DEF TypeOK, HistoryTypeOK
    <3>2. CASE Succeed(w, arrives)
      BY <2>1, <3>1, <3>2 DEF Succeed
    <3>3. CASE Fail(w, arrives)
      BY <2>1, <3>1, <3>3 DEF Fail
    <3>. QED
      BY <1>2, <3>2, <3>3
  <2>. HIDE DEF f
  <2>5. ASSUME NEW g \in Frames
        PROVE  (delivered[g] = Copies(g) + succeeded[g] + failed[g] + lost[g])'
    <3>1. delivered[g] = Copies(g) + succeeded[g] + failed[g] + lost[g]
      BY DEF Balance, DeliveriesAccounted
    <3>. QED
      BY <2>2, <2>3, <2>4, <3>1, BalanceType
  <2>6. ASSUME NEW g \in Frames \ timedOut
        PROVE  /\ (Copies(g) + succeeded[g])' <= 1
               /\ g \in (stored \ unacked)' => (Copies(g) + succeeded[g])' = 0
    <3>1. /\ Copies(g) + succeeded[g] <= 1
          /\ g \in stored \ unacked => Copies(g) + succeeded[g] = 0
      BY DEF Balance, OncePerAckWait
    <3>2. Copies(g) \in Nat /\ succeeded[g] \in Nat
      BY BalanceType
    <3>3. g = f => Copies(g) >= 1
      BY <2>1, HoldsWhatItHandles DEF f
    <3>4. Copies(g)' = Copies(g) - (IF g = f THEN 1 ELSE 0)
      BY <2>2
    <3>5. \/ /\ succeeded'[g] = succeeded[g] + (IF g = f THEN 1 ELSE 0)
             /\ g \in (stored \ unacked)' => g \in stored \ unacked
          \/ /\ succeeded'[g] = succeeded[g]
             /\ g \in (stored \ unacked)' => g \in stored \ unacked \/ g = f
      BY <2>4
    <3>6. CASE g = f
      BY <3>1, <3>2, <3>3, <3>4, <3>5, <3>6
    <3>7. CASE g # f
      BY <3>1, <3>2, <3>4, <3>5, <3>7
    <3>. QED
      BY <3>6, <3>7
  <2>. QED
    BY <2>3, <2>5, <2>6 DEF Balance, DeliveriesAccounted, Unpublished, OncePerAckWait
<1>. QED
  BY <1>1, <1>2 DEF Handler

LEMMA ProcessBalances ==
    ASSUME TypeOK, Balance, Shutdown \/ Exit \/ Restart PROVE Balance'
<1>1. CASE Shutdown \/ Restart
  <2>1. \A g \in Frames : Copies(g)' = Copies(g)
    BY <1>1, SameCopies DEF Shutdown, Restart, loopVars
  <2>. QED
    BY <1>1, <2>1, SameBalance DEF Shutdown, Restart, serverVars, historyVars
<1>2. CASE Exit
  <2>. USE <1>2 DEF Exit, serverVars
  <2>1. \A g \in Frames : Copies(g)' = 0
    BY ExitCopies
  <2>2. \A g \in Frames : lost'[g] = lost[g] + Copies(g)
    BY DEF TypeOK, HistoryTypeOK
  <2>3. ASSUME NEW g \in Frames
        PROVE  (delivered[g] = Copies(g) + succeeded[g] + failed[g] + lost[g])'
    <3>1. delivered[g] = Copies(g) + succeeded[g] + failed[g] + lost[g]
      BY DEF Balance, DeliveriesAccounted
    <3>. QED
      BY <2>1, <2>2, <3>1, BalanceType
  <2>4. ASSUME NEW g \in Frames \ timedOut
        PROVE  /\ (Copies(g) + succeeded[g])' <= 1
               /\ g \in (stored \ unacked)' => (Copies(g) + succeeded[g])' = 0
    <3>1. /\ Copies(g) + succeeded[g] <= 1
          /\ g \in stored \ unacked => Copies(g) + succeeded[g] = 0
      BY DEF Balance, OncePerAckWait
    <3>. QED
      BY <2>1, <3>1, BalanceType
  <2>. QED
    BY <2>3, <2>4 DEF Balance, DeliveriesAccounted, Unpublished, OncePerAckWait
<1>. QED
  BY <1>1, <1>2

LEMMA Balances == Spec => []Balance
<1>1. Init => Balance
  BY InitBalances
<1>2. IInv /\ Balance /\ [Next]_vars => Balance'
  <2> SUFFICES ASSUME TypeOK, Balance, [Next]_vars PROVE Balance'
    BY DEF IInv
  <2>1. CASE UNCHANGED vars
    <3>1. UNCHANGED <<serverVars, loopVars, channels, busy, processVars, historyVars>>
      BY <2>1 DEF vars
    <3>2. \A g \in Frames : Copies(g)' = Copies(g)
      BY <3>1, SameCopies DEF loopVars
    <3>. QED
      BY <3>1, <3>2, SameBalance DEF serverVars, historyVars
  <2>. QED
    BY <2>1, ServerBalances, LoopBalances, WorkerBalances, ProcessBalances DEF Next
<1>. QED
  BY <1>1, <1>2, Inductive, PTL DEF Spec

(* Every delivery is held, finished or died with the process: the loop and   *)
(* the channels use up none of a frame's MaxDeliver chances.                 *)
THEOREM NoDeliveryWasted == Spec => []DeliveriesAccounted
<1>1. Balance => DeliveriesAccounted
  BY DEF Balance
<1>. QED
  BY <1>1, Balances, PTL

(* A frame is processed twice with success only after its AckWait ran out.   *)
THEOREM AtMostOnceInTime == Spec => []DuplicatesNeedTimeout
<1>1. TypeOK /\ Balance => DuplicatesNeedTimeout
  <2> SUFFICES ASSUME TypeOK, Balance, NEW f \in Frames, f \notin timedOut
               PROVE  ~(succeeded[f] > 1)
    BY DEF DuplicatesNeedTimeout
  <2>1. Copies(f) + succeeded[f] <= 1
    BY DEF Balance, OncePerAckWait
  <2>. QED
    BY <2>1, BalanceType
<1>. QED
  BY <1>1, Balances, TypeCorrect, PTL
=============================================================================
