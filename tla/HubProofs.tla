------------------------------ MODULE HubProofs ------------------------------
(* Proofs about Hub for any clients, filters, buffer sizes and events. The   *)
(* argument for NeverPanics: a client in the map has an open channel, and    *)
(* only clients in the map are offered an event. For DeliveryIsGapFree: the  *)
(* events reach Run in the order they were published, so that the current one*)
(* is newer than whatever a client has, and a client that is refused one is  *)
(* out of the map and never offered another. For GaugeSettles: the gauge     *)
(* counts the connections whose readPump has not been unregistered, and one  *)
(* of those that is out of the map has a closed channel.                     *)
EXTENDS Hub, SequenceTheorems, FiniteSetTheorems, TLAPS

(* BroadcastEvent's channel holds the published events behind the current.   *)
QueueInv ==
    /\ Len(published) = current + Len(broadcast)
    /\ \A i \in DOMAIN broadcast : broadcast[i] = current + i
    /\ todo # {} => current > 0

(* The map of clients, their channels and their goroutines.                  *)
Membership ==
    /\ todo \subseteq clients
    /\ \A c \in clients : ~closed[c] /\ reader[c] \in {"read", "unregister"}

(* Nothing happens for a connection before the hub has it.                   *)
Fresh ==
    \A c \in Clients : reader[c] \in {"none", "register"} =>
        /\ writer[c] = "none"
        /\ written[c] = << >> /\ inflight[c] = 0 /\ send[c] = << >>
        /\ ~closed[c]

Writing ==
    \A c \in Clients :
        /\ inflight[c] # 0 <=> writer[c] = "write"
        /\ joined[c] <= current
        /\ c \in todo => joined[c] < current

(* DeliveryIsGapFree of one client.                                          *)
GapFree(c) ==
    /\ \A i, j \in DOMAIN Given(c) : i < j => Given(c)[i] < Given(c)[j]
    /\ Elements(Given(c)) \subseteq Due(c)
    /\ \A d \in Due(c), e \in Elements(Given(c)) : d < e => d \in Elements(Given(c))
    /\ c \in clients /\ writer[c] # "done" => Elements(Given(c)) = Due(c)

Safe == TypeOK /\ QueueInv /\ Membership /\ Fresh /\ Writing /\ NeverPanics

IInv == Safe /\ DeliveryIsGapFree

USE HubAssumption

-----------------------------------------------------------------------------
(* Types, the map and the queue, one step per action.                        *)
LEMMA InitSafe ==
    ASSUME Init PROVE IInv
<1>1. TypeOK
  <2>1. << >> \in Seq(Streams) /\ << >> \in Seq(Event) /\ Len(<< >>) = 0
    OBVIOUS
  <2>2. /\ published \in Seq(Streams) /\ Len(published) <= MaxEvents
        /\ broadcast \in Seq(Event) /\ Len(broadcast) <= BroadcastCap
    BY <2>1 DEF Init
  <2>3. /\ send \in [Clients -> Seq(Event)] /\ written \in [Clients -> Seq(Event)]
        /\ \A c \in Clients : Len(send[c]) <= SendCap
    BY <2>1 DEF Init
  <2>4. /\ closed \in [Clients -> BOOLEAN] /\ socket \in [Clients -> BOOLEAN]
        /\ gone \in [Clients -> BOOLEAN] /\ panic \in BOOLEAN
    BY DEF Init
  <2>5. current \in 0 .. MaxEvents /\ gauge \in Int
    BY DEF Init
  <2>6. inflight \in [Clients -> 0 .. MaxEvents] /\ joined \in [Clients -> 0 .. MaxEvents]
    BY DEF Init
  <2>7. /\ reader \in [Clients -> {"none", "register", "read", "unregister", "close", "done"}]
        /\ writer \in [Clients -> {"none", "receive", "write", "done"}]
    BY DEF Init
  <2>. QED
    BY <2>2, <2>3, <2>4, <2>5, <2>6, <2>7 DEF Init, TypeOK
<1>2. QueueInv /\ Membership /\ Fresh /\ Writing /\ NeverPanics
  BY DEF Init, QueueInv, Membership, Fresh, Writing, NeverPanics
<1>3. DeliveryIsGapFree
  <2>1. \A c \in Clients : Given(c) = << >> /\ Due(c) = {}
    BY DEF Init, Given, Due
  <2>. QED
    BY <2>1 DEF DeliveryIsGapFree, Elements
<1>. QED
  BY <1>1, <1>2, <1>3 DEF IInv, Safe

LEMMA BroadcastSafe ==
    ASSUME Safe, NEW s \in Streams, BroadcastEvent(s) PROVE Safe'
<1>. USE DEF Safe, BroadcastEvent, hubVars, clientVars
<1>1. /\ published' \in Seq(Streams) /\ Len(published') = Len(published) + 1
      /\ broadcast' \in Seq(Event) /\ Len(broadcast') = Len(broadcast) + 1
      /\ \A i \in 1 .. Len(broadcast) : broadcast'[i] = broadcast[i]
      /\ broadcast'[Len(broadcast) + 1] = Len(published) + 1
  <2>1. Len(published) + 1 \in Event
    BY DEF TypeOK, Event
  <2>. QED
    BY <2>1 DEF TypeOK
<1>2. TypeOK'
  BY <1>1 DEF TypeOK
<1>3. QueueInv'
  <2>1. Len(published') = current' + Len(broadcast')
    BY <1>1 DEF QueueInv, TypeOK
  <2>2. ASSUME NEW i \in DOMAIN broadcast' PROVE broadcast'[i] = current' + i
    <3>1. CASE i \in 1 .. Len(broadcast)
      BY <1>1, <3>1 DEF QueueInv, TypeOK
    <3>2. CASE i = Len(broadcast) + 1
      BY <1>1, <3>2 DEF QueueInv, TypeOK
    <3>3. i \in 1 .. Len(broadcast) + 1
      BY <1>1 DEF TypeOK
    <3>4. Len(broadcast) \in Nat
      BY DEF TypeOK
    <3>. QED
      BY <3>1, <3>2, <3>3, <3>4
  <2>. QED
    BY <2>1, <2>2 DEF QueueInv
<1>4. (Membership /\ Fresh /\ Writing /\ NeverPanics)'
  BY DEF Membership, Fresh, Writing, NeverPanics
<1>. QED
  BY <1>2, <1>3, <1>4

LEMMA RunSafe ==
    ASSUME Safe, Run PROVE Safe'
<1>. USE DEF Safe, InSelect, hubVars, clientVars
<1>1. CASE TakeMessage
  <2>. USE <1>1 DEF TakeMessage
  <2>1. /\ current' = current + 1 /\ current' \in 0 .. MaxEvents
        /\ broadcast' \in Seq(Event) /\ Len(broadcast') = Len(broadcast) - 1
        /\ \A i \in 1 .. Len(broadcast') : broadcast'[i] = broadcast[i + 1]
    <3>1. Head(broadcast) = broadcast[1] /\ Head(broadcast) \in Event
      BY DEF TypeOK
    <3>2. Head(broadcast) = current + 1
      BY <3>1 DEF TypeOK, QueueInv
    <3>. QED
      BY <3>1, <3>2 DEF TypeOK, Event
  <2>2. TypeOK'
    BY <2>1 DEF TypeOK
  <2>3. QueueInv'
    <3>1. Len(published') = current' + Len(broadcast')
      BY <2>1 DEF QueueInv, TypeOK
    <3>2. ASSUME NEW i \in DOMAIN broadcast' PROVE broadcast'[i] = current' + i
      <4>1. i + 1 \in DOMAIN broadcast /\ broadcast'[i] = broadcast[i + 1] /\ i \in Nat
        BY <2>1 DEF TypeOK
      <4>. QED
        BY <4>1, <2>1 DEF QueueInv, TypeOK
    <3>3. current' > 0
      BY <2>1 DEF TypeOK
    <3>. QED
      BY <3>1, <3>2, <3>3 DEF QueueInv
  <2>4. (Membership /\ Fresh /\ NeverPanics)'
    BY DEF Membership, Fresh, NeverPanics
  <2>5. Writing'
    BY <2>1 DEF Writing, TypeOK
  <2>. QED
    BY <2>2, <2>3, <2>4, <2>5
<1>2. ASSUME NEW c \in Clients, Register(c) PROVE Safe'
  <2>. USE <1>2 DEF Register
  <2>1. TypeOK'
    BY DEF TypeOK
  <2>2. (QueueInv /\ NeverPanics)'
    BY DEF QueueInv, NeverPanics
  <2>3. (Membership /\ Fresh)'
    BY DEF Membership, Fresh, TypeOK
  <2>4. Writing'
    BY DEF Writing, Fresh, TypeOK
  <2>. QED
    BY <2>1, <2>2, <2>3, <2>4
<1>3. ASSUME NEW c \in Clients, Unregister(c) PROVE Safe'
  <2>. USE <1>3 DEF Unregister, Close
  <2>1. ~panic'
    BY DEF Membership, NeverPanics
  <2>2. TypeOK'
    <3>1. closed' \in [Clients -> BOOLEAN] /\ panic' \in BOOLEAN
      BY DEF TypeOK
    <3>2. /\ clients' \in SUBSET Clients /\ gauge' \in Int
          /\ reader' \in [Clients -> {"none", "register", "read", "unregister", "close", "done"}]
      BY DEF TypeOK
    <3>. HIDE DEF Close
    <3>. QED
      BY <3>1, <3>2 DEF TypeOK
  <2>3. (QueueInv /\ Writing)'
    BY DEF QueueInv, Writing
  <2>4. (Membership /\ Fresh)'
    BY DEF Membership, Fresh, TypeOK
  <2>. QED
    BY <2>1, <2>2, <2>3, <2>4 DEF NeverPanics
<1>4. ASSUME NEW c \in Clients, Offer(c) PROVE Safe'
  <2>. USE <1>4 DEF Offer, Round
  <2>1. CASE Skip
    BY <2>1 DEF Skip, TypeOK, QueueInv, Membership, Fresh, Writing, NeverPanics
  <2>2. CASE Give(c) /\ Len(send[c]) < SendCap
    <3>. USE <2>2 DEF Give
    <3>1. ~panic'
      BY DEF Membership
    <3>2. /\ send'[c] \in Seq(Event) /\ Len(send'[c]) = Len(send[c]) + 1
          /\ \A d \in Clients : d # c => send'[d] = send[d]
      <4>1. send[c] \in Seq(Event)
        BY DEF TypeOK
      <4>2. current \in Event
        BY DEF TypeOK, QueueInv, Event
      <4>. QED
        BY <4>1, <4>2 DEF TypeOK
    <3>3. TypeOK'
      BY <3>1, <3>2 DEF TypeOK
    <3>4. (QueueInv /\ Membership /\ Writing)'
      BY DEF QueueInv, Membership, Writing
    <3>5. Fresh'
      BY DEF Fresh, Membership, TypeOK
    <3>. QED
      BY <3>1, <3>3, <3>4, <3>5 DEF NeverPanics
  <2>3. CASE Drop(c)
    <3>. USE <2>3 DEF Drop, Close
    <3>1. ~panic'
      BY DEF Membership
    <3>2. TypeOK'
      BY <3>1 DEF TypeOK
    <3>3. (QueueInv /\ Writing)'
      BY DEF QueueInv, Writing
    <3>4. (Membership /\ Fresh)'
      BY DEF Membership, Fresh, TypeOK
    <3>. QED
      BY <3>1, <3>2, <3>3, <3>4 DEF NeverPanics
  <2>. QED
    BY <2>1, <2>2, <2>3
<1>. QED
  BY <1>1, <1>2, <1>3, <1>4 DEF Run

LEMMA ConnectionSafe ==
    ASSUME Safe, NEW c \in Clients, HandleWS(c) \/ PeerLeaves(c) \/ Pumps(c)
    PROVE  Safe'
<1>. USE DEF Safe, hubVars
<1>1. CASE HandleWS(c) \/ PeerLeaves(c)
  <2>. USE <1>1 DEF HandleWS, PeerLeaves
  <2>1. TypeOK'
    BY DEF TypeOK
  <2>2. (QueueInv /\ Writing /\ NeverPanics)'
    BY DEF QueueInv, Writing, NeverPanics
  <2>3. (Membership /\ Fresh)'
    BY ZenonT(40) DEF Membership, Fresh, TypeOK
  <2>. QED
    BY <2>1, <2>2, <2>3
<1>2. CASE WriterReceive(c)
  <2>. USE <1>2 DEF WriterReceive
  <2>1. /\ send'[c] \in Seq(Event) /\ Len(send'[c]) < Len(send[c])
        /\ Head(send[c]) \in Event /\ Head(send[c]) \in 1 .. MaxEvents
    <3>1. send[c] \in Seq(Event)
      BY DEF TypeOK
    <3>. QED
      BY <3>1 DEF TypeOK, Event
  <2>2. TypeOK'
    BY <2>1, SMTT(30) DEF TypeOK
  <2>3. (QueueInv /\ Membership /\ Fresh /\ Writing /\ NeverPanics)'
    BY <2>1 DEF QueueInv, Membership, Fresh, Writing, NeverPanics, TypeOK
  <2>. QED
    BY <2>2, <2>3
<1>3. CASE WriteSucceeds(c)
  <2>. USE <1>3 DEF WriteSucceeds
  <2>1. inflight[c] \in Event
    BY DEF TypeOK, Writing, Event
  <2>2. written'[c] \in Seq(Event)
    BY <2>1 DEF TypeOK
  <2>3. TypeOK'
    BY <2>2 DEF TypeOK
  <2>4. (QueueInv /\ Membership /\ Fresh /\ Writing /\ NeverPanics)'
    BY DEF QueueInv, Membership, Fresh, Writing, NeverPanics, TypeOK
  <2>. QED
    BY <2>3, <2>4
<1>4. CASE WriterEnds(c)
  <2>. USE <1>4 DEF WriterEnds
  <2>1. TypeOK'
    BY DEF TypeOK
  <2>2. (QueueInv /\ NeverPanics)'
    BY DEF QueueInv, NeverPanics
  <2>3. (Membership /\ Fresh /\ Writing)'
    <3>1. Membership'
      BY DEF Membership, TypeOK
    <3>2. Fresh'
      BY DEF Fresh, TypeOK
    <3>3. Writing'
      BY DEF Writing, TypeOK
    <3>. QED
      BY <3>1, <3>2, <3>3
  <2>. QED
    BY <2>1, <2>2, <2>3
<1>5. CASE ReaderFails(c) \/ ReaderCloses(c)
  <2>. USE <1>5 DEF ReaderFails, ReaderCloses
  <2>1. TypeOK'
    BY DEF TypeOK
  <2>2. (QueueInv /\ NeverPanics)'
    BY DEF QueueInv, NeverPanics
  <2>3. (Membership /\ Fresh /\ Writing)'
    <3>1. Membership'
      BY DEF Membership, TypeOK
    <3>2. Fresh'
      BY DEF Fresh, TypeOK
    <3>3. Writing'
      BY DEF Writing, TypeOK
    <3>. QED
      BY <3>1, <3>2, <3>3
  <2>. QED
    BY <2>1, <2>2, <2>3
<1>. QED
  BY <1>1, <1>2, <1>3, <1>4, <1>5 DEF Pumps

-----------------------------------------------------------------------------
(* Sequences.                                                                *)

LEMMA ConcatAppend ==
    ASSUME NEW S, NEW a \in Seq(S), NEW b \in Seq(S), NEW e \in S
    PROVE  a \o Append(b, e) = Append(a \o b, e)
<1>1. a \o Append(b, e) \in Seq(S) /\ Append(a \o b, e) \in Seq(S)
  OBVIOUS
<1>2. Len(a \o Append(b, e)) = Len(Append(a \o b, e))
  OBVIOUS
<1>3. \A i \in 1 .. Len(a \o Append(b, e)) : (a \o Append(b, e))[i] = Append(a \o b, e)[i]
  OBVIOUS
<1>. QED
  BY <1>1, <1>2, <1>3, SeqEqual

LEMMA ConcatPrefix ==
    ASSUME NEW S, NEW a \in Seq(S), NEW b \in Seq(S), NEW d \in Seq(S)
    PROVE  /\ Len((a \o b) \o d) \in Nat
           /\ Len(a) \in Nat /\ Len(a) <= Len((a \o b) \o d)
           /\ DOMAIN a = 1 .. Len(a)
           /\ DOMAIN ((a \o b) \o d) = 1 .. Len((a \o b) \o d)
           /\ \A i \in DOMAIN a : a[i] = ((a \o b) \o d)[i]
<1>1. a \o b \in Seq(S) /\ Len(a \o b) = Len(a) + Len(b)
  OBVIOUS
<1>2. (a \o b) \o d \in Seq(S) /\ Len((a \o b) \o d) = Len(a) + Len(b) + Len(d)
  BY <1>1
<1>3. \A i \in 1 .. Len(a) : (a \o b)[i] = a[i]
  OBVIOUS
<1>4. \A i \in 1 .. Len(a) : ((a \o b) \o d)[i] = (a \o b)[i]
  BY <1>1
<1>. QED
  BY <1>1, <1>2, <1>3, <1>4

LEMMA HeadOverConcat ==
    ASSUME NEW S, NEW a \in Seq(S), NEW b \in Seq(S), b # << >>
    PROVE  (a \o <<Head(b)>>) \o Tail(b) = a \o b
<1>0. Head(b) \in S /\ Tail(b) \in Seq(S) /\ <<Head(b)>> \in Seq(S) /\ a \o <<Head(b)>> \in Seq(S)
  OBVIOUS
<1>1. (a \o <<Head(b)>>) \o Tail(b) \in Seq(S) /\ a \o b \in Seq(S)
  BY <1>0
<1>2. Len((a \o <<Head(b)>>) \o Tail(b)) = Len(a \o b)
  BY <1>0
<1>3. \A i \in 1 .. Len((a \o <<Head(b)>>) \o Tail(b)) :
        ((a \o <<Head(b)>>) \o Tail(b))[i] = (a \o b)[i]
  BY <1>0
<1>. QED
  BY <1>1, <1>2, <1>3, SeqEqual

-----------------------------------------------------------------------------
(* Delivery.                                                                 *)

LEMMA GivenType ==
    ASSUME TypeOK, Writing, NEW c \in Clients
    PROVE  Given(c) \in Seq(Event)
<1>1. written[c] \in Seq(Event) /\ send[c] \in Seq(Event)
  BY DEF TypeOK
<1>2. inflight[c] # 0 => inflight[c] \in Event
  BY DEF TypeOK, Event
<1>. QED
  BY <1>1, <1>2 DEF Given

(* A client that a step does not concern.                                    *)
LEMMA Untouched ==
    ASSUME NEW c \in Clients, GapFree(c), Given(c)' = Given(c), Due(c)' = Due(c),
           c \in clients' /\ writer'[c] # "done" => c \in clients /\ writer[c] # "done"
    PROVE  GapFree(c)'
BY DEF GapFree, Elements

(* A client that is given the newest event it is due.                        *)
LEMMA GivenMore ==
    ASSUME TypeOK, Writing, NEW c \in Clients, GapFree(c), NEW e \in Event,
           \A d \in Due(c) : d < e,
           Given(c)' = Append(Given(c), e), Due(c)' = Due(c) \cup {e},
           Elements(Given(c)) = Due(c)
    PROVE  GapFree(c)'
<1>1. Given(c) \in Seq(Event)
  BY GivenType
<1>2. /\ DOMAIN Given(c) = 1 .. Len(Given(c)) /\ Len(Given(c)) \in Nat
      /\ DOMAIN Given(c)' = 1 .. Len(Given(c)) + 1
      /\ \A i \in 1 .. Len(Given(c)) : Given(c)'[i] = Given(c)[i] /\ Given(c)[i] \in Due(c)
      /\ Given(c)'[Len(Given(c)) + 1] = e
  BY <1>1 DEF Elements
<1>3. Elements(Given(c))' = Elements(Given(c)) \cup {e}
  BY <1>2 DEF Elements
<1>4. ASSUME NEW i \in DOMAIN Given(c)', NEW j \in DOMAIN Given(c)', i < j
      PROVE  Given(c)'[i] < Given(c)'[j]
  <2>1. CASE j = Len(Given(c)) + 1
    BY <1>2, <1>4, <2>1
  <2>2. CASE j \in 1 .. Len(Given(c))
    BY <1>2, <1>4, <2>2 DEF GapFree
  <2>. QED
    BY <1>2, <2>1, <2>2
<1>. QED
  BY <1>3, <1>4 DEF GapFree

(* A client that is out of the map, or has no writer any more, and misses    *)
(* the newest event.                                                         *)
LEMMA GivenNoMore ==
    ASSUME TypeOK, Writing, NEW c \in Clients, GapFree(c), NEW e \in Event,
           \A d \in Due(c) : d < e,
           Given(c)' = Given(c), Due(c)' \in {Due(c), Due(c) \cup {e}},
           c \notin clients' \/ writer'[c] = "done"
    PROVE  GapFree(c)'
<1>1. Given(c) \in Seq(Event)
  BY GivenType
<1>2. \A d \in Elements(Given(c)) : d < e /\ d \in Nat
  BY <1>1 DEF GapFree, Elements, Event
<1>3. Elements(Given(c))' = Elements(Given(c))
  BY DEF Elements
<1>4. e \in Nat
  BY DEF Event
<1>. QED
  BY <1>2, <1>3, <1>4 DEF GapFree

(* What is due is older than the event being handed out.                     *)
LEMMA DueIsOld ==
    ASSUME Safe, NEW c \in Clients
    PROVE  /\ \A d \in Due(c) : d \in Nat /\ d <= current
           /\ c \in todo => \A d \in Due(c) : d < current
BY DEF Safe, TypeOK, Due

LEMMA BroadcastDelivers ==
    ASSUME IInv, NEW s \in Streams, BroadcastEvent(s) PROVE DeliveryIsGapFree'
<1> SUFFICES ASSUME NEW c \in Clients PROVE GapFree(c)'
  BY DEF DeliveryIsGapFree, GapFree
<1>. USE DEF IInv, Safe, BroadcastEvent, hubVars, clientVars
<1>1. GapFree(c) /\ Given(c)' = Given(c)
  BY DEF DeliveryIsGapFree, GapFree, Given
<1>2. \A e \in 1 .. Len(published) : published'[e] = published[e]
  BY DEF TypeOK
<1>3. current <= Len(published) /\ joined[c] \in Nat /\ current \in Nat
  BY DEF TypeOK, QueueInv
<1>4. \A e \in joined[c] + 1 .. current : Wants(c, e)' <=> Wants(c, e)
  BY <1>2, <1>3 DEF Wants, TypeOK
<1>5. Due(c)' = Due(c)
  BY <1>4 DEF Due
<1>. QED
  BY <1>1, <1>5, Untouched

LEMMA RunDelivers ==
    ASSUME IInv, Run PROVE DeliveryIsGapFree'
<1> SUFFICES ASSUME NEW c \in Clients PROVE GapFree(c)'
  BY DEF DeliveryIsGapFree, GapFree
<1>. USE DEF IInv, hubVars, clientVars
<1>1. GapFree(c)
  BY DEF DeliveryIsGapFree, GapFree
<1>2. CASE TakeMessage
  <2>. USE <1>2 DEF TakeMessage, InSelect
  <2>1. /\ current' = current + 1 /\ current' \in Event
        /\ current \in Nat /\ joined[c] \in Nat /\ joined[c] <= current
    <3>1. Head(broadcast) = broadcast[1] /\ Head(broadcast) \in Event /\ 1 \in DOMAIN broadcast
      BY DEF Safe, TypeOK
    <3>. QED
      BY <3>1 DEF Safe, TypeOK, QueueInv, Writing
  <2>2. Given(c)' = Given(c)
    BY DEF Given
  <2>3. \A d \in Due(c) : d < current'
    BY <2>1, DueIsOld
  <2>4. CASE c \in clients
    <3>1. Due(c)' = Due(c)
      BY <2>1, <2>4 DEF Due, Wants
    <3>. QED
      BY <1>1, <2>2, <3>1, Untouched
  <2>5. CASE c \notin clients
    <3>1. Due(c)' = Due(c) \cup {e \in {current'} : Wants(c, e)}
      BY <2>1, <2>5 DEF Due, Wants
    <3>2. Due(c)' \in {Due(c), Due(c) \cup {current'}}
      BY <3>1
    <3>. QED
      BY <1>1, <2>1, <2>2, <2>3, <2>5, <3>2, GivenNoMore DEF Safe
  <2>. QED
    BY <2>4, <2>5
<1>3. ASSUME NEW d \in Clients, Register(d) PROVE GapFree(c)'
  <2>. USE <1>3 DEF Register
  <2>1. CASE c # d
    <3>1. Given(c)' = Given(c) /\ Due(c)' = Due(c)
      BY <2>1 DEF Given, Due, Wants, Safe, TypeOK
    <3>. QED
      BY <1>1, <2>1, <3>1, Untouched DEF Safe, TypeOK
  <2>2. CASE c = d
    <3>1. Given(c)' = << >>
      BY <2>2 DEF Given, Safe, Fresh, TypeOK
    <3>2. Due(c)' = {}
      BY <2>2 DEF Due, Safe, TypeOK
    <3>. QED
      BY <3>1, <3>2 DEF GapFree, Elements
  <2>. QED
    BY <2>1, <2>2
<1>4. ASSUME NEW d \in Clients, Unregister(d) PROVE GapFree(c)'
  <2>. USE <1>4 DEF Unregister
  <2>1. Given(c)' = Given(c) /\ Due(c)' = Due(c)
    BY DEF Given, Due, Wants
  <2>. QED
    BY <1>1, <2>1, Untouched
<1>5. ASSUME NEW d \in Clients, Offer(d) PROVE GapFree(c)'
  <2>. USE <1>5 DEF Offer, Round
  <2>0. current \in Event /\ joined[c] \in Nat /\ joined[c] <= current
    BY DEF Safe, TypeOK, QueueInv, Writing, Event
  <2>1. CASE c # d
    <3>1. Given(c)' = Given(c) /\ Due(c)' = Due(c)
      BY <2>1 DEF Given, Due, Wants, Safe, TypeOK, Skip, Give, Drop
    <3>2. c \in clients' => c \in clients
      BY DEF Skip, Give, Drop
    <3>. QED
      BY <1>1, <3>1, <3>2, Untouched
  <2>2. CASE c = d /\ ~Wants(d, current)
    <3>1. Given(c)' = Given(c) /\ Due(c)' = Due(c)
      BY <2>2 DEF Given, Due, Wants, Skip
    <3>. QED
      BY <1>1, <2>2, <3>1, Untouched DEF Skip
  <2>3. CASE c = d /\ Wants(d, current) /\ joined[c] < current
    <3>1. Due(c)' = Due(c) \cup {current}
      BY <2>0, <2>3 DEF Due, Wants, Event
    <3>2. \A e \in Due(c) : e < current
      BY <2>3, DueIsOld
    <3>3. CASE Give(c) /\ writer[c] # "done"
      <4>1. written[c] \in Seq(Event) /\ send[c] \in Seq(Event)
        BY DEF Safe, TypeOK
      <4>2. inflight[c] # 0 => inflight[c] \in Event
        BY DEF Safe, TypeOK, Event
      <4>3. send'[c] = Append(send[c], current)
        BY <3>3 DEF Give, Safe, TypeOK
      <4>4. Given(c)' = Append(Given(c), current)
        <5>. DEFINE m == IF inflight[c] = 0 THEN << >> ELSE <<inflight[c]>>
        <5>1. written[c] \o m \in Seq(Event)
          BY <4>1, <4>2
        <5>2. Given(c) = (written[c] \o m) \o send[c]
          BY <3>3 DEF Given
        <5>3. Given(c)' = (written[c] \o m) \o Append(send[c], current)
          BY <3>3, <4>3 DEF Given
        <5>. HIDE DEF m
        <5>. DEFINE w == written[c] \o m
        <5>4. w \in Seq(Event)
          BY <5>1
        <5>. HIDE DEF w
        <5>5. send[c] \in Seq(Event) /\ current \in Event
          BY <2>0, <4>1
        <5>6. w \o Append(send[c], current) = Append(w \o send[c], current)
          BY ONLY <5>4, <5>5, ConcatAppend
        <5>7. (written[c] \o m) \o Append(send[c], current)
                = Append((written[c] \o m) \o send[c], current)
          BY <5>6 DEF w
        <5>. QED
          BY ONLY <5>2, <5>3, <5>7
      <4>5. Elements(Given(c)) = Due(c)
        BY <1>1, <2>3, <3>3 DEF GapFree, Safe, Membership
      <4>. QED
        BY <1>1, <2>0, <3>1, <3>2, <4>4, <4>5, GivenMore DEF Safe
    <3>4. CASE Give(c) /\ writer[c] = "done"
      <4>1. Given(c)' = Given(c)
        BY <3>4 DEF Given
      <4>. QED
        BY <1>1, <2>0, <3>1, <3>2, <3>4, <4>1, GivenNoMore DEF Safe
    <3>5. CASE Drop(c)
      <4>1. Given(c)' = Given(c) /\ c \notin clients'
        BY <3>5 DEF Given, Drop
      <4>. QED
        BY <1>1, <2>0, <3>1, <3>2, <4>1, GivenNoMore DEF Safe
    <3>. QED
      BY <2>3, <3>3, <3>4, <3>5
  <2>. QED
    BY <2>1, <2>2, <2>3 DEF Safe, Writing
<1>. QED
  BY <1>2, <1>3, <1>4, <1>5 DEF Run

LEMMA ConnectionDelivers ==
    ASSUME IInv, NEW d \in Clients, HandleWS(d) \/ PeerLeaves(d) \/ Pumps(d)
    PROVE  DeliveryIsGapFree'
<1> SUFFICES ASSUME NEW c \in Clients PROVE GapFree(c)'
  BY DEF DeliveryIsGapFree, GapFree
<1>. USE DEF IInv, hubVars
<1>1. GapFree(c)
  BY DEF DeliveryIsGapFree, GapFree
<1>2. UNCHANGED <<published, current, todo, clients, joined>>
  BY DEF HandleWS, PeerLeaves, Pumps, WriterReceive, WriteSucceeds, WriterEnds,
         ReaderFails, ReaderCloses
<1>3. Due(c)' = Due(c)
  BY <1>2 DEF Due, Wants
<1>4. writer'[c] # "done" => writer[c] # "done"
  BY DEF Safe, TypeOK, HandleWS, PeerLeaves, Pumps, WriterReceive, WriteSucceeds,
         WriterEnds, ReaderFails, ReaderCloses
<1>5. written[c] \in Seq(Event) /\ send[c] \in Seq(Event)
  BY DEF Safe, TypeOK
<1>6. inflight[c] # 0 => inflight[c] \in Event
  BY DEF Safe, TypeOK, Event
<1>7. CASE UNCHANGED <<writer, written, inflight, send>> \/ c # d
  <2>1. Given(c)' = Given(c)
    BY <1>7 DEF Given, Safe, TypeOK, HandleWS, PeerLeaves, Pumps, WriterReceive,
                WriteSucceeds, WriterEnds, ReaderFails, ReaderCloses
  <2>. QED
    BY <1>1, <1>2, <1>3, <1>4, <2>1, Untouched
<1>8. CASE c = d /\ WriterReceive(d)
  <2>1. /\ send[c] # << >>
        /\ inflight[c] = 0 /\ inflight'[c] = Head(send[c]) /\ Head(send[c]) # 0
        /\ send'[c] = Tail(send[c]) /\ written'[c] = written[c]
        /\ writer[c] # "done" /\ writer'[c] # "done"
    <3>1. send[c] # << >> => Head(send[c]) \in Event
      BY <1>5
    <3>. QED
      BY <1>8, <3>1 DEF WriterReceive, Safe, Writing, TypeOK, Event
  <2>2. Given(c) = (written[c] \o << >>) \o send[c]
    BY <2>1 DEF Given
  <2>3. Given(c)' = (written[c] \o <<Head(send[c])>>) \o Tail(send[c])
    BY <2>1 DEF Given
  <2>4. (written[c] \o <<Head(send[c])>>) \o Tail(send[c]) = written[c] \o send[c]
    BY ONLY <1>5, <2>1, HeadOverConcat
  <2>5. written[c] \o << >> = written[c]
    BY ONLY <1>5, ConcatEmptySeq
  <2>6. Given(c)' = Given(c)
    BY ONLY <2>2, <2>3, <2>4, <2>5
  <2>. QED
    BY <1>1, <1>2, <1>3, <1>4, <2>6, Untouched
<1>9. CASE c = d /\ WriteSucceeds(d)
  <2>1. /\ inflight[c] \in Event /\ inflight[c] # 0 /\ inflight'[c] = 0
        /\ written'[c] = Append(written[c], inflight[c]) /\ send'[c] = send[c]
        /\ writer[c] # "done" /\ writer'[c] # "done"
    BY <1>6, <1>9 DEF WriteSucceeds, Safe, Writing, TypeOK
  <2>2. Given(c) = (written[c] \o <<inflight[c]>>) \o send[c]
    BY <2>1 DEF Given
  <2>3. Given(c)' = (Append(written[c], inflight[c]) \o << >>) \o send[c]
    BY <2>1 DEF Given
  <2>4. Append(written[c], inflight[c]) \in Seq(Event)
    BY <1>5, <2>1
  <2>5. Append(written[c], inflight[c]) = written[c] \o <<inflight[c]>>
    BY ONLY <1>5, <2>1, AppendIsConcat
  <2>6. Append(written[c], inflight[c]) \o << >> = Append(written[c], inflight[c])
    BY ONLY <2>4, ConcatEmptySeq
  <2>7. Given(c)' = Given(c)
    BY ONLY <2>2, <2>3, <2>5, <2>6
  <2>. QED
    BY <1>1, <1>2, <1>3, <1>4, <2>7, Untouched
<1>10. CASE c = d /\ WriterEnds(d)
  <2>1. Given(c)' = written[c] /\ writer'[c] = "done" /\ writer[c] # "done"
    BY <1>10 DEF Given, WriterEnds, Safe, TypeOK
  <2>2. /\ Len(Given(c)') \in Nat /\ Len(Given(c)') <= Len(Given(c))
        /\ Len(Given(c)) \in Nat
        /\ DOMAIN Given(c)' = 1 .. Len(Given(c)') /\ DOMAIN Given(c) = 1 .. Len(Given(c))
        /\ \A i \in DOMAIN Given(c)' : Given(c)'[i] = Given(c)[i]
    <3>. DEFINE m == IF inflight[c] = 0 THEN << >> ELSE <<inflight[c]>>
    <3>1. m \in Seq(Event)
      BY <1>6
    <3>2. Given(c) = (written[c] \o m) \o send[c]
      BY <2>1 DEF Given
    <3>. DEFINE w == written[c]
                z == send[c]
    <3>3. w \in Seq(Event) /\ z \in Seq(Event)
      BY <1>5
    <3>. HIDE DEF m, w, z
    <3>4. /\ Len((w \o m) \o z) \in Nat
          /\ Len(w) \in Nat /\ Len(w) <= Len((w \o m) \o z)
          /\ DOMAIN w = 1 .. Len(w)
          /\ DOMAIN ((w \o m) \o z) = 1 .. Len((w \o m) \o z)
          /\ \A i \in DOMAIN w : w[i] = ((w \o m) \o z)[i]
      BY ONLY <3>1, <3>3, ConcatPrefix, SMTT(30)
    <3>5. Given(c)' = w /\ Given(c) = (w \o m) \o z
      BY <2>1, <3>2 DEF w, z
    <3>. QED
      BY ONLY <3>4, <3>5
  <2>. DEFINE g == Given(c)
              h == Given(c)'
  <2>3. /\ \A i, j \in DOMAIN h : i < j => h[i] < h[j]
        /\ Elements(h) \subseteq Due(c)
    BY <1>1, <2>2 DEF GapFree, Elements
  <2>4. ASSUME NEW e \in Due(c), NEW i \in DOMAIN h, e < h[i] PROVE e \in Elements(h)
    <3>1. PICK k \in DOMAIN g : e = g[k]
      BY <1>1, <2>2, <2>4 DEF GapFree, Elements
    <3>2. k < i
      <4>1. k = i \/ i < k \/ k < i
        BY <2>2
      <4>2. g[i] = h[i] /\ i \in DOMAIN g
        BY <2>2
      <4>3. i < k => g[i] < g[k]
        BY <1>1, <4>2 DEF GapFree
      <4>4. e \in Nat /\ h[i] \in Nat
        <5>1. Given(c) \in Seq(Event)
          BY GivenType DEF Safe
        <5>. QED
          BY <3>1, <4>2, <5>1 DEF Event
      <4>. QED
        BY <2>4, <3>1, <4>1, <4>2, <4>3, <4>4
    <3>. QED
      BY <2>2, <3>1, <3>2 DEF Elements
  <2>. QED
    BY <1>3, <2>1, <2>3, <2>4 DEF GapFree, Elements
<1>. QED
  BY <1>7, <1>8, <1>9, <1>10 DEF Pumps, HandleWS, PeerLeaves, ReaderFails, ReaderCloses

-----------------------------------------------------------------------------
(* The step and the theorems.                                                *)
LEMMA Step ==
    ASSUME IInv, [Next]_vars PROVE IInv'
<1>1. CASE \E s \in Streams : BroadcastEvent(s)
  BY <1>1, BroadcastSafe, BroadcastDelivers DEF IInv
<1>2. CASE \E c \in Clients : HandleWS(c) \/ PeerLeaves(c) \/ Pumps(c)
  BY <1>2, ConnectionSafe, ConnectionDelivers DEF IInv
<1>3. CASE Run
  BY <1>3, RunSafe, RunDelivers DEF IInv
<1>4. CASE UNCHANGED vars
  <2>. USE <1>4 DEF vars, hubVars, clientVars, IInv, Safe
  <2>1. TypeOK' /\ (QueueInv /\ Membership /\ Fresh /\ Writing /\ NeverPanics)'
    BY DEF TypeOK, QueueInv, Membership, Fresh, Writing, NeverPanics
  <2>2. DeliveryIsGapFree'
    <3>1. \A c \in Clients : Given(c)' = Given(c) /\ Due(c)' = Due(c)
      BY DEF Given, Due, Wants
    <3>2. \A c \in Clients : GapFree(c)
      BY DEF DeliveryIsGapFree, GapFree
    <3>3. \A c \in Clients : GapFree(c)'
      BY <3>1, <3>2, Untouched
    <3>. QED
      BY <3>3 DEF DeliveryIsGapFree, GapFree
  <2>. QED
    BY <2>1, <2>2
<1>. QED
  BY <1>1, <1>2, <1>3, <1>4 DEF Next

THEOREM Inductive == Spec => []IInv
<1>1. Init => IInv
  BY InitSafe
<1>2. IInv /\ [Next]_vars => IInv'
  BY Step
<1>. QED
  BY <1>1, <1>2, PTL DEF Spec

(* The shape of the hub's state: in particular no buffer grows beyond its    *)
(* capacity, whatever its clients do.                                        *)
THEOREM TypeCorrect == Spec => []TypeOK
<1>1. IInv => TypeOK
  BY DEF IInv, Safe
<1>. QED
  BY <1>1, Inductive, PTL

(* Run's two closes and its send never meet a closed channel.                *)
THEOREM NoPanic == Spec => []NeverPanics
<1>1. IInv => NeverPanics
  BY DEF IInv, Safe
<1>. QED
  BY <1>1, Inductive, PTL

(* Every client gets the events it asked for in order and without a hole.    *)
THEOREM OrderedDelivery == Spec => []DeliveryIsGapFree
<1>1. IInv => DeliveryIsGapFree
  BY DEF IInv
<1>. QED
  BY <1>1, Inductive, PTL

-----------------------------------------------------------------------------
(* The gauge. It goes up where the pumps start and down where readPump's     *)
(* unregister is received, so that it counts the readers between the two.    *)
Readers == {c \in Clients : reader[c] \in {"read", "unregister"}}

Counted ==
    /\ IsFiniteSet(Readers)
    /\ gauge = Cardinality(Readers)
    /\ \A c \in Readers : c \in clients \/ closed[c]

LEMMA InitCounted ==
    ASSUME Init PROVE Counted
<1>1. Readers = {}
  BY DEF Init, Readers
<1>. QED
  BY <1>1, FS_EmptySet DEF Init, Counted

(* A step that moves neither the gauge nor a reader past one of the two ends.*)
LEMMA SameReaders ==
    ASSUME Counted, Readers' = Readers, gauge' = gauge,
           \A c \in Readers : (c \in clients \/ closed[c]) => (c \in clients' \/ closed'[c])
    PROVE  Counted'
BY DEF Counted

LEMMA RunCounts ==
    ASSUME Safe, Counted, Run PROVE Counted'
<1>. USE DEF hubVars, clientVars
<1>1. CASE TakeMessage
  BY <1>1, SameReaders DEF TakeMessage, Readers
<1>2. ASSUME NEW c \in Clients, Register(c) PROVE Counted'
  <2>. USE <1>2 DEF Register
  <2>1. c \notin Readers /\ Readers' = Readers \cup {c}
    BY DEF Readers, Safe, TypeOK
  <2>2. IsFiniteSet(Readers') /\ Cardinality(Readers') = Cardinality(Readers) + 1
    BY <2>1, FS_AddElement DEF Counted
  <2>3. \A d \in Readers' : d \in clients' \/ closed'[d]
    BY <2>1 DEF Counted
  <2>. QED
    BY <2>2, <2>3 DEF Counted
<1>3. ASSUME NEW c \in Clients, Unregister(c) PROVE Counted'
  <2>. USE <1>3 DEF Unregister
  <2>1. c \in Readers /\ Readers' = Readers \ {c}
    BY DEF Readers, Safe, TypeOK
  <2>2. IsFiniteSet(Readers') /\ Cardinality(Readers') = Cardinality(Readers) - 1
    BY <2>1, FS_RemoveElement DEF Counted
  <2>3. \A d \in Readers' : d \in clients' \/ closed'[d]
    BY <2>1, SMTT(30) DEF Counted, Close, Safe, TypeOK, Readers
  <2>. QED
    BY <2>2, <2>3 DEF Counted
<1>4. ASSUME NEW c \in Clients, Offer(c) PROVE Counted'
  <2>. USE <1>4 DEF Offer, Round
  <2>1. Readers' = Readers
    BY DEF Readers
  <2>2. \A d \in Readers : (d \in clients \/ closed[d]) => (d \in clients' \/ closed'[d])
    BY DEF Skip, Give, Drop, Close, Safe, TypeOK, Readers
  <2>. QED
    BY <2>1, <2>2, SameReaders
<1>. QED
  BY <1>1, <1>2, <1>3, <1>4 DEF Run

LEMMA StepCounts ==
    ASSUME Safe, Counted, [Next]_vars PROVE Counted'
<1>. USE DEF hubVars, clientVars
<1>1. CASE \E s \in Streams : BroadcastEvent(s)
  BY <1>1, SameReaders DEF BroadcastEvent, Readers
<1>2. ASSUME NEW c \in Clients, HandleWS(c) \/ PeerLeaves(c) \/ Pumps(c)
      PROVE  Counted'
  <2>1. Readers' = Readers
    BY <1>2 DEF Readers, Safe, TypeOK, HandleWS, PeerLeaves, Pumps, WriterReceive,
                WriteSucceeds, WriterEnds, ReaderFails, ReaderCloses
  <2>2. UNCHANGED <<gauge, clients, closed>>
    BY <1>2 DEF HandleWS, PeerLeaves, Pumps, WriterReceive, WriteSucceeds,
                WriterEnds, ReaderFails, ReaderCloses
  <2>. QED
    BY <2>1, <2>2, SameReaders
<1>3. CASE Run
  BY <1>3, RunCounts
<1>4. CASE UNCHANGED vars
  BY <1>4, SameReaders DEF vars, Readers
<1>. QED
  BY <1>1, <1>2, <1>3, <1>4 DEF Next

(* Once every dropped client has left its readPump the gauge is the number of*)
(* clients: the drop in the loop and the later unregister count as one.      *)
THEOREM GaugeIsRight == Spec => []GaugeSettles
<1>1. Init => Counted
  BY InitCounted
<1>2. IInv /\ Counted /\ [Next]_vars => Counted'
  BY StepCounts DEF IInv
<1>3. IInv /\ Counted => GaugeSettles
  <2> SUFFICES ASSUME IInv, Counted,
                      \A c \in Clients : closed[c] => reader[c] \in {"close", "done"}
               PROVE  gauge = Cardinality(clients)
    BY DEF GaugeSettles
  <2>1. clients = Readers
    BY DEF Readers, Counted, IInv, Safe, Membership, TypeOK
  <2>. QED
    BY <2>1 DEF Counted
<1>. QED
  BY <1>1, <1>2, <1>3, Inductive, PTL DEF Spec
=============================================================================
