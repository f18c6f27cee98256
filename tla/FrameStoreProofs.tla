-------------------------- MODULE FrameStoreProofs --------------------------
(* Proofs about FrameStore for any number of streams, keys and frames to     *)
(* keep. The argument: a list of objects to delete is made so that the limit *)
(* remains without it, and while it is worked off nothing but the cleanup    *)
(* removes an object, so that what is left without the rest of the list only *)
(* grows (SpareInv).                                                         *)
EXTENDS FrameStore, FiniteSetTheorems, WellFoundedInduction, TLAPS

(* Keys are numbers in the order of a listing; None is no stream and no key. *)
Setting ==
    /\ Keys \subseteq Int /\ Retention \in Nat /\ MaxDeliver \in Nat
    /\ None \notin Streams /\ None \notin Keys

(* The uploads of a stream.                                                  *)
Uploaded(s) == {k \in Keys : owner[k] = s}

(* What a stream keeps once the list is worked off.                          *)
Spare(s) == Of(s) \ doomed

SpareInv ==
    /\ at = None => doomed = {}
    /\ \A k \in doomed : owner[k] = at
    /\ \A s \in Streams :
          \/ Uploaded(s) \subseteq Spare(s)
          \/ Cardinality(Spare(s)) >= Retention

IInv == TypeOK /\ IsFiniteSet(Used) /\ SpareInv

-----------------------------------------------------------------------------
(* The first keys of a listing.                                              *)

(* A nonempty set of numbers has a least one.                                *)
LEMMA LeastOne ==
    ASSUME NEW T \in SUBSET Nat, T # {}
    PROVE  \E x \in T : \A y \in T : x <= y
<1>. DEFINE R == OpToRel(<, Nat)
<1>1. IsWellFoundedOn(R, Nat)
  BY NatLessThanWellFounded
<1>2. \A x, y \in Nat : y < x => <<y, x>> \in R
  BY DEF OpToRel
<1>. HIDE DEF R
<1>3. \E x \in T : \A y \in T : ~ (<<y, x>> \in R)
  BY <1>1, WFMin
<1>4. PICK x \in T : \A y \in T : ~ (<<y, x>> \in R)
  BY <1>3
<1>5. ASSUME NEW y \in T, ~ (x <= y) PROVE FALSE
  <2>1. y \in Nat /\ x \in Nat /\ y < x
    BY <1>5
  <2>2. <<y, x>> \in R
    BY <1>2, <2>1
  <2>. QED
    BY <1>4, <2>2
<1>. QED
  BY <1>5

(* The first n keys of a listing are n at most.                              *)
LEMMA FirstAtMost ==
    ASSUME NEW K \in SUBSET Int, IsFiniteSet(K), NEW n \in Nat
    PROVE  Cardinality(First(K, n)) <= n
<1>. DEFINE Below(k) == {x \in K : x < k}
            F == First(K, n)
            c == [k \in F |-> Cardinality(Below(k))]
<1>1. F \subseteq K /\ \A k \in F : Cardinality(Below(k)) < n
  BY DEF First
<1>2. \A k \in K : IsFiniteSet(Below(k)) /\ Cardinality(Below(k)) \in Nat
  <2>. SUFFICES ASSUME NEW k \in K
                PROVE  IsFiniteSet(Below(k)) /\ Cardinality(Below(k)) \in Nat
    OBVIOUS
  <2>1. Below(k) \subseteq K
    OBVIOUS
  <2>. HIDE DEF Below
  <2>. QED
    BY <2>1, FS_Subset, FS_CardinalityType
<1>3. CASE F = {}
  BY <1>3, FS_EmptySet
<1>4. CASE F # {}
  <2>. HIDE DEF F
  <2>1. \A k \in F : c[k] \in Nat /\ c[k] < n
    BY <1>1, <1>2
  <2>2. \E k \in F : \A m \in F : c[m] <= c[k]
    <3>. HIDE DEF c
    <3>. DEFINE T == {n - c[k] : k \in F}
    <3>1. T \in SUBSET Nat /\ T # {}
      BY <1>4, <2>1
    <3>2. PICK x \in T : \A y \in T : x <= y
      BY <3>1, LeastOne
    <3>3. PICK k \in F : x = n - c[k]
      BY <3>2
    <3>4. ASSUME NEW m \in F PROVE c[m] <= c[k]
      <4>1. n - c[k] <= n - c[m]
        BY <3>2, <3>3
      <4>. QED
        BY <2>1, <4>1
    <3>. QED
      BY <3>4
  <2>3. PICK k \in F : \A m \in F : c[m] <= c[k]
    BY <2>2
  <2>4. ASSUME NEW m \in F, k < m PROVE FALSE
    <3>1. m \in K /\ k \in K
      BY <1>1
    <3>2. k \notin Below(k) /\ Below(k) \cup {k} \subseteq Below(m)
      <4>1. k \in Int /\ m \in Int
        BY <3>1
      <4>2. \A x \in Int : x < k => x < m
        BY <2>4, <4>1
      <4>3. k \notin Below(k) /\ k \in Below(m)
        BY <2>4, <3>1, <4>1
      <4>4. Below(k) \subseteq Below(m)
        BY <4>2
      <4>. QED
        BY <4>3, <4>4
    <3>3. IsFiniteSet(Below(k)) /\ IsFiniteSet(Below(m))
      BY <1>2, <3>1
    <3>4. Cardinality(Below(k) \cup {k}) = Cardinality(Below(k)) + 1
      <4>. HIDE DEF Below
      <4>. QED
        BY <3>2, <3>3, FS_AddElement
    <3>5. Cardinality(Below(k) \cup {k}) <= Cardinality(Below(m))
      <4>. HIDE DEF Below
      <4>. QED
        BY <3>2, <3>3, FS_Subset
    <3>6. c[m] <= c[k] /\ c[m] = Cardinality(Below(m)) /\ c[k] = Cardinality(Below(k))
      BY <2>3
    <3>7. c[m] \in Nat /\ c[k] \in Nat
      BY <2>1
    <3>. HIDE DEF c
    <3>. QED
      BY ONLY <3>4, <3>5, <3>6, <3>7
  <2>5. F \ {k} \subseteq Below(k)
    BY <1>1, <2>4
  <2>6. k \in K /\ IsFiniteSet(F) /\ IsFiniteSet(Below(k))
    BY <1>1, <1>2, FS_Subset
  <2>7. Cardinality(F \ {k}) = Cardinality(F) - 1 /\ Cardinality(F) \in Nat
    BY <2>6, FS_RemoveElement, FS_CardinalityType
  <2>8. Cardinality(F \ {k}) <= Cardinality(Below(k))
    <3>. HIDE DEF Below
    <3>. QED
      BY <2>5, <2>6, FS_Subset
  <2>9. Cardinality(Below(k)) < n /\ Cardinality(Below(k)) \in Nat
    BY <1>1, <1>2
  <2>10. Cardinality(F) <= n
    BY ONLY <2>7, <2>8, <2>9, n \in Nat
  <2>. QED
    BY <2>10 DEF F
<1>. QED
  BY <1>3, <1>4

(* A list of too many leaves the limit.                                      *)
LEMMA FirstLeaves ==
    ASSUME NEW K \in SUBSET Int, IsFiniteSet(K), NEW n \in Nat,
           Cardinality(K) > n
    PROVE  Cardinality(K \ First(K, Cardinality(K) - n)) >= n
<1>. DEFINE F == First(K, Cardinality(K) - n)
<1>1. Cardinality(K) \in Nat /\ Cardinality(K) - n \in Nat
  BY FS_CardinalityType
<1>2. Cardinality(F) <= Cardinality(K) - n
  BY <1>1, FirstAtMost
<1>3. F \subseteq K
  BY DEF First
<1>. HIDE DEF F
<1>4. IsFiniteSet(F) /\ K \cap F = F
  BY <1>3, FS_Subset
<1>5. Cardinality(K \ F) = Cardinality(K) - Cardinality(F)
  <2>1. Cardinality(K \ F) = Cardinality(K) - Cardinality(K \cap F)
    BY FS_Difference
  <2>. QED
    BY ONLY <1>4, <2>1
<1>6. Cardinality(F) \in Nat
  BY <1>4, FS_CardinalityType
<1>7. Cardinality(K \ F) >= n
  BY ONLY <1>1, <1>2, <1>5, <1>6, n \in Nat
<1>. QED
  BY <1>7 DEF F

-----------------------------------------------------------------------------
(* The invariant.                                                            *)

(* What keeps the uploads, or only adds to them, and what keeps or adds to   *)
(* what a stream is left with.                                               *)
LEMMA SpareGrows ==
    ASSUME IsFiniteSet(Used'), TypeOK', Retention \in Nat,
           NEW s \in Streams, s # None,
           Spare(s) \subseteq Spare(s)', Uploaded(s)' \ Uploaded(s) \subseteq Spare(s)',
           Uploaded(s) \subseteq Spare(s) \/ Cardinality(Spare(s)) >= Retention
    PROVE  Uploaded(s)' \subseteq Spare(s)' \/ Cardinality(Spare(s)') >= Retention
<1>1. CASE Uploaded(s) \subseteq Spare(s)
  BY <1>1
<1>2. CASE Cardinality(Spare(s)) >= Retention
  <2>1. Spare(s)' \subseteq Used'
    BY DEF TypeOK, Spare, Of, Used
  <2>2. IsFiniteSet(Spare(s)')
    BY <2>1, FS_Subset
  <2>3. /\ IsFiniteSet(Spare(s))
        /\ Cardinality(Spare(s)) <= Cardinality(Spare(s)')
    BY <2>2, FS_Subset
  <2>4. Cardinality(Spare(s)) \in Nat /\ Cardinality(Spare(s)') \in Nat
    BY <2>2, <2>3, FS_CardinalityType
  <2>. QED
    BY <1>2, <2>3, <2>4
<1>. QED
  BY <1>1, <1>2

LEMMA InitInv == ASSUME Setting, Init PROVE IInv
<1>1. TypeOK
  BY DEF Setting, Init, TypeOK
<1>2. Used = {} /\ \A s \in Streams : Uploaded(s) = {}
  BY DEF Setting, Init, Used, Uploaded
<1>3. at = None /\ doomed = {}
  BY DEF Init
<1>. QED
  BY <1>1, <1>2, <1>3, FS_EmptySet DEF IInv, SpareInv

LEMMA UploadStep ==
    ASSUME Setting, IInv, NEW s \in Streams, NEW k \in Keys, NEW ok \in BOOLEAN,
           Upload(s, k, ok)
    PROVE  IInv'
<1>1. /\ k \notin Used /\ owner[k] = None
      /\ owner' = [owner EXCEPT ![k] = s]
      /\ age' = [age EXCEPT ![k] = Cardinality(Used) + 1]
      /\ objects' = objects \cup {k}
      /\ uploading' = IF ok THEN [uploading EXCEPT ![s] = k] ELSE uploading
      /\ UNCHANGED <<listed, tasks, tries, todo, at, doomed, purged>>
  BY DEF Upload, Used, queueVars, cleanupVars
<1>2. Cardinality(Used) \in Nat
  BY FS_CardinalityType DEF IInv
<1>3. s # None /\ s \in Streams \cup {None}
  BY DEF Setting
<1>4. owner'[k] = s /\ \A x \in Keys : x # k => owner'[x] = owner[x]
  BY <1>1 DEF IInv, TypeOK
<1>5. TypeOK'
  <2>1. owner' \in [Keys -> Streams \cup {None}] /\ age' \in [Keys -> Nat]
    BY <1>1, <1>2, <1>3 DEF IInv, TypeOK
  <2>2. objects' \in SUBSET {x \in Keys : owner'[x] # None}
    BY <1>1, <1>3, <1>4 DEF IInv, TypeOK
  <2>3. uploading' \in [Streams -> Keys \cup {None}]
    BY <1>1 DEF IInv, TypeOK
  <2>. QED
    BY <1>1, <2>1, <2>2, <2>3 DEF IInv, TypeOK
<1>6. IsFiniteSet(Used')
  <2>1. Used' = Used \cup {k}
    BY <1>1, <1>3, <1>4 DEF Used
  <2>. QED
    BY <2>1, FS_AddElement DEF IInv
<1>7. k \notin doomed
  BY <1>1, <1>4 DEF IInv, SpareInv, TypeOK, Used
<1>8. \A t \in Streams : Spare(t) \subseteq Spare(t)' /\ Uploaded(t)' \ Uploaded(t) \subseteq Spare(t)'
  BY <1>1, <1>4, <1>7 DEF Spare, Of, Uploaded, IInv, TypeOK
<1>9. \A t \in Streams : Uploaded(t)' \subseteq Spare(t)' \/ Cardinality(Spare(t)') >= Retention
  BY <1>5, <1>6, <1>8, SpareGrows DEF Setting, IInv, SpareInv
<1>10. (at' = None => doomed' = {}) /\ \A x \in doomed' : owner'[x] = at'
  BY <1>1, <1>4, <1>7 DEF IInv, SpareInv, TypeOK
<1>. QED
  BY <1>5, <1>6, <1>9, <1>10 DEF IInv, SpareInv

(* The queue, the API and the start of a round touch neither the objects nor *)
(* the list.                                                                 *)
LEMMA OtherStep ==
    ASSUME IInv, TypeOK', UNCHANGED <<owner, objects, at, doomed>>
    PROVE  IInv'
BY DEF IInv, SpareInv, Used, Uploaded, Spare, Of

LEMMA ListStep ==
    ASSUME Setting, IInv, NEW s \in Streams, NEW ok \in BOOLEAN, ListFrames(s, ok)
    PROVE  IInv'
<1>. DEFINE excess == Cardinality(Of(s)) - Retention
<1>1. /\ at = None /\ doomed = {} /\ todo' = todo \ {s}
      /\ UNCHANGED <<listed, owner, age, objects, uploading, tasks, tries, purged>>
  BY DEF ListFrames, frameVars, queueVars, IInv, SpareInv
<1>2. CASE UNCHANGED <<at, doomed>>
  <2>1. TypeOK'
    BY <1>1, <1>2 DEF IInv, TypeOK
  <2>. QED
    BY <1>1, <1>2, <2>1, OtherStep
<1>3. CASE excess > 0 /\ at' = s /\ doomed' = First(Of(s), excess)
  <2>1. Of(s) \subseteq Used /\ Of(s) \in SUBSET Int /\ IsFiniteSet(Of(s)) /\ Of(s) \subseteq Keys
    <3>1. Of(s) \subseteq Used /\ Of(s) \subseteq Keys
      BY DEF IInv, TypeOK, Of, Used
    <3>. QED
      BY <3>1, FS_Subset DEF IInv, Setting
  <2>2. doomed' \subseteq Of(s)
    BY <1>3 DEF First
  <2>3. TypeOK'
    BY <1>1, <1>3, <2>1, <2>2 DEF IInv, TypeOK
  <2>4. Cardinality(Of(s)) \in Nat /\ Cardinality(Of(s)) > Retention /\ Retention \in Nat
    BY <1>3, <2>1, FS_CardinalityType DEF Setting
  <2>5. Cardinality(Of(s) \ doomed') >= Retention
    BY <1>3, <2>1, <2>4, FirstLeaves
  <2>6. Spare(s)' = Of(s) \ doomed' /\ \A t \in Streams : Of(t)' = Of(t) /\ Uploaded(t)' = Uploaded(t)
    BY <1>1 DEF Spare, Of, Uploaded
  <2>7. \A t \in Streams : t # s => Spare(t)' = Spare(t)
    BY <1>1, <2>2, <2>6 DEF Spare, Of
  <2>8. \A t \in Streams : Uploaded(t)' \subseteq Spare(t)' \/ Cardinality(Spare(t)') >= Retention
    BY <2>5, <2>6, <2>7 DEF IInv, SpareInv
  <2>9. at' # None /\ \A x \in doomed' : owner'[x] = at'
    BY <1>1, <1>3, <2>2 DEF Of, Setting
  <2>. QED
    BY <1>1, <2>3, <2>8, <2>9 DEF IInv, SpareInv, Used
<1>. QED
  BY <1>2, <1>3 DEF ListFrames

LEMMA DeleteStep ==
    ASSUME Setting, IInv, NEW k \in Keys, DeleteFrame(k)
    PROVE  IInv'
<1>1. /\ k \in doomed /\ objects' = objects \ {k} /\ doomed' = doomed \ {k}
      /\ purged' = purged \cup {k}
      /\ UNCHANGED <<listed, owner, age, uploading, tasks, tries, todo, at>>
  BY DEF DeleteFrame, frameVars, queueVars
<1>2. TypeOK'
  BY <1>1 DEF IInv, TypeOK
<1>3. \A t \in Streams : Spare(t)' = Spare(t) /\ Uploaded(t)' = Uploaded(t)
  BY <1>1 DEF Spare, Of, Uploaded
<1>4. Used' = Used
  BY <1>1 DEF Used
<1>. QED
  BY <1>1, <1>2, <1>3, <1>4 DEF IInv, SpareInv

(* The list is forgotten, by an error, at its end or in a restart.           *)
LEMMA ForgetStep ==
    ASSUME Setting, IInv, TypeOK', UNCHANGED <<owner, objects>>, at' = None, doomed' = {}
    PROVE  IInv'
<1>1. IsFiniteSet(Used')
  BY DEF IInv, Used
<1>2. \A t \in Streams : Spare(t) \subseteq Spare(t)' /\ Uploaded(t)' = Uploaded(t)
  BY DEF Spare, Of, Uploaded
<1>3. \A t \in Streams : Uploaded(t)' \subseteq Spare(t)' \/ Cardinality(Spare(t)') >= Retention
  BY <1>1, <1>2, SpareGrows DEF Setting, IInv, SpareInv
<1>. QED
  BY <1>1, <1>3 DEF IInv, SpareInv

LEMMA NextInv ==
    ASSUME Setting, IInv, [Next]_vars
    PROVE  IInv'
<1>1. ASSUME NEW s \in Streams, NEW ok \in BOOLEAN, NEW k \in Keys, Upload(s, k, ok)
      PROVE  IInv'
  BY <1>1, UploadStep
<1>2. ASSUME NEW s \in Streams, NEW ok \in BOOLEAN, Publish(s, ok) PROVE IInv'
  <2>1. TypeOK'
    BY <1>2 DEF IInv, TypeOK, Publish, frameVars, cleanupVars
  <2>. QED
    BY <1>2, <2>1, OtherStep DEF Publish, frameVars, cleanupVars
<1>3. ASSUME NEW s \in Streams, NEW ok \in BOOLEAN, ListFrames(s, ok) PROVE IInv'
  BY <1>3, ListStep
<1>4. ASSUME NEW k \in Keys, Load(k) PROVE IInv'
  <2>1. tries' \in [Keys -> 0 .. MaxDeliver]
    <3>1. tries[k] \in 0 .. MaxDeliver /\ tries[k] < MaxDeliver
      BY <1>4 DEF IInv, TypeOK, Load
    <3>2. tries[k] + 1 \in 0 .. MaxDeliver
      BY <3>1 DEF Setting
    <3>. QED
      BY <1>4, <3>2 DEF IInv, TypeOK, Load
  <2>2. TypeOK'
    BY <1>4, <2>1 DEF IInv, TypeOK, Load, frameVars, cleanupVars
  <2>. QED
    BY <1>4, <2>2, OtherStep DEF Load, frameVars, cleanupVars
<1>5. ASSUME NEW k \in Keys, DeleteFrame(k) PROVE IInv'
  BY <1>5, DeleteStep
<1>6. ASSUME NEW s \in Streams, DeleteStream(s) PROVE IInv'
  <2>1. TypeOK'
    BY <1>6 DEF IInv, TypeOK, DeleteStream, frameVars, queueVars, cleanupVars
  <2>. QED
    BY <1>6, <2>1, OtherStep DEF DeleteStream, frameVars, cleanupVars
<1>7. CASE StartRound
  <2>1. TypeOK'
    BY <1>7 DEF IInv, TypeOK, StartRound, frameVars, queueVars
  <2>. QED
    BY <1>7, <2>1, OtherStep DEF StartRound, frameVars
<1>8. CASE EndDelete
  <2>1. TypeOK'
    BY <1>8 DEF IInv, TypeOK, EndDelete, frameVars, queueVars
  <2>. QED
    BY <1>8, <2>1, ForgetStep DEF EndDelete, frameVars
<1>9. CASE Restart
  <2>1. TypeOK'
    BY <1>9 DEF IInv, TypeOK, Restart, frameVars, queueVars
  <2>. QED
    BY <1>9, <2>1, ForgetStep DEF Restart, frameVars
<1>10. CASE UNCHANGED vars
  <2>1. TypeOK'
    BY <1>10 DEF IInv, TypeOK, vars, frameVars, queueVars, cleanupVars
  <2>. QED
    BY <1>10, <2>1, OtherStep DEF vars, frameVars, cleanupVars
<1>. QED
  BY <1>1, <1>2, <1>3, <1>4, <1>5, <1>6, <1>7, <1>8, <1>9, <1>10 DEF Next

-----------------------------------------------------------------------------
(* The theorems.                                                             *)

(* The invariant holds of every reachable state: whatever part of the list   *)
(* the cleanup has worked off, the limit remains without the rest of it.     *)
THEOREM Inductive == ASSUME Setting PROVE Spec => []IInv
<1>1. Init => IInv
  BY InitInv
<1>2. IInv /\ [Next]_vars => IInv'
  BY NextInv
<1>. QED
  BY <1>1, <1>2, PTL DEF Spec

(* The cleanup leaves a stream its last Retention frames in number, whatever *)
(* uploads, failing calls and restarts come between its steps, and for any   *)
(* number of streams and frames (cmd/ingestor/main.go:24-47).                *)
THEOREM RetentionKept == ASSUME Setting PROVE Spec => []KeepsRetention
<1>1. IInv => KeepsRetention
  <2>. SUFFICES ASSUME IInv, NEW s \in Streams
                PROVE  Uploaded(s) \subseteq objects \/ Cardinality(Of(s)) >= Retention
    BY DEF KeepsRetention, Uploaded
  <2>1. Of(s) \subseteq Used /\ Spare(s) \subseteq Of(s) /\ Spare(s) \subseteq objects
    BY DEF IInv, TypeOK, Of, Used, Spare
  <2>2. IsFiniteSet(Of(s)) /\ IsFiniteSet(Spare(s))
    BY <2>1, FS_Subset DEF IInv
  <2>3. Cardinality(Spare(s)) <= Cardinality(Of(s))
    BY <2>1, <2>2, FS_Subset
  <2>4. Cardinality(Spare(s)) \in Nat /\ Cardinality(Of(s)) \in Nat /\ Retention \in Nat
    BY <2>2, FS_CardinalityType DEF Setting
  <2>5. Uploaded(s) \subseteq Spare(s) \/ Cardinality(Spare(s)) >= Retention
    BY DEF IInv, SpareInv
  <2>6. CASE Cardinality(Spare(s)) >= Retention
    BY <2>3, <2>4, <2>6
  <2>. QED
    BY <2>1, <2>5, <2>6
<1>. QED
  BY <1>1, Inductive, PTL
=============================================================================
