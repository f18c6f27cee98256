------------------------- MODULE FaceEnrolmentProofs -------------------------
(* What the handlers that share one pipeline guarantee all the same, for any *)
(* number of requests, pictures and persons.                                 *)
EXTENDS FaceEnrolment, TLAPS

(* What is in hand at each step has the right shape; EnrolTypeOK alone allows     *)
(* None everywhere.                                                          *)
ShapeInv ==
    \A r \in Requests :
        /\ pc[r] # "none" => image[r] \in Images
        /\ pc[r] = "none" => verdict[r] = "none"
        /\ pc[r] = "runDetector" => detIn \in BoxNames
        /\ pc[r] = "parse" => detOut \in BoxNames
        /\ pc[r] = "extract" => box[r] \in BoxNames

(* A request that has met nobody is alone in its session, and what it finds  *)
(* in the tensors is its own.                                                *)
DetectorInv ==
    \A r \in Requests \ collided :
        /\ InDetector(r) => \A q \in Requests \ {r} : ~ InDetector(q)
        /\ pc[r] = "runDetector" => detIn = image[r]
        /\ pc[r] = "parse" => detOut = image[r]

EmbedderInv ==
    \A r \in Requests \ collided :
        /\ InEmbedder(r) => \A q \in Requests \ {r} : ~ InEmbedder(q)
        /\ pc[r] = "extract" => box[r] = image[r]
        /\ pc[r] = "runEmbedder" => embIn = Crop(image[r], image[r])
        /\ pc[r] = "read" => embOut = Crop(image[r], image[r])

(* How far a request has come with its two stores.                           *)
StoreInv ==
    \A r \in Requests :
        /\ pc[r] \notin {"insert", "done"} => r \notin objects
        /\ pc[r] = "insert" => r \in objects
        /\ pc[r] # "done" => answer[r] = 0 /\ r \notin rows \cup removed
        /\ r \in removed => r \in objects

IInv ==
    /\ EnrolTypeOK /\ ShapeInv /\ DetectorInv /\ EmbedderInv /\ StoreInv
    /\ WrongNeedsCollision /\ AnswerMatchesStore

-----------------------------------------------------------------------------
(* Steps.                                                                    *)

Labels == {"none", "verify", "ready", "detect", "runDetector", "parse", "extract",
           "runEmbedder", "read", "put", "insert", "search", "done"}
Statuses == {0, 200, 201, 404, 422, 500, 503}

(* Types, in three parts.                                                    *)
RequestType ==
    /\ pc \in [Requests -> Labels]
    /\ kind \in [Requests -> {"AddFace", "Search"}]
    /\ image \in [Requests -> Images \cup {None}]
    /\ person \in [Requests -> Persons \cup {Unknown, None}]
    /\ answer \in [Requests -> Statuses]
    /\ verdict \in [Requests -> {"none", "ok", "noFace", "error"}]
    /\ collided \in SUBSET Requests

TensorType ==
    /\ box \in [Requests -> BoxNames \cup {None}]
    /\ embedding \in [Requests -> Crops \cup {Mixed, None}]
    /\ detIn \in BoxNames \cup {None} /\ detOut \in BoxNames \cup {None}
    /\ embIn \in Crops \cup {Mixed, None} /\ embOut \in Crops \cup {Mixed, None}

StoreType ==
    /\ ready \in BOOLEAN
    /\ objects \in SUBSET Requests
    /\ rows \in SUBSET Requests
    /\ removed \in SUBSET Requests /\ rows \cap removed = {}

LEMMA TypeParts == EnrolTypeOK <=> RequestType /\ TensorType /\ StoreType
BY DEF EnrolTypeOK, RequestType, TensorType, StoreType, Labels, Statuses

(* The steps of a request.                                                   *)
Acts(r) ==
    \/ VerifyPerson(r) \/ CheckReady(r)
    \/ CopyPicture(r) \/ RunDetector(r) \/ RunFails(r) \/ FindFace(r) \/ FindNoFace(r)
    \/ CopyCrop(r) \/ RunEmbedder(r) \/ ReadEmbedding(r)
    \/ \E ok \in BOOLEAN : PutImage(r, ok) \/ InsertFace(r, ok) \/ SearchFaces(r, ok)
    \/ DeleteFace(r)

Receives(r) ==
    \E k \in {"AddFace", "Search"}, i \in Images, p \in Persons \cup {Unknown} : Receive(r, k, i, p)

LEMMA Actions ==
    [EnrolNext]_enrolVars =>
        \/ \E r \in Requests : Acts(r) \/ Receives(r)
        \/ RestartApi
        \/ UNCHANGED enrolVars
BY DEF EnrolNext, EmbedImage, Finish, Acts, Receives

(* What Goto and Reply do.                                                   *)
LEMMA GotoMoves ==
    ASSUME pc \in [Requests -> Labels], NEW r \in Requests, NEW l \in Labels, Goto(r, l)
    PROVE  /\ pc' \in [Requests -> Labels]
           /\ pc'[r] = l
           /\ \A q \in Requests : q # r => pc'[q] = pc[q]
BY DEF Goto

LEMMA ReplyMoves ==
    ASSUME pc \in [Requests -> Labels], answer \in [Requests -> Statuses],
           NEW r \in Requests, NEW a \in Statuses, Reply(r, a)
    PROVE  /\ pc' \in [Requests -> Labels]
           /\ pc'[r] = "done"
           /\ answer' \in [Requests -> Statuses]
           /\ answer'[r] = a
           /\ \A q \in Requests : q # r => pc'[q] = pc[q] /\ answer'[q] = answer[q]
<1>1. Goto(r, "done") /\ "done" \in Labels
  BY DEF Reply, Labels
<1>2. /\ answer' \in [Requests -> Statuses]
      /\ answer'[r] = a
      /\ \A q \in Requests : q # r => answer'[q] = answer[q]
  BY DEF Reply
<1>. QED
  BY <1>1, <1>2, GotoMoves

LEMMA MeetType ==
    ASSUME RequestType, NEW r \in Requests,
           Meet(r, Detecting(r)) \/ Meet(r, Extracting(r))
    PROVE  collided' \in SUBSET Requests
<1>1. Detecting(r) \subseteq Requests /\ Extracting(r) \subseteq Requests
  BY DEF Detecting, Extracting
<1>. QED
  BY <1>1 DEF Meet, RequestType

LEMMA GotoType ==
    ASSUME RequestType, NEW r \in Requests, NEW l \in Labels, Goto(r, l),
           UNCHANGED <<requestVars, answer, verdict>>, collided' \in SUBSET Requests
    PROVE  RequestType'
<1>1. pc' \in [Requests -> Labels]
  BY GotoMoves DEF RequestType
<1>. QED
  BY <1>1 DEF RequestType, requestVars

LEMMA ReplyType ==
    ASSUME RequestType, NEW r \in Requests, NEW a \in Statuses, Reply(r, a),
           UNCHANGED <<requestVars, collided>>,
           verdict' \in [Requests -> {"none", "ok", "noFace", "error"}]
    PROVE  RequestType'
<1>1. pc' \in [Requests -> Labels] /\ answer' \in [Requests -> Statuses]
  BY ReplyMoves DEF RequestType
<1>. QED
  BY <1>1 DEF RequestType, requestVars

LEMMA RequestTypeStep == RequestType /\ [EnrolNext]_enrolVars => RequestType'
<1>. SUFFICES ASSUME RequestType, [EnrolNext]_enrolVars PROVE RequestType'
  OBVIOUS
<1>. USE DEF requestVars
<1>0. /\ "none" \in Labels /\ "verify" \in Labels /\ "ready" \in Labels /\ "detect" \in Labels
      /\ "runDetector" \in Labels /\ "parse" \in Labels /\ "extract" \in Labels
      /\ "runEmbedder" \in Labels /\ "read" \in Labels /\ "put" \in Labels
      /\ "insert" \in Labels /\ "search" \in Labels /\ "done" \in Labels
      /\ 200 \in Statuses /\ 201 \in Statuses /\ 404 \in Statuses /\ 422 \in Statuses
      /\ 500 \in Statuses /\ 503 \in Statuses
  BY DEF Labels, Statuses
<1>types. /\ pc \in [Requests -> Labels]
          /\ answer \in [Requests -> Statuses]
          /\ verdict \in [Requests -> {"none", "ok", "noFace", "error"}]
          /\ collided \in SUBSET Requests
  BY DEF RequestType
<1>1. ASSUME NEW r \in Requests, NEW k \in {"AddFace", "Search"}, NEW i \in Images,
             NEW p \in Persons \cup {Unknown}, Receive(r, k, i, p)
      PROVE  RequestType'
  <2>1. pc' \in [Requests -> Labels]
    <3>1. CASE k = "AddFace"
      BY <1>0, <1>1, <3>1, <1>types, GotoMoves DEF Receive
    <3>2. CASE k # "AddFace"
      BY <1>0, <1>1, <3>2, <1>types, GotoMoves DEF Receive
    <3>. QED
      BY <3>1, <3>2
  <2>2. kind' \in [Requests -> {"AddFace", "Search"}]
    BY <1>1 DEF Receive, RequestType
  <2>3. image' \in [Requests -> Images \cup {None}]
    BY <1>1 DEF Receive, RequestType
  <2>4. person' \in [Requests -> Persons \cup {Unknown, None}]
    BY <1>1 DEF Receive, RequestType
  <2>. QED
    BY <1>1, <2>1, <2>2, <2>3, <2>4 DEF Receive, RequestType
<1>2. ASSUME NEW r \in Requests, VerifyPerson(r) PROVE RequestType'
  <2>1. UNCHANGED <<requestVars, verdict, collided>>
    BY <1>2 DEF VerifyPerson
  <2>2. (Goto(r, "ready") /\ UNCHANGED answer) \/ Reply(r, 404) \/ Reply(r, 500)
    BY <1>2 DEF VerifyPerson
  <2>3. CASE Goto(r, "ready") /\ UNCHANGED answer
    BY <2>1, <2>3, <1>0, <1>types, GotoType
  <2>4. CASE Reply(r, 404)
    BY <2>1, <2>4, <1>0, <1>types, ReplyType
  <2>5. CASE Reply(r, 500)
    BY <2>1, <2>5, <1>0, <1>types, ReplyType
  <2>. QED
    BY <2>2, <2>3, <2>4, <2>5
<1>3. ASSUME NEW r \in Requests, CheckReady(r) PROVE RequestType'
  <2>1. UNCHANGED <<requestVars, verdict, collided>>
    BY <1>3 DEF CheckReady
  <2>2. CASE ready
    BY <1>3, <2>1, <2>2, <1>0, <1>types, GotoType DEF CheckReady
  <2>3. CASE ~ ready
    BY <1>3, <2>1, <2>3, <1>0, <1>types, ReplyType DEF CheckReady
  <2>. QED
    BY <2>2, <2>3
<1>4. ASSUME NEW r \in Requests, CopyPicture(r) PROVE RequestType'
  <2>1. Goto(r, "runDetector") /\ UNCHANGED <<requestVars, answer, verdict>>
    BY <1>4 DEF CopyPicture
  <2>2. collided' \in SUBSET Requests
    BY <1>4, MeetType DEF CopyPicture
  <2>. QED
    BY <2>1, <2>2, <1>0, <1>types, GotoType
<1>5. ASSUME NEW r \in Requests, RunDetector(r) PROVE RequestType'
  <2>1. Goto(r, "parse") /\ UNCHANGED <<requestVars, answer, verdict, collided>>
    BY <1>5 DEF RunDetector
  <2>. QED
    BY <2>1, <1>0, <1>types, GotoType
<1>6. ASSUME NEW r \in Requests, RunFails(r) PROVE RequestType'
  <2>1. Reply(r, 422) /\ UNCHANGED <<requestVars, collided>>
    BY <1>6 DEF RunFails
  <2>2. verdict' \in [Requests -> {"none", "ok", "noFace", "error"}]
    BY <1>6 DEF RunFails, RequestType
  <2>. QED
    BY <2>1, <2>2, <1>0, <1>types, ReplyType
<1>7. ASSUME NEW r \in Requests, FindFace(r) PROVE RequestType'
  <2>1. Goto(r, "extract") /\ UNCHANGED <<requestVars, answer, verdict, collided>>
    BY <1>7 DEF FindFace
  <2>. QED
    BY <2>1, <1>0, <1>types, GotoType
<1>8. ASSUME NEW r \in Requests, FindNoFace(r) PROVE RequestType'
  <2>1. Reply(r, 422) /\ UNCHANGED <<requestVars, collided>>
    BY <1>8 DEF FindNoFace
  <2>2. verdict' \in [Requests -> {"none", "ok", "noFace", "error"}]
    BY <1>8 DEF FindNoFace, RequestType
  <2>. QED
    BY <2>1, <2>2, <1>0, <1>types, ReplyType
<1>9. ASSUME NEW r \in Requests, CopyCrop(r) PROVE RequestType'
  <2>1. Goto(r, "runEmbedder") /\ UNCHANGED <<requestVars, answer, verdict>>
    BY <1>9 DEF CopyCrop
  <2>2. collided' \in SUBSET Requests
    BY <1>9, MeetType DEF CopyCrop
  <2>. QED
    BY <2>1, <2>2, <1>0, <1>types, GotoType
<1>10. ASSUME NEW r \in Requests, RunEmbedder(r) PROVE RequestType'
  <2>1. Goto(r, "read") /\ UNCHANGED <<requestVars, answer, verdict, collided>>
    BY <1>10 DEF RunEmbedder
  <2>. QED
    BY <2>1, <1>0, <1>types, GotoType
<1>11. ASSUME NEW r \in Requests, ReadEmbedding(r) PROVE RequestType'
  <2>1. pc' \in [Requests -> Labels]
    <3>1. CASE kind[r] = "AddFace"
      BY <1>0, <1>11, <3>1, <1>types, GotoMoves DEF ReadEmbedding
    <3>2. CASE kind[r] # "AddFace"
      BY <1>0, <1>11, <3>2, <1>types, GotoMoves DEF ReadEmbedding
    <3>. QED
      BY <3>1, <3>2
  <2>2. verdict' \in [Requests -> {"none", "ok", "noFace", "error"}]
    BY <1>11 DEF ReadEmbedding, RequestType
  <2>3. UNCHANGED <<requestVars, answer, collided>>
    BY <1>11 DEF ReadEmbedding
  <2>. QED
    BY <2>1, <2>2, <2>3 DEF RequestType
<1>12. ASSUME NEW r \in Requests, NEW ok \in BOOLEAN, PutImage(r, ok) PROVE RequestType'
  <2>1. UNCHANGED <<requestVars, verdict, collided>>
    BY <1>12 DEF PutImage
  <2>2. (Goto(r, "insert") /\ UNCHANGED answer) \/ Reply(r, 500)
    BY <1>12, Zenon DEF PutImage
  <2>3. CASE Goto(r, "insert") /\ UNCHANGED answer
    BY <2>1, <2>3, <1>0, <1>types, GotoType
  <2>4. CASE Reply(r, 500)
    BY <2>1, <2>4, <1>0, <1>types, ReplyType
  <2>. QED
    BY <2>2, <2>3, <2>4
<1>13. ASSUME NEW r \in Requests, NEW ok \in BOOLEAN, InsertFace(r, ok) \/ SearchFaces(r, ok)
       PROVE  RequestType'
  <2>1. UNCHANGED <<requestVars, verdict, collided>>
    BY <1>13 DEF InsertFace, SearchFaces
  <2>2. Reply(r, 200) \/ Reply(r, 201) \/ Reply(r, 500)
    <3>1. CASE ok
      BY <1>13, <3>1 DEF InsertFace, SearchFaces
    <3>2. CASE ~ ok
      BY <1>13, <3>2 DEF InsertFace, SearchFaces
    <3>. QED
      BY <3>1, <3>2
  <2>3. CASE Reply(r, 200)
    BY <2>1, <2>3, <1>0, <1>types, ReplyType
  <2>4. CASE Reply(r, 201)
    BY <2>1, <2>4, <1>0, <1>types, ReplyType
  <2>5. CASE Reply(r, 500)
    BY <2>1, <2>5, <1>0, <1>types, ReplyType
  <2>. QED
    BY <2>2, <2>3, <2>4, <2>5
<1>14. ASSUME NEW r \in Requests, DeleteFace(r) PROVE RequestType'
  BY <1>14 DEF DeleteFace, RequestType
<1>15. CASE RestartApi
  <2>1. pc' \in [Requests -> Labels]
    BY <1>15 DEF RestartApi, RequestType, Labels
  <2>. QED
    BY <1>15, <2>1 DEF RestartApi, RequestType
<1>16. CASE UNCHANGED enrolVars
  BY <1>16 DEF enrolVars, RequestType
<1>. QED
  BY <1>1, <1>2, <1>3, <1>4, <1>5, <1>6, <1>7, <1>8, <1>9, <1>10, <1>11, <1>12, <1>13, <1>14,
     <1>15, <1>16, Actions DEF Acts, Receives

LEMMA TensorTypeStep == RequestType /\ TensorType /\ ShapeInv /\ [EnrolNext]_enrolVars => TensorType'
<1>. SUFFICES ASSUME RequestType, TensorType, ShapeInv, [EnrolNext]_enrolVars PROVE TensorType'
  OBVIOUS
<1>. USE DEF TensorType, tensorVars
<1>1. ASSUME NEW r \in Requests, CopyPicture(r) PROVE TensorType'
  <2>1. image[r] \in BoxNames
    BY <1>1 DEF CopyPicture, ShapeInv, BoxNames
  <2>2. detIn' \in BoxNames
    BY <1>1, <2>1 DEF CopyPicture, Torn, BoxNames
  <2>. QED
    BY <1>1, <2>2 DEF CopyPicture
<1>2. ASSUME NEW r \in Requests, RunDetector(r) PROVE TensorType'
  <2>1. detOut' \in BoxNames \cup {None}
    BY <1>2 DEF RunDetector, Torn, BoxNames
  <2>. QED
    BY <1>2, <2>1 DEF RunDetector
<1>3. ASSUME NEW r \in Requests, FindFace(r) PROVE TensorType'
  BY <1>3 DEF FindFace
<1>4. ASSUME NEW r \in Requests, CopyCrop(r) PROVE TensorType'
  <2>1. image[r] \in Images /\ box[r] \in BoxNames
    BY <1>4 DEF CopyCrop, ShapeInv
  <2>2. Crop(image[r], box[r]) \in Crops
    BY <2>1 DEF Crop, Crops
  <2>3. embIn' \in Crops \cup {Mixed, None}
    BY <1>4, <2>2 DEF CopyCrop, Torn
  <2>. QED
    BY <1>4, <2>3 DEF CopyCrop
<1>5. ASSUME NEW r \in Requests, RunEmbedder(r) PROVE TensorType'
  <2>1. embOut' \in Crops \cup {Mixed, None}
    BY <1>5 DEF RunEmbedder, Torn
  <2>. QED
    BY <1>5, <2>1 DEF RunEmbedder
<1>6. ASSUME NEW r \in Requests, ReadEmbedding(r) PROVE TensorType'
  <2>1. PICK e \in Torn(embOut, Extracting(r)) : embedding' = [embedding EXCEPT ![r] = e]
    BY <1>6 DEF ReadEmbedding
  <2>2. e \in Crops \cup {Mixed, None}
    BY <2>1 DEF Torn
  <2>. QED
    BY <1>6, <2>1, <2>2 DEF ReadEmbedding
<1>7. CASE RestartApi
  BY <1>7 DEF RestartApi
<1>8. CASE UNCHANGED <<box, embedding, tensorVars>>
  BY <1>8
<1>9. ASSUME NEW r \in Requests,
             \/ Receives(r) \/ VerifyPerson(r) \/ CheckReady(r) \/ RunFails(r) \/ FindNoFace(r)
             \/ \E ok \in BOOLEAN : PutImage(r, ok) \/ InsertFace(r, ok) \/ SearchFaces(r, ok)
             \/ DeleteFace(r)
      PROVE  UNCHANGED <<box, embedding, tensorVars>>
  BY <1>9 DEF Receives, Receive, VerifyPerson, CheckReady, RunFails, FindNoFace, PutImage,
              InsertFace, SearchFaces, DeleteFace
<1>10. CASE UNCHANGED enrolVars
  BY <1>10 DEF enrolVars
<1>. QED
  BY <1>1, <1>2, <1>3, <1>4, <1>5, <1>6, <1>7, <1>8, <1>9, <1>10, Actions DEF Acts

LEMMA StoreTypeStep == StoreType /\ StoreInv /\ [EnrolNext]_enrolVars => StoreType'
<1>. SUFFICES ASSUME StoreType, StoreInv, [EnrolNext]_enrolVars PROVE StoreType'
  OBVIOUS
<1>. USE DEF StoreType, storeVars
<1>1. ASSUME NEW r \in Requests, NEW ok \in BOOLEAN, PutImage(r, ok) PROVE StoreType'
  <2>1. objects' \in SUBSET Requests
    BY <1>1 DEF PutImage
  <2>. QED
    BY <1>1, <2>1, Zenon DEF PutImage
<1>2. ASSUME NEW r \in Requests, NEW ok \in BOOLEAN, InsertFace(r, ok) PROVE StoreType'
  <2>1. rows' \in SUBSET Requests /\ rows' \cap removed = {}
    BY <1>2 DEF InsertFace, StoreInv
  <2>. QED
    BY <1>2, <2>1, Zenon DEF InsertFace
<1>3. ASSUME NEW r \in Requests, DeleteFace(r) PROVE StoreType'
  <2>1. rows' \in SUBSET Requests /\ removed' \in SUBSET Requests /\ rows' \cap removed' = {}
    BY <1>3 DEF DeleteFace
  <2>. QED
    BY <1>3, <2>1, Zenon DEF DeleteFace
<1>4. CASE RestartApi
  BY <1>4, Zenon DEF RestartApi
<1>5. CASE UNCHANGED <<ready, storeVars>>
  BY <1>5, Zenon
<1>6. ASSUME NEW r \in Requests,
             \/ Receives(r) \/ VerifyPerson(r) \/ CheckReady(r)
             \/ CopyPicture(r) \/ RunDetector(r) \/ RunFails(r) \/ FindFace(r) \/ FindNoFace(r)
             \/ CopyCrop(r) \/ RunEmbedder(r) \/ ReadEmbedding(r)
             \/ \E ok \in BOOLEAN : SearchFaces(r, ok)
      PROVE  UNCHANGED <<ready, storeVars>>
  BY <1>6 DEF Receives, Receive, VerifyPerson, CheckReady, CopyPicture, RunDetector, RunFails,
              FindFace, FindNoFace, CopyCrop, RunEmbedder, ReadEmbedding, SearchFaces
<1>7. CASE UNCHANGED enrolVars
  BY <1>7 DEF enrolVars
<1>. QED
  BY <1>1, <1>2, <1>3, <1>4, <1>5, <1>6, <1>7, Actions DEF Acts

(* Where a step of a request leads, and that it leaves the other requests    *)
(* where they are.                                                           *)
Stays(r) == \A q \in Requests : q # r => pc'[q] = pc[q] /\ answer'[q] = answer[q]

Going(r, l) == pc'[r] = l /\ answer'[r] = answer[r] /\ Stays(r)
Replying(r, a) == pc'[r] = "done" /\ answer'[r] = a /\ Stays(r)

LEMMA GotoGoes ==
    ASSUME RequestType, NEW r \in Requests, NEW l \in Labels, Goto(r, l), UNCHANGED answer
    PROVE  Going(r, l)
BY GotoMoves DEF Going, Stays, RequestType

LEMMA ReplyReplies ==
    ASSUME RequestType, NEW r \in Requests, NEW a \in Statuses, Reply(r, a)
    PROVE  Replying(r, a)
BY ReplyMoves DEF Replying, Stays, RequestType

LEMMA Places ==
    ASSUME RequestType, NEW r \in Requests
    PROVE  /\ Receives(r) => Going(r, "verify") \/ Going(r, "ready")
           /\ VerifyPerson(r) => Going(r, "ready") \/ Replying(r, 404) \/ Replying(r, 500)
           /\ CheckReady(r) => Going(r, "detect") \/ Replying(r, 503)
           /\ CopyPicture(r) => Going(r, "runDetector")
           /\ RunDetector(r) => Going(r, "parse")
           /\ RunFails(r) => Replying(r, 422)
           /\ FindFace(r) => Going(r, "extract")
           /\ FindNoFace(r) => Replying(r, 422)
           /\ CopyCrop(r) => Going(r, "runEmbedder")
           /\ RunEmbedder(r) => Going(r, "read")
           /\ ReadEmbedding(r) => Going(r, "put") \/ Going(r, "search")
           /\ DeleteFace(r) => pc'[r] = pc[r] /\ answer'[r] = answer[r] /\ Stays(r)
<1>0. /\ "verify" \in Labels /\ "ready" \in Labels /\ "detect" \in Labels
      /\ "runDetector" \in Labels /\ "parse" \in Labels /\ "extract" \in Labels
      /\ "runEmbedder" \in Labels /\ "read" \in Labels /\ "put" \in Labels
      /\ "insert" \in Labels /\ "search" \in Labels
      /\ 200 \in Statuses /\ 201 \in Statuses /\ 404 \in Statuses /\ 422 \in Statuses
      /\ 500 \in Statuses /\ 503 \in Statuses
  BY DEF Labels, Statuses
<1>1. Receives(r) => Going(r, "verify") \/ Going(r, "ready")
  <2>1. Receives(r) => UNCHANGED answer /\ (Goto(r, "verify") \/ Goto(r, "ready"))
    BY DEF Receives, Receive
  <2>. QED
    BY <1>0, <2>1, GotoGoes
<1>2. VerifyPerson(r) => Going(r, "ready") \/ Replying(r, 404) \/ Replying(r, 500)
  <2>1. VerifyPerson(r) => (Goto(r, "ready") /\ UNCHANGED answer) \/ Reply(r, 404) \/ Reply(r, 500)
    BY DEF VerifyPerson
  <2>2. Reply(r, 404) => Replying(r, 404)
    BY <1>0, ReplyReplies
  <2>3. Reply(r, 500) => Replying(r, 500)
    BY <1>0, ReplyReplies
  <2>. QED
    BY <1>0, <2>1, <2>2, <2>3, GotoGoes
<1>3. CheckReady(r) => Going(r, "detect") \/ Replying(r, 503)
  <2>1. CheckReady(r) => (Goto(r, "detect") /\ UNCHANGED answer) \/ Reply(r, 503)
    BY DEF CheckReady
  <2>. QED
    BY <1>0, <2>1, GotoGoes, ReplyReplies
<1>4. CopyPicture(r) => Going(r, "runDetector")
  BY <1>0, GotoGoes DEF CopyPicture
<1>5. RunDetector(r) => Going(r, "parse")
  BY <1>0, GotoGoes DEF RunDetector
<1>6. RunFails(r) => Replying(r, 422)
  BY <1>0, ReplyReplies DEF RunFails
<1>7. FindFace(r) => Going(r, "extract")
  BY <1>0, GotoGoes DEF FindFace
<1>8. FindNoFace(r) => Replying(r, 422)
  BY <1>0, ReplyReplies DEF FindNoFace
<1>9. CopyCrop(r) => Going(r, "runEmbedder")
  BY <1>0, GotoGoes DEF CopyCrop
<1>10. RunEmbedder(r) => Going(r, "read")
  BY <1>0, GotoGoes DEF RunEmbedder
<1>11. ReadEmbedding(r) => Going(r, "put") \/ Going(r, "search")
  <2>1. ReadEmbedding(r) => UNCHANGED answer /\ (Goto(r, "put") \/ Goto(r, "search"))
    BY DEF ReadEmbedding
  <2>. QED
    BY <1>0, <2>1, GotoGoes
<1>12. DeleteFace(r) => pc'[r] = pc[r] /\ answer'[r] = answer[r] /\ Stays(r)
  BY DEF DeleteFace, Stays
<1>. QED
  BY <1>1, <1>2, <1>3, <1>4, <1>5, <1>6, <1>7, <1>8, <1>9, <1>10, <1>11, <1>12

LEMMA Finishes ==
    ASSUME RequestType, NEW r \in Requests, NEW ok \in BOOLEAN
    PROVE  /\ PutImage(r, ok) => IF ok THEN Going(r, "insert") ELSE Replying(r, 500)
           /\ InsertFace(r, ok) => IF ok THEN Replying(r, 201) ELSE Replying(r, 500)
           /\ SearchFaces(r, ok) => Replying(r, 200) \/ Replying(r, 500)
<1>0. "insert" \in Labels /\ 200 \in Statuses /\ 201 \in Statuses /\ 500 \in Statuses
  BY DEF Labels, Statuses
<1>1. Reply(r, 201) => Replying(r, 201)
  BY <1>0, ReplyReplies
<1>2. Reply(r, 500) => Replying(r, 500)
  BY <1>0, ReplyReplies
<1>3. Reply(r, 200) => Replying(r, 200)
  BY <1>0, ReplyReplies
<1>4. PutImage(r, ok) => IF ok THEN Going(r, "insert") ELSE Replying(r, 500)
  BY <1>0, <1>2, GotoGoes DEF PutImage
<1>5. InsertFace(r, ok) => IF ok THEN Replying(r, 201) ELSE Replying(r, 500)
  BY <1>1, <1>2 DEF InsertFace
<1>6. SearchFaces(r, ok) => Replying(r, 200) \/ Replying(r, 500)
  BY <1>2, <1>3 DEF SearchFaces
<1>. QED
  BY <1>4, <1>5, <1>6

(* What a step leaves of the other requests' pictures, boxes and results.    *)
LEMMA Keeps ==
    ASSUME RequestType, TensorType, NEW r \in Requests, Acts(r) \/ Receives(r)
    PROVE  /\ Stays(r)
           /\ \A q \in Requests : q # r => /\ image'[q] = image[q] /\ box'[q] = box[q]
                                          /\ embedding'[q] = embedding[q]
                                          /\ verdict'[q] = verdict[q]
           /\ collided \subseteq collided'
<1>1. Stays(r)
  <2>1. CASE Receives(r) \/ VerifyPerson(r) \/ CheckReady(r) \/ DeleteFace(r)
    BY <2>1, Places DEF Going, Replying
  <2>2. CASE CopyPicture(r) \/ RunDetector(r) \/ RunFails(r) \/ FindFace(r) \/ FindNoFace(r)
    BY <2>2, Places DEF Going, Replying
  <2>3. CASE CopyCrop(r) \/ RunEmbedder(r) \/ ReadEmbedding(r)
    BY <2>3, Places DEF Going, Replying
  <2>4. ASSUME NEW ok \in BOOLEAN, PutImage(r, ok) \/ InsertFace(r, ok) \/ SearchFaces(r, ok)
        PROVE  Stays(r)
    BY <2>4, Finishes DEF Going, Replying
  <2>. QED
    BY <2>1, <2>2, <2>3, <2>4 DEF Acts
<1>2. \A q \in Requests : q # r => image'[q] = image[q]
  <2>1. CASE Receives(r)
    BY <2>1 DEF Receives, Receive, RequestType
  <2>2. CASE Acts(r)
    BY <2>2 DEF Acts, VerifyPerson, CheckReady, CopyPicture, RunDetector, RunFails, FindFace, FindNoFace,
              CopyCrop, RunEmbedder, ReadEmbedding, PutImage, InsertFace, SearchFaces, DeleteFace,
              requestVars
  <2>. QED
    BY <2>1, <2>2
<1>3. \A q \in Requests : q # r => box'[q] = box[q]
  <2>1. CASE FindFace(r)
    BY <2>1 DEF FindFace, TensorType
  <2>2. CASE ~ FindFace(r)
    BY <2>2 DEF Receives, Receive, Acts, VerifyPerson, CheckReady, CopyPicture, RunDetector, RunFails,
              FindNoFace, CopyCrop, RunEmbedder, ReadEmbedding, PutImage, InsertFace, SearchFaces,
              DeleteFace
  <2>. QED
    BY <2>1, <2>2
<1>4. \A q \in Requests : q # r => embedding'[q] = embedding[q]
  <2>1. CASE ReadEmbedding(r)
    <3>1. PICK e \in Torn(embOut, Extracting(r)) : embedding' = [embedding EXCEPT ![r] = e]
      BY <2>1 DEF ReadEmbedding
    <3>. QED
      BY <3>1 DEF TensorType
  <2>2. CASE ~ ReadEmbedding(r)
    BY <2>2 DEF Receives, Receive, Acts, VerifyPerson, CheckReady, CopyPicture, RunDetector, RunFails,
              FindFace, FindNoFace, CopyCrop, RunEmbedder, PutImage, InsertFace, SearchFaces,
              DeleteFace
  <2>. QED
    BY <2>1, <2>2
<1>5. \A q \in Requests : q # r => verdict'[q] = verdict[q]
  <2>1. CASE ReadEmbedding(r) \/ RunFails(r) \/ FindNoFace(r)
    BY <2>1 DEF ReadEmbedding, RunFails, FindNoFace, RequestType
  <2>2. CASE ~ (ReadEmbedding(r) \/ RunFails(r) \/ FindNoFace(r))
    BY <2>2 DEF Receives, Receive, Acts, VerifyPerson, CheckReady, CopyPicture, RunDetector,
              FindFace, CopyCrop, RunEmbedder, PutImage, InsertFace, SearchFaces, DeleteFace
  <2>. QED
    BY <2>1, <2>2
<1>6. collided \subseteq collided'
  <2>1. CASE CopyPicture(r) \/ CopyCrop(r)
    BY <2>1 DEF CopyPicture, CopyCrop, Meet
  <2>2. CASE ~ (CopyPicture(r) \/ CopyCrop(r))
    BY <2>2 DEF Receives, Receive, Acts, VerifyPerson, CheckReady, RunDetector, RunFails,
              FindFace, FindNoFace, RunEmbedder, ReadEmbedding, PutImage, InsertFace, SearchFaces,
              DeleteFace
  <2>. QED
    BY <2>1, <2>2
<1>. QED
  BY <1>1, <1>2, <1>3, <1>4, <1>5, <1>6

LEMMA ShapeStep == EnrolTypeOK /\ ShapeInv /\ DetectorInv /\ [EnrolNext]_enrolVars => ShapeInv'
<1>. SUFFICES ASSUME EnrolTypeOK, ShapeInv, DetectorInv, [EnrolNext]_enrolVars PROVE ShapeInv'
  OBVIOUS
<1>. USE TypeParts
<1>1. ASSUME NEW r \in Requests, Acts(r) \/ Receives(r),
             pc'[r] # "none" => image'[r] \in Images,
             pc'[r] = "none" => verdict'[r] = "none",
             pc'[r] = "runDetector" => detIn' \in BoxNames,
             pc'[r] = "parse" => detOut' \in BoxNames,
             pc'[r] = "extract" => box'[r] \in BoxNames,
             detIn \in BoxNames => detIn' \in BoxNames,
             detOut \in BoxNames => detOut' \in BoxNames
      PROVE  ShapeInv'
  BY <1>1, Keeps DEF ShapeInv, Stays
<1>2. ASSUME NEW r \in Requests, Receives(r) PROVE ShapeInv'
  <2>1. image'[r] \in Images /\ UNCHANGED tensorVars
    BY <1>2 DEF Receives, Receive, RequestType
  <2>. QED
    BY <1>1, <1>2, <2>1, Places DEF Going, tensorVars
<1>3. ASSUME NEW r \in Requests,
             VerifyPerson(r) \/ CheckReady(r) \/ RunFails(r) \/ FindNoFace(r)
      PROVE  ShapeInv'
  <2>1. pc[r] # "none" /\ UNCHANGED <<image, tensorVars>>
    BY <1>3 DEF VerifyPerson, CheckReady, RunFails, FindNoFace, requestVars
  <2>2. pc'[r] \in {"ready", "detect", "done"}
    BY <1>3, Places DEF Going, Replying
  <2>3. image'[r] \in Images
    BY <2>1 DEF ShapeInv
  <2>. QED
    BY <1>1, <1>3, <2>1, <2>2, <2>3 DEF Acts, tensorVars
<1>4. ASSUME NEW r \in Requests, CopyPicture(r) PROVE ShapeInv'
  <2>1. image[r] \in Images /\ UNCHANGED <<image, detOut>>
    BY <1>4 DEF CopyPicture, ShapeInv, requestVars
  <2>2. detIn' \in BoxNames
    BY <1>4, <2>1 DEF CopyPicture, Torn, BoxNames
  <2>3. pc'[r] = "runDetector"
    BY <1>4, Places DEF Going
  <2>. QED
    BY <1>1, <1>4, <2>1, <2>2, <2>3 DEF Acts
<1>5. ASSUME NEW r \in Requests, RunDetector(r) PROVE ShapeInv'
  <2>1. pc[r] = "runDetector" /\ UNCHANGED <<image, detIn>>
    BY <1>5 DEF RunDetector, requestVars
  <2>2. detIn \in BoxNames /\ image[r] \in Images
    BY <2>1 DEF ShapeInv
  <2>3. detOut' \in BoxNames
    BY <1>5, <2>2 DEF RunDetector, Torn, BoxNames
  <2>4. pc'[r] = "parse"
    BY <1>5, Places DEF Going
  <2>. QED
    BY <1>1, <1>5, <2>1, <2>2, <2>3, <2>4 DEF Acts
<1>6. ASSUME NEW r \in Requests, FindFace(r) PROVE ShapeInv'
  <2>1. pc[r] = "parse" /\ UNCHANGED <<image, tensorVars>> /\ box' = [box EXCEPT ![r] = detOut]
    BY <1>6 DEF FindFace, requestVars
  <2>2. detOut \in BoxNames /\ image[r] \in Images
    BY <2>1 DEF ShapeInv
  <2>3. box'[r] = detOut
    BY <2>1 DEF TensorType
  <2>4. pc'[r] = "extract"
    BY <1>6, Places DEF Going
  <2>. QED
    BY <1>1, <1>6, <2>1, <2>2, <2>3, <2>4 DEF Acts, tensorVars
<1>7. ASSUME NEW r \in Requests, CopyCrop(r) \/ RunEmbedder(r) \/ ReadEmbedding(r)
      PROVE  ShapeInv'
  <2>1. pc[r] # "none" /\ UNCHANGED <<image, detIn, detOut>>
    BY <1>7 DEF CopyCrop, RunEmbedder, ReadEmbedding, requestVars, tensorVars
  <2>2. pc'[r] \in {"runEmbedder", "read", "put", "search"}
    BY <1>7, Places DEF Going
  <2>3. image'[r] \in Images
    BY <2>1 DEF ShapeInv
  <2>. QED
    BY <1>1, <1>7, <2>1, <2>2, <2>3 DEF Acts
<1>8. ASSUME NEW r \in Requests, NEW ok \in BOOLEAN,
             PutImage(r, ok) \/ InsertFace(r, ok) \/ SearchFaces(r, ok)
      PROVE  ShapeInv'
  <2>1. pc[r] # "none" /\ UNCHANGED <<image, tensorVars>>
    BY <1>8 DEF PutImage, InsertFace, SearchFaces, requestVars
  <2>2. pc'[r] \in {"insert", "done"}
    BY <1>8, Finishes DEF Going, Replying
  <2>3. image'[r] \in Images
    BY <2>1 DEF ShapeInv
  <2>. QED
    BY <1>1, <1>8, <2>1, <2>2, <2>3 DEF Acts, tensorVars
<1>9. ASSUME NEW r \in Requests, DeleteFace(r) PROVE ShapeInv'
  BY <1>9 DEF DeleteFace, ShapeInv, requestVars, tensorVars
<1>10. CASE RestartApi
  BY <1>10 DEF RestartApi, ShapeInv, requestVars, RequestType
<1>11. CASE UNCHANGED enrolVars
  BY <1>11 DEF enrolVars, ShapeInv, requestVars, tensorVars
<1>. QED
  BY <1>2, <1>3, <1>4, <1>5, <1>6, <1>7, <1>8, <1>9, <1>10, <1>11, Actions DEF Acts

(* Who enters the detector while others are in it marks them and itself;     *)
(* everything else leaves its tensors alone or happens to the only one there.*)
LEMMA DetectorStep == EnrolTypeOK /\ ShapeInv /\ DetectorInv /\ [EnrolNext]_enrolVars => DetectorInv'
<1>. SUFFICES ASSUME EnrolTypeOK, ShapeInv, DetectorInv, [EnrolNext]_enrolVars PROVE DetectorInv'
  OBVIOUS
<1>. USE TypeParts DEF InDetector
<1>1. ASSUME NEW r \in Requests, Acts(r) \/ Receives(r), UNCHANGED <<detIn, detOut>>,
             ~ InDetector(r)'
      PROVE  DetectorInv'
  BY <1>1, Keeps DEF DetectorInv, Stays
<1>2. ASSUME NEW r \in Requests, CopyPicture(r) PROVE DetectorInv'
  <2>1. /\ pc'[r] = "runDetector" /\ Stays(r)
        /\ \A q \in Requests : q # r => image'[q] = image[q]
        /\ collided \subseteq collided'
    <3>1. Going(r, "runDetector")
      BY <1>2, Places
    <3>. QED
      BY <1>2, <3>1, Keeps DEF Going, Acts
  <2>2. CASE Detecting(r) = {}
    <3>1. \A q \in Requests \ {r} : ~ InDetector(q)
      BY <2>2 DEF Detecting
    <3>2. detIn' = image[r] /\ image' = image
      BY <1>2, <2>2 DEF CopyPicture, Torn, requestVars
    <3>. QED
      BY <2>1, <3>1, <3>2 DEF DetectorInv, Stays
  <2>3. CASE Detecting(r) # {}
    <3>1. collided' = collided \cup (Detecting(r) \cup {r})
      BY <1>2, <2>3 DEF CopyPicture, Meet
    <3>2. \A q \in Requests \ collided' : q # r /\ ~ InDetector(q)
      BY <3>1 DEF Detecting
    <3>. QED
      BY <2>1, <3>2 DEF DetectorInv, Stays
  <2>. QED
    BY <2>2, <2>3
<1>3. ASSUME NEW r \in Requests, RunDetector(r) PROVE DetectorInv'
  <2>1. /\ pc'[r] = "parse" /\ Stays(r) /\ image' = image
        /\ collided' = collided /\ pc[r] = "runDetector"
    BY <1>3, Places DEF Going, RunDetector, requestVars
  <2>2. r \notin collided => Detecting(r) = {} /\ detOut' = image[r]
    <3>1. r \notin collided => Detecting(r) = {} /\ detIn = image[r]
      BY <2>1 DEF DetectorInv, Detecting
    <3>. QED
      BY <1>3, <3>1 DEF RunDetector, Torn
  <2>3. \A q \in Requests \ collided : q # r => ~ InDetector(q)
    BY <2>1 DEF DetectorInv
  <2>. QED
    BY <2>1, <2>2, <2>3 DEF DetectorInv, Stays
<1>4. ASSUME NEW r \in Requests,
             Receives(r) \/ VerifyPerson(r) \/ CheckReady(r) \/ RunFails(r) \/ FindFace(r) \/ FindNoFace(r)
      PROVE  UNCHANGED <<detIn, detOut>> /\ ~ InDetector(r)'
  <2>1. UNCHANGED <<detIn, detOut>>
    BY <1>4 DEF Receives, Receive, VerifyPerson, CheckReady, RunFails, FindFace, FindNoFace, tensorVars
  <2>2. pc'[r] \in {"verify", "ready", "detect", "done", "extract"}
    BY <1>4, Places DEF Going, Replying
  <2>. QED
    BY <2>1, <2>2
<1>5. ASSUME NEW r \in Requests, CopyCrop(r) \/ RunEmbedder(r) \/ ReadEmbedding(r)
      PROVE  UNCHANGED <<detIn, detOut>> /\ ~ InDetector(r)'
  <2>1. UNCHANGED <<detIn, detOut>>
    BY <1>5 DEF CopyCrop, RunEmbedder, ReadEmbedding, tensorVars
  <2>2. pc'[r] \in {"runEmbedder", "read", "put", "search"}
    BY <1>5, Places DEF Going
  <2>. QED
    BY <2>1, <2>2
<1>6. ASSUME NEW r \in Requests, NEW ok \in BOOLEAN,
             PutImage(r, ok) \/ InsertFace(r, ok) \/ SearchFaces(r, ok)
      PROVE  UNCHANGED <<detIn, detOut>> /\ ~ InDetector(r)'
  <2>1. UNCHANGED <<detIn, detOut>>
    BY <1>6 DEF PutImage, InsertFace, SearchFaces, tensorVars
  <2>2. pc'[r] \in {"insert", "done"}
    BY <1>6, Finishes DEF Going, Replying
  <2>. QED
    BY <2>1, <2>2
<1>7. CASE UNCHANGED <<pc, image, collided, detIn, detOut>>
  BY <1>7 DEF DetectorInv
<1>8. ASSUME NEW r \in Requests, DeleteFace(r) PROVE UNCHANGED <<pc, image, collided, detIn, detOut>>
  BY <1>8 DEF DeleteFace, requestVars, tensorVars
<1>9. CASE RestartApi
  <2>1. \A q \in Requests : pc'[q] \in {"none", "done"}
    BY <1>9 DEF RestartApi
  <2>. QED
    BY <2>1 DEF DetectorInv
<1>10. CASE UNCHANGED enrolVars
  BY <1>10, <1>7 DEF enrolVars, requestVars, tensorVars
<1>. QED
  BY <1>1, <1>2, <1>3, <1>4, <1>5, <1>6, <1>7, <1>8, <1>9, <1>10, Actions DEF Acts

LEMMA EmbedderStep ==
    EnrolTypeOK /\ ShapeInv /\ DetectorInv /\ EmbedderInv /\ [EnrolNext]_enrolVars => EmbedderInv'
<1>. SUFFICES ASSUME EnrolTypeOK, ShapeInv, DetectorInv, EmbedderInv, [EnrolNext]_enrolVars PROVE EmbedderInv'
  OBVIOUS
<1>. USE TypeParts DEF InEmbedder
<1>1. ASSUME NEW r \in Requests, Acts(r) \/ Receives(r), UNCHANGED <<embIn, embOut>>,
             ~ InEmbedder(r)', pc'[r] # "extract"
      PROVE  EmbedderInv'
  <2>1. \A q \in Requests \ collided' : q \notin collided
    BY <1>1, Keeps
  <2>2. \A q \in Requests : q # r => pc'[q] = pc[q] /\ image'[q] = image[q] /\ box'[q] = box[q]
    BY <1>1, Keeps DEF Stays
  <2>3. ~ InEmbedder(r)' /\ pc'[r] \notin {"extract", "runEmbedder", "read"}
    BY <1>1
  <2>4. SUFFICES ASSUME NEW q \in Requests \ collided', q # r
                 PROVE  /\ InEmbedder(q)' => \A p \in Requests \ {q} : ~ InEmbedder(p)'
                        /\ pc'[q] = "extract" => box'[q] = image'[q]
                        /\ pc'[q] = "runEmbedder" => embIn' = Crop(image'[q], image'[q])
                        /\ pc'[q] = "read" => embOut' = Crop(image'[q], image'[q])
    BY <2>3 DEF EmbedderInv
  <2>5. q \in Requests \ collided /\ pc'[q] = pc[q] /\ image'[q] = image[q] /\ box'[q] = box[q]
    BY <2>1, <2>2, <2>4
  <2>6. InEmbedder(q)' => \A p \in Requests \ {q} : ~ InEmbedder(p)'
    BY <2>2, <2>3, <2>5 DEF EmbedderInv
  <2>7. embIn' = embIn /\ embOut' = embOut
    BY <1>1
  <2>8. /\ pc[q] = "extract" => box[q] = image[q]
        /\ pc[q] = "runEmbedder" => embIn = Crop(image[q], image[q])
        /\ pc[q] = "read" => embOut = Crop(image[q], image[q])
    BY <2>5 DEF EmbedderInv
  <2>. QED
    BY <2>5, <2>6, <2>7, <2>8
<1>2. ASSUME NEW r \in Requests, FindFace(r) PROVE EmbedderInv'
  <2>1. /\ pc'[r] = "extract" /\ Stays(r)
        /\ \A q \in Requests : q # r => image'[q] = image[q] /\ box'[q] = box[q]
    <3>1. Going(r, "extract")
      BY <1>2, Places
    <3>. QED
      BY <1>2, <3>1, Keeps DEF Going, Acts
  <2>2. /\ pc[r] = "parse" /\ UNCHANGED <<image, embIn, embOut, collided>>
        /\ box' = [box EXCEPT ![r] = detOut]
    BY <1>2 DEF FindFace, requestVars, tensorVars
  <2>3. r \notin collided => box'[r] = image[r]
    BY <2>2 DEF DetectorInv, TensorType
  <2>. QED
    BY <2>1, <2>2, <2>3 DEF EmbedderInv, Stays
<1>3. ASSUME NEW r \in Requests, CopyCrop(r) PROVE EmbedderInv'
  <2>1. /\ pc'[r] = "runEmbedder" /\ Stays(r) /\ collided \subseteq collided'
    <3>1. Going(r, "runEmbedder")
      BY <1>3, Places
    <3>. QED
      BY <1>3, <3>1, Keeps DEF Going, Acts
  <2>2. pc[r] = "extract" /\ UNCHANGED <<image, box>>
    BY <1>3 DEF CopyCrop, requestVars
  <2>3. CASE Extracting(r) = {}
    <3>1. \A q \in Requests \ {r} : ~ InEmbedder(q)
      BY <2>3 DEF Extracting
    <3>2. embIn' = Crop(image[r], box[r])
      BY <1>3, <2>3 DEF CopyCrop, Torn
    <3>3. r \notin collided => box[r] = image[r]
      BY <2>2 DEF EmbedderInv
    <3>. QED
      BY <2>1, <2>2, <3>1, <3>2, <3>3 DEF EmbedderInv, Stays
  <2>4. CASE Extracting(r) # {}
    <3>1. collided' = collided \cup (Extracting(r) \cup {r})
      BY <1>3, <2>4 DEF CopyCrop, Meet
    <3>2. \A q \in Requests \ collided' : q # r /\ ~ InEmbedder(q)
      BY <3>1 DEF Extracting
    <3>. QED
      BY <2>1, <2>2, <3>2 DEF EmbedderInv, Stays
  <2>. QED
    BY <2>3, <2>4
<1>4. ASSUME NEW r \in Requests, RunEmbedder(r) PROVE EmbedderInv'
  <2>1. /\ pc'[r] = "read" /\ Stays(r) /\ UNCHANGED <<image, box, collided>>
        /\ pc[r] = "runEmbedder"
    BY <1>4, Places DEF Going, RunEmbedder, requestVars
  <2>2. r \notin collided => Extracting(r) = {} /\ embIn = Crop(image[r], image[r])
    BY <2>1 DEF EmbedderInv, Extracting
  <2>3. r \notin collided => embOut' = Crop(image[r], image[r])
    BY <1>4, <2>2 DEF RunEmbedder, Torn
  <2>4. \A q \in Requests \ collided : q # r => ~ InEmbedder(q)
    BY <2>1 DEF EmbedderInv
  <2>. QED
    BY <2>1, <2>2, <2>3, <2>4 DEF EmbedderInv, Stays, Extracting
<1>5. ASSUME NEW r \in Requests,
             Receives(r) \/ VerifyPerson(r) \/ CheckReady(r) \/ RunFails(r) \/ FindNoFace(r)
      PROVE  UNCHANGED <<embIn, embOut>> /\ ~ InEmbedder(r)' /\ pc'[r] # "extract"
  <2>1. UNCHANGED <<embIn, embOut>>
    BY <1>5 DEF Receives, Receive, VerifyPerson, CheckReady, RunFails, FindNoFace, tensorVars
  <2>2. pc'[r] \in {"verify", "ready", "detect", "done"}
    BY <1>5, Places DEF Going, Replying
  <2>. QED
    BY <2>1, <2>2
<1>6. ASSUME NEW r \in Requests, CopyPicture(r) \/ RunDetector(r) \/ ReadEmbedding(r)
      PROVE  UNCHANGED <<embIn, embOut>> /\ ~ InEmbedder(r)' /\ pc'[r] # "extract"
  <2>1. UNCHANGED <<embIn, embOut>>
    BY <1>6 DEF CopyPicture, RunDetector, ReadEmbedding, tensorVars
  <2>2. pc'[r] \in {"runDetector", "parse", "put", "search"}
    BY <1>6, Places DEF Going
  <2>. QED
    BY <2>1, <2>2
<1>7. ASSUME NEW r \in Requests, NEW ok \in BOOLEAN,
             PutImage(r, ok) \/ InsertFace(r, ok) \/ SearchFaces(r, ok)
      PROVE  UNCHANGED <<embIn, embOut>> /\ ~ InEmbedder(r)' /\ pc'[r] # "extract"
  <2>1. UNCHANGED <<embIn, embOut>>
    BY <1>7 DEF PutImage, InsertFace, SearchFaces, tensorVars
  <2>2. pc'[r] \in {"insert", "done"}
    BY <1>7, Finishes DEF Going, Replying
  <2>. QED
    BY <2>1, <2>2
<1>8. CASE UNCHANGED <<pc, image, box, collided, embIn, embOut>>
  BY <1>8 DEF EmbedderInv
<1>9. ASSUME NEW r \in Requests, DeleteFace(r)
      PROVE  UNCHANGED <<pc, image, box, collided, embIn, embOut>>
  BY <1>9 DEF DeleteFace, requestVars, tensorVars
<1>10. CASE RestartApi
  <2>1. \A q \in Requests : pc'[q] \in {"none", "done"}
    BY <1>10 DEF RestartApi
  <2>. QED
    BY <2>1 DEF EmbedderInv
<1>11. CASE UNCHANGED enrolVars
  BY <1>11, <1>8 DEF enrolVars, requestVars, tensorVars
<1>. QED
  BY <1>1, <1>2, <1>3, <1>4, <1>5, <1>6, <1>7, <1>8, <1>9, <1>10, <1>11, Actions DEF Acts

LEMMA VerdictStep ==
    EnrolTypeOK /\ ShapeInv /\ DetectorInv /\ EmbedderInv /\ WrongNeedsCollision /\ [EnrolNext]_enrolVars
        => WrongNeedsCollision'
<1>. SUFFICES ASSUME EnrolTypeOK, ShapeInv, DetectorInv, EmbedderInv, WrongNeedsCollision, [EnrolNext]_enrolVars
              PROVE  WrongNeedsCollision'
  OBVIOUS
<1>. USE TypeParts DEF WrongNeedsCollision, TrueEmbedding
<1>1. ASSUME NEW r \in Requests, Acts(r) \/ Receives(r), r \notin collided => TrueEmbedding(r)'
      PROVE  WrongNeedsCollision'
  BY <1>1, Keeps
<1>2. ASSUME NEW r \in Requests, Receives(r) PROVE WrongNeedsCollision'
  <2>1. verdict'[r] = "none"
    BY <1>2 DEF Receives, Receive, ShapeInv
  <2>. QED
    BY <1>1, <1>2, <2>1
<1>3. ASSUME NEW r \in Requests, RunFails(r) PROVE WrongNeedsCollision'
  <2>1. verdict'[r] = "error"
    BY <1>3 DEF RunFails, RequestType
  <2>. QED
    BY <1>1, <1>3, <2>1 DEF Acts
<1>4. ASSUME NEW r \in Requests, FindNoFace(r) PROVE WrongNeedsCollision'
  <2>1. verdict'[r] = "noFace" /\ UNCHANGED image /\ pc[r] = "parse"
    BY <1>4 DEF FindNoFace, RequestType, requestVars
  <2>2. r \notin collided => detOut = image[r]
    BY <2>1 DEF DetectorInv
  <2>3. r \notin collided => image[r] \in Faceless
    BY <1>4, <2>2 DEF FindNoFace
  <2>. QED
    BY <1>1, <1>4, <2>1, <2>3 DEF Acts
<1>5. ASSUME NEW r \in Requests, ReadEmbedding(r) PROVE WrongNeedsCollision'
  <2>1. verdict'[r] = "ok" /\ UNCHANGED image /\ pc[r] = "read"
    BY <1>5 DEF ReadEmbedding, RequestType, requestVars
  <2>2. r \notin collided => Extracting(r) = {} /\ embOut = Crop(image[r], image[r])
    BY <2>1 DEF EmbedderInv, InEmbedder, Extracting
  <2>3. PICK e \in Torn(embOut, Extracting(r)) : embedding' = [embedding EXCEPT ![r] = e]
    BY <1>5 DEF ReadEmbedding
  <2>4. r \notin collided => e = Crop(image[r], image[r])
    BY <2>2, <2>3 DEF Torn
  <2>5. embedding'[r] = e
    BY <2>3 DEF TensorType
  <2>. QED
    BY <1>1, <1>5, <2>1, <2>4, <2>5 DEF Acts
<1>6. CASE UNCHANGED <<image, embedding, verdict>> /\ collided \subseteq collided'
  BY <1>6
<1>7. ASSUME NEW r \in Requests,
             \/ VerifyPerson(r) \/ CheckReady(r) \/ CopyPicture(r) \/ RunDetector(r) \/ FindFace(r)
             \/ CopyCrop(r) \/ RunEmbedder(r) \/ DeleteFace(r)
             \/ \E ok \in BOOLEAN : PutImage(r, ok) \/ InsertFace(r, ok) \/ SearchFaces(r, ok)
      PROVE  UNCHANGED <<image, embedding, verdict>> /\ collided \subseteq collided'
  <2>1. UNCHANGED <<image, embedding, verdict>>
    BY <1>7 DEF VerifyPerson, CheckReady, CopyPicture, RunDetector, FindFace, CopyCrop, RunEmbedder,
                DeleteFace, PutImage, InsertFace, SearchFaces, requestVars
  <2>. QED
    BY <1>7, <2>1, Keeps DEF Acts
<1>8. CASE RestartApi
  BY <1>6, <1>8 DEF RestartApi, requestVars
<1>9. CASE UNCHANGED enrolVars
  BY <1>6, <1>9 DEF enrolVars, requestVars
<1>. QED
  BY <1>2, <1>3, <1>4, <1>5, <1>6, <1>7, <1>8, <1>9, Actions DEF Acts

(* What a request that got no answer yet, or just got one, has in the stores.*)
LEMMA StoreStep ==
    EnrolTypeOK /\ StoreInv /\ AnswerMatchesStore /\ [EnrolNext]_enrolVars => (StoreInv /\ AnswerMatchesStore)'
<1>. SUFFICES ASSUME EnrolTypeOK, StoreInv, AnswerMatchesStore, [EnrolNext]_enrolVars
              PROVE  StoreInv' /\ AnswerMatchesStore'
  OBVIOUS
<1>0. RequestType /\ StoreType
  BY TypeParts
<1>1. ASSUME NEW r \in Requests, UNCHANGED storeVars, NEW l, Going(r, l),
             pc[r] \notin {"insert", "done"}, l \notin {"insert", "done"}
      PROVE  StoreInv' /\ AnswerMatchesStore'
  BY <1>1 DEF Going, storeVars, Stays, StoreInv, AnswerMatchesStore
<1>2. ASSUME NEW r \in Requests, UNCHANGED storeVars, NEW a \in {200, 404, 422, 500, 503},
             Replying(r, a), pc[r] \notin {"insert", "done"}
      PROVE  StoreInv' /\ AnswerMatchesStore'
  BY <1>2 DEF Replying, storeVars, Stays, StoreInv, AnswerMatchesStore
<1>3. ASSUME NEW r \in Requests,
             Receives(r) \/ VerifyPerson(r) \/ CheckReady(r) \/ CopyPicture(r) \/ RunDetector(r)
      PROVE  StoreInv' /\ AnswerMatchesStore'
  <2>1. UNCHANGED storeVars /\ pc[r] \notin {"insert", "done"}
    BY <1>3 DEF Receives, Receive, VerifyPerson, CheckReady, CopyPicture, RunDetector
  <2>2. \A l \in {"verify", "ready", "detect", "runDetector", "parse"} :
          Going(r, l) => StoreInv' /\ AnswerMatchesStore'
    BY <1>1, <2>1
  <2>3. \A a \in {404, 500, 503} : Replying(r, a) => StoreInv' /\ AnswerMatchesStore'
    BY <1>2, <2>1
  <2>4. CASE Receives(r) \/ CopyPicture(r) \/ RunDetector(r)
    BY <2>2, <2>4, <1>0, Places
  <2>5. CASE VerifyPerson(r)
    <3>1. Going(r, "ready") \/ Replying(r, 404) \/ Replying(r, 500)
      BY <2>5, <1>0, Places DEF Going, Replying
    <3>2. Replying(r, 404) => StoreInv' /\ AnswerMatchesStore'
      BY <2>3
    <3>3. Replying(r, 500) => StoreInv' /\ AnswerMatchesStore'
      BY <2>3
    <3>. QED
      BY <3>1, <3>2, <3>3, <2>2
  <2>6. CASE CheckReady(r)
    <3>1. Going(r, "detect") \/ Replying(r, 503)
      BY <2>6, <1>0, Places DEF Going, Replying
    <3>2. Replying(r, 503) => StoreInv' /\ AnswerMatchesStore'
      BY <2>3
    <3>. QED
      BY <3>1, <3>2, <2>2
  <2>. QED
    BY <1>3, <2>4, <2>5, <2>6
<1>4. ASSUME NEW r \in Requests,
             \/ RunFails(r) \/ FindFace(r) \/ FindNoFace(r)
             \/ CopyCrop(r) \/ RunEmbedder(r) \/ ReadEmbedding(r)
      PROVE  StoreInv' /\ AnswerMatchesStore'
  <2>1. UNCHANGED storeVars /\ pc[r] \notin {"insert", "done"}
    BY <1>4 DEF RunFails, FindFace, FindNoFace, CopyCrop, RunEmbedder, ReadEmbedding
  <2>2. \/ Going(r, "extract") \/ Going(r, "runEmbedder") \/ Going(r, "read")
        \/ Going(r, "put") \/ Going(r, "search") \/ Replying(r, 422)
    BY <1>4, <1>0, Places
  <2>3. \A l \in {"extract", "runEmbedder", "read", "put", "search"} :
          Going(r, l) => StoreInv' /\ AnswerMatchesStore'
    BY <1>1, <2>1
  <2>4. Replying(r, 422) => StoreInv' /\ AnswerMatchesStore'
    BY <1>2, <2>1
  <2>. QED
    BY <2>2, <2>3, <2>4
<1>5. ASSUME NEW r \in Requests, NEW ok \in BOOLEAN, SearchFaces(r, ok)
      PROVE  StoreInv' /\ AnswerMatchesStore'
  <2>1. UNCHANGED storeVars /\ pc[r] = "search"
    BY <1>5 DEF SearchFaces
  <2>2. Replying(r, 200) \/ Replying(r, 500)
    BY <1>5, <1>0, Finishes
  <2>. QED
    BY <1>2, <2>1, <2>2
<1>6. ASSUME NEW r \in Requests, NEW ok \in BOOLEAN, PutImage(r, ok)
      PROVE  StoreInv' /\ AnswerMatchesStore'
  <2>1. /\ objects' \in {objects, objects \cup {r}} /\ UNCHANGED <<rows, removed>>
        /\ ok => r \in objects'
        /\ pc[r] = "put"
    BY <1>6 DEF PutImage
  <2>2. IF ok THEN Going(r, "insert") ELSE Replying(r, 500)
    BY <1>6, <1>0, Finishes
  <2>3. CASE ok
    BY <1>0, <2>1, <2>2, <2>3 DEF Going, Stays, StoreInv, AnswerMatchesStore, StoreType
  <2>4. CASE ~ ok
    BY <1>0, <2>1, <2>2, <2>4 DEF Replying, Stays, StoreInv, AnswerMatchesStore, StoreType
  <2>. QED
    BY <2>3, <2>4
<1>7. ASSUME NEW r \in Requests, NEW ok \in BOOLEAN, InsertFace(r, ok)
      PROVE  StoreInv' /\ AnswerMatchesStore'
  <2>1. /\ rows' \in {rows, rows \cup {r}} /\ UNCHANGED <<objects, removed>>
        /\ ok => r \in rows'
        /\ pc[r] = "insert"
    BY <1>7 DEF InsertFace
  <2>2. IF ok THEN Replying(r, 201) ELSE Replying(r, 500)
    BY <1>7, <1>0, Finishes
  <2>3. CASE ok
    BY <1>0, <2>1, <2>2, <2>3 DEF Replying, Stays, StoreInv, AnswerMatchesStore, StoreType
  <2>4. CASE ~ ok
    BY <1>0, <2>1, <2>2, <2>4 DEF Replying, Stays, StoreInv, AnswerMatchesStore, StoreType
  <2>. QED
    BY <2>3, <2>4
<1>8. ASSUME NEW r \in Requests, DeleteFace(r) PROVE StoreInv' /\ AnswerMatchesStore'
  BY <1>8 DEF DeleteFace, StoreInv, AnswerMatchesStore
<1>9. CASE RestartApi
  <2>1. /\ UNCHANGED <<objects, rows, removed, answer>>
        /\ \A q \in Requests : pc'[q] = IF pc[q] = "none" THEN "none" ELSE "done"
    BY <1>9 DEF RestartApi, storeVars
  <2>. QED
    BY <2>1 DEF StoreInv, AnswerMatchesStore
<1>10. CASE UNCHANGED enrolVars
  BY <1>10 DEF enrolVars, storeVars, StoreInv, AnswerMatchesStore
<1>. QED
  BY <1>2, <1>3, <1>4, <1>5, <1>6, <1>7, <1>8, <1>9, <1>10, Actions DEF Acts

-----------------------------------------------------------------------------
LEMMA InitInv == EnrolInit => IInv
<1>. SUFFICES ASSUME EnrolInit PROVE IInv
  OBVIOUS
<1>. USE DEF EnrolInit
<1>1. RequestType
  BY DEF RequestType, Labels, Statuses
<1>2. TensorType
  BY DEF TensorType
<1>3. StoreType
  BY Zenon DEF StoreType
<1>4. ShapeInv /\ DetectorInv /\ EmbedderInv
  BY DEF ShapeInv, DetectorInv, EmbedderInv, InDetector, InEmbedder
<1>5. StoreInv /\ AnswerMatchesStore
  BY DEF StoreInv, AnswerMatchesStore
<1>6. WrongNeedsCollision
  BY DEF WrongNeedsCollision, TrueEmbedding
<1>. QED
  BY <1>1, <1>2, <1>3, <1>4, <1>5, <1>6, TypeParts DEF IInv

LEMMA StepInv == IInv /\ [EnrolNext]_enrolVars => IInv'
<1>. SUFFICES ASSUME IInv, [EnrolNext]_enrolVars PROVE IInv'
  OBVIOUS
<1>1. EnrolTypeOK'
  <2>1. RequestType'
    BY RequestTypeStep, TypeParts DEF IInv
  <2>2. TensorType'
    BY TensorTypeStep, TypeParts DEF IInv
  <2>3. StoreType'
    BY StoreTypeStep, TypeParts DEF IInv
  <2>. QED
    BY <2>1, <2>2, <2>3 DEF EnrolTypeOK, RequestType, TensorType, StoreType, Labels, Statuses
<1>. QED
  BY <1>1, ShapeStep, DetectorStep, EmbedderStep, VerdictStep, StoreStep DEF IInv

(* The whole inductive invariant holds in every state.                       *)
THEOREM Inductive == EnrolSpec => []IInv
BY InitInv, StepInv, PTL DEF EnrolSpec

(* Every variable of the handlers and of the shared tensors has its type.    *)
THEOREM TypeCorrect == EnrolSpec => []EnrolTypeOK
<1>1. IInv => EnrolTypeOK
  BY DEF IInv
<1>. QED
  BY <1>1, Inductive, PTL

(* A wrong embedding or a wrong refusal needs two requests in one session at *)
(* once, however many requests came before (EmbedImage of                    *)
(* internal/vision/pipeline.go and the tensors of detect.go and embed.go).   *)
THEOREM AloneIsRight == EnrolSpec => []WrongNeedsCollision
<1>1. IInv => WrongNeedsCollision
  BY DEF IInv
<1>. QED
  BY <1>1, Inductive, PTL

(* The answer of AddFace says what is in the table and in the object store.  *)
THEOREM AnswersAreTrue == EnrolSpec => []AnswerMatchesStore
<1>1. IInv => AnswerMatchesStore
  BY DEF IInv
<1>. QED
  BY <1>1, Inductive, PTL
=============================================================================
