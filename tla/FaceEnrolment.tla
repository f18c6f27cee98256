---------------------------- MODULE FaceEnrolment ----------------------------
(* The API's handlers that turn an uploaded picture into an embedding:       *)
(* AddFace and Search (internal/api/handlers/persons.go), SearchEvents       *)
(* (events.go). They all call EmbedImage of the one pipeline that main makes *)
(* for the API (cmd/api/main.go:149-170), each in the goroutine of its       *)
(* request, and nothing in EmbedImage, Detect or Extract is locked: what they*)
(* share are the input and output tensors of the two ONNX sessions.          *)
(*                                                                           *)
(* A picture is an atom; a box is named by the picture it was found in, a    *)
(* crop is a picture with a box, an embedding is the crop it was made of. A  *)
(* copy or a Run that meets another one in the same session may leave a      *)
(* mixture of both in the tensor: Mixed.                                     *)
EXTENDS Integers, FiniteSets

CONSTANTS
    Requests,  \* goroutines, one request each
    Images,    \* pictures that clients upload
    Faceless,  \* those in which EmbedImage finds no face that it can crop
    Persons,   \* persons the database holds; nothing deletes them
    Unknown,   \* an id in a URL that no person has
    Mixed, None

ASSUME FaceEnrolmentAssumption ==
    /\ Faceless \subseteq Images
    /\ Mixed \notin Images /\ None \notin Images /\ Mixed # None
    /\ Unknown \notin Persons

VARIABLES
    ready,      \* embedFn is set: the ONNX runtime and the models were loaded
    pc,         \* where each request is
    kind,       \* "AddFace" or "Search", which stands for SearchEvents too
    image,      \* the picture it came with
    person,     \* the id in AddFace's URL
    box,        \* best.BBox, once Detect has returned
    embedding,  \* what EmbedImage returned
    detIn, detOut,  \* the tensors of the detector
    embIn, embOut,  \* the tensors of the embedder
    objects,    \* source images under faces/, by the request that put them
    rows,       \* face_embeddings, by the request that inserted them
    answer,     \* the status the client got, 0: none
    verdict,    \* history: how EmbedImage ended
    collided,   \* history: requests that met another one in a session
    removed     \* history: rows that DeleteFace removed

tensorVars  == <<detIn, detOut, embIn, embOut>>
requestVars == <<kind, image, person>>
storeVars   == <<objects, rows, removed>>
enrolVars == <<ready, pc, requestVars, box, embedding, tensorVars, storeVars,
          answer, verdict, collided>>

BoxNames == Images \cup {Mixed}
Crop(i, b) == [image |-> i, box |-> b]
Crops == [image : Images, box : BoxNames]

EnrolTypeOK ==
    /\ ready \in BOOLEAN
    /\ pc \in [Requests -> {"none", "verify", "ready", "detect", "runDetector",
                            "parse", "extract", "runEmbedder", "read", "put",
                            "insert", "search", "done"}]
    /\ kind \in [Requests -> {"AddFace", "Search"}]
    /\ image \in [Requests -> Images \cup {None}]
    /\ person \in [Requests -> Persons \cup {Unknown, None}]
    /\ box \in [Requests -> BoxNames \cup {None}]
    /\ embedding \in [Requests -> Crops \cup {Mixed, None}]
    /\ detIn \in BoxNames \cup {None} /\ detOut \in BoxNames \cup {None}
    /\ embIn \in Crops \cup {Mixed, None} /\ embOut \in Crops \cup {Mixed, None}
    /\ objects \in SUBSET Requests
    /\ rows \in SUBSET Requests
    /\ removed \in SUBSET Requests /\ rows \cap removed = {}
    /\ answer \in [Requests -> {0, 200, 201, 404, 422, 500, 503}]
    /\ verdict \in [Requests -> {"none", "ok", "noFace", "error"}]
    /\ collided \in SUBSET Requests

EnrolInit ==
    /\ ready \in BOOLEAN
    /\ pc = [r \in Requests |-> "none"]
    /\ kind = [r \in Requests |-> "Search"]
    /\ image = [r \in Requests |-> None]
    /\ person = [r \in Requests |-> None]
    /\ box = [r \in Requests |-> None]
    /\ embedding = [r \in Requests |-> None]
    /\ detIn = None /\ detOut = None /\ embIn = None /\ embOut = None
    /\ objects = {} /\ rows = {} /\ removed = {}
    /\ answer = [r \in Requests |-> 0]
    /\ verdict = [r \in Requests |-> "none"]
    /\ collided = {}

Goto(r, l) == pc' = [pc EXCEPT ![r] = l]

Reply(r, status) ==
    /\ Goto(r, "done")
    /\ answer' = [answer EXCEPT ![r] = status]

-----------------------------------------------------------------------------
(* The handlers up to EmbedFn.                                               *)

(* A request whose form is complete; the other answers are 400 at once.      *)
Receive(r, k, i, p) ==
    /\ pc[r] = "none"
    /\ kind' = [kind EXCEPT ![r] = k]
    /\ image' = [image EXCEPT ![r] = i]
    /\ person' = [person EXCEPT ![r] = IF k = "AddFace" THEN p ELSE None]
    /\ Goto(r, IF k = "AddFace" THEN "verify" ELSE "ready")
    /\ UNCHANGED <<ready, box, embedding, tensorVars, storeVars, answer, verdict,
                   collided>>

(* GetPerson.                                                                *)
VerifyPerson(r) ==
    /\ pc[r] = "verify"
    /\ \/ person[r] \in Persons /\ Goto(r, "ready") /\ UNCHANGED answer
       \/ person[r] = Unknown /\ Reply(r, 404)
       \/ Reply(r, 500)
    /\ UNCHANGED <<ready, requestVars, box, embedding, tensorVars, storeVars, verdict,
                   collided>>

(* The nil check of EmbedFn; EmbedImage decodes and scales the picture.      *)
CheckReady(r) ==
    /\ pc[r] = "ready"
    /\ IF ready THEN Goto(r, "detect") /\ UNCHANGED answer ELSE Reply(r, 503)
    /\ UNCHANGED <<ready, requestVars, box, embedding, tensorVars, storeVars, verdict,
                   collided>>

-----------------------------------------------------------------------------
(* EmbedImage. A request is in a session from its copy into the input tensor *)
(* until it has read the outputs.                                            *)

InDetector(r) == pc[r] \in {"runDetector", "parse"}
InEmbedder(r) == pc[r] \in {"runEmbedder", "read"}

Detecting(r)  == {q \in Requests \ {r} : InDetector(q)}
Extracting(r) == {q \in Requests \ {r} : InEmbedder(q)}

(* What a tensor may hold after a write of v while the others are around.    *)
Torn(v, others) == IF others = {} THEN {v} ELSE {v, Mixed}

Meet(r, others) ==
    collided' = collided \cup (IF others = {} THEN {} ELSE others \cup {r})

(* Detect: copy(inputSlice, imgData).                                        *)
CopyPicture(r) ==
    /\ pc[r] = "detect"
    /\ detIn' \in Torn(image[r], Detecting(r))
    /\ Meet(r, Detecting(r))
    /\ Goto(r, "runDetector")
    /\ UNCHANGED <<ready, requestVars, box, embedding, detOut, embIn, embOut, storeVars,
                   answer, verdict>>

RunDetector(r) ==
    /\ pc[r] = "runDetector"
    /\ detOut' \in Torn(detIn, Detecting(r))
    /\ Goto(r, "parse")
    /\ UNCHANGED <<ready, requestVars, box, embedding, detIn, embIn, embOut, storeVars,
                   answer, verdict, collided>>

(* session.Run returns an error.                                             *)
RunFails(r) ==
    /\ pc[r] \in {"runDetector", "runEmbedder"}
    /\ verdict' = [verdict EXCEPT ![r] = "error"]
    /\ Reply(r, 422)
    /\ UNCHANGED <<ready, requestVars, box, embedding, tensorVars, storeVars, collided>>

(* parseDetections and nms read the outputs, the best box cuts the face out  *)
(* of the request's own picture. Where a box of another picture falls there, *)
(* nobody can say.                                                           *)
FindFace(r) ==
    /\ pc[r] = "parse"
    /\ detOut \notin Faceless
    /\ box' = [box EXCEPT ![r] = detOut]
    /\ Goto(r, "extract")
    /\ UNCHANGED <<ready, requestVars, embedding, tensorVars, storeVars, answer, verdict,
                   collided>>

FindNoFace(r) ==
    /\ pc[r] = "parse"
    /\ detOut \in Faceless \/ detOut # image[r]
    /\ verdict' = [verdict EXCEPT ![r] = "noFace"]
    /\ Reply(r, 422)
    /\ UNCHANGED <<ready, requestVars, box, embedding, tensorVars, storeVars, collided>>

(* Mutant: Extract runs on what the tensor held before.                      *)
CopyCropForgotten(r) ==
    /\ pc[r] = "extract"
    /\ embIn' = IF embIn = None THEN Crop(image[r], box[r]) ELSE embIn
    /\ Meet(r, Extracting(r))
    /\ Goto(r, "runEmbedder")
    /\ UNCHANGED <<ready, requestVars, box, embedding, detIn, detOut, embOut, storeVars,
                   answer, verdict>>

(* Extract: copy(inputSlice, faceData).                                      *)
CopyCrop(r) ==
    /\ pc[r] = "extract"
    /\ embIn' \in Torn(Crop(image[r], box[r]), Extracting(r))
    /\ Meet(r, Extracting(r))
    /\ Goto(r, "runEmbedder")
    /\ UNCHANGED <<ready, requestVars, box, embedding, detIn, detOut, embOut, storeVars,
                   answer, verdict>>

RunEmbedder(r) ==
    /\ pc[r] = "runEmbedder"
    /\ embOut' \in Torn(embIn, Extracting(r))
    /\ Goto(r, "read")
    /\ UNCHANGED <<ready, requestVars, box, embedding, detIn, detOut, embIn, storeVars,
                   answer, verdict, collided>>

(* copy(embedding, outputData); EmbedImage returns.                          *)
ReadEmbedding(r) ==
    /\ pc[r] = "read"
    /\ embedding' \in {[embedding EXCEPT ![r] = e] : e \in Torn(embOut, Extracting(r))}
    /\ verdict' = [verdict EXCEPT ![r] = "ok"]
    /\ Goto(r, IF kind[r] = "AddFace" THEN "put" ELSE "search")
    /\ UNCHANGED <<ready, requestVars, box, tensorVars, storeVars, answer, collided>>

-----------------------------------------------------------------------------
(* The handlers after EmbedFn. The request's context ends with its client:   *)
(* a call that reports an error may have taken effect all the same.          *)

(* Mutant: the error of PutObject is only logged.                            *)
PutImageUnchecked(r, ok) ==
    /\ pc[r] = "put"
    /\ objects' \in {objects, objects \cup {r}}
    /\ ok => r \in objects'
    /\ Goto(r, "insert")
    /\ UNCHANGED <<ready, requestVars, box, embedding, tensorVars, rows, removed, answer,
                   verdict, collided>>

PutImage(r, ok) ==
    /\ pc[r] = "put"
    /\ objects' \in {objects, objects \cup {r}}
    /\ ok => r \in objects'
    /\ IF ok THEN Goto(r, "insert") /\ UNCHANGED answer ELSE Reply(r, 500)
    /\ UNCHANGED <<ready, requestVars, box, embedding, tensorVars, rows, removed, verdict,
                   collided>>

(* AddFaceEmbedding.                                                         *)
InsertFace(r, ok) ==
    /\ pc[r] = "insert"
    /\ rows' \in {rows, rows \cup {r}}
    /\ ok => r \in rows'
    /\ Reply(r, IF ok THEN 201 ELSE 500)
    /\ UNCHANGED <<ready, requestVars, box, embedding, tensorVars, objects, removed, verdict,
                   collided>>

(* SearchFaces, or SearchEvents of the database.                             *)
SearchFaces(r, ok) ==
    /\ pc[r] = "search"
    /\ Reply(r, IF ok THEN 200 ELSE 500)
    /\ UNCHANGED <<ready, requestVars, box, embedding, tensorVars, storeVars, verdict,
                   collided>>

(* Mutant: the row is only marked.                                           *)
DeleteFaceMarks(r) ==
    /\ r \in rows
    /\ removed' = removed \cup {r}
    /\ UNCHANGED <<ready, pc, requestVars, box, embedding, tensorVars, objects, rows,
                   answer, verdict, collided>>

(* The row of a face is deleted, its image is kept.                          *)
DeleteFace(r) ==
    /\ r \in rows
    /\ rows' = rows \ {r}
    /\ removed' = removed \cup {r}
    /\ UNCHANGED <<ready, pc, requestVars, box, embedding, tensorVars, objects, answer,
                   verdict, collided>>

(* The API process dies with its requests and is started again.              *)
RestartApi ==
    /\ pc' = [r \in Requests |-> IF pc[r] = "none" THEN "none" ELSE "done"]
    /\ ready' \in BOOLEAN
    /\ detIn' = None /\ detOut' = None /\ embIn' = None /\ embOut' = None
    /\ UNCHANGED <<requestVars, box, embedding, storeVars, answer, verdict, collided>>

-----------------------------------------------------------------------------
EmbedImage(r) ==
    \/ CopyPicture(r) \/ RunDetector(r) \/ RunFails(r) \/ FindFace(r) \/ FindNoFace(r)
    \/ CopyCrop(r) \/ RunEmbedder(r) \/ ReadEmbedding(r)

Finish(r) == \E ok \in BOOLEAN : PutImage(r, ok) \/ InsertFace(r, ok) \/ SearchFaces(r, ok)

EnrolNext ==
    \/ \E r \in Requests :
          \/ \E k \in {"AddFace", "Search"}, i \in Images, p \in Persons \cup {Unknown} :
                Receive(r, k, i, p)
          \/ VerifyPerson(r) \/ CheckReady(r) \/ EmbedImage(r) \/ Finish(r)
          \/ DeleteFace(r)
    \/ RestartApi

EnrolSpec == EnrolInit /\ [][EnrolNext]_enrolVars

-----------------------------------------------------------------------------
(* Properties.                                                               *)

(* EmbedImage returned the embedding of the face in the request's picture,   *)
(* or refused a picture that has none.                                       *)
TrueEmbedding(r) ==
    /\ verdict[r] = "ok" => embedding[r] = Crop(image[r], image[r])
    /\ verdict[r] = "noFace" => image[r] \in Faceless

(* cmd/worker/main.go:81-82: a session is not safe for two goroutines. The   *)
(* API's handlers share one: whatever they do to each other's tensors, each  *)
(* gets the embedding of its own picture.                                    *)
EmbeddingIsOfItsPicture == \A r \in Requests : TrueEmbedding(r)

(* A wrong embedding or refusal needs two requests inside the same session   *)
(* at once: nothing is carried over from one request to a later one in the   *)
(* tensors, which are never cleared (detect.go:118-130, embed.go:63-85).     *)
WrongNeedsCollision == \A r \in Requests \ collided : TrueEmbedding(r)

(* A face that is listed has its source image, what was answered 201 is in   *)
(* the table until it is removed, a refusal left nothing behind, and an image*)
(* without a row belongs to a request that was answered 500 or not at all    *)
(* (persons.go:164-175).                                                     *)
AnswerMatchesStore ==
    /\ rows \subseteq objects
    /\ \A r \in Requests :
          /\ answer[r] = 201 => r \in rows \cup removed
          /\ answer[r] \in {404, 422, 503} => r \notin objects
          /\ r \in objects \ (rows \cup removed) => answer[r] \in {0, 500}
=============================================================================
