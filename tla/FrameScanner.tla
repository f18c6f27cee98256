---------------------------- MODULE FrameScanner ----------------------------
(* One StartExtraction (internal/ingest/ffmpeg.go:30-103): ffmpeg writes     *)
(* JPEG pictures one after another into a pipe, readJPEGFrames, findJPEGStart*)
(* and readUntilJPEGEnd cut them out of it byte by byte (117-211), while     *)
(* ffmpeg may go away and the context may end at any time. StreamControl     *)
(* takes from all this only the outcome. The module begins once ffmpeg runs: *)
(* what fails before that returns an error and leaves nothing behind.        *)
(*                                                                           *)
(* A byte is one of the three that markers are made of, or "00" for all the  *)
(* others. What ffmpeg writes between the two markers of a picture holds an  *)
(* FF only in front of an "00" (stuffing, or another marker's number).       *)
EXTENDS Integers, Sequences, SequencesExt

CONSTANTS
    Bodies,       \* what a picture may hold between its markers
    MaxPictures,  \* bound: pictures ffmpeg has to write
    PipeSize,     \* bytes the pipe holds before ffmpeg has to wait
    MaxStartupRetries,  \* 50 in the code
    MaxSize       \* 10 MB in the code

Byte == {"FF", "D8", "D9", "00"}

ASSUME FrameScannerAssumption ==
    /\ \A body \in Bodies :
          /\ body \in Seq(Byte)
          /\ \A n \in DOMAIN body : body[n] = "FF" => n < Len(body) /\ body[n + 1] = "00"
    /\ {MaxPictures, PipeSize, MaxStartupRetries, MaxSize} \subseteq Nat \ {0}
    /\ MaxSize > 1

VARIABLES
    pictures,   \* what ffmpeg has to write
    written,    \* number of bytes it has written
    running,    \* ffmpeg lives; when it dies its end of the pipe is closed
    cancelled,  \* the context of this extraction is done: ffmpeg is killed
    at,         \* where the reader is
    read,       \* number of bytes it has read
    data,       \* the picture it is reading
    retries,    \* startupRetries
    delivered,  \* history: what the callback got; framesRead is its length
    outcome     \* how StartExtraction returned

ffmpegVars == <<pictures, written, running>>
scanVars == <<ffmpegVars, cancelled, at, read, data, retries, delivered, outcome>>

Jpeg(body) == <<"FF", "D8">> \o body \o <<"FF", "D9">>
Jpegs == [n \in DOMAIN pictures |-> Jpeg(pictures[n])]

(* The stream of bytes, and where its n-th picture ends.                     *)
Stream == FlattenSeq(Jpegs)
End(n) == Len(FlattenSeq(SubSeq(Jpegs, 1, n)))

ScanTypeOK ==
    /\ written \in 0 .. Len(Stream)
    /\ running \in BOOLEAN /\ cancelled \in BOOLEAN
    /\ at \in {"top", "start", "startFF", "body", "bodyFF", "wait", "over"}
    /\ read \in 0 .. written
    /\ data \in Seq(Byte) /\ Len(data) <= MaxSize + 2
    /\ retries \in 0 .. MaxStartupRetries
    /\ delivered \in Seq(Seq(Byte))
    /\ outcome \in {"none", "end", "exitError", "noFrames", "EOF", "tooLarge", "cancelled"}

ScanInit ==
    /\ pictures \in BoundedSeq(Bodies, MaxPictures)
    /\ written = 0 /\ running = TRUE
    /\ cancelled = FALSE
    /\ at = "top" /\ read = 0 /\ data = << >>
    /\ retries = 0
    /\ delivered = << >>
    /\ outcome = "none"

-----------------------------------------------------------------------------
(* ffmpeg and the extraction's owner.                                        *)

Write ==
    /\ running
    /\ written < Len(Stream)
    /\ written - read < PipeSize
    /\ written' = written + 1
    /\ UNCHANGED <<pictures, running, cancelled, at, read, data, retries, delivered, outcome>>

(* The source ends, ffmpeg fails or is killed.                               *)
FFmpegExits ==
    /\ running
    /\ running' = FALSE
    /\ UNCHANGED <<pictures, written, cancelled, at, read, data, retries, delivered, outcome>>

(* Stop, or the end of the stream's context.                                 *)
Cancel ==
    /\ ~cancelled
    /\ cancelled' = TRUE
    /\ UNCHANGED <<ffmpegVars, at, read, data, retries, delivered, outcome>>

-----------------------------------------------------------------------------
(* The reader.                                                               *)

AtEOF == read = written /\ ~running

(* ReadByte returns b.                                                       *)
GetByte(b) ==
    /\ read < written
    /\ b = Stream[read + 1]
    /\ read' = read + 1

(* StartExtraction returns result, or ctx.Err() for an error that comes with *)
(* the end of the context; its deferred cancel kills an ffmpeg that is left. *)
Return(result) ==
    /\ at' = "over"
    /\ outcome' = result
    /\ cancelled' = TRUE

ReturnError(result) == Return(IF cancelled THEN "cancelled" ELSE result)

Stay == UNCHANGED <<cancelled, outcome>>

(* The loop of readJPEGFrames begins with a look at the context.             *)
CheckContext ==
    /\ at = "top"
    /\ IF cancelled THEN Return("cancelled") ELSE at' = "start" /\ Stay
    /\ UNCHANGED <<ffmpegVars, read, data, retries, delivered>>

(* findJPEGStart.                                                            *)
FindStart(b) ==
    /\ at \in {"start", "startFF"}
    /\ GetByte(b)
    /\ at' = IF at = "start" THEN (IF b = "FF" THEN "startFF" ELSE "start")
             ELSE (IF b = "D8" THEN "body" ELSE "start")
    /\ data' = IF at' = "body" THEN <<"FF", "D8">> ELSE data
    /\ UNCHANGED <<ffmpegVars, cancelled, retries, delivered, outcome>>

(* Mutant: startupRetries is not counted.                                    *)
StartEOFForFree ==
    /\ at \in {"start", "startFF"}
    /\ AtEOF
    /\ \/ delivered = << >> /\ retries < MaxStartupRetries /\ at' = "top"
       \/ delivered # << >> /\ at' = "wait"
    /\ Stay
    /\ UNCHANGED <<ffmpegVars, read, data, retries, delivered>>

(* It met EOF: another try while nothing has come yet.                       *)
StartEOF ==
    /\ at \in {"start", "startFF"}
    /\ AtEOF
    /\ \/ /\ delivered = << >> /\ retries < MaxStartupRetries
          /\ retries' = retries + 1
          /\ at' = "top" /\ Stay
       \/ /\ delivered = << >> /\ retries = MaxStartupRetries
          /\ ReturnError("noFrames") /\ UNCHANGED retries
       \/ /\ delivered # << >>
          /\ at' = "wait" /\ Stay /\ UNCHANGED retries
    /\ UNCHANGED <<ffmpegVars, read, data, delivered>>

(* Mutant: a D9 ends the picture, whatever comes in front of it.             *)
ReadBodyAnyEnd(b) ==
    /\ at \in {"body", "bodyFF"}
    /\ GetByte(b)
    /\ IF b = "D9"
         THEN /\ delivered' = Append(delivered, Append(data, b))
              /\ at' = "top" /\ data' = << >> /\ Stay
         ELSE /\ data' = Append(data, b)
              /\ at' = "body" /\ Stay
              /\ UNCHANGED delivered
    /\ UNCHANGED <<ffmpegVars, retries>>

(* readUntilJPEGEnd; the callback gets a picture that is complete, whatever  *)
(* it returns. The size is looked at after a byte, or after the two of which *)
(* the first is FF.                                                          *)
ReadBody(b) ==
    /\ at \in {"body", "bodyFF"}
    /\ GetByte(b)
    /\ \/ /\ at = "bodyFF" /\ b = "D9"
          /\ delivered' = Append(delivered, Append(data, b))
          /\ at' = "top" /\ data' = << >> /\ Stay
       \/ /\ at = "body" /\ b = "FF"
          /\ data' = Append(data, b)
          /\ at' = "bodyFF" /\ Stay /\ UNCHANGED delivered
       \/ /\ b # (IF at = "body" THEN "FF" ELSE "D9")
          /\ data' = Append(data, b)
          /\ IF Len(data') > MaxSize THEN ReturnError("tooLarge") ELSE at' = "body" /\ Stay
          /\ UNCHANGED delivered
    /\ UNCHANGED <<ffmpegVars, retries>>

(* Mutant: the end of the stream in a picture is always an error.            *)
BodyEOFFails ==
    /\ at \in {"body", "bodyFF"}
    /\ AtEOF
    /\ ReturnError("EOF")
    /\ UNCHANGED <<ffmpegVars, read, data, retries, delivered>>

(* It met EOF within a picture: a normal end if there was one before.        *)
BodyEOF ==
    /\ at \in {"body", "bodyFF"}
    /\ AtEOF
    /\ IF delivered # << >> THEN at' = "wait" /\ Stay ELSE ReturnError("EOF")
    /\ UNCHANGED <<ffmpegVars, read, data, retries, delivered>>

(* cmd.Wait returns with the exit status.                                    *)
WaitForExit ==
    /\ at = "wait"
    /\ ~running
    /\ Return("end") \/ Return("exitError")
    /\ UNCHANGED <<ffmpegVars, read, data, retries, delivered>>

-----------------------------------------------------------------------------
Reader ==
    \/ CheckContext \/ StartEOF \/ BodyEOF \/ WaitForExit
    \/ \E b \in Byte : FindStart(b) \/ ReadBody(b)

ScanNext == Write \/ FFmpegExits \/ Cancel \/ Reader

(* The reader's goroutine goes on, and exec kills the ffmpeg of a context    *)
(* that is done. Nothing is said of an ffmpeg that hangs.                    *)
ScanFairness == WF_scanVars(Reader) /\ WF_scanVars(cancelled /\ FFmpegExits)

ScanSpec == ScanInit /\ [][ScanNext]_scanVars /\ ScanFairness

-----------------------------------------------------------------------------
(* Properties.                                                               *)

(* What the callback got are the pictures that ffmpeg wrote, each whole, in  *)
(* order and once, and of the bytes the reader has read no complete picture  *)
(* is missing, whatever lies between the markers (ffmpeg.go:128-163).        *)
DeliveredIsExact ==
    LET n == Len(delivered)
    IN  /\ IsPrefix(delivered, Jpegs)
        /\ End(n) <= read
        /\ n < Len(pictures) => read < End(n + 1)

(* The error that makes the manager count a failed attempt is true: without  *)
(* a cancellation "noFrames" and EOF mean that ffmpeg never completed a     *)
(* picture, and a return after an end of stream comes after every picture    *)
(* that it completed (ffmpeg.go:134-155, 94-103).                            *)
OutcomeIsTrue ==
    LET complete == {n \in DOMAIN pictures : End(n) <= written}
    IN  /\ outcome \in {"noFrames", "EOF"} => complete = {}
        /\ outcome \in {"end", "exitError"} =>
              /\ complete # {}
              /\ complete = DOMAIN delivered

(* When ffmpeg is gone or the context is done, StartExtraction returns and   *)
(* leaves no ffmpeg behind: neither the retries at the start nor a full pipe *)
(* keep it for ever.                                                         *)
ExtractionEnds ==
    (cancelled \/ ~running) ~> (outcome # "none" /\ ~running)
=============================================================================
