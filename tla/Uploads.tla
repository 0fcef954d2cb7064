------------------------------ MODULE Uploads ------------------------------
(***************************************************************************)
(* One media upload, from the first byte to its deletion: the record       *)
(* (a multipart_uploads document, or a GridFS files document), the object  *)
(* it describes, the malware scan with its claim, its retries and its      *)
(* stale sweep, cancellation, retention and the links handed out.          *)
(*   A call is a slot; a stage of it is the database operation or the      *)
(* request to S3 or ClamAV that comes next.  A call may be killed at any   *)
(* stage.  S3, ClamAV and the file's content are external.  The scanner is *)
(* enabled (MEDIA_SCANNER_ENABLED); without it every upload is safe.       *)
(***************************************************************************)
EXTENDS Integers, FiniteSets

CONSTANTS
    Slots,       \* calls and jobs that may be in flight together
    MaxTries,    \* MEDIA_SCAN_MAX_ATTEMPTS
    MaxRetries,  \* bound: retries the owner asks for
    MaxKills     \* bound: calls killed

ASSUME UploadAssumption ==
    /\ IsFiniteSet(Slots) /\ Slots # {}
    /\ MaxTries \in Nat \ {0} /\ MaxRetries \in Nat /\ MaxKills \in Nat

Kinds  == {"s3", "gridfs", "profile", "sanitized"}
States == {"none", "uploading", "quarantined", "safe", "infected", "rejected",
           "cancelled", "deleted", "aborted", "purged"}
Gone   == {"none", "aborted", "purged"}   \* states of no record
Scans  == {"not_uploaded", "pending", "scanning", "safe", "infected",
           "rejected", "scan_failed", "cancelled"}
Verdicts == {"safe", "infected", "rejected", "cancelled"}
Answers == {"safe", "infected", "unavailable", "limit"}
Ops    == {"upload", "initiate", "complete", "abort", "cancel", "scan",
           "purge", "retention", "open"}
Stages == {"idle", "close", "validate", "insert", "finalize", "inspect",
           "reject", "finish", "stop", "delete", "drop", "mark", "erase",
           "claim", "scan", "write", "serve"}

VARIABLES
    kind,     \* how the file is uploaded
    content,  \* external: what the file is
    object,   \* external: the bytes; "parts" of a multipart upload
    record,   \* state and scan_status
    tries,    \* scan_attempts
    retries,  \* retries asked for so far
    swept,    \* history: scans declared stale
    kills,    \* calls killed so far
    served,   \* has a link to the bytes been handed out?
    calls

vars == <<kind, content, object, record, tries, retries, swept, kills, served,
          calls>>
file == <<kind, content>>
rest == <<file, retries, swept, kills>>

Call == [op: Ops, stage: Stages, tries: Nat, state: States,
         answer: Answers]
Idle == [op |-> "open", stage |-> "idle", tries |-> 0, state |-> "none",
         answer |-> "safe"]

TypeOK ==
    /\ kind \in Kinds
    /\ content \in {"clean", "infected", "malformed"}
    /\ object \in {"none", "parts", "whole"}
    /\ record \in [state: States, scan: Scans]
    /\ tries \in Nat /\ retries \in 0..MaxRetries /\ kills \in 0..MaxKills
    /\ swept \in Nat
    /\ served \in BOOLEAN
    /\ calls \in [Slots -> Call]

\* The declared type is checked before GridFS stores anything; an image that
\* is decoded whole is taken to be clean.
Init ==
    /\ kind \in Kinds
    /\ content \in CASE kind = "s3" -> {"clean", "infected", "malformed"}
                     [] kind = "gridfs" -> {"clean", "infected"}
                     [] OTHER -> {"clean"}
    /\ object = "none"
    /\ record = [state |-> "none", scan |-> "not_uploaded"]
    /\ tries = 0
    /\ retries = 0
    /\ swept = 0
    /\ kills = 0
    /\ served = FALSE
    /\ calls = [s \in Slots |-> Idle]

Here == record.state \notin Gone
Goto(s, c) == calls' = [calls EXCEPT ![s] = c]
Stage(s, stage) == Goto(s, [calls[s] EXCEPT !.stage = stage])
End(s) == Goto(s, Idle)
At(s, op, stage) == calls[s].op = op /\ calls[s].stage = stage
Begin(s, op, stage) ==
    /\ calls[s] = Idle
    /\ Goto(s, [Idle EXCEPT !.op = op, !.stage = stage,
                   !.tries = IF op = "scan" THEN tries ELSE 0,
                   !.state = IF op \in {"cancel", "purge"}
                             THEN record.state ELSE "none"])
Write(state, scan) == record' = [state |-> state, scan |-> scan]

-----------------------------------------------------------------------------
(* Upload through the API (GridFS).                                        *)

UploadFile(s) ==
    /\ kind # "s3" /\ record.state = "none"
    /\ \A t \in Slots : calls[t].op # "upload"
    /\ Begin(s, "upload", "close")
    /\ UNCHANGED <<object, record, tries, served, rest>>

\* The files document appears when the stream is closed.  A profile image
\* has no scan status yet, a re-encoded image is safe at once.
CloseStream(s) ==
    /\ At(s, "upload", "close")
    /\ object' = "whole"
    /\ CASE kind = "gridfs" -> Write("quarantined", "pending") /\ End(s)
         [] kind = "sanitized" -> Write("safe", "safe") /\ End(s)
         [] OTHER -> Write("uploading", "not_uploaded") /\ Stage(s, "validate")
    /\ UNCHANGED <<tries, served, rest>>

ValidateProfile(s) ==
    /\ At(s, "upload", "validate")
    /\ IF Here THEN Write("safe", "safe") ELSE UNCHANGED record
    /\ End(s)
    /\ UNCHANGED <<object, tries, served, rest>>

-----------------------------------------------------------------------------
(* Multipart upload (S3).                                                  *)

InitiateMultipart(s) ==
    /\ kind = "s3" /\ record.state = "none" /\ object = "none"
    /\ object' = "parts"
    /\ Begin(s, "initiate", "insert")
    /\ UNCHANGED <<record, tries, served, rest>>

InsertRecord(s) ==
    /\ At(s, "initiate", "insert")
    /\ Write("uploading", "not_uploaded")
    /\ End(s)
    /\ UNCHANGED <<object, tries, served, rest>>

CompleteMultipart(s) ==
    /\ kind = "s3" /\ record.state = "uploading"
    /\ Begin(s, "complete", "finalize")
    /\ UNCHANGED <<object, record, tries, served, rest>>

\* S3 refuses an upload that is unknown; it may take a repeated completion.
FinalizeParts(s) ==
    /\ At(s, "complete", "finalize")
    /\ object' = IF object = "parts" THEN "whole" ELSE object
    /\ \/ object # "none" /\ Stage(s, "inspect")
       \/ object # "parts" /\ End(s)
    /\ UNCHANGED <<record, tries, served, rest>>

\* The size and the first bytes; an object that is not what was declared goes.
InspectObject(s) ==
    /\ At(s, "complete", "inspect")
    /\ CASE object # "whole" -> End(s) /\ UNCHANGED object
         [] object = "whole" /\ content = "malformed" ->
               object' = "none" /\ Stage(s, "reject")
         [] OTHER -> Stage(s, "finish") /\ UNCHANGED object
    /\ UNCHANGED <<record, tries, served, rest>>

RejectObject(s) ==
    /\ At(s, "complete", "reject")
    /\ IF Here THEN Write("rejected", "rejected") ELSE UNCHANGED record
    /\ End(s)
    /\ UNCHANGED <<object, tries, served, rest>>

\* Mutant: the update does not ask for the state it found.
FinishBlind(s) ==
    /\ At(s, "complete", "finish")
    /\ IF Here THEN Write("quarantined", "pending") ELSE UNCHANGED record
    /\ End(s)
    /\ UNCHANGED <<object, tries, served, rest>>

FinishUpload(s) ==
    /\ At(s, "complete", "finish")
    /\ IF record.state = "uploading"
       THEN Write("quarantined", "pending") ELSE UNCHANGED record
    /\ End(s)
    /\ UNCHANGED <<object, tries, served, rest>>

AbortMultipart(s) ==
    /\ kind = "s3" /\ Here
    /\ Begin(s, "abort", "stop")
    /\ UNCHANGED <<object, record, tries, served, rest>>

\* Mutant: the record goes even if S3 refuses.
StopRegardless(s) ==
    /\ At(s, "abort", "stop")
    /\ object' = IF object = "parts" THEN "none" ELSE object
    /\ Stage(s, "delete")
    /\ UNCHANGED <<record, tries, served, rest>>

\* S3 refuses to abort an upload that is complete or unknown.
StopUpload(s) ==
    /\ At(s, "abort", "stop")
    /\ IF object = "parts"
       THEN object' = "none" /\ Stage(s, "delete")
       ELSE UNCHANGED object /\ End(s)
    /\ UNCHANGED <<record, tries, served, rest>>

DeleteAborted(s) ==
    /\ At(s, "abort", "delete")
    /\ IF Here THEN Write("aborted", record.scan) ELSE UNCHANGED record
    /\ End(s)
    /\ UNCHANGED <<object, tries, served, rest>>

-----------------------------------------------------------------------------
(* The scan.                                                               *)

\* Mutant: what was tried before is not picked up again.
ReadFresh(s) ==
    /\ Here /\ record.scan = "pending" /\ tries = 0
    /\ Begin(s, "scan", "claim")
    /\ UNCHANGED <<object, record, tries, served, rest>>

ReadForScan(s) ==
    /\ Here /\ record.scan = "pending"
    /\ Begin(s, "scan", "claim")
    /\ UNCHANGED <<object, record, tries, served, rest>>

\* Mutant: every reader that saw it pending claims it.
ClaimRead(s) ==
    /\ At(s, "scan", "claim")
    /\ IF Here
       THEN /\ Write(record.state, "scanning")
            /\ tries' = tries + 1
            /\ Stage(s, "scan")
       ELSE UNCHANGED <<record, tries>> /\ End(s)
    /\ UNCHANGED <<object, served, rest>>

Claim(s) ==
    /\ At(s, "scan", "claim")
    /\ IF Here /\ record.scan = "pending"
       THEN /\ Write(record.state, "scanning")
            /\ tries' = tries + 1
            /\ Stage(s, "scan")
       ELSE UNCHANGED <<record, tries>> /\ End(s)
    /\ UNCHANGED <<object, served, rest>>

\* ClamAV's answer; reading an object that is gone ends the call, and the
\* record stays as it was claimed.
ScanObject(s) ==
    /\ At(s, "scan", "scan")
    /\ IF object = "whole"
       THEN \E a \in {IF content = "infected" THEN "infected" ELSE "safe",
                      "unavailable", "limit"} :
               Goto(s, [calls[s] EXCEPT !.stage = "write", !.answer = a])
       ELSE End(s)
    /\ UNCHANGED <<object, record, tries, served, rest>>

\* The update has no condition: it lands on whatever the record has become.
WriteAnswer(s) ==
    /\ At(s, "scan", "write")
    /\ LET a == calls[s].answer IN
       CASE ~Here -> UNCHANGED record
         [] a \in {"safe", "infected"} -> Write(a, a)
         [] a = "limit" \/ calls[s].tries + 1 >= MaxTries ->
               Write("quarantined", "scan_failed")
         [] OTHER -> Write("quarantined", "pending")
    /\ End(s)
    /\ UNCHANGED <<object, tries, served, rest>>

\* A claim may be older than MEDIA_SCAN_TIMEOUT_SECONDS at any time.
SweepStale ==
    /\ Here /\ record.scan = "scanning"
    /\ Write("quarantined", "scan_failed")
    /\ swept' = swept + 1
    /\ UNCHANGED <<file, object, tries, retries, kills, served, calls>>

RetryScan ==
    /\ Here /\ record.scan = "scan_failed"
    /\ retries < MaxRetries
    /\ retries' = retries + 1
    /\ Write(record.state, "pending")
    /\ tries' = 0
    /\ UNCHANGED <<file, object, swept, kills, served, calls>>

-----------------------------------------------------------------------------
(* Cancellation, retention, access.                                        *)

\* S3: the object first, then the record; GridFS: the other way round.
CancelMedia(s) ==
    /\ Here /\ record.scan # "safe"
    /\ Begin(s, "cancel", IF kind = "s3" THEN "drop" ELSE "mark")
    /\ UNCHANGED <<object, record, tries, served, rest>>

\* The state read decides between aborting and deleting.
DropObject(s) ==
    /\ At(s, "cancel", "drop")
    /\ IF calls[s].state = "uploading" /\ object # "parts"
       THEN UNCHANGED object /\ End(s)
       ELSE /\ object' = IF calls[s].state = "uploading" \/ object = "whole"
                         THEN "none" ELSE object
            /\ Goto(s, [calls[s] EXCEPT !.stage = "mark", !.state = "none"])
    /\ UNCHANGED <<record, tries, served, rest>>

MarkCancelled(s) ==
    /\ At(s, "cancel", "mark")
    /\ IF Here THEN Write("cancelled", "cancelled") ELSE UNCHANGED record
    /\ IF kind = "s3" THEN End(s) ELSE Stage(s, "erase")
    /\ UNCHANGED <<object, tries, served, rest>>

EraseFile(s) ==
    /\ calls[s].stage = "erase"
    /\ object' = "none"
    /\ IF Here THEN Write("purged", record.scan) ELSE UNCHANGED record
    /\ End(s)
    /\ UNCHANGED <<tries, served, rest>>

\* purge_expired_s3_uploads: the record goes whatever S3 answers.
PurgeExpired(s) ==
    /\ kind = "s3" /\ Here
    /\ Begin(s, "purge", "stop")
    /\ UNCHANGED <<object, record, tries, served, rest>>

PurgeObject(s) ==
    /\ At(s, "purge", "stop")
    /\ object' = CASE calls[s].state = "uploading" ->
                        IF object = "parts" THEN "none" ELSE object
                   [] OTHER -> IF object = "whole" THEN "none" ELSE object
    /\ Goto(s, [calls[s] EXCEPT !.stage = "delete", !.state = "none"])
    /\ UNCHANGED <<record, tries, served, rest>>

DeletePurged(s) ==
    /\ At(s, "purge", "delete")
    /\ IF Here THEN Write("purged", record.scan) ELSE UNCHANGED record
    /\ End(s)
    /\ UNCHANGED <<object, tries, served, rest>>

\* purge_expired_project_media, of a project completed long ago: the S3
\* record stays, with its scan status.
PurgeProject(s) ==
    /\ Here /\ record.state # "deleted"
    /\ kind \in {"s3", "gridfs"}
    /\ Begin(s, "retention", IF kind = "s3" THEN "delete" ELSE "erase")
    /\ UNCHANGED <<object, record, tries, served, rest>>

DeleteProjectObject(s) ==
    /\ At(s, "retention", "delete")
    /\ object' = IF object = "whole" THEN "none" ELSE object
    /\ Stage(s, "mark")
    /\ UNCHANGED <<record, tries, served, rest>>

\* Mutant: the scan status is deleted with the state.
MarkDeletedScan(s) ==
    /\ At(s, "retention", "mark")
    /\ IF Here THEN Write("deleted", "deleted") ELSE UNCHANGED record
    /\ End(s)
    /\ UNCHANGED <<object, tries, served, rest>>

MarkDeleted(s) ==
    /\ At(s, "retention", "mark")
    /\ IF Here THEN Write("deleted", record.scan) ELSE UNCHANGED record
    /\ End(s)
    /\ UNCHANGED <<object, tries, served, rest>>

\* Mutant: the record's existence is all that is asked.
OpenAny(s) ==
    /\ Here
    /\ Begin(s, "open", "serve")
    /\ UNCHANGED <<object, record, tries, served, rest>>

\* A link or the bytes, for a record read as safe.
OpenMedia(s) ==
    /\ Here /\ record.scan = "safe"
    /\ Begin(s, "open", "serve")
    /\ UNCHANGED <<object, record, tries, served, rest>>

Serve(s) ==
    /\ At(s, "open", "serve")
    /\ served' = (served \/ object = "whole")
    /\ End(s)
    /\ UNCHANGED <<object, record, tries, rest>>

Kill(s) ==
    /\ calls[s] # Idle
    /\ kills < MaxKills
    /\ kills' = kills + 1
    /\ End(s)
    /\ UNCHANGED <<file, object, record, tries, retries, swept, served>>

-----------------------------------------------------------------------------
Continue(s) ==
    \/ CloseStream(s) \/ ValidateProfile(s) \/ InsertRecord(s)
    \/ FinalizeParts(s) \/ InspectObject(s) \/ RejectObject(s)
    \/ FinishUpload(s) \/ StopUpload(s) \/ DeleteAborted(s)
    \/ Claim(s) \/ ScanObject(s) \/ WriteAnswer(s)
    \/ DropObject(s) \/ MarkCancelled(s) \/ EraseFile(s) \/ PurgeObject(s)
    \/ DeletePurged(s) \/ DeleteProjectObject(s) \/ MarkDeleted(s) \/ Serve(s)

Next ==
    \/ \E s \in Slots :
          \/ UploadFile(s) \/ InitiateMultipart(s) \/ CompleteMultipart(s)
          \/ AbortMultipart(s) \/ ReadForScan(s) \/ CancelMedia(s)
          \/ PurgeExpired(s) \/ PurgeProject(s) \/ OpenMedia(s)
          \/ Continue(s) \/ Kill(s)
    \/ SweepStale \/ RetryScan

Spec == Init /\ [][Next]_vars

\* Calls go on unless they are killed; the scheduler's loop scans what it
\* finds pending and sweeps what is stale.
FairSpec ==
    /\ Spec
    /\ \A s \in Slots : WF_vars(Continue(s))
    /\ SF_vars(\E s \in Slots : ReadForScan(s))
    /\ WF_vars(SweepStale)

-----------------------------------------------------------------------------
(* Properties.                                                             *)

\* Bytes are handed out of a file the scanner found clean only.
ServedIsClean == served => content = "clean"

Scanning == {s \in Slots : calls[s].stage \in {"scan", "write"}}

\* The API's task and the scheduler never scan the same upload together,
\* unless a claim was declared stale (scan_gridfs_upload's locked update).
OneScanUnlessStale == Cardinality(Scanning) <= 1 + swept

\* An upload its owner aborted leaves no object behind, also when a
\* completion raced the abort.
AbortedLeavesNothing == record.state = "aborted" => object # "whole"

\* A verdict is reopened by a late scan only, never by a second completion.
OnlyScansReopen ==
    [][record.scan \in Verdicts /\ record'.scan = "pending"
          => \E s \in Slots : At(s, "scan", "write")]_vars

\* No upload waits for ever for its scan (test_malware_scan_states.py:49).
ScanEnds ==
    Here /\ record.scan = "pending" ~>
       ~Here \/ record.scan \notin {"pending", "scanning"}
=============================================================================
