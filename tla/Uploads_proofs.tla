--------------------------- MODULE Uploads_proofs ---------------------------
(* What Uploads guarantees for every number of concurrent calls and jobs,    *)
(* retries and kills: nothing that was not scanned clean is handed out, two  *)
(* scans meet only over a stale claim, an abort leaves no object, and only   *)
(* a scan reopens a verdict.                                                 *)
EXTENDS Uploads, FiniteSetTheorems, TLAPS

Opening == {"close", "insert"}   \* stages before the record exists
Scan    == {"scan", "write"}     \* stages of a call that has claimed

\* What a call in flight knows about the upload.
CallTrue(c) ==
    /\ c.stage = "close" =>
          c.op = "upload" /\ kind # "s3" /\ record.state = "none"
    /\ c.stage = "insert" =>
          c.op = "initiate" /\ kind = "s3" /\ object = "parts" /\ record.state = "none"
    /\ c.op = "upload" /\ c.stage = "validate" => content = "clean"
    /\ c.op = "complete" /\ c.stage = "finish" => content # "malformed"
    /\ c.op = "scan" => content # "malformed"
    /\ c.stage = "write" /\ c.answer = "safe" => content = "clean"
    /\ c.op = "open" /\ c.stage = "serve" => content = "clean"
    /\ c.op = "abort" => kind = "s3" /\ (c.stage = "delete" => object = "none")

CallsTrue == \A s \in Slots : CallTrue(calls[s])

\* One call creates the record, and nothing else happens before.
OneOpens ==
    /\ \A s, t \in Slots :
          calls[s].stage \in Opening /\ calls[t].stage \in Opening => s = t
    /\ record.state = "none" =>
          \A s \in Slots : calls[s].stage \in {"idle"} \cup Opening

\* What the record says is so.
RecordTrue ==
    /\ record.state \in {"none", "uploading"} => record.scan = "not_uploaded"
    /\ record.state = "aborted" => kind = "s3" /\ object = "none"
    /\ record.scan = "safe" => content = "clean"
    /\ content = "malformed" =>
          kind = "s3" /\ record.scan \in {"not_uploaded", "rejected", "cancelled"}
    /\ kind \in {"profile", "sanitized"} => content = "clean"

\* While the record may still be claimed, every scan that runs has been
\* declared stale; otherwise one may not have been.
Claimable == {"not_uploaded", "pending", "scan_failed"}
ClaimsCounted ==
    Cardinality(Scanning) <= swept + IF record.scan \in Claimable THEN 0 ELSE 1

IInv == TypeOK /\ CallsTrue /\ OneOpens /\ RecordTrue /\ ClaimsCounted
               /\ ServedIsClean

-----------------------------------------------------------------------------
(* Scans counted.                                                           *)

\* The scans in progress can be counted.
LEMMA ScanningFinite ==
    /\ IsFiniteSet(Scanning)
    /\ Cardinality(Scanning) \in Nat
<1>1. Scanning \subseteq Slots
    BY DEF Scanning
<1>2. IsFiniteSet(Scanning)
    BY <1>1, UploadAssumption, FS_Subset
<1> QED BY <1>2, FS_CardinalityType

\* The slots after one call moved.
LEMMA CallsAre ==
    ASSUME TypeOK, NEW s \in Slots, NEW c \in Call, Goto(s, c)
    PROVE  /\ calls' \in [Slots -> Call]
           /\ \A t \in Slots : calls'[t] = IF t = s THEN c ELSE calls[t]
BY DEF TypeOK, Goto

\* A call that does not claim adds no scan, and one that leaves its scan takes
\* it away.
LEMMA CountFalls ==
    ASSUME TypeOK, NEW s \in Slots, NEW c \in Call, Goto(s, c),
           c.stage \in Scan => calls[s].stage \in Scan
    PROVE  /\ Cardinality(Scanning') \in Nat
           /\ Cardinality(Scanning') <= Cardinality(Scanning)
           /\ calls[s].stage \in Scan /\ c.stage \notin Scan =>
                 Cardinality(Scanning') = Cardinality(Scanning) - 1
<1>1. \A t \in Slots : calls'[t] = IF t = s THEN c ELSE calls[t]
    BY CallsAre
<1>2. CASE c.stage \in Scan \/ calls[s].stage \notin Scan
    <2>1. Scanning' = Scanning
        BY <1>1, <1>2 DEF Scanning, Scan
    <2> QED BY <1>2, <2>1, ScanningFinite
<1>3. CASE c.stage \notin Scan /\ calls[s].stage \in Scan
    <2>1. Scanning' = Scanning \ {s} /\ s \in Scanning
        BY <1>1, <1>3 DEF Scanning, Scan
    <2>2. Cardinality(Scanning') = Cardinality(Scanning) - 1
        BY <2>1, ScanningFinite, FS_RemoveElement
    <2>3. IsFiniteSet(Scanning')
        BY <2>1, ScanningFinite, FS_RemoveElement
    <2>4. Cardinality(Scanning') \in Nat
        BY <2>3, FS_CardinalityType
    <2> QED BY <2>2, <2>4, ScanningFinite
<1> QED BY <1>2, <1>3

\* A claim adds at most one.
LEMMA CountRises ==
    ASSUME TypeOK, NEW s \in Slots, NEW c \in Call, Goto(s, c)
    PROVE  /\ Cardinality(Scanning') \in Nat
           /\ Cardinality(Scanning') <= Cardinality(Scanning) + 1
<1>1. CASE c.stage \in Scan => calls[s].stage \in Scan
    BY <1>1, CountFalls, ScanningFinite
<1>2. CASE c.stage \in Scan /\ calls[s].stage \notin Scan
    <2>1. \A t \in Slots : calls'[t] = IF t = s THEN c ELSE calls[t]
        BY CallsAre
    <2>2. Scanning' = Scanning \cup {s} /\ s \notin Scanning
        BY <2>1, <1>2 DEF Scanning, Scan
    <2>3. IsFiniteSet(Scanning') /\ Cardinality(Scanning') = Cardinality(Scanning) + 1
        BY <2>2, ScanningFinite, FS_AddElement
    <2> QED BY <2>3, ScanningFinite
<1> QED BY <1>1, <1>2

-----------------------------------------------------------------------------
(* Calls that go on.                                                        *)

\* A call that has answered knows nothing.
LEMMA IdleCall == Idle \in Call /\ CallTrue(Idle) /\ Idle.stage = "idle"
BY DEF Idle, Call, Ops, Stages, States, Answers, CallTrue

\* What a call knows stays true once the record exists.
LEMMA TruthStays ==
    ASSUME NEW c \in Call, CallTrue(c), record.state # "none",
           UNCHANGED <<kind, content>>,
           kind = "s3" /\ object = "none" => object' = "none"
    PROVE  CallTrue(c)'
BY DEF CallTrue

\* A step of one call on a record that exists.
LEMMA StepKeeps ==
    ASSUME IInv, NEW s \in Slots, NEW c \in Call, Goto(s, c), CallTrue(c)',
           record.state # "none", record'.state # "none",
           UNCHANGED <<kind, content>>,
           kind = "s3" /\ object = "none" => object' = "none",
           c.stage \notin Opening,
           object' \in {"none", "parts", "whole"},
           record' \in [state: States, scan: Scans],
           tries' \in Nat, retries' \in 0..MaxRetries, kills' \in 0..MaxKills,
           swept' \in Nat, served' \in BOOLEAN,
           RecordTrue', ClaimsCounted',
           served' => served \/ content = "clean"
    PROVE  IInv'
<1>1. /\ calls' \in [Slots -> Call]
      /\ \A t \in Slots : calls'[t] = IF t = s THEN c ELSE calls[t]
    BY CallsAre DEF IInv
<1>2. TypeOK'
    BY <1>1 DEF IInv, TypeOK
<1>3. ASSUME NEW t \in Slots PROVE CallTrue(calls[t])'
    <2>1. CASE t = s
        BY <1>1, <2>1 DEF CallTrue
    <2>2. CASE t # s
        <3>1. PICK d \in Call : calls'[t] = d /\ calls[t] = d /\ CallTrue(d)
            BY <1>1, <2>2 DEF IInv, TypeOK, CallsTrue
        <3>2. CallTrue(d)'
            BY <3>1, TruthStays
        <3> QED BY <3>1, <3>2 DEF CallTrue
    <2> QED BY <2>1, <2>2
<1>4. OneOpens'
    BY <1>1 DEF IInv, OneOpens
<1>5. ServedIsClean'
    BY DEF IInv, ServedIsClean
<1> QED BY <1>2, <1>3, <1>4, <1>5 DEF IInv, CallsTrue

\* A stage that changes nothing but the call.
LEMMA StageKeeps ==
    ASSUME IInv, NEW s \in Slots, NEW c \in Call, Goto(s, c), CallTrue(c),
           record.state # "none",
           UNCHANGED <<kind, content, object, record, tries, swept, retries>>,
           c.stage \notin Opening, c.stage \in Scan => calls[s].stage \in Scan,
           kills' \in 0..MaxKills, served' \in BOOLEAN,
           served' => served \/ content = "clean"
    PROVE  IInv'
<1>1. CallTrue(c)'
    BY TruthStays
<1>2. RecordTrue'
    BY DEF IInv, RecordTrue
<1>3. ClaimsCounted'
    BY CountFalls, ScanningFinite DEF IInv, TypeOK, ClaimsCounted
<1> QED BY <1>1, <1>2, <1>3, StepKeeps DEF IInv, TypeOK

\* A call whose record exists: it is past the stages that open one.
LEMMA CallOf ==
    ASSUME IInv, NEW s \in Slots
    PROVE  /\ calls[s] \in Call /\ CallTrue(calls[s])
           /\ calls[s].stage \notin {"idle"} \cup Opening => record.state # "none"
BY DEF IInv, TypeOK, CallsTrue, OneOpens

\* What can be found has a record.
LEMMA HereIsRecord == Here => record.state # "none"
BY DEF Here, Gone

-----------------------------------------------------------------------------
(* The requests.                                                            *)

\* A request that begins is a call in that stage.
LEMMA Begins ==
    ASSUME IInv, NEW s \in Slots, NEW op \in Ops, NEW stage \in Stages,
           Begin(s, op, stage)
    PROVE  \E c \in Call : /\ Goto(s, c) /\ c.op = op /\ c.stage = stage
                           /\ c.answer = "safe"
<1> DEFINE c == [Idle EXCEPT !.op = op, !.stage = stage,
                    !.tries = IF op = "scan" THEN tries ELSE 0,
                    !.state = IF op \in {"cancel", "purge"}
                              THEN record.state ELSE "none"]
<1>1. c \in Call /\ c.op = op /\ c.stage = stage /\ c.answer = "safe"
    BY DEF IInv, TypeOK, Idle, Call, States, Answers
<1> QED BY <1>1 DEF Begin

\* Requests about a record that exists.
LEMMA RequestKeeps ==
    ASSUME IInv, NEW s \in Slots, NEW op \in Ops, NEW stage \in Stages,
           Begin(s, op, stage), Here,
           UNCHANGED <<object, record, tries, served, rest>>,
           stage \notin Opening, stage \notin Scan,
           op # "upload",
           ~(op = "complete" /\ stage = "finish"),
           op = "abort" => kind = "s3" /\ stage # "delete",
           op = "scan" => record.scan = "pending",
           op = "open" => record.scan = "safe"
    PROVE  IInv'
<1>1. PICK c \in Call : Goto(s, c) /\ c.op = op /\ c.stage = stage
    BY Begins
<1>2. CallTrue(c)
    BY <1>1 DEF CallTrue, Opening, Scan, IInv, RecordTrue
<1> QED BY <1>1, <1>2, StageKeeps, HereIsRecord DEF rest, file, IInv, TypeOK

\* Calls that begin by reading the record.
LEMMA RequestsKeep ==
    ASSUME IInv, NEW s \in Slots,
           \/ CompleteMultipart(s) \/ AbortMultipart(s) \/ ReadForScan(s)
           \/ CancelMedia(s) \/ PurgeExpired(s) \/ PurgeProject(s) \/ OpenMedia(s)
    PROVE  IInv'
<1> USE DEF Opening, Scan, Ops, Stages
<1>1. CASE CompleteMultipart(s)
    BY <1>1, RequestKeeps DEF CompleteMultipart, Here, Gone
<1>2. CASE AbortMultipart(s)
    BY <1>2, RequestKeeps DEF AbortMultipart
<1>3. CASE ReadForScan(s)
    BY <1>3, RequestKeeps DEF ReadForScan
<1>4. CASE CancelMedia(s)
    BY <1>4, RequestKeeps DEF CancelMedia
<1>5. CASE PurgeExpired(s)
    BY <1>5, RequestKeeps DEF PurgeExpired
<1>6. CASE PurgeProject(s)
    BY <1>6, RequestKeeps DEF PurgeProject
<1>7. CASE OpenMedia(s)
    BY <1>7, RequestKeeps DEF OpenMedia
<1> QED BY <1>1, <1>2, <1>3, <1>4, <1>5, <1>6, <1>7

\* The two requests that open a record: nothing else is under way.
LEMMA OpeningKeeps ==
    ASSUME IInv, NEW s \in Slots, UploadFile(s) \/ InitiateMultipart(s)
    PROVE  IInv'
<1> DEFINE stage == IF UploadFile(s) THEN "close" ELSE "insert"
           op == IF UploadFile(s) THEN "upload" ELSE "initiate"
<1>1. /\ record.state = "none" /\ op \in {"upload", "initiate"}
      /\ op \in Ops /\ stage \in Opening /\ stage \in Stages
      /\ UNCHANGED <<record, tries, served, rest>>
      /\ Begin(s, op, stage)
      /\ op = "upload" => stage = "close" /\ kind # "s3" /\ UNCHANGED object
      /\ op = "initiate" => /\ stage = "insert" /\ kind = "s3"
                            /\ object = "none" /\ object' = "parts"
    BY DEF UploadFile, InitiateMultipart, Ops, Stages, Opening
<1> HIDE DEF stage, op
<1>2. PICK c \in Call : Goto(s, c) /\ c.op = op /\ c.stage = stage
    BY <1>1, Begins
<1>3. /\ calls' \in [Slots -> Call]
      /\ \A t \in Slots : calls'[t] = IF t = s THEN c ELSE calls[t]
    BY <1>2, CallsAre DEF IInv
<1>4. ASSUME NEW t \in Slots PROVE calls[t].stage \notin Opening
    <2>1. CallTrue(calls[t])
        BY DEF IInv, CallsTrue
    <2> QED BY <1>1, <2>1 DEF CallTrue, Opening, UploadFile, InitiateMultipart
<1>5. \A t \in Slots : calls[t].stage = "idle"
    BY <1>1, <1>4 DEF IInv, OneOpens
<1>6. TypeOK'
    BY <1>1, <1>3 DEF IInv, TypeOK, rest, file
<1>7. CallTrue(c)'
    BY <1>1, <1>2 DEF CallTrue, rest, file, Ops, Opening
<1>8. ASSUME NEW t \in Slots, t # s PROVE CallTrue(calls[t])'
    <2>1. PICK d \in Call : calls[t] = d /\ calls'[t] = d /\ CallTrue(d) /\ d.stage = "idle"
        BY <1>3, <1>5, <1>8 DEF IInv, TypeOK, CallsTrue
    <2>2. CallTrue(d)'
        BY <1>1, <2>1 DEF CallTrue, rest, file
    <2> QED BY <2>1, <2>2 DEF CallTrue
<1>9. CallsTrue'
    <2>1. CallTrue(calls[s])'
        BY <1>3, <1>7 DEF CallTrue
    <2> QED BY <2>1, <1>8 DEF CallsTrue
<1>10. OneOpens'
    BY <1>1, <1>2, <1>3, <1>5 DEF OneOpens, Opening
<1>11. RecordTrue'
    BY <1>1 DEF IInv, RecordTrue, rest, file
<1>12. ClaimsCounted'
    <2>1. c.stage \notin Scan
        BY <1>1, <1>2 DEF Scan, Opening
    <2> QED BY <1>1, <1>2, <2>1, CountFalls, ScanningFinite DEF IInv, TypeOK, ClaimsCounted, rest
<1>13. ServedIsClean'
    BY <1>1 DEF IInv, ServedIsClean, rest, file
<1> QED BY <1>6, <1>9, <1>10, <1>11, <1>12, <1>13 DEF IInv

\* The record appears.
LEMMA RecordAppears ==
    ASSUME IInv, NEW s \in Slots, CloseStream(s) \/ InsertRecord(s)
    PROVE  IInv'
<1>1. /\ CallTrue(calls[s]) /\ calls[s].stage \in Opening /\ calls[s] \in Call
      /\ record.state = "none" /\ record.scan = "not_uploaded"
    BY CallOf DEF CloseStream, InsertRecord, At, Opening, CallTrue, IInv, RecordTrue
<1>2. /\ UNCHANGED <<tries, served, rest>>
      /\ record' \in [state: States, scan: Scans]
      /\ record'.state \in {"uploading", "quarantined", "safe"}
      /\ record'.state = "uploading" => record'.scan = "not_uploaded"
      /\ record'.scan \in {"not_uploaded", "pending", "safe"}
      /\ record'.scan = "pending" => kind = "gridfs"
      /\ record'.scan = "safe" => kind = "sanitized"
    BY <1>1 DEF CloseStream, InsertRecord, Write, States, Scans, IInv, TypeOK
<1>3. PICK c \in Call : /\ Goto(s, c) /\ c.stage \in {"idle", "validate"}
                        /\ c.stage = "idle" => c = Idle
                        /\ c.stage = "validate" => c.op = "upload" /\ kind = "profile"
    <2> DEFINE e == [calls[s] EXCEPT !.stage = "validate"]
    <2>1. e \in Call /\ e.stage = "validate" /\ e.op = calls[s].op
        BY <1>1 DEF Call, Stages
    <2>2. CASE Goto(s, Idle)
        BY <2>2, IdleCall
    <2>3. CASE Goto(s, e) /\ calls[s].op = "upload" /\ kind = "profile"
        BY <2>1, <2>3
    <2> QED BY <1>1, <2>2, <2>3
            DEF CloseStream, InsertRecord, End, Stage, At, IInv, TypeOK, Kinds, CallTrue
<1>4. /\ calls' \in [Slots -> Call]
      /\ \A t \in Slots : calls'[t] = IF t = s THEN c ELSE calls[t]
    BY <1>3, CallsAre DEF IInv
<1>5. \A t \in Slots : calls'[t].stage \in {"idle", "validate"}
    BY <1>1, <1>3, <1>4 DEF IInv, OneOpens
<1>6. TypeOK'
    <2>1. object' \in {"none", "parts", "whole"}
        BY DEF CloseStream, InsertRecord, IInv, TypeOK
    <2> QED BY <1>2, <1>4, <2>1 DEF IInv, TypeOK, rest, file
<1>7. CallTrue(c)'
    <2>1. content' = content /\ (kind = "profile" => content = "clean")
        BY <1>2 DEF IInv, RecordTrue, rest, file
    <2>2. CASE c = Idle
        BY <2>2 DEF CallTrue, Idle
    <2>3. CASE c.stage = "validate" /\ c.op = "upload" /\ kind = "profile"
        BY <2>1, <2>3 DEF CallTrue
    <2> QED BY <1>3, <2>2, <2>3
<1>8. ASSUME NEW t \in Slots, t # s PROVE CallTrue(calls[t])'
    <2>1. PICK d \in Call : /\ calls[t] = d /\ calls'[t] = d /\ CallTrue(d)
                            /\ d.stage \in {"idle"}
        BY <1>1, <1>4, <1>8 DEF IInv, TypeOK, CallsTrue, OneOpens
    <2>2. CallTrue(d)'
        BY <2>1, <1>2 DEF CallTrue, rest, file
    <2> QED BY <2>1, <2>2 DEF CallTrue
<1>9. CallsTrue'
    <2>1. CallTrue(calls[s])'
        BY <1>4, <1>7 DEF CallTrue
    <2> QED BY <2>1, <1>8 DEF CallsTrue
<1>10. OneOpens'
    BY <1>2, <1>5 DEF OneOpens, Opening
<1>11. RecordTrue'
    BY <1>2 DEF IInv, RecordTrue, rest, file
<1>12. ClaimsCounted'
    <2>1. c.stage \notin Scan /\ record.scan \in Claimable
        BY <1>1, <1>3 DEF Scan, Claimable
    <2> QED BY <1>2, <1>3, <2>1, CountFalls, ScanningFinite
            DEF IInv, TypeOK, ClaimsCounted, rest
<1>13. ServedIsClean'
    BY <1>2 DEF IInv, ServedIsClean, rest, file
<1> QED BY <1>6, <1>9, <1>10, <1>11, <1>12, <1>13 DEF IInv

-----------------------------------------------------------------------------
(* The stages.                                                              *)

\* The end of a call, with what it writes.
LEMMA EndKeeps ==
    ASSUME IInv, NEW s \in Slots, End(s), calls[s].stage \notin {"idle"} \cup Opening,
           UNCHANGED <<tries, served, rest>>,
           object' \in {object, "none"},
           record' \in [state: States, scan: Scans], record'.state # "none",
           record'.state = "uploading" => record'.scan = "not_uploaded",
           record'.state = "aborted" => kind = "s3" /\ object = "none",
           record'.scan = "safe" => content = "clean",
           record'.scan \in Claimable =>
              record.scan \in Claimable \/ calls[s].stage \in Scan,
           content = "malformed" =>
              record'.scan \in {"not_uploaded", "rejected", "cancelled"}
    PROVE  IInv'
<1>1. record.state # "none"
    BY CallOf
<1>2. UNCHANGED <<kind, content>> /\ (object = "none" => object' = "none")
    BY DEF rest, file
<1>3. CallTrue(Idle)'
    BY <1>1, <1>2, IdleCall, TruthStays
<1>4. RecordTrue'
    BY <1>2 DEF IInv, RecordTrue
<1>5. ClaimsCounted'
    <2>1. Idle \in Call /\ Goto(s, Idle) /\ Idle.stage \notin Scan
        BY IdleCall DEF End, Scan
    <2>2. /\ Cardinality(Scanning') \in Nat
          /\ Cardinality(Scanning') <= Cardinality(Scanning)
          /\ calls[s].stage \in Scan => Cardinality(Scanning') = Cardinality(Scanning) - 1
        BY <2>1, CountFalls DEF IInv
    <2> QED BY <2>2, ScanningFinite DEF IInv, TypeOK, ClaimsCounted, rest
<1>6. Goto(s, Idle) /\ Idle.stage \notin Opening
    BY IdleCall DEF End, Opening
<1>7. /\ object' \in {"none", "parts", "whole"} /\ tries' \in Nat
      /\ retries' \in 0..MaxRetries /\ kills' \in 0..MaxKills /\ swept' \in Nat
      /\ served' \in BOOLEAN /\ (served' => served)
    BY DEF IInv, TypeOK, rest
<1> QED BY <1>1, <1>2, <1>3, <1>4, <1>5, <1>6, <1>7, IdleCall, StepKeeps

\* The end of a call that writes nothing.
LEMMA AnswerKeeps ==
    ASSUME IInv, NEW s \in Slots, End(s), calls[s].stage \notin {"idle"} \cup Opening,
           UNCHANGED <<tries, served, rest, record>>,
           object' \in {object, "none"}
    PROVE  IInv'
<1>1. record.state # "none"
    BY CallOf
<1> QED BY <1>1, EndKeeps DEF IInv, RecordTrue, TypeOK, Claimable

\* A call that goes on, the record as it was.
LEMMA NextStage ==
    ASSUME IInv, NEW s \in Slots, NEW c \in Call, Goto(s, c),
           calls[s].stage \notin {"idle"} \cup Opening, c.stage \notin Opening,
           UNCHANGED <<record, tries, served, rest>>,
           CallTrue(c)', c.stage \in Scan => calls[s].stage \in Scan,
           object' \in {"none", "parts", "whole"},
           kind = "s3" /\ object = "none" => object' = "none"
    PROVE  IInv'
<1>1. record.state # "none" /\ UNCHANGED <<kind, content>>
    BY CallOf DEF rest, file
<1>2. RecordTrue'
    BY <1>1 DEF IInv, RecordTrue
<1>3. ClaimsCounted'
    BY CountFalls, ScanningFinite DEF IInv, TypeOK, ClaimsCounted, rest
<1>4. /\ tries' \in Nat /\ retries' \in 0..MaxRetries /\ kills' \in 0..MaxKills
      /\ swept' \in Nat /\ served' \in BOOLEAN /\ (served' => served)
      /\ record' \in [state: States, scan: Scans] /\ record'.state # "none"
    BY <1>1 DEF IInv, TypeOK, rest
<1> QED BY <1>1, <1>2, <1>3, <1>4, StepKeeps

\* Stages that a call enters knowing nothing more.
Plain == {"inspect", "reject", "drop", "mark", "erase", "stop"}

\* A call goes on to a stage that claims nothing, and may take bytes away.
LEMMA PlainStage ==
    ASSUME IInv, NEW s \in Slots, NEW stage \in Plain, NEW state \in States,
           \/ Stage(s, stage)
           \/ Goto(s, [calls[s] EXCEPT !.stage = stage, !.state = state]),
           calls[s].stage \notin {"idle"} \cup Opening,
           UNCHANGED <<record, tries, served, rest>>,
           object' \in {"none", "parts", "whole"},
           kind = "s3" /\ object = "none" => object' = "none"
    PROVE  IInv'
<1>1. PICK c \in Call : Goto(s, c) /\ c.stage = stage /\ c.op = calls[s].op
    <2> DEFINE d == [calls[s] EXCEPT !.stage = stage]
               e == [calls[s] EXCEPT !.stage = stage, !.state = state]
    <2>1. d \in Call /\ d.stage = stage /\ d.op = calls[s].op
        BY CallOf DEF Call, Plain, Stages
    <2>2. e \in Call /\ e.stage = stage /\ e.op = calls[s].op
        BY CallOf DEF Call, Plain, Stages
    <2> QED BY <2>1, <2>2 DEF Stage
<1>2. CallTrue(c)'
    <2>1. (c.op = "scan" => content' # "malformed") /\ (c.op = "abort" => kind' = "s3")
        BY <1>1, CallOf DEF CallTrue, rest, file
    <2> QED BY <1>1, <2>1 DEF CallTrue, Plain
<1> QED BY <1>1, <1>2, NextStage DEF Plain, Opening, Scan

\* Calls that end with one update.
LEMMA EndsKeep ==
    ASSUME IInv, NEW s \in Slots,
           \/ ValidateProfile(s) \/ RejectObject(s) \/ FinishUpload(s)
           \/ DeleteAborted(s) \/ WriteAnswer(s) \/ EraseFile(s)
           \/ DeletePurged(s) \/ MarkDeleted(s)
    PROVE  IInv'
<1>1. /\ calls[s] \in Call /\ CallTrue(calls[s])
      /\ calls[s].stage \notin {"idle"} \cup Opening
      /\ End(s) /\ UNCHANGED <<tries, served, rest>>
      /\ object' \in {object, "none"}
    BY CallOf DEF ValidateProfile, RejectObject, FinishUpload, DeleteAborted, WriteAnswer,
                  EraseFile, DeletePurged, MarkDeleted, At, Opening
<1>2. CASE UNCHANGED record
    BY <1>1, <1>2, AnswerKeeps
<1>3. /\ record.state # "none"
      /\ record.state \in States /\ record.scan \in Scans
      /\ record.scan = "safe" => content = "clean"
      /\ content = "malformed" => record.scan \in {"not_uploaded", "rejected", "cancelled"}
    BY <1>1, CallOf DEF IInv, RecordTrue, TypeOK
<1>4. ASSUME NEW state \in States \ {"none", "uploading"}, NEW scan \in Scans,
             Write(state, scan),
             state = "aborted" => kind = "s3" /\ object = "none",
             scan = "safe" => content = "clean",
             scan \in Claimable => record.scan \in Claimable \/ calls[s].stage \in Scan,
             content = "malformed" => scan \in {"not_uploaded", "rejected", "cancelled"}
      PROVE  IInv'
    BY <1>1, <1>4, EndKeeps DEF Write
<1> USE DEF States, Scans
<1>5. CASE ValidateProfile(s)
    <2>1. content = "clean"
        BY <1>1, <1>5 DEF ValidateProfile, At, CallTrue
    <2> QED BY <1>2, <1>4, <1>5, <2>1 DEF ValidateProfile, Claimable
<1>6. CASE RejectObject(s)
    BY <1>2, <1>4, <1>6 DEF RejectObject, Claimable
<1>7. CASE FinishUpload(s)
    <2>1. content # "malformed"
        BY <1>1, <1>7 DEF FinishUpload, At, CallTrue
    <2>2. record.state = "uploading" => record.scan = "not_uploaded"
        BY DEF IInv, RecordTrue
    <2> QED BY <1>2, <1>4, <1>7, <2>1, <2>2 DEF FinishUpload, Claimable
<1>8. CASE DeleteAborted(s)
    <2>1. kind = "s3" /\ object = "none"
        BY <1>1, <1>8 DEF DeleteAborted, At, CallTrue
    <2> QED BY <1>2, <1>3, <1>4, <1>8, <2>1 DEF DeleteAborted
<1>9. CASE WriteAnswer(s)
    <2>1. /\ content # "malformed" /\ calls[s].stage \in Scan /\ calls[s].answer \in Answers
          /\ calls[s].answer = "safe" => content = "clean"
        BY <1>1, <1>9 DEF WriteAnswer, At, CallTrue, Scan, Call
    <2>2. CASE Write("safe", "safe") /\ content = "clean"
        BY <1>4, <2>1, <2>2 DEF Claimable
    <2>3. CASE Write("infected", "infected")
        BY <1>4, <2>1, <2>3 DEF Claimable
    <2>4. CASE Write("quarantined", "scan_failed") \/ Write("quarantined", "pending")
        BY <1>4, <2>1, <2>4 DEF Claimable
    <2> QED BY <1>2, <1>9, <2>1, <2>2, <2>3, <2>4 DEF WriteAnswer, Answers
<1>10. CASE EraseFile(s)
    BY <1>2, <1>3, <1>4, <1>10 DEF EraseFile
<1>11. CASE DeletePurged(s)
    BY <1>2, <1>3, <1>4, <1>11 DEF DeletePurged
<1>12. CASE MarkDeleted(s)
    BY <1>2, <1>3, <1>4, <1>12 DEF MarkDeleted
<1> QED BY <1>5, <1>6, <1>7, <1>8, <1>9, <1>10, <1>11, <1>12

\* Parts are joined, or an object deleted, before the record is written.
LEMMA PlainStages ==
    ASSUME IInv, NEW s \in Slots, FinalizeParts(s) \/ DeleteProjectObject(s)
    PROVE  IInv'
<1>1. /\ calls[s].stage \notin {"idle"} \cup Opening
      /\ UNCHANGED <<record, tries, served, rest>>
      /\ object' \in {"none", "parts", "whole"} /\ (object = "none" => object' = "none")
    BY DEF FinalizeParts, DeleteProjectObject, At, Opening, IInv, TypeOK
<1>2. CASE Stage(s, "inspect") \/ Stage(s, "mark")
    BY <1>1, <1>2, PlainStage DEF Plain, States
<1>3. CASE End(s) /\ object' = object
    BY <1>1, <1>3, AnswerKeeps
<1> QED BY <1>2, <1>3 DEF FinalizeParts, DeleteProjectObject

LEMMA InspectObjectKeeps ==
    ASSUME IInv, NEW s \in Slots, InspectObject(s)
    PROVE  IInv'
<1>1. /\ calls[s].stage \notin {"idle"} \cup Opening
      /\ UNCHANGED <<record, tries, served, rest>>
      /\ object' \in {object, "none"} /\ object' \in {"none", "parts", "whole"}
    BY DEF InspectObject, At, Opening, IInv, TypeOK
<1>2. CASE End(s)
    BY <1>1, <1>2, AnswerKeeps
<1>3. CASE Stage(s, "reject")
    BY <1>1, <1>3, PlainStage DEF Plain, States
<1>4. CASE Stage(s, "finish") /\ content # "malformed"
    <2>1. PICK c \in Call : Goto(s, c) /\ c.stage = "finish" /\ c.op = "complete"
        <3> DEFINE d == [calls[s] EXCEPT !.stage = "finish"]
        <3>1. d \in Call /\ d.stage = "finish" /\ d.op = "complete"
            BY CallOf DEF InspectObject, At, Call, Stages
        <3> QED BY <1>4, <3>1 DEF Stage
    <2>2. CallTrue(c)'
        BY <1>1, <1>4, <2>1 DEF CallTrue, rest, file
    <2> QED BY <1>1, <2>1, <2>2, NextStage DEF Opening, Scan
<1> QED BY <1>2, <1>3, <1>4 DEF InspectObject

LEMMA StopUploadKeeps ==
    ASSUME IInv, NEW s \in Slots, StopUpload(s)
    PROVE  IInv'
<1>1. /\ calls[s].stage \notin {"idle"} \cup Opening
      /\ UNCHANGED <<record, tries, served, rest>>
      /\ object' \in {object, "none"} /\ object' \in {"none", "parts", "whole"}
    BY DEF StopUpload, At, Opening, IInv, TypeOK
<1>2. CASE End(s)
    BY <1>1, <1>2, AnswerKeeps
<1>3. CASE object = "parts" /\ object' = "none" /\ Stage(s, "delete")
    <2>1. PICK c \in Call : Goto(s, c) /\ c.stage = "delete" /\ c.op = "abort"
        <3> DEFINE d == [calls[s] EXCEPT !.stage = "delete"]
        <3>1. d \in Call /\ d.stage = "delete" /\ d.op = "abort"
            BY CallOf DEF StopUpload, At, Call, Stages
        <3> QED BY <1>3, <3>1 DEF Stage
    <2>2. kind = "s3"
        BY CallOf DEF StopUpload, At, CallTrue
    <2>3. CallTrue(c)'
        BY <1>1, <1>3, <2>1, <2>2 DEF CallTrue, rest, file
    <2> QED BY <1>1, <2>1, <2>3, NextStage DEF Opening, Scan
<1> QED BY <1>2, <1>3 DEF StopUpload

\* The record was claimable, so every other scan has been declared stale.
LEMMA ClaimKeeps ==
    ASSUME IInv, NEW s \in Slots, Claim(s)
    PROVE  IInv'
<1>1. /\ calls[s].stage \notin {"idle"} \cup Opening /\ UNCHANGED <<object, served, rest>>
      /\ calls[s].op = "scan" /\ content # "malformed"
    BY CallOf DEF Claim, At, Opening, CallTrue
<1>2. CASE UNCHANGED <<record, tries>> /\ End(s)
    BY <1>1, <1>2, AnswerKeeps
<1>3. CASE /\ Here /\ record.scan = "pending"
           /\ Write(record.state, "scanning") /\ tries' = tries + 1 /\ Stage(s, "scan")
    <2>1. PICK c \in Call : Goto(s, c) /\ c.stage = "scan" /\ c.op = "scan"
        <3> DEFINE d == [calls[s] EXCEPT !.stage = "scan"]
        <3>1. d \in Call /\ d.stage = "scan" /\ d.op = "scan"
            BY <1>1, CallOf DEF Call, Stages
        <3> QED BY <1>3, <3>1 DEF Stage
    <2>2. CallTrue(c)'
        BY <1>1, <2>1 DEF CallTrue, rest, file
    <2>3. /\ record' \in [state: States, scan: Scans] /\ record'.scan = "scanning"
          /\ record'.state = record.state /\ record.state \notin {"none", "uploading"}
        BY <1>3 DEF Write, IInv, TypeOK, RecordTrue, Scans, Here, Gone
    <2>4. RecordTrue'
        BY <1>1, <2>3 DEF IInv, RecordTrue, rest, file
    <2>5. ClaimsCounted'
        BY <1>1, <1>3, <2>1, <2>3, CountRises, ScanningFinite
           DEF IInv, TypeOK, ClaimsCounted, Claimable, rest
    <2>6. /\ tries' \in Nat /\ retries' \in 0..MaxRetries /\ kills' \in 0..MaxKills
          /\ swept' \in Nat /\ served' \in BOOLEAN /\ (served' => served)
          /\ object' \in {"none", "parts", "whole"} /\ object' = object
          /\ UNCHANGED <<kind, content>>
        BY <1>1, <1>3 DEF IInv, TypeOK, rest, file
    <2> QED BY <2>1, <2>2, <2>3, <2>4, <2>5, <2>6, StepKeeps DEF Opening
<1> QED BY <1>2, <1>3 DEF Claim

\* A scan says safe of clean bytes only.
LEMMA ScanObjectKeeps ==
    ASSUME IInv, NEW s \in Slots, ScanObject(s)
    PROVE  IInv'
<1>1. /\ calls[s].stage \notin {"idle"} \cup Opening /\ calls[s].stage \in Scan
      /\ UNCHANGED <<object, record, tries, served, rest>>
      /\ calls[s].op = "scan" /\ content # "malformed" /\ calls[s] \in Call
      /\ content \in {"clean", "infected", "malformed"}
    BY CallOf DEF ScanObject, At, Opening, CallTrue, Scan, IInv, TypeOK
<1>2. CASE End(s)
    BY <1>1, <1>2, AnswerKeeps
<1>3. CASE \E a \in {IF content = "infected" THEN "infected" ELSE "safe",
                     "unavailable", "limit"} :
              Goto(s, [calls[s] EXCEPT !.stage = "write", !.answer = a])
    <2>1. PICK a \in Answers : /\ Goto(s, [calls[s] EXCEPT !.stage = "write", !.answer = a])
                               /\ a = "safe" => content = "clean"
        BY <1>1, <1>3 DEF Answers
    <2>2. PICK c \in Call : Goto(s, c) /\ c.stage = "write" /\ c.op = "scan" /\ c.answer = a
        <3> DEFINE d == [calls[s] EXCEPT !.stage = "write", !.answer = a]
        <3>1. d \in Call /\ d.stage = "write" /\ d.op = "scan" /\ d.answer = a
            BY <1>1 DEF Call, Stages
        <3> QED BY <2>1, <3>1
    <2>3. CallTrue(c)'
        BY <1>1, <2>1, <2>2 DEF CallTrue, rest, file
    <2> QED BY <1>1, <2>2, <2>3, NextStage DEF Opening, IInv, TypeOK
<1> QED BY <1>2, <1>3 DEF ScanObject

LEMMA CancelKeeps ==
    ASSUME IInv, NEW s \in Slots, DropObject(s) \/ MarkCancelled(s)
    PROVE  IInv'
<1>1. /\ calls[s].stage \notin {"idle"} \cup Opening /\ calls[s].stage \notin Scan
      /\ UNCHANGED <<tries, served, rest>>
      /\ calls[s].op = "cancel" /\ calls[s] \in Call /\ record.state # "none"
      /\ object' \in {object, "none"} /\ object' \in {"none", "parts", "whole"}
    BY CallOf DEF DropObject, MarkCancelled, At, Opening, Scan, IInv, TypeOK
<1>2. CASE DropObject(s)
    <2>1. CASE End(s)
        BY <1>1, <1>2, <2>1, AnswerKeeps DEF DropObject
    <2>2. CASE Goto(s, [calls[s] EXCEPT !.stage = "mark", !.state = "none"])
        BY <1>1, <1>2, <2>2, PlainStage DEF DropObject, Plain, States
    <2> QED BY <1>2, <2>1, <2>2 DEF DropObject
<1>3. CASE MarkCancelled(s) /\ UNCHANGED record
    <2>1. CASE End(s)
        BY <1>1, <1>3, <2>1, AnswerKeeps DEF MarkCancelled
    <2>2. CASE Stage(s, "erase")
        BY <1>1, <1>3, <2>2, PlainStage DEF MarkCancelled, Plain, States
    <2> QED BY <1>3, <2>1, <2>2 DEF MarkCancelled
<1>4. CASE MarkCancelled(s) /\ Write("cancelled", "cancelled")
    <2>1. PICK c \in Call : Goto(s, c) /\ c.stage \in {"idle", "erase"}
                            /\ c.op \in {"open", "cancel"}
        <3> DEFINE d == [calls[s] EXCEPT !.stage = "erase"]
        <3>1. d \in Call /\ d.stage = "erase" /\ d.op = "cancel"
            BY <1>1 DEF Call, Stages
        <3>2. Idle.op = "open"
            BY DEF Idle
        <3> QED BY <1>4, <3>1, <3>2, IdleCall DEF MarkCancelled, End, Stage
    <2>2. CallTrue(c)'
        BY <2>1 DEF CallTrue
    <2>3. /\ record' \in [state: States, scan: Scans] /\ record'.scan = "cancelled"
          /\ record'.state = "cancelled"
        BY <1>4 DEF Write, States, Scans
    <2>4. RecordTrue'
        BY <1>1, <2>3 DEF IInv, RecordTrue, rest, file
    <2>5. ClaimsCounted'
        <3>1. c.stage \notin Scan
            BY <2>1 DEF Scan
        <3> QED BY <1>1, <2>1, <2>3, <3>1, CountFalls, ScanningFinite
                DEF IInv, TypeOK, ClaimsCounted, Claimable, rest
    <2>6. /\ tries' \in Nat /\ retries' \in 0..MaxRetries /\ kills' \in 0..MaxKills
          /\ swept' \in Nat /\ served' \in BOOLEAN /\ (served' => served)
          /\ UNCHANGED <<kind, content>>
        BY <1>1 DEF IInv, TypeOK, rest, file
    <2> QED BY <1>1, <2>1, <2>2, <2>3, <2>4, <2>5, <2>6, StepKeeps DEF Opening
<1> QED BY <1>2, <1>3, <1>4 DEF MarkCancelled

LEMMA PurgeObjectKeeps ==
    ASSUME IInv, NEW s \in Slots, PurgeObject(s)
    PROVE  IInv'
<1>1. PICK c \in Call : Goto(s, c) /\ c.stage = "delete" /\ c.op = "purge"
    <2> DEFINE d == [calls[s] EXCEPT !.stage = "delete", !.state = "none"]
    <2>1. d \in Call /\ d.stage = "delete" /\ d.op = "purge"
        BY CallOf DEF PurgeObject, At, Call, Stages, States
    <2> QED BY <2>1 DEF PurgeObject
<1>2. CallTrue(c)'
    BY <1>1 DEF CallTrue
<1> QED BY <1>1, <1>2, NextStage DEF PurgeObject, At, Opening, Scan, IInv, TypeOK

LEMMA ServeKeeps ==
    ASSUME IInv, NEW s \in Slots, Serve(s)
    PROVE  IInv'
<1>1. /\ content = "clean" /\ record.state # "none"
      /\ UNCHANGED <<kind, content, object, record, tries, swept, retries, kills>>
      /\ served' \in BOOLEAN /\ Goto(s, Idle)
    BY CallOf DEF Serve, At, Opening, CallTrue, rest, file, End, IInv, TypeOK
<1>2. Idle.stage \notin Opening \cup Scan
    BY IdleCall DEF Opening, Scan
<1> QED BY <1>1, <1>2, IdleCall, StageKeeps DEF IInv, TypeOK

-----------------------------------------------------------------------------
(* Kills, the sweep, the retry.                                             *)

\* A killed call is one scan less; its claim stays until it is swept.
LEMMA KillKeeps ==
    ASSUME IInv, NEW s \in Slots, Kill(s)
    PROVE  IInv'
<1>1. /\ UNCHANGED <<kind, content, object, record, tries, retries, swept, served>>
      /\ kills' \in 0..MaxKills /\ Goto(s, Idle)
    BY UploadAssumption DEF Kill, file, End, IInv, TypeOK
<1>2. /\ calls' \in [Slots -> Call]
      /\ \A t \in Slots : calls'[t] = IF t = s THEN Idle ELSE calls[t]
    BY <1>1, IdleCall, CallsAre DEF IInv
<1>3. ASSUME NEW t \in Slots PROVE CallTrue(calls[t])'
    <2>1. PICK d \in Call : calls'[t] = d /\ CallTrue(d)
        BY <1>2, IdleCall DEF IInv, TypeOK, CallsTrue
    <2> QED BY <1>1, <2>1 DEF CallTrue
<1>4. OneOpens'
    BY <1>1, <1>2, IdleCall DEF IInv, OneOpens, Opening
<1>5. ClaimsCounted'
    <2>1. Idle.stage \notin Scan
        BY IdleCall DEF Scan
    <2> QED BY <1>1, <2>1, IdleCall, CountFalls, ScanningFinite DEF IInv, TypeOK, ClaimsCounted
<1> QED BY <1>1, <1>2, <1>3, <1>4, <1>5
        DEF IInv, TypeOK, CallsTrue, RecordTrue, ServedIsClean

\* The record changes, the calls do not.
LEMMA OfficeKeeps ==
    ASSUME IInv, SweepStale \/ RetryScan
    PROVE  IInv'
<1>1. /\ UNCHANGED <<kind, content, object, kills, served, calls>>
      /\ record' \in [state: States, scan: Scans] /\ record'.state # "none"
      /\ record.state # "none"
      /\ tries' \in Nat /\ retries' \in 0..MaxRetries /\ swept' \in Nat
    BY UploadAssumption
       DEF SweepStale, RetryScan, Write, States, Scans, IInv, TypeOK, file, Here, Gone
<1>2. CallsTrue'
    <2>1. ASSUME NEW t \in Slots PROVE CallTrue(calls[t])'
        <3>1. PICK d \in Call : calls[t] = d /\ CallTrue(d)
            BY DEF IInv, TypeOK, CallsTrue
        <3>2. CallTrue(d)'
            BY <1>1, <3>1, TruthStays
        <3> QED BY <1>1, <3>1, <3>2 DEF CallTrue
    <2> QED BY <2>1 DEF CallsTrue
<1>3. RecordTrue'
    BY <1>1 DEF SweepStale, RetryScan, Write, IInv, RecordTrue, Here, Gone
<1>4. ClaimsCounted'
    <2>1. Scanning' = Scanning
        BY <1>1 DEF Scanning
    <2>2. (swept' = swept /\ record.scan = "scan_failed") \/ swept' = swept + 1
        BY DEF SweepStale, RetryScan
    <2> QED BY <2>1, <2>2, ScanningFinite DEF IInv, TypeOK, ClaimsCounted, Claimable
<1> QED BY <1>1, <1>2, <1>3, <1>4 DEF IInv, TypeOK, OneOpens, ServedIsClean

-----------------------------------------------------------------------------
(* The invariant.                                                           *)

\* There is nothing before the first request.
LEMMA InitHolds == Init => IInv
<1> SUFFICES ASSUME Init PROVE IInv
    OBVIOUS
<1>1. TypeOK
    <2>1. content \in {"clean", "infected", "malformed"}
        BY DEF Init, Kinds
    <2>2. /\ kind \in Kinds /\ record \in [state: States, scan: Scans]
          /\ calls \in [Slots -> Call]
        BY IdleCall DEF Init, States, Scans
    <2>3. /\ object = "none" /\ tries = 0 /\ retries = 0 /\ kills = 0 /\ swept = 0
          /\ served = FALSE
        BY DEF Init
    <2>4. 0 \in 0..MaxRetries /\ 0 \in 0..MaxKills
        BY UploadAssumption
    <2> QED BY <2>1, <2>2, <2>3, <2>4 DEF TypeOK
<1>2. \A s \in Slots : calls[s] = Idle
    BY DEF Init
<1>3. CallsTrue
    BY <1>2, IdleCall DEF CallsTrue
<1>4. OneOpens
    BY <1>2, IdleCall DEF OneOpens, Opening
<1>5. RecordTrue
    BY DEF Init, RecordTrue, Kinds
<1>6. ClaimsCounted
    <2>1. Scanning = {}
        BY <1>2, IdleCall DEF Scanning
    <2>2. Cardinality(Scanning) = 0
        BY <2>1, FS_EmptySet
    <2> QED BY <2>2 DEF Init, ClaimsCounted, Claimable
<1>7. ServedIsClean
    BY DEF Init, ServedIsClean
<1> QED BY <1>1, <1>3, <1>4, <1>5, <1>6, <1>7 DEF IInv

\* Every step keeps the invariant.
LEMMA StepHolds == IInv /\ [Next]_vars => IInv'
<1> SUFFICES ASSUME IInv, [Next]_vars PROVE IInv'
    OBVIOUS
<1>1. ASSUME NEW s \in Slots, Continue(s) PROVE IInv'
    BY <1>1, RecordAppears, EndsKeep, PlainStages, InspectObjectKeeps, StopUploadKeeps,
       ClaimKeeps, ScanObjectKeeps, CancelKeeps, PurgeObjectKeeps, ServeKeeps DEF Continue
<1>2. ASSUME NEW s \in Slots, UploadFile(s) \/ InitiateMultipart(s) \/ Kill(s) PROVE IInv'
    BY <1>2, OpeningKeeps, KillKeeps
<1>3. ASSUME NEW s \in Slots,
             \/ CompleteMultipart(s) \/ AbortMultipart(s) \/ ReadForScan(s)
             \/ CancelMedia(s) \/ PurgeExpired(s) \/ PurgeProject(s) \/ OpenMedia(s)
      PROVE  IInv'
    BY <1>3, RequestsKeep
<1>4. CASE SweepStale \/ RetryScan
    BY <1>4, OfficeKeeps
<1>5. CASE UNCHANGED vars
    <2>1. Scanning' = Scanning
        BY <1>5 DEF vars, Scanning
    <2> QED BY <1>5, <2>1 DEF vars, IInv, TypeOK, CallsTrue, CallTrue, OneOpens, RecordTrue,
                              ClaimsCounted, ServedIsClean
<1> QED BY <1>1, <1>2, <1>3, <1>4, <1>5 DEF Next

\* The inductive invariant holds in every behaviour.
THEOREM Invariance == Spec => []IInv
BY InitHolds, StepHolds, PTL DEF Spec

\* Every variable keeps its type.
THEOREM TypeCorrect == Spec => []TypeOK
<1>1. IInv => TypeOK
    BY DEF IInv
<1> QED BY <1>1, Invariance, PTL

\* Nothing that the scanner has not found clean is ever handed out: whoever
\* races the verdict, a link is given for a clean file.
THEOREM OnlyCleanIsServed == Spec => []ServedIsClean
<1>1. IInv => ServedIsClean
    BY DEF IInv
<1> QED BY <1>1, Invariance, PTL

\* Two workers scan one upload together only after a claim was declared stale,
\* and then no more of them than claims declared stale and one.
THEOREM ScansExclude == Spec => []OneScanUnlessStale
<1>1. IInv => OneScanUnlessStale
    BY ScanningFinite DEF IInv, TypeOK, ClaimsCounted, OneScanUnlessStale
<1> QED BY <1>1, Invariance, PTL

\* An aborted upload has no object, whichever completion raced the abort.
THEOREM AbortIsClean == Spec => []AbortedLeavesNothing
<1>1. IInv => AbortedLeavesNothing
    BY DEF IInv, RecordTrue, AbortedLeavesNothing
<1> QED BY <1>1, Invariance, PTL

\* A verdict goes back to pending by the answer of a scan only.
THEOREM VerdictsStand == Spec => OnlyScansReopen
<1> DEFINE A == record.scan \in Verdicts /\ record'.scan = "pending"
                   => \E s \in Slots : At(s, "scan", "write")
<1>1. IInv /\ [Next]_vars => [A]_vars
    <2> SUFFICES ASSUME IInv, Next, record.scan \in Verdicts, record'.scan = "pending"
                 PROVE  \E s \in Slots : At(s, "scan", "write")
        OBVIOUS
    <2>1. record.state \notin {"none", "uploading"} /\ record.scan # "pending"
        BY DEF IInv, RecordTrue, Verdicts
    <2>2. ASSUME NEW s \in Slots PROVE ~CloseStream(s) /\ ~InsertRecord(s) /\ ~FinishUpload(s)
        BY <2>1, CallOf DEF CloseStream, InsertRecord, FinishUpload, At, CallTrue
    <2>3. ASSUME NEW s \in Slots,
                 \/ Continue(s) \/ Kill(s) \/ UploadFile(s) \/ InitiateMultipart(s)
                 \/ CompleteMultipart(s) \/ AbortMultipart(s) \/ ReadForScan(s)
                 \/ CancelMedia(s) \/ PurgeExpired(s) \/ PurgeProject(s) \/ OpenMedia(s)
          PROVE  WriteAnswer(s)
        BY <2>1, <2>2, <2>3
           DEF Continue, Kill, UploadFile, InitiateMultipart, CompleteMultipart,
               AbortMultipart, ReadForScan, CancelMedia, PurgeExpired, PurgeProject,
               OpenMedia, ValidateProfile, FinalizeParts, InspectObject, RejectObject,
               StopUpload, DeleteAborted, Claim, ScanObject, DropObject, MarkCancelled,
               EraseFile, PurgeObject, DeletePurged, DeleteProjectObject, MarkDeleted,
               Serve, Write
    <2>4. ~SweepStale /\ ~RetryScan
        BY <2>1 DEF SweepStale, RetryScan, Write, Verdicts
    <2> QED BY <2>3, <2>4 DEF Next, WriteAnswer
<1> QED BY <1>1, Invariance, PTL DEF Spec, OnlyScansReopen
=============================================================================
