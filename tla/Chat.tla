------------------------------- MODULE Chat -------------------------------
(***************************************************************************)
(* The conversation of one project, seen from one author and one reader:   *)
(* messages sent through Socket.IO or the REST fallback and retried, read  *)
(* receipts, the pages of the history, view-once media and the ordinary    *)
(* links to its file, and a report on the author with the ban that may     *)
(* follow.                                                                 *)
(*   A call is a slot; a stage of it is the database or Socket.IO          *)
(* operation that comes next.  Several workers serve the calls and the     *)
(* sockets, and any of them may stop at any time.  What the reader and the *)
(* administrators do in one behaviour is its scene: the parts of the state *)
(* the scenes touch are disjoint.                                          *)
(***************************************************************************)
EXTENDS Integers, Sequences, FiniteSets

CONSTANTS
    Slots,      \* calls that may be in flight together
    Texts,      \* client message ids of the author's text messages
    Onces,      \* client message ids of the author's view-once messages
    PageSize,   \* messages on a page of the history
    RateLimit,  \* CHAT_MESSAGE_RATE_LIMIT
    MaxClock,   \* bound: distinct values of created_at
    MaxLinks,   \* bound: links issued for one view-once message
    MaxRetried  \* bound: texts in flight or saved while receipts are watched

ASSUME ChatAssumption ==
    /\ IsFiniteSet(Slots) /\ Slots # {}
    /\ IsFiniteSet(Texts \cup Onces) /\ Texts # {}
    /\ Texts \cap Onces = {}
    /\ PageSize \in Nat \ {0} /\ RateLimit \in Nat \ {0}
    /\ MaxClock \in Nat /\ MaxLinks \in Nat /\ MaxRetried \in Nat

Keys    == Texts \cup Onces
\* A view-once video is stored in GridFS ("once") or, uploaded straight
\* there, in S3 ("direct").
Watched == {"once", "direct"}
Scenes  == {"history", "receipts", "report"} \cup Watched
Ops     == {"none", "socket", "rest", "stream", "link", "connect", "decide"}
Stages  == {"idle", "access", "rate", "lookup", "attach", "insert", "emit",
            "mark", "find", "upload", "open", "show", "look", "grant",
            "account", "enter", "report", "apply", "record", "audit", "kick"}
Actions == {"warn", "temporary_suspend", "permanent_block", "dismiss"}
Bans    == {"temporary_suspend", "permanent_block"}
Closed  == {"resolved", "dismissed"}

VARIABLES
    scene,     \* what the others do in this behaviour
    project,   \* the project's status, as the chat tells it apart
    messages,  \* the messages saved, in the order of their insertion
    clock,     \* created_at of the latest message built
    used,      \* sends counted in the current window of the rate limit
    told,      \* message ids whose author was answered success
    page,      \* the reader's walk back through the history
    report,    \* the report on the author
    banned,    \* users.is_banned of the author
    lifted,    \* history: was the last ban lifted by ban_user?
    online,    \* is a socket of the author, on any worker, in its user room?
    calls

vars == <<scene, project, messages, clock, used, told, page, report, banned,
          lifted, online, calls>>
sending  == <<clock, used, told>>
account  == <<banned, lifted, online>>
others   == <<scene, project, page, report, account>>
watching == <<scene, project, messages, sending>>

Message == [key: Keys, stamp: 0..MaxClock, read: BOOLEAN,
            status: {"sent", "delivered", "seen"},
            once: {"plain", "unopened", "reserved", "lapsed", "opened"},
            link: 0..MaxLinks, shown: Nat,
            linked: BOOLEAN]   \* was an ordinary link to its file given out?
Call == [op: Ops, stage: Stages, key: Keys \cup {"none"}, at: Nat,
         action: Actions]
Idle == [op |-> "none", stage |-> "idle", key |-> "none", at |-> 0,
         action |-> "warn"]
NoPage == [walk |-> "off", before |-> 0, shown |-> {}, base |-> {}]

TypeOK ==
    /\ scene \in Scenes
    /\ project \in {"open", "completed", "revoked", "ended"}
    /\ messages \in Seq(Message)
    /\ clock \in 0..MaxClock
    /\ used \in 0..RateLimit + 1
    /\ told \subseteq Keys
    /\ page \in [walk: {"off", "on", "end"}, before: 0..MaxClock + 1,
                 shown: SUBSET (1..Len(messages)),
                 base: SUBSET (1..Len(messages))]
    /\ report \in [status: {"none", "open"} \cup Closed,
                   decision: Actions \cup {"none"}]
    /\ banned \in BOOLEAN /\ lifted \in BOOLEAN /\ online \in BOOLEAN
    /\ calls \in [Slots -> Call]

Init ==
    /\ scene \in Scenes
    /\ project = "open"
    /\ messages = <<>>
    /\ clock = 0
    /\ used = 0
    /\ told = {}
    /\ page = NoPage
    /\ report = [status |-> "none", decision |-> "none"]
    /\ banned = FALSE
    /\ lifted = FALSE
    /\ online = TRUE
    /\ calls = [s \in Slots |-> Idle]

Goto(s, c) == calls' = [calls EXCEPT ![s] = c]
Stage(s, stage) == Goto(s, [calls[s] EXCEPT !.stage = stage])
End(s) == Goto(s, Idle)
At(s, ops, stage) == calls[s].op \in ops /\ calls[s].stage = stage
Saved(k) == {i \in DOMAIN messages : messages[i].key = k}

-----------------------------------------------------------------------------
(* Sending a message.                                                      *)

Doors == {"socket", "rest"}
Unsent == {k \in Texts : /\ Saved(k) = {}
                         /\ \A s \in Slots : calls[s].key # k}
Retried == {k \in Texts : k \in Unsent => Cardinality(Texts \ Unsent) < MaxRetried}
Sends == CASE scene = "receipts" -> Doors \X Retried
           [] scene = "history" -> {"rest"} \X Unsent
           [] scene \in Watched -> {"socket"} \X Onces
           [] OTHER -> {}

\* A first attempt, or a retry, with the message id the client chose.  An
\* event needs a socket, and the dependency of the endpoint an account that
\* is not banned.  Only the socket takes attachments.
SendMessage(s, door, k) ==
    /\ calls[s] = Idle
    /\ IF door = "socket" THEN online ELSE ~banned /\ k \in Texts
    /\ Goto(s, [Idle EXCEPT !.op = door, !.stage = "access", !.key = k])
    /\ UNCHANGED <<messages, sending, others>>

\* _can_access_request and _chat_is_open; _conversation and its 409.
CheckOpen(s) ==
    /\ At(s, Doors, "access")
    /\ IF project = "open" THEN Stage(s, "rate") ELSE End(s)
    /\ UNCHANGED <<messages, sending, others>>

\* INCR of the window's counter, which counts the refused sends too; above
\* the limit its value makes no difference.  Without Redis, or above the
\* limit of the whole room, which counts what others send: refused.
AllowEvent(s) ==
    /\ At(s, Doors, "rate")
    /\ \/ /\ used' = IF used > RateLimit THEN used ELSE used + 1
          /\ IF used < RateLimit THEN Stage(s, "lookup") \/ End(s) ELSE End(s)
       \/ End(s) /\ UNCHANGED used
    /\ UNCHANGED <<messages, clock, told, others>>

NewWindow ==
    /\ used > 0
    /\ used' = 0
    /\ UNCHANGED <<messages, clock, told, others, calls>>

\* created_at is read from the clock when the document is built; only the
\* history tells dates apart.
Build(s) ==
    \E now \in IF scene = "history" THEN {clock, clock + 1} \cap 0..MaxClock
               ELSE {clock} :
        /\ clock' = now
        /\ Goto(s, [calls[s] EXCEPT !.stage = "insert", !.at = now])

FindDuplicate(s) ==
    LET k == calls[s].key IN
    /\ At(s, Doors, "lookup")
    /\ IF Saved(k) # {}
       THEN told' = told \cup {k} /\ End(s) /\ UNCHANGED clock
       ELSE /\ IF k \in Onces
               THEN Stage(s, "attach") /\ UNCHANGED clock
               ELSE Build(s)
            /\ UNCHANGED told
    /\ UNCHANGED <<messages, used, others>>

\* The upload must be the author's, of this project, and safe.
CheckAttachment(s) ==
    /\ At(s, Doors, "attach")
    /\ \/ Build(s)
       \/ End(s) /\ UNCHANGED clock
    /\ UNCHANGED <<messages, used, told, others>>

\* Mutant: the state of view-once media is left for its opening to set.
NewMessageUnset(s) ==
    [key |-> calls[s].key, stamp |-> calls[s].at, read |-> FALSE,
     status |-> "sent", link |-> 0, shown |-> 0, linked |-> FALSE,
     once |-> "unset"]

NewMessage(s) ==
    [key |-> calls[s].key, stamp |-> calls[s].at, read |-> FALSE,
     status |-> "sent", link |-> 0, shown |-> 0, linked |-> FALSE,
     once |-> IF calls[s].key \in Onces THEN "unopened" ELSE "plain"]

\* Mutant: no unique index on the client message id.
InsertAnyway(s) ==
    /\ At(s, Doors, "insert")
    /\ messages' = Append(messages, NewMessage(s))
    /\ Goto(s, [calls[s] EXCEPT !.stage = "emit", !.at = Len(messages')])
    /\ UNCHANGED <<sending, others>>

\* uq_message_client_id decides.  The insertion may fail, and its answer may
\* be lost: the author is then told that it is safe to retry.
InsertMessage(s) ==
    LET k == calls[s].key IN
    /\ At(s, Doors, "insert")
    /\ \/ /\ Saved(k) # {}
          /\ told' = told \cup {k}
          /\ End(s) /\ UNCHANGED messages
       \/ /\ Saved(k) = {}
          /\ messages' = Append(messages, NewMessage(s))
          /\ \/ Goto(s, [calls[s] EXCEPT !.stage = "emit",
                            !.at = Len(messages')])
             \/ End(s)
          /\ UNCHANGED told
       \/ End(s) /\ UNCHANGED <<messages, told>>
    /\ UNCHANGED <<clock, used, others>>

\* A broadcast that fails is a warning on the socket, an error over REST.
EmitMessage(s) ==
    LET k == calls[s].key IN
    /\ At(s, Doors, "emit")
    /\ \/ calls[s].op = "socket" /\ Stage(s, "mark") /\ UNCHANGED told
       \/ End(s) /\ told' = told \cup {k}
       \/ calls[s].op = "rest" /\ End(s) /\ UNCHANGED told
    /\ UNCHANGED <<messages, clock, used, others>>

\* By _id alone, whatever the reader did meanwhile; the update and the last
\* broadcast may fail.
MarkDelivered(s) ==
    /\ At(s, {"socket"}, "mark")
    /\ \/ messages' = [messages EXCEPT ![calls[s].at].status = "delivered"]
       \/ UNCHANGED messages
    /\ told' \in {told, told \cup {calls[s].key}}
    /\ End(s)
    /\ UNCHANGED <<clock, used, others>>

-----------------------------------------------------------------------------
(* The reader: receipts and the history.                                   *)

MarkRead ==
    /\ scene = "receipts" /\ project # "ended"
    /\ \E i \in DOMAIN messages : ~messages[i].read
    /\ messages' = [i \in DOMAIN messages |->
                       IF messages[i].read THEN messages[i]
                       ELSE [messages[i] EXCEPT !.read = TRUE,
                                                !.status = "seen"]]
    /\ UNCHANGED <<sending, others, calls>>

OpenHistory ==
    /\ scene = "history" /\ page.walk # "on"
    /\ page' = [walk |-> "on", before |-> MaxClock + 1, shown |-> {},
                base |-> DOMAIN messages]
    /\ UNCHANGED <<watching, report, account, calls>>

Older == {i \in DOMAIN messages : messages[i].stamp < page.before}

\* The n newest of a set of messages; equal stamps come in any order.
Newest(S, n) ==
    {P \in SUBSET S :
        /\ Cardinality(P) = IF Cardinality(S) < n THEN Cardinality(S) ELSE n
        /\ \A i \in P, j \in S \ P : messages[i].stamp >= messages[j].stamp}
Oldest(P) == CHOOSE x \in {messages[i].stamp : i \in P} :
                 \A i \in P : x <= messages[i].stamp

\* Mutant: the cursor is taken before the extra message is cut off.
GetPageAtExtra ==
    /\ page.walk = "on" /\ project \in {"open", "completed"}
    /\ \E P \in Newest(Older, PageSize), Q \in Newest(Older, PageSize + 1) :
        /\ P \subseteq Q
        /\ page' = [page EXCEPT
               !.shown = @ \cup P,
               !.before = IF P = Q THEN @ ELSE Oldest(Q),
               !.walk = IF P = Q THEN "end" ELSE @]
    /\ UNCHANGED <<watching, report, account, calls>>

\* limit + 1 messages are read; the extra one only says that there is more.
GetPage ==
    /\ page.walk = "on" /\ project \in {"open", "completed"}
    /\ \E P \in Newest(Older, PageSize) :
        page' = [page EXCEPT
            !.shown = @ \cup P,
            !.before = IF P = Older THEN @ ELSE Oldest(P),
            !.walk = IF P = Older THEN "end" ELSE @]
    /\ UNCHANGED <<watching, report, account, calls>>

\* Media access revoked: an empty history; not a chat status: refused.
GetNothing ==
    /\ page.walk = "on" /\ project \in {"revoked", "ended"}
    /\ page' = NoPage
    /\ UNCHANGED <<watching, report, account, calls>>

\* External: the project's lifecycle closes the chat.
CloseChat ==
    /\ project = "open" /\ scene # "report"
    /\ project' \in {"completed", "revoked", "ended"}
    /\ UNCHANGED <<scene, messages, sending, page, report, account, calls>>

-----------------------------------------------------------------------------
(* View-once media.                                                        *)

SetMessage(i, m) == messages' = [messages EXCEPT ![i] = m]

\* consume_view_once: one conditional update reserves the message for a new
\* link, whose hash replaces that of the lapsed one.
ReserveOnce(i) ==
    /\ scene \in Watched /\ project # "ended"
    /\ messages[i].once \in {"unopened", "lapsed"}
    /\ messages[i].link < MaxLinks
    /\ SetMessage(i, [messages[i] EXCEPT !.once = "reserved", !.link = @ + 1])
    /\ UNCHANGED <<sending, others, calls>>

\* view_once_capability_expires_at passes.
LapseLink(i) ==
    /\ messages[i].once = "reserved"
    /\ SetMessage(i, [messages[i] EXCEPT !.once = "lapsed"])
    /\ UNCHANGED <<sending, others, calls>>

\* A link is redeemed, perhaps again; "at" is the number of the link.
StreamOnce(s, i, link) ==
    /\ calls[s] = Idle
    /\ link \in 1..messages[i].link
    /\ Goto(s, [Idle EXCEPT !.op = "stream", !.stage = "find",
                   !.key = messages[i].key, !.at = link])
    /\ UNCHANGED <<messages, sending, others>>

Redeemable(s, i) ==
    /\ messages[i].key = calls[s].key
    /\ messages[i].once = "reserved" /\ messages[i].link = calls[s].at

FindReserved(s) ==
    /\ At(s, {"stream"}, "find")
    /\ IF \E i \in DOMAIN messages : Redeemable(s, i)
       THEN Stage(s, "upload") ELSE End(s)
    /\ UNCHANGED <<messages, sending, others>>

CheckUpload(s) ==
    /\ At(s, {"stream"}, "upload")
    /\ \/ Stage(s, "open")
       \/ End(s)
    /\ UNCHANGED <<messages, sending, others>>

\* Mutant: the reservation found before is not checked again.
OpenFound(s) ==
    /\ At(s, {"stream"}, "open")
    /\ \E i \in Saved(calls[s].key) :
        SetMessage(i, [messages[i] EXCEPT !.once = "opened"])
    /\ Stage(s, "show")
    /\ UNCHANGED <<sending, others>>

OpenOnce(s) ==
    /\ At(s, {"stream"}, "open")
    /\ \/ \E i \in DOMAIN messages :
            /\ Redeemable(s, i)
            /\ SetMessage(i, [messages[i] EXCEPT !.once = "opened"])
            /\ Stage(s, "show")
       \/ /\ \A i \in DOMAIN messages : ~Redeemable(s, i)
          /\ End(s) /\ UNCHANGED messages
    /\ UNCHANGED <<sending, others>>

\* The broadcast or the store may fail: the media is then lost.
Show(s) ==
    /\ At(s, {"stream"}, "show")
    /\ \/ \E i \in Saved(calls[s].key) :
            SetMessage(i, [messages[i] EXCEPT !.shown = @ + 1])
       \/ UNCHANGED messages
    /\ End(s)
    /\ UNCHANGED <<sending, others>>

\* The reader asks for an ordinary link to the file of a message, whose name is
\* known once the message is sent.  Of the
\* doors to a file in S3, get_s3_file looks for a view-once message of it and
\* create_s3_media_link does not; create_media_link, to GridFS, does.
AskForLink(s, i, checked) ==
    /\ scene \in Watched /\ calls[s] = Idle
    /\ messages[i].once # "plain"
    /\ scene = "once" => checked
    /\ Goto(s, [Idle EXCEPT !.op = "link", !.key = messages[i].key,
                   !.stage = IF checked THEN "look" ELSE "grant"])
    /\ UNCHANGED <<messages, sending, others>>

LookForOnce(s) ==
    /\ At(s, {"link"}, "look")
    /\ IF \E i \in Saved(calls[s].key) : messages[i].once # "plain"
       THEN End(s) ELSE Stage(s, "grant")
    /\ UNCHANGED <<messages, sending, others>>

\* The project must not have its media revoked; the file must be safe, and the
\* agreement accepted.
GiveLink(s) ==
    /\ At(s, {"link"}, "grant")
    /\ \/ /\ project # "revoked"
          /\ \E i \in Saved(calls[s].key) :
                SetMessage(i, [messages[i] EXCEPT !.linked = TRUE])
       \/ UNCHANGED messages
    /\ End(s)
    /\ UNCHANGED <<sending, others>>

-----------------------------------------------------------------------------
(* Sockets, the report and the ban.                                        *)

\* The session is read first, and a ban does not revoke it (Accounts).
Connect(s) ==
    /\ scene = "report" /\ calls[s] = Idle
    /\ Goto(s, [Idle EXCEPT !.op = "connect", !.stage = "account"])
    /\ UNCHANGED <<watching, page, report, account>>

CheckAccount(s) ==
    /\ At(s, {"connect"}, "account")
    /\ IF banned THEN End(s) ELSE Stage(s, "enter")
    /\ UNCHANGED <<watching, page, report, account>>

EnterRoom(s) ==
    /\ At(s, {"connect"}, "enter")
    /\ online' = TRUE
    /\ End(s)
    /\ UNCHANGED <<watching, page, report, banned, lifted>>

\* The last socket closes.
Disconnect ==
    /\ scene = "report" /\ online
    /\ online' = FALSE
    /\ UNCHANGED <<watching, page, report, banned, lifted, calls>>

\* dedupe_key is unique: one report of a reason, for ever.
ReportChat ==
    /\ scene = "report" /\ report.status = "none"
    /\ report' = [report EXCEPT !.status = "open"]
    /\ UNCHANGED <<watching, page, account, calls>>

Decide(s, action) ==
    /\ calls[s] = Idle /\ report.status # "none"
    /\ Goto(s, [Idle EXCEPT !.op = "decide", !.stage = "report",
                   !.action = action])
    /\ UNCHANGED <<watching, page, report, account>>

ReadReport(s) ==
    /\ At(s, {"decide"}, "report")
    /\ IF report.status \in Closed THEN End(s)
       ELSE Stage(s, IF calls[s].action = "dismiss" THEN "record"
                     ELSE "apply")
    /\ UNCHANGED <<watching, page, report, account>>

\* Mutant: a failed update of the account is passed over.
ApplyOrPass(s) ==
    LET action == calls[s].action IN
    /\ At(s, {"decide"}, "apply")
    /\ \/ /\ banned' = (banned \/ action \in Bans)
          /\ lifted' = (lifted /\ action \notin Bans)
       \/ UNCHANGED <<banned, lifted>>
    /\ Stage(s, "record")
    /\ UNCHANGED <<watching, page, report, online>>

\* Here and below an operation may fail, or its answer be lost: the call ends.
ApplyDecision(s) ==
    LET action == calls[s].action IN
    /\ At(s, {"decide"}, "apply")
    /\ \/ /\ banned' = (banned \/ action \in Bans)
          /\ lifted' = (lifted /\ action \notin Bans)
          /\ Stage(s, "record") \/ End(s)
       \/ End(s) /\ UNCHANGED <<banned, lifted>>
    /\ UNCHANGED <<watching, page, report, online>>

\* Only an open report is closed, and the result is not looked at.
RecordDecision(s) ==
    LET action == calls[s].action IN
    /\ At(s, {"decide"}, "record")
    /\ \/ /\ report' = IF report.status \in Closed THEN report
                       ELSE [decision |-> action,
                             status |-> IF action = "dismiss" THEN "dismissed"
                                        ELSE "resolved"]
          /\ Stage(s, "audit") \/ End(s)
       \/ End(s) /\ UNCHANGED report
    /\ UNCHANGED <<watching, page, account>>

AuditDecision(s) ==
    /\ At(s, {"decide"}, "audit")
    /\ \/ calls[s].action \in Bans /\ Stage(s, "kick")
       \/ End(s)
    /\ UNCHANGED <<watching, page, report, account>>

\* The worker lists its own sockets of the author, and may fail at that too:
\* the library's get_participants is no asynchronous generator.
DisconnectUser(s) ==
    /\ At(s, {"decide"}, "kick")
    /\ online' \in {online, FALSE}
    /\ End(s)
    /\ UNCHANGED <<watching, page, report, banned, lifted>>

\* The other way to ban, or to lift the ban: no socket is closed.
BanUser(value) ==
    /\ scene = "report" /\ banned # value
    /\ banned' = value
    /\ lifted' = ~value
    /\ UNCHANGED <<watching, page, report, online, calls>>

\* A worker stops: its calls end, here one after the other, and its sockets
\* close, the author's last one among them or not.
Restart(s) ==
    /\ calls[s] # Idle
    /\ End(s)
    /\ online' \in {online, FALSE}
    /\ UNCHANGED <<watching, page, report, banned, lifted>>

\* A client whose socket is closed connects again; outside the report only
\* the outcome matters.
Reconnect ==
    /\ scene # "report" /\ ~online
    /\ online' = TRUE
    /\ UNCHANGED <<watching, page, report, banned, lifted, calls>>

-----------------------------------------------------------------------------
Send(s) ==
    \/ \E send \in Sends : SendMessage(s, send[1], send[2])
    \/ CheckOpen(s) \/ AllowEvent(s) \/ FindDuplicate(s)
    \/ CheckAttachment(s) \/ InsertMessage(s) \/ EmitMessage(s)
    \/ MarkDelivered(s)

Watch(s) ==
    \/ \E i \in DOMAIN messages, link \in 1..MaxLinks :
        StreamOnce(s, i, link)
    \/ FindReserved(s) \/ CheckUpload(s) \/ OpenOnce(s) \/ Show(s)
    \/ \E i \in DOMAIN messages, checked \in BOOLEAN : AskForLink(s, i, checked)
    \/ LookForOnce(s) \/ GiveLink(s)

Moderate(s) ==
    \/ Connect(s) \/ CheckAccount(s) \/ EnterRoom(s)
    \/ \E action \in Actions : Decide(s, action)
    \/ ReadReport(s) \/ ApplyDecision(s) \/ RecordDecision(s)
    \/ AuditDecision(s) \/ DisconnectUser(s)

Next ==
    \/ \E s \in Slots : Send(s) \/ Watch(s) \/ Moderate(s) \/ Restart(s)
    \/ \E i \in DOMAIN messages : ReserveOnce(i) \/ LapseLink(i)
    \/ NewWindow \/ MarkRead \/ OpenHistory \/ GetPage \/ GetNothing
    \/ CloseChat \/ Disconnect \/ ReportChat \/ Reconnect
    \/ \E value \in BOOLEAN : BanUser(value)

Spec == Init /\ [][Next]_vars

-----------------------------------------------------------------------------
(* Properties.                                                             *)

\* A message id is saved at most once, however often and through whichever
\* door its author retries, and an author who was answered success has it
\* saved.
EachSendOnce ==
    \A k \in Keys : /\ Cardinality(Saved(k)) <= 1
                    /\ k \in told => Saved(k) # {}

\* Through its one-time links a view-once video is streamed at most once, and
\* never without its message being marked opened (stream_view_once's second
\* conditional update); and no ordinary link to a video stored in GridFS is
\* given out to a reader who asks after it was sent (create_media_link).
StreamedOnce ==
    \A i \in DOMAIN messages :
        /\ messages[i].shown <= 1
        /\ messages[i].shown > 0 => messages[i].once = "opened"
        /\ messages[i].linked => scene = "direct"

\* A reader who walked the history to its end has seen every message that
\* was saved when the walk began, except one dated the same instant as a
\* message at the end of a page.
PagesSkipNothing ==
    page.walk = "end" =>
        \A i \in page.base \ page.shown :
            \E j \in page.shown : messages[j].stamp = messages[i].stamp

\* A report that is closed with a decision to block its author has an author
\* who is banned, unless ban_user has lifted the ban since: however the
\* decisions of several administrators race, fail half way and are repeated,
\* none is recorded that was not applied (decide_chat_report's order).
BlocksAreApplied ==
    report.status = "resolved" /\ report.decision \in Bans =>
        banned \/ lifted

\* Ordinary media links to view-once videos are rejected, says
\* editzone-backend/README.md:208.  create_s3_media_link gives them out.
OrdinaryLinksAreRejected ==
    \A i \in DOMAIN messages : ~messages[i].linked
=============================================================================
