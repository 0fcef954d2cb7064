----------------------------- MODULE Chat_proofs ----------------------------
(* What Chat guarantees for every number of concurrent calls, messages, ids, *)
(* pages and links, retries, failures and restarts: a message is saved once, *)
(* view-once media is streamed once, a walk through the history skips        *)
(* nothing, and no block is recorded that was not applied.                   *)
EXTENDS Chat, FiniteSetTheorems, SequenceTheorems, WellFoundedInduction, TLAPS

\* What a call in flight knows.
CallTrue(c) ==
    /\ c.op \in {"socket", "rest", "stream", "link"} => c.key \in Keys
    /\ c.op \in {"connect", "decide"} => scene = "report"
    /\ c.stage = "insert" => c.at \in 0..MaxClock
    /\ c.stage \in {"emit", "mark"} =>
          c.at \in 1..Len(messages) /\ messages[c.at].key = c.key
    /\ c.stage = "show" => \E i \in 1..Len(messages) : messages[i].key = c.key
    /\ c.stage = "look" =>
          \E i \in 1..Len(messages) : messages[i].key = c.key /\ messages[i].once # "plain"
    /\ c.stage = "grant" => scene = "direct"
    /\ c.stage = "record" /\ c.action \in Bans => banned \/ lifted

CallsTrue == \A s \in Slots : CallTrue(calls[s])

\* The unique index on the client message id, and what authors were told.
SavedTrue ==
    /\ \A i, j \in 1..Len(messages) : messages[i].key = messages[j].key => i = j
    /\ \A k \in told : \E i \in 1..Len(messages) : messages[i].key = k

\* A message that was opened is shown by one call, which has not shown it yet.
OnceTrue ==
    /\ \A i \in 1..Len(messages) :
          /\ messages[i].shown <= 1 /\ (messages[i].once # "opened" => messages[i].shown = 0)
          /\ messages[i].linked => scene = "direct"
    /\ \A s \in Slots, i \in 1..Len(messages) :
          calls[s].stage = "show" /\ messages[i].key = calls[s].key =>
             messages[i].once = "opened" /\ messages[i].shown = 0
    /\ \A s, t \in Slots :
          /\ calls[s].stage = "show" /\ calls[t].stage = "show"
          /\ calls[s].key = calls[t].key
          => s = t

\* A message that was not shown is older than the cursor, or dated the same
\* instant as one that was shown.
PageTrue ==
    page.walk # "off" => \A i \in page.base \ page.shown :
       \/ page.walk = "on" /\ messages[i].stamp < page.before
       \/ \E j \in page.shown : messages[j].stamp = messages[i].stamp

\* Only the report leads to a ban.
SceneTrue == scene # "report" => ~banned /\ report.status = "none"

IInv == /\ TypeOK /\ CallsTrue /\ SavedTrue /\ OnceTrue /\ PageTrue /\ SceneTrue
        /\ BlocksAreApplied

-----------------------------------------------------------------------------
(* Operators of the model.                                                  *)

\* What the type says of the messages, one by one.
LEMMA MessagesAre ==
    ASSUME TypeOK
    PROVE  /\ Len(messages) \in Nat /\ DOMAIN messages = 1..Len(messages)
           /\ \A i \in 1..Len(messages) :
                 /\ messages[i] \in Message /\ messages[i].key \in Keys
                 /\ messages[i].stamp \in 0..MaxClock
                 /\ messages[i].link \in 0..MaxLinks /\ messages[i].shown \in Nat
<1>1. /\ Len(messages) \in Nat /\ DOMAIN messages = 1..Len(messages)
      /\ messages \in [1..Len(messages) -> Message]
    BY LenProperties DEF TypeOK
<1>2. \A i \in 1..Len(messages) : messages[i] \in Message
    BY <1>1
<1>3. \A m \in Message : /\ m.key \in Keys /\ m.stamp \in 0..MaxClock
                         /\ m.link \in 0..MaxLinks /\ m.shown \in Nat
    BY DEF Message
<1> QED BY <1>1, <1>2, <1>3

\* One message is updated, the others stay as they are.
LEMMA SetMessageIs ==
    ASSUME TypeOK, NEW i \in 1..Len(messages), NEW m \in Message,
           messages' = [messages EXCEPT ![i] = m]
    PROVE  /\ messages' \in Seq(Message) /\ Len(messages') = Len(messages)
           /\ \A j \in 1..Len(messages) : messages'[j] = IF j = i THEN m ELSE messages[j]
<1>1. messages \in Seq(Message)
    BY DEF TypeOK
<1> QED BY <1>1

\* One call moves, the others stay where they are.
LEMMA GotoIs ==
    ASSUME TypeOK, NEW s \in Slots, NEW c \in Call, Goto(s, c)
    PROVE  /\ calls' \in [Slots -> Call]
           /\ \A t \in Slots : calls'[t] = IF t = s THEN c ELSE calls[t]
BY DEF TypeOK, Goto

\* A call that has answered knows nothing.
LEMMA IdleCall ==
    /\ Idle \in Call /\ CallTrue(Idle)
    /\ Idle.op = "none" /\ Idle.stage = "idle" /\ Idle.key = "none" /\ Idle.at = 0
BY DEF Idle, Call, Ops, Stages, Actions, CallTrue

\* A call at its next stage is a call.
LEMMA StageIs ==
    ASSUME TypeOK, NEW s \in Slots, NEW stage \in Stages, Stage(s, stage)
    PROVE  \E c \in Call : /\ Goto(s, c) /\ c.stage = stage /\ c.op = calls[s].op
                           /\ c.key = calls[s].key /\ c.at = calls[s].at
                           /\ c.action = calls[s].action
<1> DEFINE c == [calls[s] EXCEPT !.stage = stage]
<1>1. /\ c \in Call /\ c.stage = stage /\ c.op = calls[s].op
      /\ c.key = calls[s].key /\ c.at = calls[s].at /\ c.action = calls[s].action
    BY DEF TypeOK, Call
<1> QED BY <1>1 DEF Stage

\* The least of a set of dates.
LEMMA Least ==
    ASSUME NEW S \in SUBSET Nat, S # {}
    PROVE  \E x \in S : \A y \in S : x <= y
<1> DEFINE R == {ss \in Nat \X Nat : ss[1] < ss[2]}
<1>1. IsWellFoundedOn(R, Nat)
    BY NatLessThanWellFounded DEF OpToRel
<1>2. PICK x \in S : \A y \in S : ~(<<y, x>> \in R)
    <2> HIDE DEF R
    <2> QED BY <1>1, WFMin
<1>3. \A y \in S : ~(y < x)
    BY <1>2
<1> QED BY <1>3

\* The cursor after a page is the date of its oldest message.
LEMMA OldestIs ==
    ASSUME TypeOK, NEW P \in SUBSET (1..Len(messages)), P # {}
    PROVE  /\ \E i \in P : Oldest(P) = messages[i].stamp
           /\ \A i \in P : Oldest(P) <= messages[i].stamp
           /\ Oldest(P) \in 0..MaxClock
<1> DEFINE S == {messages[i].stamp : i \in P}
<1>1. S \in SUBSET Nat /\ S # {} /\ S \subseteq 0..MaxClock
    <2>1. \A i \in P : messages[i].stamp \in 0..MaxClock
        BY MessagesAre
    <2>2. S \subseteq 0..MaxClock /\ S # {}
        BY <2>1
    <2>3. 0..MaxClock \subseteq Nat
        BY ChatAssumption
    <2> QED BY <2>2, <2>3
<1>2. PICK x \in S : \A i \in P : x <= messages[i].stamp
    <2>1. PICK x \in S : \A y \in S : x <= y
        <3> HIDE DEF S
        <3> QED BY <1>1, Least
    <2> QED BY <2>1
<1>3. Oldest(P) \in S /\ \A i \in P : Oldest(P) <= messages[i].stamp
    BY <1>2 DEF Oldest
<1> QED BY <1>1, <1>3

\* A page that is not all there is left is full.
LEMMA PageIsFull ==
    ASSUME TypeOK, NEW P \in Newest(Older, PageSize), P # Older
    PROVE  P # {}
<1>1. Older \subseteq 1..Len(messages) /\ IsFiniteSet(1..Len(messages))
    BY MessagesAre, FS_Interval DEF Older
<1>2. IsFiniteSet(Older) /\ Cardinality(Older) \in Nat
    BY <1>1, FS_Subset, FS_CardinalityType
<1>3. Cardinality(P) = IF Cardinality(Older) < PageSize THEN Cardinality(Older)
                       ELSE PageSize
    BY DEF Newest
<1>4. ASSUME P = {} PROVE Older = {}
    <2>1. Cardinality(P) = 0
        BY <1>4, FS_EmptySet
    <2>2. Cardinality(Older) = 0
        BY <1>2, <1>3, <2>1, ChatAssumption
    <2> QED BY <1>2, <2>2, FS_EmptySet
<1> QED BY <1>4

-----------------------------------------------------------------------------
(* Parts of the invariant that a step leaves alone.                         *)

\* Messages are added, and a message keeps its id and its date.
Grows ==
    /\ Len(messages) <= Len(messages')
    /\ \A i \in 1..Len(messages) :
          /\ messages'[i].key = messages[i].key
          /\ messages'[i].stamp = messages[i].stamp
          /\ messages[i].once # "plain" => messages'[i].once # "plain"

\* Messages are only added and keep their keys, so a call keeps what it knows.
LEMMA TruthStays ==
    ASSUME TypeOK, TypeOK', NEW c \in Call, CallTrue(c), Grows, UNCHANGED scene,
           banned \/ lifted => banned' \/ lifted'
    PROVE  CallTrue(c)'
<1>1. Len(messages) \in Nat /\ Len(messages') \in Nat
    BY LenProperties DEF TypeOK
<1>2. 1..Len(messages) \subseteq 1..Len(messages')
    BY <1>1 DEF Grows
<1> QED BY <1>2 DEF CallTrue, Grows

\* At most one call moves, and it knows what it should.
Moves(s, c) == calls' = calls \/ (Goto(s, c) /\ CallTrue(c)')

\* The calls in flight still know what is so when one of them has moved.
LEMMA CallsKeep ==
    ASSUME IInv, TypeOK', NEW s \in Slots, NEW c \in Call, Moves(s, c), Grows, UNCHANGED scene,
           banned \/ lifted => banned' \/ lifted'
    PROVE  CallsTrue'
<1>1. ASSUME NEW t \in Slots PROVE CallTrue(calls[t])'
    <2>1. CASE t = s /\ Goto(s, c)
        <3>1. calls'[t] = c
            BY <2>1, GotoIs DEF IInv
        <3>2. CASE CallTrue(c)'
            BY <3>1, <3>2 DEF CallTrue
        <3>3. CASE calls' = calls
            <4>1. CallTrue(c)
                BY <2>1, <3>1, <3>3 DEF IInv, CallsTrue
            <4>2. CallTrue(c)'
                BY <4>1, TruthStays DEF IInv
            <4> QED BY <3>1, <4>2 DEF CallTrue
        <3> QED BY <3>2, <3>3 DEF Moves
    <2>2. CASE t # s \/ calls' = calls
        <3>1. PICK d \in Call : calls'[t] = d /\ CallTrue(d)
            BY <2>2, GotoIs DEF IInv, TypeOK, CallsTrue, Moves
        <3>2. CallTrue(d)'
            BY <3>1, TruthStays DEF IInv
        <3> QED BY <3>1, <3>2 DEF CallTrue
    <2> QED BY <2>1, <2>2 DEF Moves
<1> QED BY <1>1 DEF CallsTrue

\* The walk does not move, and messages keep their dates.
LEMMA PageKeeps ==
    ASSUME IInv, TypeOK', UNCHANGED page, Grows
    PROVE  PageTrue'
<1>1. /\ page.base \in SUBSET (1..Len(messages)) /\ page.shown \in SUBSET (1..Len(messages))
    BY DEF IInv, TypeOK
<1> QED BY <1>1 DEF IInv, PageTrue, Grows

\* Nothing is opened, nothing is shown, and no call comes to show anything.
LEMMA OnceKeeps ==
    ASSUME IInv, NEW s \in Slots, NEW c \in Call, calls' = calls \/ Goto(s, c), c.stage # "show",
           Len(messages') = Len(messages), UNCHANGED scene,
           \A i \in 1..Len(messages) :
              /\ messages'[i].key = messages[i].key /\ messages'[i].shown = messages[i].shown
              /\ messages'[i].linked => messages[i].linked \/ scene = "direct"
              /\ (messages'[i].once = "opened" <=> messages[i].once = "opened")
    PROVE  OnceTrue'
<1>1. \A t \in Slots : calls'[t].stage = "show" => calls'[t] = calls[t]
    BY GotoIs DEF IInv
<1> QED BY <1>1 DEF IInv, OnceTrue

\* A message is added by a step of one call, or written, and what authors are
\* told is true.
LEMMA StepKeeps ==
    ASSUME IInv, NEW s \in Slots, NEW c \in Call, Moves(s, c),
           UNCHANGED <<scene, page, report, account>>,
           project' \in {"open", "completed", "revoked", "ended"},
           messages' \in Seq(Message), Len(messages') = Len(messages), Grows,
           clock' \in 0..MaxClock, used' \in 0..RateLimit + 1, told' \subseteq Keys,
           \A k \in told' : \E i \in 1..Len(messages) : messages[i].key = k,
           OnceTrue'
    PROVE  IInv'
<1>1. calls' \in [Slots -> Call] /\ \A t \in Slots : t # s => calls'[t] = calls[t]
    BY GotoIs DEF IInv, Moves, TypeOK
<1>2. TypeOK'
    BY <1>1 DEF IInv, TypeOK, account
<1>3. CallsTrue'
    BY <1>2, CallsKeep DEF account
<1>4. SavedTrue'
    BY DEF IInv, SavedTrue, Grows
<1>5. PageTrue'
    BY <1>2, PageKeeps
<1>6. SceneTrue'
    BY DEF IInv, SceneTrue, account
<1>7. BlocksAreApplied'
    BY DEF IInv, BlocksAreApplied, account
<1> QED BY <1>2, <1>3, <1>4, <1>5, <1>6, <1>7 DEF IInv

\* A call moves, and may answer its author.
LEMMA CallStepKeeps ==
    ASSUME IInv, NEW s \in Slots, NEW c \in Call, Goto(s, c), CallTrue(c)',
           UNCHANGED <<messages, others>>,
           clock' \in 0..MaxClock, used' \in 0..RateLimit + 1,
           told' = told \/ told' = told \cup {calls[s].key},
           told' # told => \E i \in 1..Len(messages) : messages[i].key = calls[s].key,
           c.stage # "show"
    PROVE  IInv'
<1>1. /\ told' \subseteq Keys
      /\ \A k \in told' : \E i \in 1..Len(messages) : messages[i].key = k
    BY MessagesAre DEF IInv, TypeOK, SavedTrue
<1>2. /\ Grows /\ messages' \in Seq(Message) /\ Len(messages') = Len(messages)
      /\ project' \in {"open", "completed", "revoked", "ended"}
      /\ UNCHANGED <<scene, page, report, account>>
    BY MessagesAre DEF IInv, TypeOK, Grows, others
<1>3. OnceTrue'
    BY <1>2, OnceKeeps
<1>4. Moves(s, c)
    BY DEF Moves
<1> QED BY <1>1, <1>2, <1>3, <1>4, StepKeeps

-----------------------------------------------------------------------------
(* Sending a message.                                                       *)

\* The steps of a send that save nothing: the call goes on, or answers.
LEMMA GoOnKeeps ==
    ASSUME IInv, NEW s \in Slots, NEW stage \in Stages, Stage(s, stage),
           UNCHANGED <<messages, others>>, clock' \in 0..MaxClock,
           used' \in 0..RateLimit + 1,
           told' = told \/ told' = told \cup {calls[s].key},
           told' # told => \E i \in 1..Len(messages) : messages[i].key = calls[s].key,
           stage \notin {"insert", "emit", "mark", "show", "look", "grant", "record"}
    PROVE  IInv'
<1>1. PICK c \in Call : /\ Goto(s, c) /\ c.stage = stage /\ c.op = calls[s].op
                        /\ c.key = calls[s].key
    BY StageIs DEF IInv
<1>2. CallTrue(calls[s])
    BY DEF IInv, CallsTrue
<1>3. CallTrue(c)'
    BY <1>1, <1>2 DEF CallTrue, others
<1> QED BY <1>1, <1>3, CallStepKeeps

\* A call answers and writes nothing.
LEMMA EndKeeps ==
    ASSUME IInv, NEW s \in Slots, End(s),
           UNCHANGED <<messages, others>>, clock' \in 0..MaxClock,
           used' \in 0..RateLimit + 1,
           told' = told \/ told' = told \cup {calls[s].key},
           told' # told => \E i \in 1..Len(messages) : messages[i].key = calls[s].key
    PROVE  IInv'
<1>1. CallTrue(Idle)'
    BY IdleCall DEF CallTrue
<1> QED BY <1>1, IdleCall, CallStepKeeps DEF End

LEMMA SentCounted ==
    ASSUME IInv
    PROVE  clock \in 0..MaxClock /\ used \in 0..RateLimit + 1
BY DEF IInv, TypeOK

LEMMA SendMessageKeeps ==
    ASSUME IInv, NEW s \in Slots, NEW door \in Doors, NEW k \in Keys, SendMessage(s, door, k)
    PROVE  IInv'
<1>1. PICK c \in Call : Goto(s, c) /\ c.op = door /\ c.stage = "access" /\ c.key = k
    <2> DEFINE d == [Idle EXCEPT !.op = door, !.stage = "access", !.key = k]
    <2>1. d \in Call /\ d.op = door /\ d.stage = "access" /\ d.key = k
        BY IdleCall DEF Call, Ops, Stages, Doors
    <2> QED BY <2>1 DEF SendMessage
<1>2. CallTrue(c)'
    BY <1>1 DEF CallTrue, Doors
<1> QED BY <1>1, <1>2, SentCounted, CallStepKeeps DEF SendMessage, sending

LEMMA CheckOpenKeeps ==
    ASSUME IInv, NEW s \in Slots, CheckOpen(s)
    PROVE  IInv'
<1>2. CASE Stage(s, "rate")
    BY <1>2, SentCounted, GoOnKeeps DEF CheckOpen, Stages, sending
<1>3. CASE End(s)
    BY <1>3, SentCounted, EndKeeps DEF CheckOpen, sending
<1> QED BY <1>2, <1>3 DEF CheckOpen

LEMMA AllowEventKeeps ==
    ASSUME IInv, NEW s \in Slots, AllowEvent(s)
    PROVE  IInv'
<1>2. used' \in 0..RateLimit + 1
    BY SentCounted, ChatAssumption DEF AllowEvent
<1>3. CASE Stage(s, "lookup")
    BY <1>2, <1>3, SentCounted, GoOnKeeps DEF AllowEvent, Stages
<1>4. CASE End(s)
    BY <1>2, <1>4, SentCounted, EndKeeps DEF AllowEvent
<1> QED BY <1>3, <1>4 DEF AllowEvent

LEMMA BuildKeeps ==
    ASSUME IInv, NEW s \in Slots, Build(s), calls[s].op \in Doors,
           UNCHANGED <<messages, used, told, others>>
    PROVE  IInv'
<1>1. PICK now \in 0..MaxClock :
         clock' = now /\ Goto(s, [calls[s] EXCEPT !.stage = "insert", !.at = now])
    BY SentCounted DEF Build
<1>2. PICK c \in Call : /\ Goto(s, c) /\ c.stage = "insert" /\ c.at = now
                        /\ c.op = calls[s].op /\ c.key = calls[s].key
    <2> DEFINE d == [calls[s] EXCEPT !.stage = "insert", !.at = now]
    <2>1. now \in Nat /\ "insert" \in Stages
        BY ChatAssumption DEF Stages
    <2>2. /\ d \in Call /\ d.stage = "insert" /\ d.at = now
          /\ d.op = calls[s].op /\ d.key = calls[s].key
        BY <2>1 DEF IInv, TypeOK, Call
    <2> QED BY <1>1, <2>2
<1>3. CallTrue(calls[s])
    BY DEF IInv, CallsTrue
<1>4. CallTrue(c)'
    BY <1>2, <1>3 DEF CallTrue, others
<1> QED BY <1>1, <1>2, <1>4, SentCounted, CallStepKeeps

LEMMA FindDuplicateKeeps ==
    ASSUME IInv, NEW s \in Slots, FindDuplicate(s)
    PROVE  IInv'
<1>1. calls[s].op \in Doors
    BY DEF FindDuplicate, At, Doors
<1>2. CASE Saved(calls[s].key) # {} /\ told' = told \cup {calls[s].key} /\ End(s)
    <2>1. \E i \in 1..Len(messages) : messages[i].key = calls[s].key
        BY <1>2, MessagesAre DEF Saved, IInv
    <2> QED BY <1>1, <1>2, <2>1, SentCounted, EndKeeps DEF FindDuplicate
<1>3. CASE Stage(s, "attach") /\ UNCHANGED <<clock, told>>
    BY <1>1, <1>3, SentCounted, GoOnKeeps DEF FindDuplicate, Stages
<1>4. CASE Build(s) /\ UNCHANGED told
    BY <1>1, <1>4, BuildKeeps DEF FindDuplicate
<1> QED BY <1>2, <1>3, <1>4 DEF FindDuplicate

LEMMA CheckAttachmentKeeps ==
    ASSUME IInv, NEW s \in Slots, CheckAttachment(s)
    PROVE  IInv'
<1>1. calls[s].op \in Doors
    BY DEF CheckAttachment, At, Doors
<1>2. CASE Build(s)
    BY <1>1, <1>2, BuildKeeps DEF CheckAttachment
<1>3. CASE End(s) /\ UNCHANGED clock
    BY <1>1, <1>3, SentCounted, EndKeeps DEF CheckAttachment
<1> QED BY <1>2, <1>3 DEF CheckAttachment

LEMMA EmitMessageKeeps ==
    ASSUME IInv, NEW s \in Slots, EmitMessage(s)
    PROVE  IInv'
<1>1. /\ CallTrue(calls[s]) /\ calls[s].op \in Doors
      /\ calls[s].at \in 1..Len(messages) /\ messages[calls[s].at].key = calls[s].key
    BY DEF EmitMessage, At, Doors, IInv, CallsTrue, CallTrue
<1>2. CASE End(s)
    BY <1>1, <1>2, SentCounted, EndKeeps DEF EmitMessage
<1>3. CASE Stage(s, "mark") /\ UNCHANGED told
    <2>1. PICK c \in Call : /\ Goto(s, c) /\ c.stage = "mark" /\ c.op = calls[s].op
                            /\ c.key = calls[s].key /\ c.at = calls[s].at
        BY <1>3, StageIs DEF IInv, Stages
    <2>2. CallTrue(c)'
        BY <1>1, <2>1 DEF CallTrue, EmitMessage, others
    <2> QED BY <1>1, <1>3, <2>1, <2>2, SentCounted, CallStepKeeps DEF EmitMessage
<1> QED BY <1>2, <1>3 DEF EmitMessage

\* The unique index lets one message of an id in.
LEMMA AppendKeeps ==
    ASSUME IInv, NEW s \in Slots, NEW c \in Call, Goto(s, c),
           calls[s].op \in Doors, calls[s].stage = "insert", Saved(calls[s].key) = {},
           messages' = Append(messages, NewMessage(s)), c.stage # "show",
           c = Idle \/ /\ c.stage = "emit" /\ c.at = Len(messages')
                       /\ c.op = calls[s].op /\ c.key = calls[s].key,
           UNCHANGED <<sending, others>>
    PROVE  IInv'
<1> DEFINE n == Len(messages) + 1
           new == NewMessage(s)
<1>1. CallTrue(calls[s]) /\ calls[s].key \in Keys /\ calls[s].at \in 0..MaxClock
    BY DEF IInv, CallsTrue, CallTrue, Doors
<1>2. /\ new \in Message /\ new.key = calls[s].key /\ new.shown = 0 /\ ~new.linked
    BY <1>1, ChatAssumption DEF NewMessage, Message
<1>3. n \in Nat /\ n > 0 /\ 1..n = (1..Len(messages)) \cup {n}
      /\ \A i \in 1..Len(messages) : i # n /\ i \in 1..n
    BY MessagesAre DEF IInv
<1>4. /\ messages' \in Seq(Message) /\ Len(messages') = n
      /\ \A i \in 1..Len(messages) : messages'[i] = messages[i]
      /\ messages'[n] = new
    <2> HIDE DEF new
    <2>1. messages' = Append(messages, new)
        BY DEF new
    <2> QED BY <1>2, <1>3, <2>1, AppendProperties DEF IInv, TypeOK
<1> HIDE DEF new
<1>5. \A i \in 1..Len(messages) : messages[i].key # calls[s].key
    BY MessagesAre DEF Saved, IInv
<1>6. calls' \in [Slots -> Call] /\ \A t \in Slots : calls'[t] = IF t = s THEN c ELSE calls[t]
    BY GotoIs DEF IInv
<1>7. Len(messages) <= Len(messages') /\ 1..Len(messages) \subseteq 1..Len(messages')
    BY <1>3, <1>4
<1>8. TypeOK'
    <2>1. /\ page.shown \in SUBSET (1..Len(messages')) /\ page.base \in SUBSET (1..Len(messages'))
        BY <1>7 DEF IInv, TypeOK
    <2>2. page \in [walk: {"off", "on", "end"}, before: 0..MaxClock + 1,
                    shown: SUBSET (1..Len(messages')), base: SUBSET (1..Len(messages'))]
        BY <2>1 DEF IInv, TypeOK
    <2> QED BY <1>4, <1>6, <2>2 DEF IInv, TypeOK, sending, others, account
<1>9. Grows /\ UNCHANGED scene
    BY <1>4, <1>7 DEF Grows, others
<1>10. CallTrue(c)'
    BY <1>1, <1>2, <1>3, <1>4, IdleCall DEF CallTrue, Doors
<1>11. CallsTrue'
    BY <1>8, <1>9, <1>10, CallsKeep DEF Moves, others, account
<1>12. SavedTrue'
    <2>1. \A i, j \in 1..Len(messages') : messages'[i].key = messages'[j].key => i = j
        BY <1>2, <1>3, <1>4, <1>5 DEF IInv, SavedTrue
    <2>2. \A k \in told' : \E i \in 1..Len(messages') : messages'[i].key = k
        BY <1>3, <1>4 DEF IInv, SavedTrue, sending
    <2> QED BY <2>1, <2>2 DEF SavedTrue
<1>13. OnceTrue'
    <2>1. \A i \in 1..Len(messages') :
             /\ messages'[i].shown <= 1
             /\ messages'[i].once # "opened" => messages'[i].shown = 0
             /\ messages'[i].linked => scene' = "direct"
        BY <1>2, <1>3, <1>4, <1>9 DEF IInv, OnceTrue
    <2>2. \A t \in Slots : calls'[t].stage = "show" => calls'[t] = calls[t]
        BY <1>6
    <2>3. ASSUME NEW t \in Slots, NEW i \in 1..Len(messages'), calls'[t].stage = "show",
                 messages'[i].key = calls'[t].key
          PROVE  messages'[i].once = "opened" /\ messages'[i].shown = 0
        <3>1. PICK j \in 1..Len(messages) : messages[j].key = calls[t].key
            BY <2>2, <2>3 DEF IInv, CallsTrue, CallTrue
        <3>2. messages'[j].key = messages'[i].key /\ j \in 1..Len(messages')
            BY <1>3, <1>4, <2>2, <2>3, <3>1
        <3>3. i = j
            BY <1>12, <3>2 DEF SavedTrue
        <3> QED BY <1>4, <2>2, <2>3, <3>1, <3>3 DEF IInv, OnceTrue
    <2>4. \A t, u \in Slots :
             /\ calls'[t].stage = "show" /\ calls'[u].stage = "show"
             /\ calls'[t].key = calls'[u].key
             => t = u
        BY <2>2 DEF IInv, OnceTrue
    <2> QED BY <2>1, <2>3, <2>4 DEF OnceTrue
<1>14. PageTrue'
    BY <1>8, <1>9, PageKeeps DEF others
<1>15. SceneTrue'
    BY DEF IInv, SceneTrue, others, account
<1>16. BlocksAreApplied'
    BY DEF IInv, BlocksAreApplied, others, account
<1> QED BY <1>8, <1>11, <1>12, <1>13, <1>14, <1>15, <1>16 DEF IInv

\* The unique index lets one message in for each key.
LEMMA InsertMessageKeeps ==
    ASSUME IInv, NEW s \in Slots, InsertMessage(s)
    PROVE  IInv'
<1>1. /\ calls[s].op \in Doors /\ calls[s].stage = "insert"
      /\ UNCHANGED <<clock, used, others>>
    BY DEF InsertMessage, At, Doors
<1>2. CASE Saved(calls[s].key) # {} /\ told' = told \cup {calls[s].key} /\ End(s)
           /\ UNCHANGED messages
    <2>1. \E i \in 1..Len(messages) : messages[i].key = calls[s].key
        BY <1>2, MessagesAre DEF Saved, IInv
    <2> QED BY <1>1, <1>2, <2>1, SentCounted, EndKeeps
<1>3. CASE End(s) /\ UNCHANGED <<messages, told>>
    BY <1>1, <1>3, SentCounted, EndKeeps
<1>4. CASE /\ Saved(calls[s].key) = {} /\ messages' = Append(messages, NewMessage(s))
           /\ UNCHANGED told
           /\ \/ Goto(s, [calls[s] EXCEPT !.stage = "emit", !.at = Len(messages')])
              \/ End(s)
    <2>1. PICK c \in Call :
             /\ Goto(s, c) /\ c.stage # "show"
             /\ \/ c = Idle
                \/ /\ c.stage = "emit" /\ c.at = Len(messages')
                   /\ c.op = calls[s].op /\ c.key = calls[s].key
        <3>1. CASE End(s)
            BY <3>1, IdleCall DEF End
        <3>2. CASE Goto(s, [calls[s] EXCEPT !.stage = "emit", !.at = Len(messages')])
            <4> DEFINE n == Len(messages')
                       d == [calls[s] EXCEPT !.stage = "emit", !.at = n]
            <4>1. n \in Nat /\ "emit" \in Stages
                <5>1. Len(messages') = Len(messages) + 1
                    BY <1>4, LenProperties, AppendProperties DEF IInv, TypeOK
                <5> QED BY <5>1, MessagesAre DEF Stages, IInv
            <4> HIDE DEF n
            <4>2. /\ d \in Call /\ d.stage = "emit" /\ d.at = n
                  /\ d.op = calls[s].op /\ d.key = calls[s].key
                BY <4>1 DEF IInv, TypeOK, Call
            <4> QED BY <3>2, <4>2 DEF n
        <3> QED BY <1>4, <3>1, <3>2
    <2> QED BY <1>1, <1>4, <2>1, AppendKeeps DEF sending
<1> QED BY <1>2, <1>3, <1>4 DEF InsertMessage

-----------------------------------------------------------------------------
(* Messages that are written: receipts and view-once media.                 *)

\* One message is written, and keeps its id, its date and its being opened.
LEMMA WriteKeeps ==
    ASSUME IInv, NEW i \in 1..Len(messages), NEW m \in Message,
           messages' = [messages EXCEPT ![i] = m],
           m.key = messages[i].key, m.stamp = messages[i].stamp,
           m.shown = messages[i].shown,
           m.once = "opened" <=> messages[i].once = "opened",
           messages[i].once # "plain" => m.once # "plain",
           m.linked => messages[i].linked \/ scene = "direct",
           NEW s \in Slots, NEW c \in Call, Moves(s, c), calls' = calls \/ Goto(s, c),
           c.stage # "show",
           UNCHANGED <<clock, used, others>>, told' \subseteq Keys,
           \A k \in told' : \E j \in 1..Len(messages) : messages[j].key = k
    PROVE  IInv'
<1>1. /\ messages' \in Seq(Message) /\ Len(messages') = Len(messages)
      /\ \A j \in 1..Len(messages) : messages'[j] = IF j = i THEN m ELSE messages[j]
    BY SetMessageIs DEF IInv
<1>2. Grows
    BY <1>1, MessagesAre DEF Grows, IInv
<1>3. OnceTrue'
    BY <1>1, OnceKeeps DEF others
<1>4. /\ clock' \in 0..MaxClock /\ used' \in 0..RateLimit + 1
      /\ project' \in {"open", "completed", "revoked", "ended"}
      /\ UNCHANGED <<scene, page, report, account>>
    BY DEF IInv, TypeOK, others
<1> QED BY <1>1, <1>2, <1>3, <1>4, StepKeeps

LEMMA MarkDeliveredKeeps ==
    ASSUME IInv, NEW s \in Slots, MarkDelivered(s)
    PROVE  IInv'
<1>1. /\ End(s) /\ UNCHANGED <<clock, used, others>>
      /\ told' = told \/ told' = told \cup {calls[s].key}
    BY DEF MarkDelivered, At
<1>2. PICK i \in 1..Len(messages) : i = calls[s].at /\ messages[i].key = calls[s].key
    BY DEF MarkDelivered, At, IInv, CallsTrue, CallTrue
<1>3. CASE UNCHANGED messages
    BY <1>1, <1>2, <1>3, SentCounted, EndKeeps
<1>4. CASE messages' = [messages EXCEPT ![i].status = "delivered"]
    <2>1. messages[i] \in Message
        BY MessagesAre DEF IInv
    <2>2. PICK m \in Message : /\ messages' = [messages EXCEPT ![i] = m]
                               /\ m.key = messages[i].key /\ m.stamp = messages[i].stamp
                               /\ m.shown = messages[i].shown /\ m.once = messages[i].once
                               /\ m.linked = messages[i].linked
        <3> DEFINE m == [messages[i] EXCEPT !.status = "delivered"]
        <3>1. /\ m \in Message /\ m.key = messages[i].key /\ m.stamp = messages[i].stamp
              /\ m.shown = messages[i].shown /\ m.once = messages[i].once
              /\ m.linked = messages[i].linked
            BY <2>1 DEF Message
        <3>2. messages' = [messages EXCEPT ![i] = m]
            BY <1>4
        <3> QED BY <3>1, <3>2
    <2>4. Moves(s, Idle) /\ Goto(s, Idle)
        BY <1>1, IdleCall DEF Moves, End, CallTrue
    <2>5. /\ told' \subseteq Keys
          /\ \A k \in told' : \E j \in 1..Len(messages) : messages[j].key = k
        BY <1>1, <1>2, MessagesAre DEF IInv, TypeOK, SavedTrue
    <2> QED BY <1>1, <2>2, <2>4, <2>5, IdleCall, WriteKeeps
<1> QED BY <1>2, <1>3, <1>4 DEF MarkDelivered


\* A message is written without a call of a slot.
LEMMA QuietWriteKeeps ==
    ASSUME IInv, NEW i \in 1..Len(messages), NEW m \in Message,
           messages' = [messages EXCEPT ![i] = m],
           m.key = messages[i].key, m.stamp = messages[i].stamp,
           m.shown = messages[i].shown, m.linked = messages[i].linked,
           m.once \notin {"opened", "plain"}, messages[i].once # "opened",
           UNCHANGED <<sending, others, calls>>
    PROVE  IInv'
<1>1. PICK s \in Slots : Moves(s, Idle)
    BY ChatAssumption DEF Moves
<1>2. /\ told' \subseteq Keys
      /\ \A k \in told' : \E j \in 1..Len(messages) : messages[j].key = k
    BY DEF IInv, TypeOK, SavedTrue, sending
<1> QED BY <1>1, <1>2, IdleCall, WriteKeeps DEF sending

\* A link is handed out for media that nobody has opened.
LEMMA ReserveOnceKeeps ==
    ASSUME IInv, NEW i \in DOMAIN messages, ReserveOnce(i)
    PROVE  IInv'
<1>1. i \in 1..Len(messages) /\ messages[i] \in Message /\ messages[i].link \in 0..MaxLinks
    BY MessagesAre DEF IInv
<1>2. messages[i].link + 1 \in 0..MaxLinks
    BY <1>1, ChatAssumption DEF ReserveOnce
<1>3. PICK m \in Message : /\ messages' = [messages EXCEPT ![i] = m]
                           /\ m.key = messages[i].key /\ m.stamp = messages[i].stamp
                           /\ m.shown = messages[i].shown /\ m.once = "reserved"
                           /\ m.linked = messages[i].linked
    <2> DEFINE m == [messages[i] EXCEPT !.once = "reserved", !.link = messages[i].link + 1]
    <2>1. /\ m \in Message /\ m.key = messages[i].key /\ m.stamp = messages[i].stamp
          /\ m.shown = messages[i].shown /\ m.once = "reserved"
          /\ m.linked = messages[i].linked
        BY <1>1, <1>2 DEF Message
    <2>2. messages' = [messages EXCEPT ![i] = m]
        BY DEF ReserveOnce, SetMessage
    <2> QED BY <2>1, <2>2
<1> QED BY <1>1, <1>3, QuietWriteKeeps DEF ReserveOnce

LEMMA LapseLinkKeeps ==
    ASSUME IInv, NEW i \in DOMAIN messages, LapseLink(i)
    PROVE  IInv'
<1>1. i \in 1..Len(messages) /\ messages[i] \in Message
    BY MessagesAre DEF IInv
<1>2. PICK m \in Message : /\ messages' = [messages EXCEPT ![i] = m]
                           /\ m.key = messages[i].key /\ m.stamp = messages[i].stamp
                           /\ m.shown = messages[i].shown /\ m.once = "lapsed"
                           /\ m.linked = messages[i].linked
    <2> DEFINE m == [messages[i] EXCEPT !.once = "lapsed"]
    <2>1. /\ m \in Message /\ m.key = messages[i].key /\ m.stamp = messages[i].stamp
          /\ m.shown = messages[i].shown /\ m.once = "lapsed"
          /\ m.linked = messages[i].linked
        BY <1>1 DEF Message
    <2>2. messages' = [messages EXCEPT ![i] = m]
        BY DEF LapseLink, SetMessage
    <2> QED BY <2>1, <2>2
<1> QED BY <1>1, <1>2, QuietWriteKeeps DEF LapseLink

LEMMA MarkReadKeeps ==
    ASSUME IInv, MarkRead
    PROVE  IInv'
<1> DEFINE next(i) == IF messages[i].read THEN messages[i]
                      ELSE [messages[i] EXCEPT !.read = TRUE, !.status = "seen"]
           n == Len(messages)
<1>1. n \in Nat /\ DOMAIN messages = 1..n
    BY MessagesAre DEF IInv
<1>2. ASSUME NEW i \in 1..n
      PROVE  /\ next(i) \in Message /\ next(i).key = messages[i].key
             /\ next(i).stamp = messages[i].stamp /\ next(i).shown = messages[i].shown
             /\ next(i).once = messages[i].once /\ next(i).linked = messages[i].linked
    <2>1. messages[i] \in Message
        BY MessagesAre DEF IInv
    <2> QED BY <2>1 DEF Message
<1> HIDE DEF n
<1>3. messages' = [i \in 1..n |-> next(i)] /\ UNCHANGED <<sending, others, calls>>
    BY <1>1 DEF MarkRead
<1> HIDE DEF next
<1>4. messages' \in Seq(Message) /\ Len(messages') = n
    BY <1>1, <1>2, <1>3
<1>5. PICK s \in Slots : Moves(s, Idle)
    BY <1>3, ChatAssumption DEF Moves
<1>6. Grows
    BY <1>1, <1>2, <1>3, <1>4 DEF Grows, n
<1>7. OnceTrue'
    <2>1. \A i \in 1..n : messages'[i] = next(i)
        BY <1>3
    <2>2. Len(messages') = Len(messages) /\ UNCHANGED <<scene, calls>>
        BY <1>3, <1>4 DEF n, others
    <2> QED BY <1>2, <1>5, <2>1, <2>2, IdleCall, OnceKeeps DEF n
<1>8. /\ clock' \in 0..MaxClock /\ used' \in 0..RateLimit + 1 /\ told' \subseteq Keys
      /\ project' \in {"open", "completed", "revoked", "ended"}
      /\ \A k \in told' : \E j \in 1..Len(messages) : messages[j].key = k
      /\ UNCHANGED <<scene, page, report, account>>
    BY <1>3 DEF IInv, TypeOK, SavedTrue, sending, others
<1> QED BY <1>3, <1>4, <1>5, <1>6, <1>7, <1>8, IdleCall, StepKeeps DEF n

\* The rate limit's window, and the project's lifecycle.
LEMMA QuietKeeps ==
    ASSUME IInv, NewWindow \/ CloseChat
    PROVE  IInv'
<1>1. /\ UNCHANGED <<scene, page, report, account, messages, clock, told, calls>>
      /\ used' \in 0..RateLimit + 1
      /\ project' \in {"open", "completed", "revoked", "ended"}
    BY ChatAssumption DEF NewWindow, CloseChat, sending, others, IInv, TypeOK
<1>2. PICK s \in Slots : Moves(s, Idle)
    BY <1>1, ChatAssumption DEF Moves
<1>3. /\ Grows /\ messages' \in Seq(Message) /\ Len(messages') = Len(messages)
      /\ clock' \in 0..MaxClock /\ told' \subseteq Keys
      /\ \A k \in told' : \E j \in 1..Len(messages) : messages[j].key = k
    BY <1>1, MessagesAre DEF IInv, TypeOK, Grows, SavedTrue
<1>4. OnceTrue'
    BY <1>1, <1>2, IdleCall, OnceKeeps
<1> QED BY <1>1, <1>2, <1>3, <1>4, IdleCall, StepKeeps

-----------------------------------------------------------------------------
(* View-once media: the calls that redeem a link.                           *)

\* A redeemed link shows nothing yet.
LEMMA StreamOnceKeeps ==
    ASSUME IInv, NEW s \in Slots, NEW i \in DOMAIN messages, NEW link \in 1..MaxLinks,
           StreamOnce(s, i, link)
    PROVE  IInv'
<1>1. i \in 1..Len(messages) /\ messages[i].key \in Keys
    BY MessagesAre DEF IInv
<1>2. PICK c \in Call : /\ Goto(s, c) /\ c.op = "stream" /\ c.stage = "find"
                        /\ c.key = messages[i].key
    <2> DEFINE k == messages[i].key
               d == [Idle EXCEPT !.op = "stream", !.stage = "find", !.key = k, !.at = link]
    <2>1. k \in Keys /\ link \in Nat
        BY <1>1, ChatAssumption
    <2> HIDE DEF k
    <2>2. d \in Call /\ d.op = "stream" /\ d.stage = "find" /\ d.key = k
        BY <2>1, IdleCall DEF Call, Ops, Stages
    <2> QED BY <2>2 DEF StreamOnce, k
<1>3. CallTrue(c)'
    BY <1>1, <1>2 DEF CallTrue
<1> QED BY <1>2, <1>3, SentCounted, CallStepKeeps DEF StreamOnce, sending

LEMMA FindReservedKeeps ==
    ASSUME IInv, NEW s \in Slots, FindReserved(s) \/ CheckUpload(s)
    PROVE  IInv'
<1>1. UNCHANGED <<messages, sending, others>>
    BY DEF FindReserved, CheckUpload, At
<1>2. CASE End(s)
    BY <1>1, <1>2, SentCounted, EndKeeps DEF sending
<1>3. CASE Stage(s, "upload")
    BY <1>1, <1>3, SentCounted, GoOnKeeps DEF Stages, sending
<1>4. CASE Stage(s, "open")
    BY <1>1, <1>4, SentCounted, GoOnKeeps DEF Stages, sending
<1> QED BY <1>2, <1>3, <1>4 DEF FindReserved, CheckUpload

\* The conditional update opens a message that was not opened: nobody shows it
\* yet, and nothing of it was shown.
LEMMA OpenOnceKeeps ==
    ASSUME IInv, NEW s \in Slots, OpenOnce(s)
    PROVE  IInv'
<1>1. /\ calls[s].op = "stream"
      /\ UNCHANGED <<sending, others>>
    BY DEF OpenOnce, At
<1>2. CASE End(s) /\ UNCHANGED messages
    BY <1>1, <1>2, SentCounted, EndKeeps DEF sending
<1>3. ASSUME NEW i \in DOMAIN messages, Redeemable(s, i), Stage(s, "show"),
             SetMessage(i, [messages[i] EXCEPT !.once = "opened"])
      PROVE  IInv'
    <2>1. i \in 1..Len(messages) /\ messages[i] \in Message
        BY <1>3, MessagesAre DEF IInv
    <2>2. PICK m \in Message : /\ messages' = [messages EXCEPT ![i] = m]
                               /\ m.key = messages[i].key /\ m.stamp = messages[i].stamp
                               /\ m.shown = messages[i].shown /\ m.once = "opened"
                               /\ m.linked = messages[i].linked
        <3> DEFINE m == [messages[i] EXCEPT !.once = "opened"]
        <3>1. /\ m \in Message /\ m.key = messages[i].key /\ m.stamp = messages[i].stamp
              /\ m.shown = messages[i].shown /\ m.once = "opened"
              /\ m.linked = messages[i].linked
            BY <2>1 DEF Message
        <3>2. messages' = [messages EXCEPT ![i] = m]
            BY <1>3 DEF SetMessage
        <3> QED BY <3>1, <3>2
    <2>3. /\ messages' \in Seq(Message) /\ Len(messages') = Len(messages)
          /\ \A j \in 1..Len(messages) : messages'[j] = IF j = i THEN m ELSE messages[j]
        BY <2>1, <2>2, SetMessageIs DEF IInv
    <2>4. messages[i].key = calls[s].key /\ messages[i].once # "opened" /\ messages[i].shown = 0
        BY <1>3, <2>1 DEF Redeemable, IInv, OnceTrue
    <2>5. PICK c \in Call : /\ Goto(s, c) /\ c.stage = "show" /\ c.op = "stream"
                            /\ c.key = calls[s].key
        BY <1>1, <1>3, StageIs DEF IInv, Stages
    <2>6. \A t \in Slots : calls'[t] = IF t = s THEN c ELSE calls[t]
        BY <2>5, GotoIs DEF IInv
    <2>7. Grows
        BY <2>2, <2>3, MessagesAre DEF Grows, IInv
    <2>8. CallTrue(c)'
        <3>1. CallTrue(calls[s])
            BY DEF IInv, CallsTrue
        <3> QED BY <1>1, <2>1, <2>2, <2>3, <2>4, <2>5, <3>1 DEF CallTrue
    <2>9. \A t \in Slots \ {s} :
             calls'[t].stage = "show" => calls'[t] = calls[t] /\ calls[t].key # calls[s].key
        BY <2>1, <2>4, <2>6 DEF IInv, OnceTrue
    <2>10. OnceTrue'
        <3>1. \A j \in 1..Len(messages') :
                 /\ messages'[j].shown <= 1
                 /\ messages'[j].once # "opened" => messages'[j].shown = 0
                 /\ messages'[j].linked => scene' = "direct"
            BY <1>1, <2>2, <2>3, <2>4 DEF IInv, OnceTrue, others
        <3>2. ASSUME NEW t \in Slots, NEW j \in 1..Len(messages'), calls'[t].stage = "show",
                     messages'[j].key = calls'[t].key
              PROVE  messages'[j].once = "opened" /\ messages'[j].shown = 0
            <4>1. CASE t = s
                <5>1. messages[j].key = messages[i].key
                    BY <2>2, <2>3, <2>4, <2>5, <2>6, <3>2, <4>1
                <5>2. j = i
                    BY <2>1, <2>3, <5>1 DEF IInv, SavedTrue
                <5> QED BY <2>2, <2>3, <2>4, <5>2
            <4>2. CASE t # s
                <5>1. j # i
                    BY <2>2, <2>3, <2>4, <2>9, <3>2, <4>2
                <5> QED BY <2>3, <2>9, <3>2, <4>2, <5>1 DEF IInv, OnceTrue
            <4> QED BY <4>1, <4>2
        <3>3. \A t, u \in Slots :
                 /\ calls'[t].stage = "show" /\ calls'[u].stage = "show"
                 /\ calls'[t].key = calls'[u].key
                 => t = u
            BY <2>5, <2>6, <2>9 DEF IInv, OnceTrue
        <3> QED BY <3>1, <3>2, <3>3 DEF OnceTrue
    <2>11. /\ clock' \in 0..MaxClock /\ used' \in 0..RateLimit + 1 /\ told' \subseteq Keys
           /\ project' \in {"open", "completed", "revoked", "ended"}
           /\ \A k \in told' : \E j \in 1..Len(messages) : messages[j].key = k
           /\ UNCHANGED <<scene, page, report, account>>
        BY <1>1 DEF IInv, TypeOK, SavedTrue, sending, others
    <2>12. Moves(s, c)
        BY <2>5, <2>8 DEF Moves
    <2> QED BY <1>1, <2>3, <2>7, <2>10, <2>11, <2>12, StepKeeps
<1> QED BY <1>2, <1>3 DEF OpenOnce

\* The one call that shows the media shows it once.
LEMMA ShowKeeps ==
    ASSUME IInv, NEW s \in Slots, Show(s)
    PROVE  IInv'
<1>1. /\ calls[s].stage = "show"
      /\ Goto(s, Idle) /\ End(s) /\ UNCHANGED <<sending, others>>
    BY DEF Show, At, End
<1>2. CASE UNCHANGED messages
    BY <1>1, <1>2, SentCounted, EndKeeps DEF sending
<1>3. ASSUME NEW i \in Saved(calls[s].key),
             SetMessage(i, [messages[i] EXCEPT !.shown = @ + 1])
      PROVE  IInv'
    <2>1. /\ i \in 1..Len(messages) /\ messages[i] \in Message
          /\ messages[i].key = calls[s].key
        BY <1>3, MessagesAre DEF IInv, Saved
    <2>2. messages[i].once = "opened" /\ messages[i].shown = 0
        BY <1>1, <2>1 DEF IInv, OnceTrue
    <2>3. PICK m \in Message : /\ messages' = [messages EXCEPT ![i] = m]
                               /\ m.key = messages[i].key /\ m.stamp = messages[i].stamp
                               /\ m.shown = 1 /\ m.once = "opened"
                               /\ m.linked = messages[i].linked
        <3> DEFINE m == [messages[i] EXCEPT !.shown = messages[i].shown + 1]
        <3>1. /\ m \in Message /\ m.key = messages[i].key /\ m.stamp = messages[i].stamp
              /\ m.shown = 1 /\ m.once = "opened"
              /\ m.linked = messages[i].linked
            BY <2>1, <2>2 DEF Message
        <3>2. messages' = [messages EXCEPT ![i] = m]
            BY <1>3 DEF SetMessage
        <3> QED BY <3>1, <3>2
    <2>4. /\ messages' \in Seq(Message) /\ Len(messages') = Len(messages)
          /\ \A j \in 1..Len(messages) : messages'[j] = IF j = i THEN m ELSE messages[j]
        BY <2>1, <2>3, SetMessageIs DEF IInv
    <2>5. \A t \in Slots : calls'[t] = IF t = s THEN Idle ELSE calls[t]
        BY <1>1, IdleCall, GotoIs DEF IInv
    <2>6. Grows
        BY <2>3, <2>4, MessagesAre DEF Grows, IInv
    <2>7. \A t \in Slots : calls'[t].stage = "show" =>
             t # s /\ calls'[t] = calls[t] /\ calls[t].key # messages[i].key
        BY <1>1, <2>1, <2>5, IdleCall DEF IInv, OnceTrue
    <2>8. OnceTrue'
        <3>1. \A j \in 1..Len(messages') :
                 /\ messages'[j].shown <= 1
                 /\ messages'[j].once # "opened" => messages'[j].shown = 0
                 /\ messages'[j].linked => scene' = "direct"
            BY <1>1, <2>3, <2>4 DEF IInv, OnceTrue, others
        <3>2. ASSUME NEW t \in Slots, NEW j \in 1..Len(messages'), calls'[t].stage = "show",
                     messages'[j].key = calls'[t].key
              PROVE  messages'[j].once = "opened" /\ messages'[j].shown = 0
            <4>1. j # i
                BY <2>3, <2>4, <2>7, <3>2
            <4> QED BY <2>4, <2>7, <3>2, <4>1 DEF IInv, OnceTrue
        <3>3. \A t, u \in Slots :
                 /\ calls'[t].stage = "show" /\ calls'[u].stage = "show"
                 /\ calls'[t].key = calls'[u].key
                 => t = u
            BY <2>7 DEF IInv, OnceTrue
        <3> QED BY <3>1, <3>2, <3>3 DEF OnceTrue
    <2>9. /\ clock' \in 0..MaxClock /\ used' \in 0..RateLimit + 1 /\ told' \subseteq Keys
          /\ project' \in {"open", "completed", "revoked", "ended"}
          /\ \A k \in told' : \E j \in 1..Len(messages) : messages[j].key = k
          /\ UNCHANGED <<scene, page, report, account>>
        BY <1>1 DEF IInv, TypeOK, SavedTrue, sending, others
    <2>10. Moves(s, Idle)
        BY <1>1, IdleCall DEF Moves, CallTrue
    <2> QED BY <1>1, <2>4, <2>6, <2>8, <2>9, <2>10, IdleCall, StepKeeps
<1> QED BY <1>2, <1>3 DEF Show

\* A call that asks for an ordinary link: of a view-once message that it looks
\* for, or of one in S3.
LEMMA AskForLinkKeeps ==
    ASSUME IInv, NEW s \in Slots, NEW i \in DOMAIN messages, NEW checked \in BOOLEAN,
           AskForLink(s, i, checked)
    PROVE  IInv'
<1>1. i \in 1..Len(messages) /\ messages[i].key \in Keys /\ messages[i].once # "plain"
    BY MessagesAre DEF IInv, AskForLink
<1>2. PICK c \in Call : /\ Goto(s, c) /\ c.op = "link" /\ c.key = messages[i].key
                        /\ c.stage \in {"look", "grant"}
                        /\ c.stage = "grant" => scene = "direct"
    <2> DEFINE k == messages[i].key
               stage == IF checked THEN "look" ELSE "grant"
               d == [Idle EXCEPT !.op = "link", !.key = k, !.stage = stage]
    <2>1. k \in Keys /\ stage \in {"look", "grant"} /\ (stage = "grant" => scene = "direct")
        BY <1>1 DEF AskForLink, Watched
    <2>2. Goto(s, d)
        BY DEF AskForLink
    <2> HIDE DEF k, stage
    <2>3. d \in Call /\ d.op = "link" /\ d.key = k /\ d.stage = stage
        BY <2>1, IdleCall DEF Call, Ops, Stages
    <2> QED BY <2>1, <2>2, <2>3 DEF k
<1>3. CallTrue(c)'
    BY <1>1, <1>2 DEF CallTrue, AskForLink, others
<1> QED BY <1>2, <1>3, SentCounted, CallStepKeeps DEF AskForLink, sending

\* Whoever looks finds the message.
LEMMA LookForOnceKeeps ==
    ASSUME IInv, NEW s \in Slots, LookForOnce(s)
    PROVE  IInv'
<1>1. \E i \in 1..Len(messages) : messages[i].key = calls[s].key /\ messages[i].once # "plain"
    BY DEF LookForOnce, At, IInv, CallsTrue, CallTrue
<1>2. End(s)
    BY <1>1, MessagesAre DEF LookForOnce, Saved, IInv
<1> QED BY <1>2, SentCounted, EndKeeps DEF LookForOnce, sending

LEMMA GiveLinkKeeps ==
    ASSUME IInv, NEW s \in Slots, GiveLink(s)
    PROVE  IInv'
<1>1. End(s) /\ scene = "direct" /\ UNCHANGED <<sending, others>>
    BY DEF GiveLink, At, IInv, CallsTrue, CallTrue
<1>2. CASE UNCHANGED messages
    BY <1>1, <1>2, SentCounted, EndKeeps DEF sending
<1>3. ASSUME NEW i \in Saved(calls[s].key),
             SetMessage(i, [messages[i] EXCEPT !.linked = TRUE])
      PROVE  IInv'
    <2>1. i \in 1..Len(messages) /\ messages[i] \in Message
        BY MessagesAre DEF IInv, Saved
    <2>2. PICK m \in Message : /\ messages' = [messages EXCEPT ![i] = m]
                               /\ m.key = messages[i].key /\ m.stamp = messages[i].stamp
                               /\ m.shown = messages[i].shown /\ m.once = messages[i].once
        <3> DEFINE m == [messages[i] EXCEPT !.linked = TRUE]
        <3>1. /\ m \in Message /\ m.key = messages[i].key /\ m.stamp = messages[i].stamp
              /\ m.shown = messages[i].shown /\ m.once = messages[i].once
            BY <2>1 DEF Message
        <3>2. messages' = [messages EXCEPT ![i] = m]
            BY <1>3 DEF SetMessage
        <3> QED BY <3>1, <3>2
    <2>3. Moves(s, Idle) /\ Goto(s, Idle)
        BY <1>1, IdleCall DEF Moves, End, CallTrue
    <2>4. /\ told' \subseteq Keys /\ UNCHANGED <<clock, used>>
          /\ \A k \in told' : \E j \in 1..Len(messages) : messages[j].key = k
        BY <1>1 DEF IInv, TypeOK, SavedTrue, sending
    <2> QED BY <1>1, <2>1, <2>2, <2>3, <2>4, IdleCall, WriteKeeps
<1> QED BY <1>2, <1>3 DEF GiveLink

-----------------------------------------------------------------------------
(* The history.                                                             *)

\* The reader's place changes, and nothing else.
LEMMA PageStepKeeps ==
    ASSUME IInv, UNCHANGED <<watching, report, account, calls>>, PageTrue',
           page' \in [walk: {"off", "on", "end"}, before: 0..MaxClock + 1,
                      shown: SUBSET (1..Len(messages)), base: SUBSET (1..Len(messages))]
    PROVE  IInv'
<1>1. UNCHANGED <<scene, project, messages, clock, used, told, report, banned, lifted, online,
                  calls>>
    BY DEF watching, sending, account
<1>2. TypeOK'
    BY <1>1 DEF IInv, TypeOK
<1>3. CallsTrue'
    BY <1>1 DEF IInv, CallsTrue, CallTrue
<1>4. SavedTrue' /\ OnceTrue' /\ SceneTrue' /\ BlocksAreApplied'
    BY <1>1 DEF IInv, SavedTrue, OnceTrue, SceneTrue, BlocksAreApplied
<1> QED BY <1>2, <1>3, <1>4 DEF IInv

\* A walk begins with everything to be shown.
LEMMA OpenHistoryKeeps ==
    ASSUME IInv, OpenHistory
    PROVE  IInv'
<1>1. /\ page'.walk = "on" /\ page'.before = MaxClock + 1 /\ page'.shown = {}
      /\ page'.base = 1..Len(messages) /\ UNCHANGED messages
    BY MessagesAre DEF OpenHistory, IInv, watching
<1>2. page' \in [walk: {"off", "on", "end"}, before: 0..MaxClock + 1,
                 shown: SUBSET (1..Len(messages)), base: SUBSET (1..Len(messages))]
    BY MessagesAre, ChatAssumption DEF OpenHistory, IInv
<1>3. PageTrue'
    <2>1. \A i \in 1..Len(messages) : messages[i].stamp < MaxClock + 1
        BY MessagesAre, ChatAssumption DEF IInv
    <2> QED BY <1>1, <2>1 DEF PageTrue
<1> QED BY <1>2, <1>3, PageStepKeeps DEF OpenHistory

LEMMA GetNothingKeeps ==
    ASSUME IInv, GetNothing
    PROVE  IInv'
<1>1. page' \in [walk: {"off", "on", "end"}, before: 0..MaxClock + 1,
                 shown: SUBSET (1..Len(messages)), base: SUBSET (1..Len(messages))]
    BY ChatAssumption DEF GetNothing, NoPage
<1>2. PageTrue'
    BY DEF GetNothing, NoPage, PageTrue
<1> QED BY <1>1, <1>2, PageStepKeeps DEF GetNothing

\* What is left older than the cursor is no newer than the page; and the next
\* cursor is the date of the page's oldest message.
LEMMA GetPageKeeps ==
    ASSUME IInv, GetPage
    PROVE  IInv'
<1>1. PICK P \in Newest(Older, PageSize) :
         page' = [page EXCEPT !.shown = @ \cup P,
                              !.before = IF P = Older THEN @ ELSE Oldest(P),
                              !.walk = IF P = Older THEN "end" ELSE @]
    BY DEF GetPage
<1>2. /\ Older \subseteq 1..Len(messages) /\ P \subseteq Older
      /\ \A i \in P, j \in Older \ P : messages[i].stamp >= messages[j].stamp
    BY MessagesAre DEF Older, Newest, IInv
<1>3. /\ page.walk = "on" /\ page.before \in 0..MaxClock + 1
      /\ page.shown \in SUBSET (1..Len(messages)) /\ page.base \in SUBSET (1..Len(messages))
    BY DEF GetPage, IInv, TypeOK
<1>4. P # Older => /\ \E i \in P : Oldest(P) = messages[i].stamp
                   /\ \A i \in P : Oldest(P) <= messages[i].stamp
                   /\ Oldest(P) \in 0..MaxClock + 1
    <2> SUFFICES ASSUME P # Older
                 PROVE  /\ \E i \in P : Oldest(P) = messages[i].stamp
                        /\ \A i \in P : Oldest(P) <= messages[i].stamp
                        /\ Oldest(P) \in 0..MaxClock + 1
        OBVIOUS
    <2>1. P # {} /\ P \in SUBSET (1..Len(messages))
        BY <1>2, PageIsFull DEF IInv
    <2> QED BY <2>1, OldestIs, ChatAssumption DEF IInv
<1>5. /\ page'.shown = page.shown \cup P /\ page'.base = page.base
      /\ page'.before = (IF P = Older THEN page.before ELSE Oldest(P))
      /\ page'.walk = (IF P = Older THEN "end" ELSE "on")
      /\ page' \in [walk: {"off", "on", "end"}, before: 0..MaxClock + 1,
                    shown: SUBSET (1..Len(messages)), base: SUBSET (1..Len(messages))]
    <2> DEFINE before == IF P = Older THEN page.before ELSE Oldest(P)
               walk == IF P = Older THEN "end" ELSE page.walk
    <2>1. /\ before \in 0..MaxClock + 1 /\ walk \in {"off", "on", "end"}
          /\ walk = (IF P = Older THEN "end" ELSE "on")
          /\ page.shown \cup P \in SUBSET (1..Len(messages))
        BY <1>2, <1>3, <1>4
    <2>2. page' = [page EXCEPT !.shown = page.shown \cup P, !.before = before, !.walk = walk]
        BY <1>1
    <2>3. before = IF P = Older THEN page.before ELSE Oldest(P)
        OBVIOUS
    <2> HIDE DEF before, walk
    <2> QED BY <1>3, <2>1, <2>2, <2>3 DEF IInv, TypeOK
<1>6. UNCHANGED messages
    BY DEF GetPage, watching
<1>7. ASSUME NEW i \in page'.base \ page'.shown
      PROVE  \/ page'.walk = "on" /\ messages'[i].stamp < page'.before
             \/ \E j \in page'.shown : messages'[j].stamp = messages'[i].stamp
    <2>1. i \in page.base \ page.shown /\ i \notin P /\ i \in 1..Len(messages)
        BY <1>3, <1>5
    <2>2. CASE \E j \in page.shown : messages[j].stamp = messages[i].stamp
        BY <1>5, <1>6, <2>2
    <2>3. CASE messages[i].stamp < page.before
        <3>1. i \in Older \ P /\ P # Older
            BY <2>1, <2>3, MessagesAre DEF Older, IInv
        <3>2. PICK j \in P : Oldest(P) = messages[j].stamp
            BY <1>4, <3>1
        <3>3. messages[j].stamp >= messages[i].stamp
            BY <1>2, <3>1, <3>2
        <3>4. messages[j].stamp \in Int /\ messages[i].stamp \in Int
            BY <1>2, <2>1, <3>2, MessagesAre, ChatAssumption DEF IInv
        <3>5. CASE messages[j].stamp = messages[i].stamp
            BY <1>5, <1>6, <3>2, <3>5
        <3>6. CASE messages[i].stamp < messages[j].stamp
            BY <1>5, <1>6, <3>1, <3>2, <3>6
        <3> QED BY <3>3, <3>4, <3>5, <3>6
    <2> QED BY <1>3, <2>1, <2>2, <2>3 DEF IInv, PageTrue
<1>8. PageTrue'
    BY <1>7 DEF PageTrue
<1> QED BY <1>5, <1>8, PageStepKeeps DEF GetPage

-----------------------------------------------------------------------------
(* Sockets, the report and the ban.                                         *)

\* A step that changes the report, the account or the calls that deal with
\* them: the messages stay, and a block that was applied stays so or is lifted.
LEMMA ModerateKeeps ==
    ASSUME IInv, UNCHANGED <<watching, page>>,
           report' \in [status: {"none", "open"} \cup Closed, decision: Actions \cup {"none"}],
           banned' \in BOOLEAN, online' \in BOOLEAN, lifted' \in BOOLEAN,
           banned \/ lifted => banned' \/ lifted',
           NEW s \in Slots, NEW c \in Call, Moves(s, c), c.stage # "show",
           SceneTrue', BlocksAreApplied'
    PROVE  IInv'
<1>1. UNCHANGED <<scene, project, messages, clock, used, told, page>>
    BY DEF watching, sending
<1>2. calls' \in [Slots -> Call]
    BY GotoIs DEF IInv, Moves, TypeOK
<1>3. TypeOK'
    BY <1>1, <1>2 DEF IInv, TypeOK
<1>4. Grows
    BY <1>1, MessagesAre DEF Grows, IInv
<1>5. CallsTrue'
    BY <1>1, <1>3, <1>4, CallsKeep
<1>6. SavedTrue'
    BY <1>1 DEF IInv, SavedTrue
<1>7. OnceTrue'
    BY <1>1, OnceKeeps DEF Moves
<1>8. PageTrue'
    BY <1>1, <1>3, <1>4, PageKeeps
<1> QED BY <1>3, <1>5, <1>6, <1>7, <1>8 DEF IInv

\* Of such steps, those that only move a call.
LEMMA OfficeKeeps ==
    ASSUME IInv, NEW s \in Slots, NEW c \in Call, Goto(s, c), CallTrue(c)',
           UNCHANGED <<watching, page, report, account>>, c.stage # "show"
    PROVE  IInv'
<1>1. BlocksAreApplied'
    BY DEF IInv, BlocksAreApplied, account
<1>2. SceneTrue' /\ Moves(s, c)
    BY DEF IInv, SceneTrue, watching, account, Moves
<1>3. /\ report' \in [status: {"none", "open"} \cup Closed, decision: Actions \cup {"none"}]
      /\ banned' \in BOOLEAN /\ online' \in BOOLEAN /\ lifted' \in BOOLEAN
      /\ banned \/ lifted => banned' \/ lifted'
    BY DEF IInv, TypeOK, account
<1> QED BY <1>1, <1>2, <1>3, ModerateKeeps

\* Of such steps, those that open or close sockets, and end a call or none.
LEMMA SocketKeeps ==
    ASSUME IInv, UNCHANGED <<watching, page, report, banned, lifted>>, online' \in BOOLEAN,
           NEW s \in Slots, Moves(s, Idle)
    PROVE  IInv'
<1>1. BlocksAreApplied'
    BY DEF IInv, BlocksAreApplied
<1>2. SceneTrue'
    BY DEF IInv, SceneTrue, watching
<1>3. /\ report' \in [status: {"none", "open"} \cup Closed, decision: Actions \cup {"none"}]
      /\ banned' \in BOOLEAN /\ lifted' \in BOOLEAN
    BY DEF IInv, TypeOK
<1> QED BY <1>1, <1>2, <1>3, IdleCall, ModerateKeeps

LEMMA ConnectKeeps ==
    ASSUME IInv, NEW s \in Slots, Connect(s) \/ CheckAccount(s)
    PROVE  IInv'
<1>1. /\ scene = "report" /\ scene' = scene
      /\ UNCHANGED <<watching, page, report, account>>
    BY IdleCall DEF Connect, CheckAccount, At, IInv, CallsTrue, CallTrue, watching
<1>2. CASE End(s)
    <2>1. CallTrue(Idle)'
        BY IdleCall DEF CallTrue
    <2> QED BY <1>1, <1>2, <2>1, IdleCall, OfficeKeeps DEF End
<1>3. CASE CheckAccount(s) /\ Stage(s, "enter")
    <2>1. PICK c \in Call : Goto(s, c) /\ c.stage = "enter" /\ c.op = "connect"
        BY <1>3, StageIs DEF IInv, Stages, CheckAccount, At
    <2>2. CallTrue(c)'
        BY <1>1, <2>1 DEF CallTrue
    <2> QED BY <1>1, <2>1, <2>2, OfficeKeeps
<1>4. CASE Connect(s)
    <2>1. PICK c \in Call : Goto(s, c) /\ c.stage = "account" /\ c.op = "connect"
        <3> DEFINE d == [Idle EXCEPT !.op = "connect", !.stage = "account"]
        <3>1. d \in Call /\ d.stage = "account" /\ d.op = "connect"
            BY IdleCall DEF Call, Ops, Stages
        <3> QED BY <1>4, <3>1 DEF Connect
    <2>2. CallTrue(c)'
        BY <1>1, <2>1 DEF CallTrue
    <2> QED BY <1>1, <2>1, <2>2, OfficeKeeps
<1> QED BY <1>2, <1>3, <1>4 DEF CheckAccount

\* The steps that end a call and leave the sockets open or closed.
LEMMA EndSocketsKeeps ==
    ASSUME IInv, NEW s \in Slots, EnterRoom(s) \/ DisconnectUser(s) \/ Restart(s)
    PROVE  IInv'
<1>1. Goto(s, Idle) /\ UNCHANGED <<watching, page, report, banned, lifted>>
    BY DEF EnterRoom, DisconnectUser, Restart, End
<1>2. online' \in BOOLEAN
    BY DEF EnterRoom, DisconnectUser, Restart, IInv, TypeOK
<1>3. Moves(s, Idle)
    BY <1>1, IdleCall DEF Moves, CallTrue
<1> QED BY <1>1, <1>2, <1>3, SocketKeeps

LEMMA DecideKeeps ==
    ASSUME IInv, NEW s \in Slots, NEW action \in Actions, Decide(s, action)
    PROVE  IInv'
<1>1. PICK c \in Call : Goto(s, c) /\ c.stage = "report" /\ c.op = "decide"
    <2> DEFINE d == [Idle EXCEPT !.op = "decide", !.stage = "report", !.action = action]
    <2>1. d \in Call /\ d.stage = "report" /\ d.op = "decide"
        BY IdleCall DEF Call, Ops, Stages
    <2> QED BY <2>1 DEF Decide
<1>2. scene = "report" /\ scene' = scene
    BY IdleCall DEF Decide, IInv, SceneTrue, watching
<1>3. CallTrue(c)'
    BY <1>1, <1>2 DEF CallTrue
<1> QED BY <1>1, <1>2, <1>3, OfficeKeeps DEF Decide

\* Only the dismissal of a report goes to its record with nothing applied.
LEMMA ReadReportKeeps ==
    ASSUME IInv, NEW s \in Slots, ReadReport(s)
    PROVE  IInv'
<1>1. /\ calls[s].op = "decide" /\ scene = "report" /\ scene' = scene
      /\ UNCHANGED <<watching, page, report, account>>
    BY DEF ReadReport, At, IInv, CallsTrue, CallTrue, watching
<1>2. CASE End(s)
    <2>1. CallTrue(Idle)'
        BY IdleCall DEF CallTrue
    <2> QED BY <1>1, <1>2, <2>1, IdleCall, OfficeKeeps DEF End
<1>3. ASSUME NEW stage \in {"record", "apply"}, Stage(s, stage),
             stage = "record" => calls[s].action = "dismiss"
      PROVE  IInv'
    <2>1. PICK c \in Call : /\ Goto(s, c) /\ c.stage = stage /\ c.op = "decide"
                            /\ c.action = calls[s].action
        BY <1>1, <1>3, StageIs DEF IInv, Stages
    <2>2. CallTrue(c)'
        BY <1>1, <1>3, <2>1 DEF CallTrue, Bans
    <2> QED BY <1>1, <1>3, <2>1, <2>2, OfficeKeeps
<1> QED BY <1>2, <1>3 DEF ReadReport

\* A block is applied before it is recorded; another decision leaves it alone.
LEMMA ApplyDecisionKeeps ==
    ASSUME IInv, NEW s \in Slots, ApplyDecision(s)
    PROVE  IInv'
<1>1. /\ calls[s].op = "decide" /\ scene = "report" /\ scene' = scene
      /\ UNCHANGED <<watching, page, report, online>>
    BY DEF ApplyDecision, At, IInv, CallsTrue, CallTrue, watching
<1>2. /\ banned' \in BOOLEAN /\ lifted' \in BOOLEAN
      /\ banned \/ lifted => banned' \/ lifted'
    <2>1. banned \in BOOLEAN /\ lifted \in BOOLEAN
        BY DEF IInv, TypeOK
    <2>2. CASE calls[s].action \in Bans
        BY <2>1, <2>2 DEF ApplyDecision
    <2>3. CASE calls[s].action \notin Bans
        BY <2>1, <2>3 DEF ApplyDecision
    <2> QED BY <2>2, <2>3
<1>3. PICK c \in Call : Goto(s, c) /\ c.stage # "show" /\ CallTrue(c)'
    <2>1. CASE End(s)
        BY <2>1, IdleCall DEF End, CallTrue
    <2>2. CASE Stage(s, "record") /\ (calls[s].action \in Bans => banned')
        <3>1. PICK c \in Call : /\ Goto(s, c) /\ c.stage = "record" /\ c.op = "decide"
                                /\ c.action = calls[s].action
            BY <1>1, <2>2, StageIs DEF IInv, Stages
        <3>2. CallTrue(c)'
            BY <1>1, <2>2, <3>1 DEF CallTrue
        <3> QED BY <3>1, <3>2
    <2> QED BY <2>1, <2>2 DEF ApplyDecision
<1>4. BlocksAreApplied'
    BY <1>1, <1>2 DEF IInv, BlocksAreApplied
<1>5. SceneTrue' /\ Moves(s, c)
    BY <1>1, <1>3 DEF SceneTrue, Moves
<1>6. /\ report' \in [status: {"none", "open"} \cup Closed, decision: Actions \cup {"none"}]
      /\ online' \in BOOLEAN
    BY <1>1 DEF IInv, TypeOK
<1> QED BY <1>1, <1>2, <1>3, <1>4, <1>5, <1>6, ModerateKeeps

\* The call that records a block has applied it.
LEMMA RecordDecisionKeeps ==
    ASSUME IInv, NEW s \in Slots, RecordDecision(s)
    PROVE  IInv'
<1>1. /\ calls[s].op = "decide" /\ calls[s].stage = "record" /\ calls[s].action \in Actions
      /\ scene = "report" /\ scene' = scene
      /\ UNCHANGED <<watching, page, account>>
    BY DEF RecordDecision, At, IInv, TypeOK, Call, CallsTrue, CallTrue, watching
<1>2. UNCHANGED <<banned, lifted, online>>
    BY <1>1 DEF account
<1>3. PICK c \in Call : Goto(s, c) /\ c.stage # "show" /\ CallTrue(c)'
    <2>1. CASE End(s)
        BY <2>1, IdleCall DEF End, CallTrue
    <2>2. CASE Stage(s, "audit")
        <3>1. PICK c \in Call : Goto(s, c) /\ c.stage = "audit" /\ c.op = "decide"
            BY <1>1, <2>2, StageIs DEF IInv, Stages
        <3>2. CallTrue(c)'
            BY <1>1, <3>1 DEF CallTrue
        <3> QED BY <3>1, <3>2
    <2> QED BY <2>1, <2>2 DEF RecordDecision
<1>4. CASE UNCHANGED report
    BY <1>1, <1>3, <1>4, OfficeKeeps
<1>5. ASSUME NEW status \in Closed,
             report' = [decision |-> calls[s].action, status |-> status]
      PROVE  IInv'
    <2>1. report' \in [status: {"none", "open"} \cup Closed, decision: Actions \cup {"none"}]
        BY <1>1, <1>5
    <2>2. calls[s].action \in Bans => banned \/ lifted
        BY <1>1 DEF IInv, CallsTrue, CallTrue
    <2>3. BlocksAreApplied'
        BY <1>2, <1>5, <2>2 DEF BlocksAreApplied
    <2>4. SceneTrue' /\ Moves(s, c)
        BY <1>1, <1>3 DEF SceneTrue, Moves
    <2>5. banned' \in BOOLEAN /\ online' \in BOOLEAN /\ lifted' \in BOOLEAN
        BY <1>2 DEF IInv, TypeOK
    <2> QED BY <1>1, <1>2, <1>3, <2>1, <2>3, <2>4, <2>5, ModerateKeeps
<1> QED BY <1>4, <1>5 DEF RecordDecision, Closed

LEMMA AuditDecisionKeeps ==
    ASSUME IInv, NEW s \in Slots, AuditDecision(s)
    PROVE  IInv'
<1>1. /\ calls[s].op = "decide" /\ scene = "report" /\ scene' = scene
      /\ UNCHANGED <<watching, page, report, account>>
    BY DEF AuditDecision, At, IInv, CallsTrue, CallTrue, watching
<1>2. CASE End(s)
    <2>1. CallTrue(Idle)'
        BY IdleCall DEF CallTrue
    <2> QED BY <1>1, <1>2, <2>1, IdleCall, OfficeKeeps DEF End
<1>3. CASE Stage(s, "kick")
    <2>1. PICK c \in Call : Goto(s, c) /\ c.stage = "kick" /\ c.op = "decide"
        BY <1>1, <1>3, StageIs DEF IInv, Stages
    <2>2. CallTrue(c)'
        BY <1>1, <2>1 DEF CallTrue
    <2> QED BY <1>1, <2>1, <2>2, OfficeKeeps
<1> QED BY <1>2, <1>3 DEF AuditDecision

\* Steps that no call of a slot makes.
LEMMA AloneKeeps ==
    ASSUME IInv, Disconnect \/ ReportChat \/ Reconnect \/ (\E value \in BOOLEAN : BanUser(value))
    PROVE  IInv'
<1>1. calls' = calls /\ UNCHANGED <<watching, page>> /\ scene' = scene
    BY DEF Disconnect, ReportChat, Reconnect, BanUser, watching
<1>2. PICK s \in Slots : Moves(s, Idle)
    BY <1>1, ChatAssumption DEF Moves
<1>3. CASE Disconnect \/ Reconnect
    BY <1>2, <1>3, SocketKeeps DEF Disconnect, Reconnect
<1>4. CASE ReportChat
    <2>1. SceneTrue'
        BY <1>1, <1>4 DEF ReportChat, SceneTrue
    <2>2. BlocksAreApplied'
        BY <1>4 DEF ReportChat, IInv, TypeOK, BlocksAreApplied
    <2>3. report' \in [status: {"none", "open"} \cup Closed, decision: Actions \cup {"none"}]
        BY <1>4 DEF ReportChat, IInv, TypeOK
    <2>4. /\ banned' \in BOOLEAN /\ online' \in BOOLEAN /\ lifted' \in BOOLEAN
          /\ banned \/ lifted => banned' \/ lifted'
        BY <1>4 DEF ReportChat, account, IInv, TypeOK
    <2> QED BY <1>1, <1>2, <2>1, <2>2, <2>3, <2>4, IdleCall, ModerateKeeps
<1>5. ASSUME NEW value \in BOOLEAN, BanUser(value) PROVE IInv'
    <2>1. SceneTrue' /\ BlocksAreApplied' /\ (banned \/ lifted => banned' \/ lifted')
        BY <1>1, <1>5 DEF BanUser, SceneTrue, BlocksAreApplied
    <2>2. /\ report' \in [status: {"none", "open"} \cup Closed, decision: Actions \cup {"none"}]
          /\ banned' \in BOOLEAN /\ online' \in BOOLEAN /\ lifted' \in BOOLEAN
        BY <1>5 DEF BanUser, IInv, TypeOK
    <2> QED BY <1>1, <1>2, <2>1, <2>2, IdleCall, ModerateKeeps
<1> QED BY <1>3, <1>4, <1>5

-----------------------------------------------------------------------------
(* The specification.                                                       *)

\* Nothing is said before the first message.
LEMMA InitHolds == Init => IInv
<1> SUFFICES ASSUME Init PROVE IInv
    OBVIOUS
<1>1. Len(messages) = 0 /\ messages \in Seq(Message) /\ ~banned /\ page = NoPage
    BY DEF Init
<1>2. calls \in [Slots -> Call] /\ \A s \in Slots : calls[s] = Idle
    BY IdleCall DEF Init
<1>3. 0 \in 0..MaxClock /\ 0 \in 0..MaxClock + 1 /\ 0 \in 0..RateLimit + 1
    BY ChatAssumption
<1>4. TypeOK
    <2>1. page \in [walk: {"off", "on", "end"}, before: 0..MaxClock + 1,
                    shown: SUBSET (1..Len(messages)), base: SUBSET (1..Len(messages))]
        BY <1>1, <1>3 DEF NoPage
    <2>2. /\ report \in [status: {"none", "open"} \cup Closed, decision: Actions \cup {"none"}]
          /\ banned \in BOOLEAN /\ online \in BOOLEAN /\ lifted \in BOOLEAN /\ told \subseteq Keys
        BY DEF Init
    <2>3. Len(messages) = 0 /\ messages \in Seq(Message)
        BY <1>1
    <2>4. /\ scene \in Scenes /\ project \in {"open", "completed", "revoked", "ended"}
          /\ clock \in 0..MaxClock /\ used \in 0..RateLimit + 1
        BY <1>3 DEF Init
    <2> QED BY <1>2, <2>1, <2>2, <2>3, <2>4 DEF TypeOK
<1>5. CallsTrue
    BY <1>2, IdleCall DEF CallsTrue, CallTrue
<1>6. SavedTrue /\ OnceTrue
    BY <1>1, <1>2, IdleCall DEF Init, SavedTrue, OnceTrue
<1>7. PageTrue /\ SceneTrue /\ BlocksAreApplied
    BY <1>1 DEF Init, NoPage, PageTrue, SceneTrue, BlocksAreApplied
<1> QED BY <1>4, <1>5, <1>6, <1>7 DEF IInv

LEMMA SendKeeps ==
    ASSUME IInv, NEW s \in Slots, Send(s)
    PROVE  IInv'
<1>1. ASSUME NEW send \in Sends, SendMessage(s, send[1], send[2]) PROVE IInv'
    <2>1. send[1] \in Doors /\ send[2] \in Keys
        BY DEF Sends, Doors, Retried, Unsent, Watched, Keys
    <2> QED BY <1>1, <2>1, SendMessageKeeps
<1> QED BY <1>1, CheckOpenKeeps, AllowEventKeeps, FindDuplicateKeeps, CheckAttachmentKeeps,
           InsertMessageKeeps, EmitMessageKeeps, MarkDeliveredKeeps DEF Send

\* Every step keeps the invariant.
LEMMA StepHolds == IInv /\ [Next]_vars => IInv'
<1> SUFFICES ASSUME IInv, [Next]_vars PROVE IInv'
    OBVIOUS
<1>1. ASSUME NEW s \in Slots, Send(s) PROVE IInv'
    BY <1>1, SendKeeps
<1>2. ASSUME NEW s \in Slots, Watch(s) PROVE IInv'
    BY <1>2, StreamOnceKeeps, FindReservedKeeps, OpenOnceKeeps, ShowKeeps, AskForLinkKeeps,
       LookForOnceKeeps, GiveLinkKeeps DEF Watch
<1>3. ASSUME NEW s \in Slots, Moderate(s) PROVE IInv'
    BY <1>3, ConnectKeeps, EndSocketsKeeps, DecideKeeps, ReadReportKeeps, ApplyDecisionKeeps,
       RecordDecisionKeeps, AuditDecisionKeeps DEF Moderate
<1>4. ASSUME NEW i \in DOMAIN messages, ReserveOnce(i) \/ LapseLink(i) PROVE IInv'
    BY <1>4, ReserveOnceKeeps, LapseLinkKeeps
<1>5. CASE NewWindow \/ MarkRead \/ CloseChat
    BY <1>5, QuietKeeps, MarkReadKeeps
<1>6. CASE OpenHistory \/ GetPage \/ GetNothing
    BY <1>6, OpenHistoryKeeps, GetPageKeeps, GetNothingKeeps
<1>7. CASE Disconnect \/ ReportChat \/ Reconnect \/ (\E value \in BOOLEAN : BanUser(value))
    BY <1>7, AloneKeeps
<1>8. ASSUME NEW s \in Slots, Restart(s) PROVE IInv'
    BY <1>8, EndSocketsKeeps
<1>9. CASE UNCHANGED vars
    BY <1>9 DEF vars, IInv, TypeOK, CallsTrue, CallTrue, SavedTrue, OnceTrue, PageTrue,
                SceneTrue, BlocksAreApplied
<1> QED BY <1>1, <1>2, <1>3, <1>4, <1>5, <1>6, <1>7, <1>8, <1>9 DEF Next

\* The inductive invariant holds in every behaviour.
THEOREM Invariance == Spec => []IInv
BY InitHolds, StepHolds, PTL DEF Spec

\* Every variable keeps its type.
THEOREM TypeCorrect == Spec => []TypeOK
<1>1. IInv => TypeOK
    BY DEF IInv
<1> QED BY <1>1, Invariance, PTL

\* However often and through whichever door an author retries, a message is
\* saved once, and an author who was answered success has it saved.
THEOREM SendsAreOnce == Spec => []EachSendOnce
<1>1. ASSUME IInv, NEW k \in Keys PROVE Cardinality(Saved(k)) <= 1
    <2>1. \A i, j \in Saved(k) : i = j
        BY <1>1, MessagesAre DEF IInv, SavedTrue, Saved
    <2>2. CASE Saved(k) = {}
        BY <2>2, FS_EmptySet
    <2>3. ASSUME NEW i \in Saved(k) PROVE Cardinality(Saved(k)) <= 1
        <3>1. Saved(k) = {i}
            BY <2>1
        <3> QED BY <3>1, FS_Singleton
    <2> QED BY <2>2, <2>3
<1>2. ASSUME IInv, NEW k \in told PROVE Saved(k) # {}
    BY <1>2, MessagesAre DEF IInv, SavedTrue, Saved
<1>3. IInv => EachSendOnce
    BY <1>1, <1>2 DEF EachSendOnce
<1> QED BY <1>3, Invariance, PTL

\* Through its one-time links a view-once video is streamed at most once, and
\* only when marked opened; and no ordinary link to one in GridFS is given out.
THEOREM MediaIsStreamedOnce == Spec => []StreamedOnce
<1>1. IInv => StreamedOnce
    BY MessagesAre DEF IInv, OnceTrue, StreamedOnce
<1> QED BY <1>1, Invariance, PTL

\* A walk through the history skips no message, but for one dated the same
\* instant as the end of a page.
THEOREM WalksSkipNothing == Spec => []PagesSkipNothing
<1>1. IInv => PagesSkipNothing
    BY DEF IInv, PageTrue, PagesSkipNothing
<1> QED BY <1>1, Invariance, PTL

\* No decision to block the author is recorded that was not applied: he is
\* banned, unless ban_user has lifted the ban.
THEOREM RecordedBlocksAreApplied == Spec => []BlocksAreApplied
<1>1. IInv => BlocksAreApplied
    BY DEF IInv
<1> QED BY <1>1, Invariance, PTL
=============================================================================
