--------------------------- MODULE Accounts_proofs --------------------------
(* What Accounts guarantees for every number of concurrent calls, sessions,  *)
(* codes and passwords, every workload, and calls killed at any stage: one   *)
(* live session per family, one acceptance per code, bounded guesses, and no *)
(* access token that outlives a restoration.                                 *)
EXTENDS Accounts, FiniteSetTheorems, SequenceTheorems, TLAPS

\* What a call in flight knows.
CallTrue(c) ==
    /\ c.op = "refresh" => c.token \in 1..Len(sessions)
    /\ c.op = "request" =>
          /\ c.stage = "session" /\ c.token \in 1..Len(sessions)
          /\ sessions[c.token].iat >= c.since
    /\ c.op \notin {"refresh", "request"} => c.token = 0
    /\ c.stage \in {"clear", "issue"} => account.here /\ account.verified
    /\ c.stage = "issue" => c.since = clock \/ account.validAfter = clock
    /\ c.stage \in {"mail", "consume", "mark"} => c.code \in 1..issued
    /\ c.stage = "mark" => code["verify_email"].id # c.code

CallsTrue == \A s \in Slots : CallTrue(calls[s])

\* A session exists for an account whose address is verified, which it stays;
\* and a session of now is one that the account accepts.
AccountTrue ==
    /\ account.google => account.here /\ account.verified
    /\ Len(sessions) > 0 => account.here /\ account.verified
    /\ \A i \in 1..Len(sessions) :
          sessions[i].iat >= account.validAfter => sessions[i].iat >= clock

\* A refresh that has rotated its token and not yet inserted the next one
\* carries the line of its family.
Carries(c) == c.op = "refresh" /\ c.stage \in {"owner", "issue"}

LinesTrue ==
    /\ \A i \in 1..Len(sessions) : sessions[i].family \in 1..i
    /\ \A i, j \in 1..Len(sessions) :
          sessions[i].family = sessions[j].family /\ Live(j) =>
             (Live(i) => i = j) /\ sessions[i].status # "logout"
    /\ \A s \in Slots : Carries(calls[s]) =>
          \A i \in 1..Len(sessions) :
             sessions[i].family = sessions[calls[s].token].family =>
                sessions[i].status \notin {"live", "logout"}
    /\ \A s, t \in Slots :
          /\ Carries(calls[s]) /\ Carries(calls[t])
          /\ sessions[calls[s].token].family = sessions[calls[t].token].family
          => s = t

\* Calls that have compared a wrong guess and not counted it, or counted the
\* last one and not locked the code.
PurposeOf(c) == IF c.op \in {"forgot", "reset"} THEN "reset_password"
                                                ELSE "verify_email"
Trying(p)  == {s \in Slots : calls[s].stage = "try" /\ PurposeOf(calls[s]) = p}
Locking(p) == {s \in Slots : calls[s].stage = "lock" /\ PurposeOf(calls[s]) = p}

CodesTrue ==
    /\ \A p \in Purposes : code[p].id <= issued
    /\ \A p, q \in Purposes : code[p].id > 0 /\ code[p].id = code[q].id => p = q
    /\ \A n \in 1..MaxCodes :
          /\ n > issued => guessed[n] = 0
          /\ guessed[n] <= OtpMax - 1 + Cardinality(Slots)
    /\ \A p \in Purposes : code[p].id > 0 /\ ~code[p].locked =>
          /\ code[p].tries <= OtpMax - 1 + Cardinality(Locking(p))
          /\ guessed[code[p].id] <= code[p].tries + Cardinality(Trying(p))
    /\ \A s, t \in Slots :
          /\ calls[s].stage = "mark" /\ calls[t].stage = "mark"
          /\ calls[s].code = calls[t].code
          => s = t

\* Logins let in, and those of them that have failed and are not counted.
Counting == {s \in Slots : calls[s].stage = "count"}
LetIn    == {s \in Slots : calls[s].stage \in {"user", "count"}}

ThrottleTrue ==
    /\ guesses <= failures + Cardinality(Counting)
    /\ failures + Cardinality(LetIn) <= LoginMax - 1 + Cardinality(Slots)

IInv == TypeOK /\ CallsTrue /\ AccountTrue /\ LinesTrue /\ CodesTrue /\ ThrottleTrue

-----------------------------------------------------------------------------
(* Operators of the model.                                                  *)

\* The slots are finitely many.
LEMMA SlotsCounted == Cardinality(Slots) \in Nat
BY AccountAssumption, FS_CardinalityType

\* Any set of calls in flight can be counted.
LEMMA SubsetCounted ==
    ASSUME NEW A \in SUBSET Slots
    PROVE  /\ IsFiniteSet(A) /\ Cardinality(A) \in Nat
           /\ Cardinality(A) <= Cardinality(Slots)
<1>1. IsFiniteSet(A) /\ Cardinality(A) <= Cardinality(Slots)
    BY AccountAssumption, FS_Subset
<1> QED BY <1>1, FS_CardinalityType

\* Two sets of slots that have no slot in common.
LEMMA DisjointCounted ==
    ASSUME NEW A \in SUBSET Slots, NEW B \in SUBSET Slots, A \cap B = {}
    PROVE  Cardinality(A) + Cardinality(B) <= Cardinality(Slots)
<1>1. IsFiniteSet(A) /\ IsFiniteSet(B)
    BY SubsetCounted
<1>2. /\ Cardinality(A \cup B) = Cardinality(A) + Cardinality(B) - Cardinality(A \cap B)
      /\ Cardinality(A \cap B) = 0
    BY <1>1, FS_Union, FS_EmptySet
<1>3. Cardinality(A \cup B) <= Cardinality(Slots)
    BY SubsetCounted
<1> QED BY <1>1, <1>2, <1>3, SubsetCounted

\* A set of slots that changes at one slot.
LEMMA CountChanges ==
    ASSUME NEW A \in SUBSET Slots, NEW B \in SUBSET Slots, NEW s \in Slots,
           \A t \in Slots \ {s} : t \in A <=> t \in B
    PROVE  Cardinality(B) = IF s \in A /\ s \notin B THEN Cardinality(A) - 1
                            ELSE IF s \in B /\ s \notin A THEN Cardinality(A) + 1
                            ELSE Cardinality(A)
<1>1. IsFiniteSet(A)
    BY SubsetCounted
<1>2. CASE s \in A /\ s \notin B
    <2>1. B = A \ {s}
        BY <1>2
    <2> QED BY <1>1, <1>2, <2>1, FS_RemoveElement
<1>3. CASE s \in B /\ s \notin A
    <2>1. B = A \cup {s}
        BY <1>3
    <2> QED BY <1>1, <1>3, <2>1, FS_AddElement
<1>4. CASE s \in A <=> s \in B
    <2>1. B = A
        BY <1>4
    <2> QED BY <1>4, <2>1
<1> QED BY <1>2, <1>3, <1>4

\* What the type says of the sessions, one by one.
LEMMA SessionsAre ==
    ASSUME TypeOK
    PROVE  /\ Len(sessions) \in 0..MaxSessions
           /\ DOMAIN sessions = 1..Len(sessions)
           /\ \A i \in 1..Len(sessions) :
                 /\ sessions[i] \in Session
                 /\ sessions[i].family \in 1..MaxSessions
                 /\ sessions[i].iat \in 0..MaxMoves
<1>1. /\ Len(sessions) \in Nat /\ DOMAIN sessions = 1..Len(sessions)
      /\ sessions \in [1..Len(sessions) -> Session]
    BY LenProperties DEF TypeOK
<1>2. Len(sessions) \in 0..MaxSessions
    BY <1>1, AccountAssumption DEF TypeOK
<1>3. \A i \in 1..Len(sessions) : sessions[i] \in Session
    BY <1>1
<1>4. \A x \in Session : x.family \in 1..MaxSessions /\ x.iat \in 0..MaxMoves
    BY DEF Session
<1> QED BY <1>1, <1>2, <1>3, <1>4

\* Revoking changes the status of live sessions, and nothing else.
LEMMA RevokeIs ==
    ASSUME TypeOK, NEW I, NEW reason \in Reasons, Revoke(I, reason)
    PROVE  /\ sessions' \in Seq(Session) /\ Len(sessions') = Len(sessions)
           /\ \A i \in 1..Len(sessions) :
                 /\ sessions'[i].family = sessions[i].family
                 /\ sessions'[i].iat = sessions[i].iat
                 /\ sessions'[i].status = IF i \in I /\ Live(i) THEN reason
                                          ELSE sessions[i].status
<1> DEFINE n == Len(sessions)
           next(i) == IF i \in I /\ Live(i) THEN [sessions[i] EXCEPT !.status = reason]
                                            ELSE sessions[i]
<1>1. n \in Nat /\ DOMAIN sessions = 1..n
    BY SessionsAre, AccountAssumption
<1>2. ASSUME NEW i \in 1..n
      PROVE  /\ next(i) \in Session /\ next(i).family = sessions[i].family
             /\ next(i).iat = sessions[i].iat
             /\ next(i).status = IF i \in I /\ Live(i) THEN reason ELSE sessions[i].status
    <2>1. sessions[i] \in Session
        BY SessionsAre
    <2> QED BY <2>1 DEF Session
<1> HIDE DEF n
<1>3. sessions' = [i \in 1..n |-> next(i)]
    BY <1>1 DEF Revoke
<1> HIDE DEF next
<1>4. sessions' \in Seq(Session) /\ Len(sessions') = n
    BY <1>1, <1>2, <1>3
<1> QED BY <1>2, <1>3, <1>4 DEF n

-----------------------------------------------------------------------------
(* Parts of the invariant that a step leaves alone.                         *)

\* What a step leaves alone has not become less.
LEMMA SameIsNoLess ==
    ASSUME TypeOK
    PROVE  Len(sessions) <= Len(sessions) /\ issued <= issued
<1>1. Len(sessions) \in Nat /\ issued \in Nat
    BY SessionsAre, AccountAssumption DEF TypeOK
<1> QED BY <1>1

\* One call moves, the others stay where they are.
LEMMA GotoIs ==
    ASSUME TypeOK, NEW s \in Slots, NEW c \in Call, Goto(s, c)
    PROVE  /\ calls' \in [Slots -> Call]
           /\ \A t \in Slots : calls'[t] = IF t = s THEN c ELSE calls[t]
BY DEF TypeOK, Goto

\* A call that has answered knows nothing.
LEMMA IdleCall ==
    /\ Idle \in Call /\ CallTrue(Idle) /\ ~Carries(Idle)
    /\ Idle.stage = "idle" /\ Idle.token = 0 /\ Idle.op = "login" /\ Idle.code = 0
BY AccountAssumption DEF Idle, Call, Ops, Stages, CallTrue, Carries

\* Sessions are added and keep their time, a verified account stays one, and
\* a code in store is a new one or the one it was.
Grows ==
    /\ Len(sessions) <= Len(sessions')
    /\ \A i \in 1..Len(sessions) : sessions'[i].iat = sessions[i].iat
    /\ account.here /\ account.verified => account'.here /\ account'.verified
    /\ \/ account'.validAfter = clock'
       \/ /\ clock' = clock
          /\ account.here /\ account.verified =>
                account'.validAfter = account.validAfter
    /\ issued <= issued'
    /\ code'["verify_email"].id \in {code["verify_email"].id, 0, Ghost, issued + 1}

\* Sessions and codes are only added, so a call keeps what it knows.
LEMMA TruthStays ==
    ASSUME TypeOK, TypeOK', NEW c \in Call, CallTrue(c), Grows
    PROVE  CallTrue(c)'
<1>1. Len(sessions) \in Nat /\ Len(sessions') \in Nat /\ issued \in Nat /\ issued' \in Nat
    BY LenProperties, AccountAssumption DEF TypeOK
<1>2. 1..Len(sessions) \subseteq 1..Len(sessions') /\ 1..issued \subseteq 1..issued'
    BY <1>1 DEF Grows
<1>3. c.code \in 1..issued => c.code \notin {0, Ghost, issued + 1}
    BY <1>1 DEF Ghost
<1> QED BY <1>2, <1>3 DEF CallTrue, Grows

\* The calls in flight still know what is so when one of them has moved.
LEMMA CallsKeep ==
    ASSUME IInv, TypeOK', NEW s \in Slots, NEW c \in Call, Goto(s, c), CallTrue(c)', Grows
    PROVE  CallsTrue'
<1>1. \A t \in Slots : calls'[t] = IF t = s THEN c ELSE calls[t]
    BY GotoIs DEF IInv
<1>2. ASSUME NEW t \in Slots PROVE CallTrue(calls[t])'
    <2>1. CASE t = s
        BY <1>1, <2>1 DEF CallTrue
    <2>2. CASE t # s
        <3>1. PICK d \in Call : calls'[t] = d /\ CallTrue(d)
            BY <1>1, <2>2 DEF IInv, TypeOK, CallsTrue
        <3>2. CallTrue(d)'
            BY <3>1, TruthStays DEF IInv
        <3> QED BY <3>1, <3>2 DEF CallTrue
    <2> QED BY <2>1, <2>2
<1> QED BY <1>2 DEF CallsTrue

\* The calls stay as they are.
LEMMA CallsStay ==
    ASSUME IInv, TypeOK', UNCHANGED calls, Grows
    PROVE  CallsTrue'
<1>1. ASSUME NEW t \in Slots PROVE CallTrue(calls[t])'
    <2>1. PICK d \in Call : calls'[t] = d /\ CallTrue(d)
        BY DEF IInv, TypeOK, CallsTrue
    <2>2. CallTrue(d)'
        BY <2>1, TruthStays DEF IInv
    <2> QED BY <2>1, <2>2 DEF CallTrue
<1> QED BY <1>1 DEF CallsTrue

\* What is written to the account leaves a verified one what it was.
AccountStays ==
    /\ account' \in [here: BOOLEAN, verified: BOOLEAN, banned: BOOLEAN,
                     deleted: BOOLEAN, google: BOOLEAN,
                     password: 0..MaxPasswords, validAfter: 0..MaxMoves]
    /\ account'.google => account'.here /\ account'.verified
    /\ account.here /\ account.verified =>
          /\ account'.here /\ account'.verified
          /\ account'.validAfter = account.validAfter

\* The account a session was opened for stays, and the clock stands.
LEMMA AccountKeeps ==
    ASSUME IInv, UNCHANGED clock, Len(sessions') = Len(sessions),
           \A i \in 1..Len(sessions) : sessions'[i].iat = sessions[i].iat,
           AccountStays
    PROVE  AccountTrue'
BY SessionsAre DEF IInv, AccountTrue, AccountStays

\* Sessions only end, and no call takes up a line.
LEMMA LinesKeep ==
    ASSUME IInv, Len(sessions') = Len(sessions),
           \A i \in 1..Len(sessions) :
              /\ sessions'[i].family = sessions[i].family
              /\ \/ sessions'[i].status = sessions[i].status
                 \/ sessions[i].status = "live" /\ sessions'[i].status \in Reasons,
           \A t \in Slots : Carries(calls'[t]) =>
              Carries(calls[t]) /\ calls'[t].token = calls[t].token
    PROVE  LinesTrue'
<1>1. \A t \in Slots : Carries(calls[t]) => calls[t].token \in 1..Len(sessions)
    BY DEF IInv, CallsTrue, CallTrue, Carries
<1>2. \A i \in 1..Len(sessions) :
         /\ sessions'[i].status = "live" => sessions[i].status = "live"
         /\ sessions'[i].status = "logout" => sessions[i].status \in {"live", "logout"}
    OBVIOUS
<1>3. \A i \in 1..Len(sessions') : sessions'[i].family \in 1..i
    BY DEF IInv, LinesTrue
<1>4. \A i, j \in 1..Len(sessions') :
         sessions'[i].family = sessions'[j].family /\ sessions'[j].status = "live" =>
            (sessions'[i].status = "live" => i = j) /\ sessions'[i].status # "logout"
    BY <1>2 DEF IInv, LinesTrue, Live, Reasons
<1>5. ASSUME NEW s \in Slots, Carries(calls'[s]), NEW i \in 1..Len(sessions'),
             sessions'[i].family = sessions'[calls'[s].token].family
      PROVE  sessions'[i].status \notin {"live", "logout"}
    BY <1>1, <1>2, <1>5 DEF IInv, LinesTrue
<1>6. ASSUME NEW s \in Slots, NEW t \in Slots, Carries(calls'[s]), Carries(calls'[t]),
             sessions'[calls'[s].token].family = sessions'[calls'[t].token].family
      PROVE  s = t
    BY <1>1, <1>6 DEF IInv, LinesTrue
<1> QED BY <1>3, <1>4, <1>5, <1>6 DEF LinesTrue, Live, Carries

\* Codes and guesses are left alone, and nobody comes to accept a code.
LEMMA CodesKeep ==
    ASSUME IInv, UNCHANGED <<code, issued, guessed>>,
           \A p \in Purposes : Trying(p)' = Trying(p) /\ Locking(p)' = Locking(p),
           \A t \in Slots : calls'[t].stage = "mark" =>
              calls[t].stage = "mark" /\ calls'[t].code = calls[t].code
    PROVE  CodesTrue'
BY DEF IInv, CodesTrue

\* No login is let in, and none has failed, that was not before.
LEMMA ThrottleKeeps ==
    ASSUME IInv, UNCHANGED throttle, Counting' = Counting, LetIn' \subseteq LetIn
    PROVE  ThrottleTrue'
<1>1. LetIn \subseteq Slots /\ IsFiniteSet(LetIn)
    BY SubsetCounted DEF LetIn
<1>2. Cardinality(LetIn') \in Nat /\ Cardinality(LetIn') <= Cardinality(LetIn)
    BY <1>1, FS_Subset, FS_CardinalityType
<1>3. Cardinality(LetIn) \in Nat
    BY <1>1, FS_CardinalityType
<1>4. /\ failures \in Nat /\ failures' = failures /\ guesses' = guesses
      /\ guesses <= failures + Cardinality(Counting)
      /\ failures + Cardinality(LetIn) <= LoginMax - 1 + Cardinality(Slots)
    BY DEF IInv, TypeOK, ThrottleTrue, throttle
<1>5. failures + Cardinality(LetIn') <= LoginMax - 1 + Cardinality(Slots)
    BY <1>2, <1>3, <1>4, AccountAssumption, SlotsCounted
<1> QED BY <1>4, <1>5 DEF ThrottleTrue

\* One call moves: the parts that count slots.
LEMMA SlotsKeep ==
    ASSUME IInv, NEW s \in Slots, NEW c \in Call, Goto(s, c),
           calls[s].stage \notin {"try", "lock", "count"},
           c.stage \notin {"try", "lock", "mark", "user", "count"}
    PROVE  /\ \A p \in Purposes : Trying(p)' = Trying(p) /\ Locking(p)' = Locking(p)
           /\ Counting' = Counting /\ LetIn' \subseteq LetIn
           /\ \A t \in Slots : calls'[t].stage = "mark" =>
                 calls[t].stage = "mark" /\ calls'[t].code = calls[t].code
<1>1. \A t \in Slots : calls'[t] = IF t = s THEN c ELSE calls[t]
    BY GotoIs DEF IInv
<1> QED BY <1>1 DEF Trying, Locking, Counting, LetIn, PurposeOf

\* A step of one call that touches the account alone, if anything.
LEMMA StageKeeps ==
    ASSUME IInv, NEW s \in Slots, NEW c \in Call, Goto(s, c), CallTrue(c)',
           UNCHANGED <<sessions, codes, rest>>,
           calls[s].stage \notin {"try", "lock", "count"},
           c.stage \notin {"try", "lock", "mark", "user", "count"},
           Carries(c) => Carries(calls[s]) /\ c.token = calls[s].token,
           AccountStays
    PROVE  IInv'
<1>1. /\ calls' \in [Slots -> Call]
      /\ \A t \in Slots : calls'[t] = IF t = s THEN c ELSE calls[t]
    BY GotoIs DEF IInv
<1>2. TypeOK'
    BY <1>1 DEF IInv, TypeOK, codes, rest, throttle, AccountStays
<1>3. Grows
    BY SameIsNoLess DEF IInv, Grows, codes, rest, AccountStays
<1>4. CallsTrue'
    BY <1>2, <1>3, CallsKeep
<1>5. AccountTrue'
    BY AccountKeeps DEF rest
<1>6. LinesTrue'
    BY <1>1, LinesKeep
<1>7. CodesTrue'
    BY SlotsKeep, CodesKeep DEF codes
<1>8. ThrottleTrue'
    BY SlotsKeep, ThrottleKeeps DEF rest
<1> QED BY <1>2, <1>4, <1>5, <1>6, <1>7, <1>8 DEF IInv

-----------------------------------------------------------------------------
(* Sign-in, and every stage that only goes on.                              *)

LEMMA AccountSame == IInv /\ UNCHANGED account => AccountStays
BY DEF IInv, TypeOK, AccountTrue, AccountStays

\* A call at its next stage is a call.
LEMMA StageIs ==
    ASSUME TypeOK, NEW s \in Slots, NEW stage \in Stages, Stage(s, stage)
    PROVE  \E c \in Call : /\ Goto(s, c) /\ c.stage = stage /\ c.op = calls[s].op
                           /\ c.token = calls[s].token /\ c.code = calls[s].code
                           /\ c.since = calls[s].since
<1> DEFINE c == [calls[s] EXCEPT !.stage = stage]
<1>1. /\ c \in Call /\ c.stage = stage /\ c.op = calls[s].op
      /\ c.token = calls[s].token /\ c.code = calls[s].code /\ c.since = calls[s].since
    BY DEF TypeOK, Call
<1> QED BY <1>1 DEF Stage

\* A call that begins is a call.
LEMMA BeginIs ==
    ASSUME NEW s, NEW op \in Ops, NEW stage \in Stages, Begin(s, op, stage)
    PROVE  \E c \in Call : /\ Goto(s, c) /\ c.stage = stage /\ c.op = op
                           /\ c.token = 0 /\ c.code = 0
<1> DEFINE c == [Idle EXCEPT !.op = op, !.stage = stage]
<1>1. c \in Call /\ c.stage = stage /\ c.op = op /\ c.token = 0 /\ c.code = 0
    BY IdleCall DEF Call
<1> QED BY <1>1 DEF Begin

\* A call about to issue tokens is a call.
LEMMA ToIssueIs ==
    ASSUME TypeOK, NEW s \in Slots, NEW op \in Ops, ToIssue(s, op)
    PROVE  \E c \in Call : /\ Goto(s, c) /\ c.op = op /\ c.stage = "issue"
                           /\ c.token = calls[s].token /\ c.since = clock
<1> DEFINE d == [Idle EXCEPT !.op = op, !.stage = "issue",
                             !.token = calls[s].token, !.since = clock]
<1>1. calls[s].token \in 0..MaxSessions /\ clock \in 0..MaxMoves
    BY DEF TypeOK, Call
<1>2. d \in Call /\ d.op = op /\ d.stage = "issue"
      /\ d.token = calls[s].token /\ d.since = clock
    BY <1>1, IdleCall DEF Call, Stages
<1> QED BY <1>2 DEF ToIssue

\* It has just seen the account.
LEMMA ToIssueKeeps ==
    ASSUME IInv, NEW s \in Slots, NEW op \in Ops \ {"request"}, ToIssue(s, op),
           UNCHANGED <<sessions, codes, rest>>,
           account'.here /\ account'.verified,
           calls[s].stage \notin {"try", "lock", "count"},
           op = "refresh" => calls[s].op = "refresh" /\ calls[s].stage = "owner",
           op # "refresh" => calls[s].op \notin {"refresh", "request"},
           AccountStays
    PROVE  IInv'
<1>1. CallTrue(calls[s])
    BY DEF IInv, CallsTrue
<1>2. PICK c \in Call : /\ Goto(s, c) /\ c.op = op /\ c.stage = "issue"
                        /\ c.token = calls[s].token /\ c.since = clock
    BY ToIssueIs DEF IInv
<1>3. CallTrue(c)'
    BY <1>1, <1>2 DEF CallTrue, rest
<1>4. Carries(c) => Carries(calls[s]) /\ c.token = calls[s].token
    BY <1>2 DEF Carries
<1> QED BY <1>2, <1>3, <1>4, StageKeeps

\* A call answers.
LEMMA EndKeeps ==
    ASSUME IInv, NEW s \in Slots, End(s), UNCHANGED <<sessions, codes, rest>>,
           calls[s].stage \notin {"try", "lock", "count"}, AccountStays
    PROVE  IInv'
<1>1. CallTrue(Idle)'
    BY DEF CallTrue, Idle
<1> QED BY <1>1, IdleCall, StageKeeps DEF End

\* A request begins that takes no session.
LEMMA BeginKeeps ==
    ASSUME IInv, NEW s \in Slots, NEW op \in Ops, NEW stage \in Stages,
           Begin(s, op, stage), calls[s] = Idle,
           UNCHANGED <<account, sessions, codes, rest>>,
           op \notin {"refresh", "request"},
           stage \notin {"try", "lock", "mark", "user", "count", "clear", "mail",
                         "consume", "issue"}
    PROVE  IInv'
<1>1. PICK c \in Call : Goto(s, c) /\ c.stage = stage /\ c.op = op /\ c.token = 0 /\ c.code = 0
    BY BeginIs
<1>2. CallTrue(c)'
    BY <1>1 DEF CallTrue
<1>3. ~Carries(c)
    BY <1>1 DEF Carries
<1> QED BY <1>1, <1>2, <1>3, IdleCall, AccountSame, StageKeeps

\* Calls that begin by reading nothing.
LEMMA RequestsKeep ==
    ASSUME IInv, NEW s \in Slots,
           \/ GoogleLogin(s) \/ Register(s) \/ SendOtp(s) \/ ForgotPassword(s)
           \/ VerifyEmail(s) \/ ResetPassword(s)
    PROVE  IInv'
<1> USE DEF Ops, Stages
<1>1. calls[s] = Idle /\ UNCHANGED <<account, sessions, codes, rest>>
    BY DEF GoogleLogin, Register, SendOtp, ForgotPassword, VerifyEmail, ResetPassword, Start
<1>2. CASE GoogleLogin(s)
    <2>1. account.google => account.here /\ account.verified
        BY DEF IInv, AccountTrue
    <2>2. CASE account.google /\ ToIssue(s, "google")
        BY <1>1, <2>1, <2>2, IdleCall, AccountSame, ToIssueKeeps
    <2>3. CASE Begin(s, "google", "link")
        BY <1>1, <2>3, BeginKeeps
    <2>4. CASE Begin(s, "google", "create")
        BY <1>1, <2>4, BeginKeeps
    <2> QED BY <1>2, <2>2, <2>3, <2>4 DEF GoogleLogin
<1>3. CASE Register(s)
    BY <1>1, <1>3, BeginKeeps DEF Register
<1>4. CASE SendOtp(s)
    <2>1. CASE Begin(s, "send", "unsend")
        BY <1>1, <2>1, BeginKeeps
    <2>2. CASE Begin(s, "send", "store")
        BY <1>1, <2>2, BeginKeeps
    <2> QED BY <1>4, <2>1, <2>2 DEF SendOtp
<1>5. CASE ForgotPassword(s)
    BY <1>1, <1>5, BeginKeeps DEF ForgotPassword
<1>6. CASE VerifyEmail(s)
    <2>1. CASE Begin(s, "verify", "unsend")
        BY <1>1, <2>1, BeginKeeps
    <2>2. CASE Begin(s, "verify", "read")
        BY <1>1, <2>2, BeginKeeps
    <2> QED BY <1>6, <2>1, <2>2 DEF VerifyEmail
<1>7. CASE ResetPassword(s)
    BY <1>1, <1>7, BeginKeeps DEF ResetPassword
<1> QED BY <1>2, <1>3, <1>4, <1>5, <1>6, <1>7

\* The token is looked up; only a live session goes on to be rotated.
LEMMA RefreshSessionKeeps ==
    ASSUME IInv, NEW s \in Slots, RefreshSession(s)
    PROVE  IInv'
<1>1. PICK i \in 1..Len(sessions), stage \in {"rotate", "reuse"} :
         Goto(s, [Idle EXCEPT !.op = "refresh", !.token = i, !.stage = stage])
    BY SessionsAre DEF RefreshSession, IInv
<1>2. PICK c \in Call : Goto(s, c) /\ c.op = "refresh" /\ c.token = i /\ c.stage = stage
    <2> DEFINE d == [Idle EXCEPT !.op = "refresh", !.token = i, !.stage = stage]
    <2>1. i \in 0..MaxSessions
        BY SessionsAre, AccountAssumption DEF IInv
    <2>2. d \in Call /\ d.op = "refresh" /\ d.token = i /\ d.stage = stage
        BY <2>1, IdleCall DEF Call, Ops, Stages
    <2> QED BY <1>1, <2>2
<1>3. CallTrue(c)'
    BY <1>2 DEF CallTrue, RefreshSession
<1>4. ~Carries(c)
    BY <1>2 DEF Carries
<1> QED BY <1>2, <1>3, <1>4, IdleCall, AccountSame, StageKeeps DEF RefreshSession, Start

\* A request is admitted on a session the account accepts now.
LEMMA AuthenticateKeeps ==
    ASSUME IInv, NEW s \in Slots, Authenticate(s)
    PROVE  IInv'
<1>1. PICK i \in 1..Len(sessions) :
         /\ sessions[i].iat >= account.validAfter
         /\ Goto(s, [Idle EXCEPT !.op = "request", !.stage = "session", !.token = i,
                                 !.since = clock])
    BY SessionsAre DEF Authenticate, IInv
<1>2. sessions[i].iat >= clock
    BY <1>1 DEF IInv, AccountTrue
<1>3. PICK c \in Call : /\ Goto(s, c) /\ c.op = "request" /\ c.token = i
                        /\ c.stage = "session" /\ c.since = clock
    <2> DEFINE d == [Idle EXCEPT !.op = "request", !.stage = "session", !.token = i,
                                 !.since = clock]
    <2>1. i \in 0..MaxSessions
        BY SessionsAre, AccountAssumption DEF IInv
    <2>2. d \in Call /\ d.op = "request" /\ d.token = i /\ d.stage = "session" /\ d.since = clock
        BY <2>1, IdleCall DEF Call, Ops, Stages, IInv, TypeOK
    <2> QED BY <1>1, <2>2
<1>4. CallTrue(c)'
    BY <1>2, <1>3 DEF CallTrue, Authenticate
<1>5. ~Carries(c)
    BY <1>3 DEF Carries
<1> QED BY <1>3, <1>4, <1>5, IdleCall, AccountSame, StageKeeps DEF Authenticate, Start

LEMMA AnswersKeep ==
    ASSUME IInv, NEW s \in Slots, Admit(s) \/ Refuse(s)
    PROVE  IInv'
BY AccountSame, EndKeeps DEF Admit, Refuse, At

\* A call goes on to a stage in which it knows nothing more.
LEMMA GoOnKeeps ==
    ASSUME IInv, NEW s \in Slots, NEW stage \in Stages, Stage(s, stage),
           UNCHANGED <<sessions, codes, rest>>,
           calls[s].stage \notin {"session", "try", "lock", "count"},
           stage \notin {"try", "lock", "mark", "user", "count", "clear", "mail",
                         "consume", "owner", "issue"},
           AccountStays
    PROVE  IInv'
<1>1. PICK c \in Call : /\ Goto(s, c) /\ c.stage = stage /\ c.op = calls[s].op
                        /\ c.token = calls[s].token
    BY StageIs DEF IInv
<1>2. CallTrue(calls[s])
    BY DEF IInv, CallsTrue
<1>3. CallTrue(c)'
    BY <1>1, <1>2 DEF CallTrue
<1>4. Carries(c) => Carries(calls[s]) /\ c.token = calls[s].token
    BY <1>1 DEF Carries
<1> QED BY <1>1, <1>3, <1>4, StageKeeps

LEMMA ReadOwnerKeeps ==
    ASSUME IInv, NEW s \in Slots, ReadOwner(s)
    PROVE  IInv'
<1>1. CASE End(s)
    BY <1>1, AccountSame, EndKeeps DEF ReadOwner, At
<1>2. CASE account.here /\ account.verified /\ ToIssue(s, "refresh")
    BY <1>2, AccountSame, ToIssueKeeps DEF ReadOwner, At, Ops
<1> QED BY <1>1, <1>2 DEF ReadOwner

LEMMA LinkGoogleKeeps ==
    ASSUME IInv, NEW s \in Slots, LinkGoogle(s)
    PROVE  IInv'
<1>1. AccountStays /\ (account.here => account'.here /\ account'.verified)
    BY DEF IInv, TypeOK, AccountTrue, LinkGoogle, AccountStays
<1>2. CASE End(s)
    BY <1>1, <1>2, EndKeeps DEF LinkGoogle, At
<1>3. CASE account.here /\ ToIssue(s, "google")
    BY <1>1, <1>3, ToIssueKeeps DEF LinkGoogle, At, Ops
<1> QED BY <1>2, <1>3 DEF LinkGoogle

LEMMA CreateGoogleKeeps ==
    ASSUME IInv, NEW s \in Slots, CreateGoogle(s)
    PROVE  IInv'
<1>1. AccountStays
    <2>1. CASE account.here
        BY <2>1, AccountSame DEF CreateGoogle
    <2>2. CASE ~account.here
        <3>1. account' = [here |-> TRUE, verified |-> TRUE, banned |-> FALSE,
                          deleted |-> FALSE, google |-> TRUE, password |-> 0,
                          validAfter |-> 0]
            BY <2>2 DEF CreateGoogle, Nobody
        <3> QED BY <2>2, <3>1, AccountAssumption DEF AccountStays
    <2> QED BY <2>1, <2>2
<1>2. CASE End(s)
    BY <1>1, <1>2, EndKeeps DEF CreateGoogle, At
<1>3. CASE account'.google /\ ToIssue(s, "google")
    BY <1>1, <1>3, ToIssueKeeps DEF CreateGoogle, At, Ops, AccountStays
<1> QED BY <1>2, <1>3 DEF CreateGoogle

LEMMA InsertAccountKeeps ==
    ASSUME IInv, NEW s \in Slots, InsertAccount(s)
    PROVE  IInv'
<1>1. AccountStays
    <2>1. CASE account.here
        BY <2>1, AccountSame DEF InsertAccount
    <2>2. CASE ~account.here
        <3>1. account' = [here |-> TRUE, verified |-> FALSE, banned |-> FALSE,
                          deleted |-> FALSE, google |-> FALSE, password |-> 1,
                          validAfter |-> 0]
            BY <2>2 DEF InsertAccount, Nobody
        <3> QED BY <2>2, <3>1, AccountAssumption DEF AccountStays
    <2> QED BY <2>1, <2>2
<1>2. CASE End(s)
    BY <1>1, <1>2, EndKeeps DEF InsertAccount, At
<1>3. CASE Stage(s, "store")
    BY <1>1, <1>3, GoOnKeeps DEF InsertAccount, At, Stages
<1> QED BY <1>2, <1>3 DEF InsertAccount

LEMMA UnregisterKeeps ==
    ASSUME IInv, NEW s \in Slots, Unregister(s)
    PROVE  IInv'
<1>1. AccountStays
    BY AccountAssumption DEF IInv, TypeOK, AccountTrue, Unregister, AccountStays, Nobody
<1> QED BY <1>1, GoOnKeeps DEF Unregister, Stages

\* The one call that consumed the code marks the address.
LEMMA MarkVerifiedKeeps ==
    ASSUME IInv, NEW s \in Slots, MarkVerified(s)
    PROVE  IInv'
<1>1. AccountStays
    <2>1. CASE UNCHANGED account
        BY <2>1, AccountSame
    <2>2. CASE account.here /\ account' = [account EXCEPT !.verified = TRUE]
        BY <2>2 DEF IInv, TypeOK, AccountTrue, AccountStays
    <2> QED BY <2>1, <2>2 DEF MarkVerified
<1>2. CASE End(s)
    BY <1>1, <1>2, EndKeeps DEF MarkVerified, At
<1>3. CASE /\ account.here /\ account' = [account EXCEPT !.verified = TRUE]
           /\ ToIssue(s, "verify")
    <2>1. account'.here /\ account'.verified
        BY <1>3 DEF IInv, TypeOK
    <2> QED BY <1>1, <1>3, <2>1, ToIssueKeeps DEF MarkVerified, At, Ops
<1> QED BY <1>2, <1>3 DEF MarkVerified

\* The password is set; the sessions are revoked by the next step.
LEMMA SetPasswordKeeps ==
    ASSUME IInv, NEW s \in Slots, SetPassword(s)
    PROVE  IInv'
<1>1. AccountStays
    <2>1. CASE UNCHANGED account
        BY <2>1, AccountSame
    <2>2. CASE /\ account.here /\ account.password < MaxPasswords
               /\ account' = [account EXCEPT !.password = @ + 1]
        <3>1. account.password + 1 \in 0..MaxPasswords
            BY <2>2, AccountAssumption DEF IInv, TypeOK
        <3>2. account' \in [here: BOOLEAN, verified: BOOLEAN, banned: BOOLEAN,
                            deleted: BOOLEAN, google: BOOLEAN,
                            password: 0..MaxPasswords, validAfter: 0..MaxMoves]
            BY <2>2, <3>1 DEF IInv, TypeOK
        <3>3. /\ account'.here = account.here /\ account'.google = account.google
              /\ account'.verified = account.verified
              /\ account'.validAfter = account.validAfter
            BY <2>2 DEF IInv, TypeOK
        <3> QED BY <3>2, <3>3 DEF IInv, AccountTrue, AccountStays
    <2> QED BY <2>1, <2>2 DEF SetPassword
<1> QED BY <1>1, GoOnKeeps DEF SetPassword, Stages

-----------------------------------------------------------------------------
(* Sessions that begin, rotate and end.                                     *)

\* Sessions are revoked, by a call or without one.
LEMMA RevokeKeeps ==
    ASSUME IInv, NEW I, NEW reason \in Reasons, Revoke(I, reason),
           UNCHANGED <<account, codes, throttle, events, clock, load>>,
           out' \subseteq 1..Len(sessions),
           calls' \in [Slots -> Call], CallsTrue',
           \A t \in Slots : Carries(calls'[t]) =>
              Carries(calls[t]) /\ calls'[t].token = calls[t].token,
           \A p \in Purposes : Trying(p)' = Trying(p) /\ Locking(p)' = Locking(p),
           Counting' = Counting, LetIn' \subseteq LetIn,
           \A t \in Slots : calls'[t].stage = "mark" =>
              calls[t].stage = "mark" /\ calls'[t].code = calls[t].code
    PROVE  IInv'
<1>1. /\ sessions' \in Seq(Session) /\ Len(sessions') = Len(sessions)
      /\ \A i \in 1..Len(sessions) :
            /\ sessions'[i].family = sessions[i].family
            /\ sessions'[i].iat = sessions[i].iat
            /\ sessions'[i].status = IF i \in I /\ Live(i) THEN reason
                                     ELSE sessions[i].status
    BY RevokeIs DEF IInv
<1>2. TypeOK'
    BY <1>1 DEF IInv, TypeOK, codes, throttle
<1>3. AccountTrue'
    BY <1>1, AccountSame, AccountKeeps
<1>4. LinesTrue'
    BY <1>1, LinesKeep DEF Live
<1>5. CodesTrue'
    BY CodesKeep DEF codes
<1>6. ThrottleTrue'
    BY ThrottleKeeps
<1> QED BY <1>2, <1>3, <1>4, <1>5, <1>6 DEF IInv

\* A call that revokes goes on to a stage in which it knows nothing more.
LEMMA RevokingKeeps ==
    ASSUME IInv, NEW s \in Slots, NEW c \in Call, Goto(s, c),
           NEW I, NEW reason \in Reasons, Revoke(I, reason),
           UNCHANGED <<account, codes, rest>>,
           calls[s].stage \notin {"try", "lock", "count"},
           c.stage \in {"idle", "event", "unsend"},
           c.op # "request",
           c.op = "refresh" => c.token \in 1..Len(sessions),
           c.op # "refresh" => c.token = 0
    PROVE  IInv'
<1>1. /\ Len(sessions') = Len(sessions) /\ sessions' \in Seq(Session)
      /\ \A i \in 1..Len(sessions) : sessions'[i].iat = sessions[i].iat
    BY RevokeIs DEF IInv
<1>2. /\ calls' \in [Slots -> Call]
      /\ \A t \in Slots : calls'[t] = IF t = s THEN c ELSE calls[t]
    BY GotoIs DEF IInv
<1>3. CallTrue(c)'
    BY <1>1 DEF CallTrue
<1>4. TypeOK' /\ Grows
    <2>1. TypeOK'
        BY <1>1, <1>2 DEF IInv, TypeOK, codes, rest, throttle
    <2> QED BY <1>1, <2>1, SameIsNoLess DEF IInv, Grows, codes, rest
<1>5. CallsTrue'
    BY <1>3, <1>4, CallsKeep
<1>6. \A t \in Slots : Carries(calls'[t]) =>
         Carries(calls[t]) /\ calls'[t].token = calls[t].token
    BY <1>2 DEF Carries
<1>7. /\ \A p \in Purposes : Trying(p)' = Trying(p) /\ Locking(p)' = Locking(p)
      /\ Counting' = Counting /\ LetIn' \subseteq LetIn
      /\ \A t \in Slots : calls'[t].stage = "mark" =>
            calls[t].stage = "mark" /\ calls'[t].code = calls[t].code
    BY SlotsKeep
<1>8. out' \subseteq 1..Len(sessions)
    BY DEF IInv, TypeOK, rest
<1> QED BY <1>2, <1>5, <1>6, <1>7, <1>8, RevokeKeeps DEF rest

\* Revoking sessions takes lines away and adds none.
LEMMA RevocationsKeep ==
    ASSUME IInv, NEW s \in Slots, RevokeFamily(s) \/ RevokeAll(s) \/ RevokeDeleted(s)
    PROVE  IInv'
<1>1. CallTrue(calls[s]) /\ UNCHANGED <<account, codes, rest>>
      /\ calls[s].stage \notin {"try", "lock", "count"}
    BY DEF IInv, CallsTrue, RevokeFamily, RevokeAll, RevokeDeleted, At
<1>2. PICK c \in Call : /\ Goto(s, c) /\ c.stage \in {"idle", "event", "unsend"}
                        /\ c.op = "login" \/ c.op = calls[s].op
                        /\ c.op # "request"
                        /\ c.op = "refresh" => c.token = calls[s].token
                        /\ c.op # "refresh" => c.token = 0
    <2>1. CASE RevokeFamily(s)
        BY <2>1, StageIs DEF RevokeFamily, At, Stages, IInv
    <2>2. CASE RevokeAll(s)
        BY <1>1, <2>2, StageIs DEF RevokeAll, At, Stages, IInv, CallTrue
    <2>3. CASE RevokeDeleted(s)
        BY <2>3, IdleCall DEF RevokeDeleted, End
    <2> QED BY <2>1, <2>2, <2>3
<1>3. c.op = "refresh" => c.token \in 1..Len(sessions)
    BY <1>1, <1>2 DEF CallTrue
<1>4. PICK reason \in Reasons : \/ Revoke(Family(calls[s].token), reason)
                                \/ Revoke(DOMAIN sessions, reason)
    BY DEF RevokeFamily, RevokeAll, RevokeDeleted, Reasons
<1> QED BY <1>1, <1>2, <1>3, <1>4, RevokingKeeps

\* A logout that finds its session live ends the line of its family for good.
LEMMA LogoutKeeps ==
    ASSUME IInv, NEW i \in DOMAIN sessions, Logout(i)
    PROVE  IInv'
<1>1. /\ sessions' \in Seq(Session) /\ Len(sessions') = Len(sessions)
      /\ \A j \in 1..Len(sessions) : sessions'[j].iat = sessions[j].iat
    BY RevokeIs DEF IInv, Logout, Reasons
<1>0. out' \subseteq 1..Len(sessions)
    <2>1. sessions[i].family \in 1..Len(sessions)
        BY SessionsAre, AccountAssumption DEF IInv, LinesTrue
    <2> QED BY <2>1 DEF IInv, TypeOK, Logout
<1>2. TypeOK' /\ Grows
    <2>1. TypeOK'
        BY <1>0, <1>1 DEF IInv, TypeOK, Logout, codes, throttle
    <2>2. Grows
        BY <1>1, SameIsNoLess DEF IInv, Grows, codes, Logout
    <2> QED BY <2>1, <2>2
<1>3. CallsTrue'
    BY <1>2, CallsStay DEF Logout
<1>4. /\ UNCHANGED <<account, codes, throttle, events, clock, load, calls>>
      /\ calls' \in [Slots -> Call]
    BY DEF Logout, IInv, TypeOK
<1>5. /\ \A t \in Slots : Carries(calls'[t]) =>
            Carries(calls[t]) /\ calls'[t].token = calls[t].token
      /\ \A p \in Purposes : Trying(p)' = Trying(p) /\ Locking(p)' = Locking(p)
      /\ Counting' = Counting /\ LetIn' \subseteq LetIn
      /\ \A t \in Slots : calls'[t].stage = "mark" =>
            calls[t].stage = "mark" /\ calls'[t].code = calls[t].code
    BY <1>4 DEF Trying, Locking, Counting, LetIn, Carries, PurposeOf
<1>6. Revoke({i}, "logout") /\ "logout" \in Reasons
    BY DEF Logout, Reasons
<1> QED BY <1>0, <1>3, <1>4, <1>5, <1>6, RevokeKeeps

\* A token rotated before revokes its family, a line being carried included.
LEMMA RecordReuseKeeps ==
    ASSUME IInv, NEW s \in Slots, RecordReuse(s)
    PROVE  IInv'
<1>1. CallTrue(calls[s]) /\ calls[s].token \in 1..Len(sessions)
    BY DEF IInv, CallsTrue, CallTrue, RecordReuse, At
<1>2. sessions[calls[s].token].family \in 1..Len(sessions)
    BY <1>1, SessionsAre, AccountAssumption DEF IInv, LinesTrue
<1>3. /\ calls' \in [Slots -> Call] /\ Goto(s, Idle)
      /\ \A t \in Slots : calls'[t] = IF t = s THEN Idle ELSE calls[t]
    BY IdleCall, GotoIs DEF IInv, RecordReuse, End
<1>4. TypeOK'
    BY <1>2, <1>3 DEF IInv, TypeOK, RecordReuse, codes, throttle
<1>5. Grows
    BY SameIsNoLess DEF IInv, Grows, codes, RecordReuse
<1>6. CallTrue(Idle)'
    BY DEF CallTrue, Idle
<1>7. CallsTrue'
    BY <1>3, <1>4, <1>5, <1>6, IdleCall, CallsKeep
<1>8. AccountTrue'
    BY AccountSame, AccountKeeps DEF RecordReuse
<1>9. LinesTrue'
    BY <1>3, IdleCall, LinesKeep DEF RecordReuse
<1>10. /\ \A p \in Purposes : Trying(p)' = Trying(p) /\ Locking(p)' = Locking(p)
       /\ Counting' = Counting /\ LetIn' \subseteq LetIn
       /\ \A t \in Slots : calls'[t].stage = "mark" =>
             calls[t].stage = "mark" /\ calls'[t].code = calls[t].code
    BY <1>3, IdleCall, SlotsKeep DEF RecordReuse, At
<1>11. CodesTrue' /\ ThrottleTrue'
    BY <1>10, CodesKeep, ThrottleKeeps DEF RecordReuse, codes, throttle
<1> QED BY <1>4, <1>7, <1>8, <1>9, <1>11 DEF IInv

\* The rotation takes the line from the token to the call.
LEMMA RotateKeeps ==
    ASSUME IInv, NEW s \in Slots, Rotate(s)
    PROVE  IInv'
<1> DEFINE i == calls[s].token
<1>1. i \in 1..Len(sessions) /\ calls[s].op = "refresh" /\ calls[s].stage = "rotate"
    BY DEF IInv, CallsTrue, CallTrue, Rotate, At
<1>2. CASE ~Live(i)
    <2>1. Goto(s, Idle)
        BY <1>2 DEF Rotate, End
    <2>2. Idle.op = "login" /\ Idle.stage = "idle" /\ Idle.token = 0
        BY IdleCall
    <2> QED BY <1>1, <2>1, <2>2, IdleCall, RevokingKeeps DEF Rotate, Reasons
<1>3. CASE Live(i)
    <2>1. PICK c \in Call : Goto(s, c) /\ c.stage = "owner" /\ c.op = "refresh" /\ c.token = i
        BY <1>1, <1>3, StageIs DEF Rotate, Stages, IInv
    <2>2. /\ calls' \in [Slots -> Call]
          /\ \A t \in Slots : calls'[t] = IF t = s THEN c ELSE calls[t]
        BY <2>1, GotoIs DEF IInv
    <2>3. /\ sessions' \in Seq(Session) /\ Len(sessions') = Len(sessions)
          /\ \A j \in 1..Len(sessions) :
                /\ sessions'[j].family = sessions[j].family
                /\ sessions'[j].iat = sessions[j].iat
                /\ sessions'[j].status = IF j = i THEN "rotated" ELSE sessions[j].status
        BY <1>3, RevokeIs DEF IInv, Rotate, Reasons, Live
    <2>4. TypeOK'
        BY <2>2, <2>3 DEF IInv, TypeOK, Rotate, codes, rest, throttle
    <2>5. Grows
        BY <2>3, SameIsNoLess DEF IInv, Grows, codes, rest, Rotate
    <2>6. CallTrue(c)'
        BY <1>1, <2>1, <2>3 DEF CallTrue
    <2>7. CallsTrue'
        BY <2>1, <2>4, <2>5, <2>6, CallsKeep
    <2>8. AccountTrue'
        BY <2>3, AccountSame, AccountKeeps DEF Rotate, rest
    <2>9. /\ \A j \in 1..Len(sessions) : sessions[j].family = sessions[i].family =>
                j = i \/ sessions[j].status \notin {"live", "logout"}
          /\ \A t \in Slots : Carries(calls[t]) =>
                /\ calls[t].token \in 1..Len(sessions)
                /\ sessions[calls[t].token].family # sessions[i].family
        <3>1. \A j \in 1..Len(sessions) : sessions[j].family = sessions[i].family =>
                j = i \/ sessions[j].status \notin {"live", "logout"}
            BY <1>1, <1>3 DEF IInv, LinesTrue, Live
        <3>2. ASSUME NEW t \in Slots, Carries(calls[t])
              PROVE  /\ calls[t].token \in 1..Len(sessions)
                     /\ sessions[calls[t].token].family # sessions[i].family
            BY <1>1, <1>3, <3>2 DEF IInv, LinesTrue, Live, CallsTrue, CallTrue, Carries
        <3> QED BY <3>1, <3>2
    <2>10. LinesTrue'
        <3> HIDE DEF i
        <3>1. \A j \in 1..Len(sessions') : sessions'[j].family \in 1..j
            BY <2>3 DEF IInv, LinesTrue
        <3>2. \A j, k \in 1..Len(sessions') :
                 sessions'[j].family = sessions'[k].family /\ sessions'[k].status = "live" =>
                    (sessions'[j].status = "live" => j = k) /\ sessions'[j].status # "logout"
            BY <1>1, <2>3 DEF IInv, LinesTrue, Live
        <3>3. ASSUME NEW t \in Slots, Carries(calls'[t]), NEW j \in 1..Len(sessions'),
                     sessions'[j].family = sessions'[calls'[t].token].family
              PROVE  sessions'[j].status \notin {"live", "logout"}
            <4>1. CASE t = s
                BY <1>1, <2>1, <2>2, <2>3, <2>9, <3>3, <4>1
            <4>2. CASE t # s
                <5>1. Carries(calls[t]) /\ calls'[t] = calls[t] /\ j \in 1..Len(sessions)
                    BY <2>2, <2>3, <3>3, <4>2
                <5>2. sessions[j].family = sessions[calls[t].token].family
                    BY <2>3, <2>9, <3>3, <5>1
                <5>3. sessions[j].status \notin {"live", "logout"}
                    BY <5>1, <5>2 DEF IInv, LinesTrue
                <5> QED BY <2>3, <5>1, <5>3
            <4> QED BY <4>1, <4>2
        <3>4. ASSUME NEW t \in Slots, NEW u \in Slots, Carries(calls'[t]), Carries(calls'[u]),
                     sessions'[calls'[t].token].family = sessions'[calls'[u].token].family
              PROVE  t = u
            <4>1. CASE t # s /\ u # s
                BY <2>2, <2>3, <2>9, <3>4, <4>1 DEF IInv, LinesTrue
            <4>2. CASE t = s /\ u # s
                BY <1>1, <2>1, <2>2, <2>3, <2>9, <3>4, <4>2
            <4>3. CASE t # s /\ u = s
                BY <1>1, <2>1, <2>2, <2>3, <2>9, <3>4, <4>3
            <4> QED BY <4>1, <4>2, <4>3
        <3> QED BY <3>1, <3>2, <3>3, <3>4 DEF LinesTrue, Live, Carries
    <2>11. /\ \A p \in Purposes : Trying(p)' = Trying(p) /\ Locking(p)' = Locking(p)
           /\ Counting' = Counting /\ LetIn' \subseteq LetIn
           /\ \A t \in Slots : calls'[t].stage = "mark" =>
                 calls[t].stage = "mark" /\ calls'[t].code = calls[t].code
        BY <1>1, <2>1, SlotsKeep
    <2>12. CodesTrue' /\ ThrottleTrue'
        BY <2>11, CodesKeep, ThrottleKeeps DEF Rotate, codes, rest
    <2> QED BY <2>4, <2>7, <2>8, <2>10, <2>12 DEF IInv
<1> QED BY <1>2, <1>3

\* A session begins: the first of a family, or the next one of the line that
\* its call carries.
LEMMA IssueTokensKeeps ==
    ASSUME IInv, NEW s \in Slots, IssueTokens(s)
    PROVE  IInv'
<1> DEFINE c == calls[s]
           n == Len(sessions) + 1
           f == IF c.token = 0 THEN n ELSE sessions[c.token].family
<1>0. PICK iat \in c.since..clock : Insert(s, iat)
    BY DEF IssueTokens
<1> DEFINE new == [status |-> "live", iat |-> iat, family |-> f]
<1>1. /\ c \in Call /\ CallTrue(c) /\ c.stage = "issue"
      /\ account.here /\ account.verified
      /\ c.token = 0 \/ (Carries(c) /\ c.token \in 1..Len(sessions))
    BY DEF IInv, TypeOK, CallsTrue, CallTrue, IssueTokens, Carries
<1>2. /\ Len(sessions) \in Nat /\ Len(sessions) < MaxSessions /\ n \in 1..MaxSessions
      /\ \A i \in 1..Len(sessions) : sessions[i].family \in 1..i /\ sessions[i] \in Session
    BY SessionsAre, AccountAssumption DEF IInv, IssueTokens, LinesTrue
<1>3. f \in 1..n /\ (f = n <=> c.token = 0) /\ new \in Session
    <2>1. f \in 1..n /\ (f = n <=> c.token = 0)
        BY <1>1, <1>2
    <2>2. f \in 1..MaxSessions
        BY <1>2, <2>1, AccountAssumption
    <2> HIDE DEF f
    <2>3. iat \in 0..MaxMoves
        BY <1>0, <1>1, AccountAssumption DEF IInv, TypeOK, Call
    <2>4. new \in Session
        BY <2>2, <2>3 DEF Session
    <2> QED BY <2>1, <2>4 DEF f
<1>4. /\ sessions' \in Seq(Session) /\ Len(sessions') = n
      /\ \A i \in 1..Len(sessions) : sessions'[i] = sessions[i]
      /\ sessions'[n] = new
    <2>1. sessions' = Append(sessions, new)
        BY <1>0 DEF Insert
    <2> HIDE DEF new
    <2> QED BY <1>3, <2>1, AppendProperties DEF IInv, TypeOK
<1>5. sessions'[n].family = f /\ sessions'[n].iat = iat /\ sessions'[n].status = "live"
    BY <1>4
<1> HIDE DEF new, f
<1>6. /\ calls' \in [Slots -> Call] /\ Goto(s, Idle)
      /\ \A t \in Slots : calls'[t] = IF t = s THEN Idle ELSE calls[t]
    BY IdleCall, GotoIs DEF IInv, IssueTokens, End
<1>7. TypeOK'
    <2>1. /\ Len(sessions') <= MaxSessions /\ events \subseteq 1..Len(sessions')
          /\ out \subseteq 1..Len(sessions')
        BY <1>2, <1>4, AccountAssumption DEF IInv, TypeOK
    <2> QED BY <1>4, <1>6, <2>1 DEF IInv, TypeOK, IssueTokens, codes, rest, throttle
<1>8. Grows
    BY <1>2, <1>4, AccountAssumption DEF IInv, TypeOK, Grows, codes, rest, IssueTokens
<1>9. CallsTrue'
    <2>1. CallTrue(Idle)'
        BY DEF CallTrue, Idle
    <2> QED BY <1>6, <1>7, <1>8, <2>1, IdleCall, CallsKeep
<1>10. AccountTrue'
    <2>1. \A i \in 1..Len(sessions') :
             sessions'[i].iat >= account.validAfter => sessions'[i].iat >= clock
        <3>1. clock \in Nat /\ iat \in Int /\ c.since \in Int
            BY <1>0, <1>1, AccountAssumption DEF IInv, TypeOK, Call
        <3>2. iat >= account.validAfter => iat >= clock
            BY <1>0, <1>1, <3>1 DEF CallTrue
        <3> QED BY <1>2, <1>4, <1>5, <3>2 DEF IInv, AccountTrue
    <2> QED BY <1>1, <2>1 DEF IInv, AccountTrue, IssueTokens, rest
<1>11. \A i \in 1..Len(sessions) : sessions[i].family = f =>
          sessions[i].status \notin {"live", "logout"}
    <2>1. CASE c.token = 0
        BY <1>2, <1>3, <2>1
    <2>2. CASE Carries(c)
        <3>1. c.token # 0
            BY <1>1, <2>2 DEF CallTrue, Carries
        <3>2. f = sessions[c.token].family
            BY <3>1 DEF f
        <3> QED BY <2>2, <3>2 DEF IInv, LinesTrue
    <2> QED BY <1>1, <2>1, <2>2
<1>12. ASSUME NEW t \in Slots, Carries(calls'[t])
       PROVE  /\ Carries(calls[t]) /\ calls'[t] = calls[t]
              /\ calls[t].token \in 1..Len(sessions)
              /\ sessions[calls[t].token].family # f
    <2>1. t # s /\ calls'[t] = calls[t] /\ Carries(calls[t])
        BY <1>6, <1>12, IdleCall
    <2>2. calls[t].token \in 1..Len(sessions)
        BY <2>1 DEF IInv, CallsTrue, CallTrue, Carries
    <2>3. CASE c.token = 0
        <3>1. sessions[calls[t].token].family \in 1..calls[t].token
            BY <1>2, <2>2
        <3>2. sessions[calls[t].token].family < n
            BY <1>2, <2>2, <3>1
        <3> QED BY <1>3, <2>1, <2>2, <2>3, <3>2
    <2>4. CASE Carries(c)
        <3>1. c.token # 0
            BY <1>1, <2>4 DEF CallTrue, Carries
        <3>2. f = sessions[c.token].family
            BY <3>1 DEF f
        <3>3. ASSUME sessions[calls[t].token].family = f PROVE t = s
            BY <2>1, <2>4, <3>2, <3>3 DEF IInv, LinesTrue
        <3> QED BY <2>1, <2>2, <3>3
    <2> QED BY <1>1, <2>1, <2>2, <2>3, <2>4
<1>13. LinesTrue'
    <2>1. \A i \in 1..Len(sessions') : sessions'[i].family \in 1..i
        BY <1>2, <1>3, <1>4, <1>5
    <2>2. ASSUME NEW i \in 1..Len(sessions'), NEW j \in 1..Len(sessions'),
                 sessions'[i].family = sessions'[j].family, sessions'[j].status = "live"
          PROVE  (sessions'[i].status = "live" => i = j) /\ sessions'[i].status # "logout"
        <3>1. CASE i = n /\ j = n
            BY <1>5, <3>1
        <3>2. CASE i = n /\ j # n
            BY <1>2, <1>4, <1>5, <1>11, <2>2, <3>2
        <3>3. CASE i # n /\ j = n
            BY <1>2, <1>4, <1>5, <1>11, <2>2, <3>3
        <3>4. CASE i # n /\ j # n
            <4>1. i \in 1..Len(sessions) /\ j \in 1..Len(sessions)
                BY <1>2, <1>4, <3>4
            <4> QED BY <1>4, <2>2, <4>1 DEF IInv, LinesTrue, Live
        <3> QED BY <3>1, <3>2, <3>3, <3>4
    <2>3. ASSUME NEW t \in Slots, Carries(calls'[t]), NEW i \in 1..Len(sessions'),
                 sessions'[i].family = sessions'[calls'[t].token].family
          PROVE  sessions'[i].status \notin {"live", "logout"}
        <3>1. sessions'[calls'[t].token].family = sessions[calls[t].token].family
            BY <1>4, <1>12, <2>3
        <3>2. i # n
            BY <1>5, <1>12, <2>3, <3>1
        <3>3. i \in 1..Len(sessions)
            BY <1>2, <1>4, <3>2
        <3> QED BY <1>4, <1>12, <2>3, <3>1, <3>3 DEF IInv, LinesTrue
    <2>4. ASSUME NEW t \in Slots, NEW u \in Slots, Carries(calls'[t]), Carries(calls'[u]),
                 sessions'[calls'[t].token].family = sessions'[calls'[u].token].family
          PROVE  t = u
        <3>1. /\ Carries(calls[t]) /\ Carries(calls[u])
              /\ sessions'[calls'[t].token] = sessions[calls[t].token]
              /\ sessions'[calls'[u].token] = sessions[calls[u].token]
            BY <1>4, <1>12, <2>4
        <3> QED BY <2>4, <3>1 DEF IInv, LinesTrue
    <2> QED BY <2>1, <2>2, <2>3, <2>4 DEF LinesTrue, Live, Carries
<1>14. /\ \A p \in Purposes : Trying(p)' = Trying(p) /\ Locking(p)' = Locking(p)
       /\ Counting' = Counting /\ LetIn' \subseteq LetIn
       /\ \A t \in Slots : calls'[t].stage = "mark" =>
             calls[t].stage = "mark" /\ calls'[t].code = calls[t].code
    BY <1>1, <1>6, IdleCall, SlotsKeep
<1>15. CodesTrue' /\ ThrottleTrue'
    BY <1>14, CodesKeep, ThrottleKeeps DEF IssueTokens, codes, rest
<1> QED BY <1>7, <1>9, <1>10, <1>13, <1>15 DEF IInv

-----------------------------------------------------------------------------
(* Administration.                                                          *)

\* The account moves, and with it, maybe, the time before which no token counts.
LEMMA OfficeKeeps ==
    ASSUME IInv, BanUser \/ AdminRestore
    PROVE  IInv'
<1>1. /\ account' \in [here: BOOLEAN, verified: BOOLEAN, banned: BOOLEAN,
                       deleted: BOOLEAN, google: BOOLEAN,
                       password: 0..MaxPasswords, validAfter: 0..MaxMoves]
      /\ account'.here = account.here /\ account'.verified = account.verified
      /\ account'.google = account.google
      /\ clock' \in 0..MaxMoves
      /\ \/ account'.validAfter = account.validAfter /\ clock' = clock
         \/ account'.validAfter = clock'
      /\ UNCHANGED <<sessions, codes, throttle, events, out, load, calls>>
    <2>1. CASE BanUser
        BY <2>1 DEF BanUser, IInv, TypeOK, rest
    <2>2. CASE AdminRestore
        <3>1. clock + 1 \in 0..MaxMoves
            BY <2>2, AccountAssumption DEF AdminRestore, IInv, TypeOK
        <3> QED BY <2>2, <3>1 DEF AdminRestore, IInv, TypeOK
    <2> QED BY <2>1, <2>2
<1>2. TypeOK'
    BY <1>1 DEF IInv, TypeOK, codes, throttle
<1>3. Grows
    BY <1>1, SameIsNoLess DEF IInv, Grows, codes
<1>4. CallsTrue'
    BY <1>1, <1>2, <1>3, CallsStay
<1>5. AccountTrue'
    BY <1>1 DEF IInv, AccountTrue
<1>6. LinesTrue'
    BY <1>1 DEF IInv, LinesTrue, Live
<1>7. CodesTrue'
    BY <1>1, CodesKeep DEF Trying, Locking, PurposeOf, codes
<1>8. ThrottleTrue'
    BY <1>1, ThrottleKeeps DEF Counting, LetIn
<1> QED BY <1>2, <1>4, <1>5, <1>6, <1>7, <1>8 DEF IInv

LEMMA AdminDeleteKeeps ==
    ASSUME IInv, NEW s \in Slots, AdminDelete(s)
    PROVE  IInv'
<1>1. clock + 1 \in 0..MaxMoves
    BY AccountAssumption DEF AdminDelete, IInv, TypeOK
<1>2. /\ account' \in [here: BOOLEAN, verified: BOOLEAN, banned: BOOLEAN,
                       deleted: BOOLEAN, google: BOOLEAN,
                       password: 0..MaxPasswords, validAfter: 0..MaxMoves]
      /\ account'.here = account.here /\ account'.verified = account.verified
      /\ account'.google = account.google
      /\ clock' \in 0..MaxMoves /\ account'.validAfter = clock'
      /\ UNCHANGED <<sessions, codes, throttle, events, out, load>>
    BY <1>1 DEF AdminDelete, IInv, TypeOK
<1>3. PICK c \in Call : /\ Goto(s, c) /\ c.stage = "revoke" /\ c.op = "delete"
                        /\ c.token = 0
    BY BeginIs DEF AdminDelete, Ops, Stages
<1>4. /\ calls' \in [Slots -> Call]
      /\ \A t \in Slots : calls'[t] = IF t = s THEN c ELSE calls[t]
    BY <1>3, GotoIs DEF IInv
<1>5. TypeOK'
    BY <1>2, <1>4 DEF IInv, TypeOK, codes, throttle
<1>6. Grows
    BY <1>2, SameIsNoLess DEF IInv, Grows, codes
<1>7. CallTrue(c)'
    BY <1>3 DEF CallTrue
<1>8. CallsTrue'
    BY <1>3, <1>5, <1>6, <1>7, CallsKeep
<1>9. AccountTrue'
    BY <1>2 DEF IInv, AccountTrue
<1>10. LinesTrue'
    BY <1>2, <1>3, <1>4, LinesKeep DEF Carries
<1>11. calls[s].stage = "idle"
    BY IdleCall DEF AdminDelete, Start
<1>12. CodesTrue' /\ ThrottleTrue'
    BY <1>2, <1>3, <1>11, SlotsKeep, CodesKeep, ThrottleKeeps DEF codes
<1> QED BY <1>5, <1>8, <1>9, <1>10, <1>12 DEF IInv

-----------------------------------------------------------------------------
(* The login counter.                                                       *)

\* A step of a login: its slot is let in, fails, or is counted.
LEMMA LoginStep ==
    ASSUME IInv, NEW s \in Slots, NEW c \in Call, Goto(s, c), CallTrue(c)',
           UNCHANGED <<account, sessions, codes, events, out, clock, load>>,
           failures' \in Nat, guesses' \in Nat,
           calls[s].stage \notin {"try", "lock"}, ~Carries(c),
           c.stage \notin {"try", "lock", "mark"},
           ThrottleTrue'
    PROVE  IInv'
<1>1. /\ calls' \in [Slots -> Call]
      /\ \A t \in Slots : calls'[t] = IF t = s THEN c ELSE calls[t]
    BY GotoIs DEF IInv
<1>2. TypeOK'
    BY <1>1 DEF IInv, TypeOK, codes
<1>3. Grows
    BY SameIsNoLess DEF IInv, Grows, codes
<1>4. CallsTrue'
    BY <1>2, <1>3, CallsKeep
<1>5. AccountTrue'
    BY AccountSame, AccountKeeps
<1>6. LinesTrue'
    BY <1>1, LinesKeep
<1>7. CodesTrue'
    BY <1>1, CodesKeep DEF Trying, Locking, PurposeOf, codes
<1> QED BY <1>2, <1>4, <1>5, <1>6, <1>7 DEF IInv

\* How a move of one slot changes the two counts.
LEMMA LoginCounts ==
    ASSUME IInv, NEW s \in Slots, NEW c \in Call, Goto(s, c)
    PROVE  /\ Cardinality(Counting') \in Nat /\ Cardinality(LetIn') \in Nat
           /\ Cardinality(Counting) \in Nat /\ Cardinality(LetIn) \in Nat
           /\ Cardinality(LetIn') <= Cardinality(Slots)
           /\ Cardinality(Counting') = Cardinality(Counting)
                 + (IF c.stage = "count" THEN 1 ELSE 0)
                 - (IF calls[s].stage = "count" THEN 1 ELSE 0)
           /\ Cardinality(LetIn') = Cardinality(LetIn)
                 + (IF c.stage \in {"user", "count"} THEN 1 ELSE 0)
                 - (IF calls[s].stage \in {"user", "count"} THEN 1 ELSE 0)
<1>1. \A t \in Slots : calls'[t] = IF t = s THEN c ELSE calls[t]
    BY GotoIs DEF IInv
<1>2. /\ Counting \in SUBSET Slots /\ Counting' \in SUBSET Slots
      /\ LetIn \in SUBSET Slots /\ LetIn' \in SUBSET Slots
    BY DEF Counting, LetIn
<1>3. /\ \A t \in Slots \ {s} : t \in Counting <=> t \in Counting'
      /\ \A t \in Slots \ {s} : t \in LetIn <=> t \in LetIn'
      /\ s \in Counting <=> calls[s].stage = "count"
      /\ s \in Counting' <=> c.stage = "count"
      /\ s \in LetIn <=> calls[s].stage \in {"user", "count"}
      /\ s \in LetIn' <=> c.stage \in {"user", "count"}
    BY <1>1 DEF Counting, LetIn
<1>4. /\ Cardinality(Counting') \in Nat /\ Cardinality(LetIn') \in Nat
      /\ Cardinality(Counting) \in Nat /\ Cardinality(LetIn) \in Nat
      /\ Cardinality(LetIn') <= Cardinality(Slots)
    BY <1>2, SubsetCounted
<1>5. Cardinality(Counting') = IF s \in Counting /\ s \notin Counting'
                               THEN Cardinality(Counting) - 1
                               ELSE IF s \in Counting' /\ s \notin Counting
                               THEN Cardinality(Counting) + 1 ELSE Cardinality(Counting)
    BY <1>2, <1>3, CountChanges
<1>6. Cardinality(LetIn') = IF s \in LetIn /\ s \notin LetIn'
                            THEN Cardinality(LetIn) - 1
                            ELSE IF s \in LetIn' /\ s \notin LetIn
                            THEN Cardinality(LetIn) + 1 ELSE Cardinality(LetIn)
    BY <1>2, <1>3, CountChanges
<1> QED BY <1>3, <1>4, <1>5, <1>6

LEMMA LoginKeeps ==
    ASSUME IInv, NEW s \in Slots, Login(s)
    PROVE  IInv'
<1>1. PICK pass \in 0..MaxPasswords :
         Goto(s, [Idle EXCEPT !.op = "login", !.stage = "user", !.pass = pass])
    <2>1. 0 \in 0..MaxPasswords /\ account.password \in 0..MaxPasswords
        BY AccountAssumption DEF IInv, TypeOK
    <2> QED BY <2>1 DEF Login
<1>2. PICK c \in Call : Goto(s, c) /\ c.op = "login" /\ c.stage = "user" /\ c.token = 0
    <2> DEFINE d == [Idle EXCEPT !.op = "login", !.stage = "user", !.pass = pass]
    <2>1. d \in Call /\ d.op = "login" /\ d.stage = "user" /\ d.token = 0
        BY IdleCall DEF Call, Ops, Stages
    <2> QED BY <1>1, <2>1
<1>3. CallTrue(c)' /\ ~Carries(c)
    BY <1>2 DEF CallTrue, Carries
<1>4. calls[s].stage = "idle"
    BY IdleCall DEF Login, Start
<1>5. /\ failures < LoginMax /\ failures \in Nat /\ guesses \in Nat
      /\ UNCHANGED <<account, sessions, codes, events, out, clock, load, failures, guesses>>
    BY DEF Login, IInv, TypeOK, rest, throttle
<1>6. ThrottleTrue'
    BY <1>2, <1>4, <1>5, LoginCounts, AccountAssumption, SlotsCounted DEF IInv, ThrottleTrue
<1> QED BY <1>2, <1>3, <1>4, <1>5, <1>6, LoginStep

\* A wrong password is a guess that its call has yet to count.
LEMMA CheckPasswordKeeps ==
    ASSUME IInv, NEW s \in Slots, CheckPassword(s)
    PROVE  IInv'
<1>1. /\ calls[s].op = "login" /\ calls[s].stage = "user" /\ CallTrue(calls[s])
      /\ failures \in Nat /\ guesses \in Nat
      /\ UNCHANGED <<account, sessions, codes, failures, events, out, clock, load>>
    BY DEF CheckPassword, At, IInv, TypeOK, CallsTrue
<1>2. PICK c \in Call :
         /\ Goto(s, c) /\ c.op = "login" /\ c.token = 0
         /\ \/ c.stage = "idle" /\ guesses' = guesses
            \/ c.stage = "count" /\ guesses' = guesses + 1
            \/ c.stage = "clear" /\ guesses' = guesses /\ account.here /\ account.verified
    <2>1. calls[s].token = 0
        BY <1>1 DEF CallTrue
    <2>2. CASE End(s) /\ UNCHANGED guesses
        BY <2>2, IdleCall DEF End
    <2>3. CASE Stage(s, "count") /\ guesses' = guesses + 1
        BY <1>1, <2>1, <2>3, StageIs DEF IInv, Stages
    <2>4. CASE Stage(s, "clear") /\ UNCHANGED guesses /\ account.here /\ account.verified
        BY <1>1, <2>1, <2>4, StageIs DEF IInv, Stages
    <2> QED BY <2>2, <2>3, <2>4 DEF CheckPassword
<1>3. CallTrue(c)' /\ ~Carries(c)
    BY <1>1, <1>2 DEF CallTrue, Carries
<1>4. ThrottleTrue'
    BY <1>1, <1>2, LoginCounts, AccountAssumption, SlotsCounted DEF IInv, ThrottleTrue
<1> QED BY <1>1, <1>2, <1>3, <1>4, LoginStep

\* The guess is counted: the call leaves the uncounted ones.
LEMMA CountFailureKeeps ==
    ASSUME IInv, NEW s \in Slots, CountFailure(s)
    PROVE  IInv'
<1>1. /\ calls[s].stage = "count" /\ Goto(s, Idle)
      /\ failures \in Nat /\ guesses \in Nat /\ failures' = failures + 1
      /\ UNCHANGED <<account, sessions, codes, guesses, events, out, clock, load>>
    BY DEF CountFailure, At, End, IInv, TypeOK
<1>2. CallTrue(Idle)' /\ Idle.stage = "idle"
    BY IdleCall DEF CallTrue, Idle
<1>3. ThrottleTrue'
    BY <1>1, <1>2, IdleCall, LoginCounts, AccountAssumption, SlotsCounted
       DEF IInv, ThrottleTrue
<1> QED BY <1>1, <1>2, <1>3, IdleCall, LoginStep

\* A success clears the counter; only calls let in before may still guess.
LEMMA ClearCounterKeeps ==
    ASSUME IInv, NEW s \in Slots, ClearCounter(s)
    PROVE  IInv'
<1>1. /\ calls[s].stage = "clear" /\ calls[s].op = "login" /\ CallTrue(calls[s])
      /\ failures' = 0 /\ guesses' = 0
      /\ UNCHANGED <<account, sessions, codes, events, out, clock, load>>
    BY DEF ClearCounter, At, IInv, CallsTrue
<1>2. PICK c \in Call : /\ Goto(s, c) /\ c.op = "login" /\ c.stage = "issue"
                        /\ c.token = 0 /\ c.since = clock
    BY <1>1, ToIssueIs DEF ClearCounter, IInv, Ops, CallTrue
<1>3. CallTrue(c)' /\ ~Carries(c)
    BY <1>1, <1>2 DEF CallTrue, Carries
<1>4. ThrottleTrue'
    BY <1>1, <1>2, LoginCounts, AccountAssumption, SlotsCounted DEF IInv, ThrottleTrue
<1> QED BY <1>1, <1>2, <1>3, <1>4, LoginStep

LEMMA NewWindowKeeps ==
    ASSUME IInv, NewWindow
    PROVE  IInv'
<1>1. /\ failures' = 0 /\ guesses' = 0
      /\ UNCHANGED <<account, sessions, codes, events, out, clock, load, calls>>
    BY DEF NewWindow
<1>2. TypeOK'
    BY <1>1 DEF IInv, TypeOK, codes
<1>3. Grows
    BY <1>1, SameIsNoLess DEF IInv, Grows, codes
<1>4. CallsTrue'
    BY <1>1, <1>2, <1>3, CallsStay
<1>5. AccountTrue' /\ LinesTrue'
    BY <1>1 DEF IInv, AccountTrue, LinesTrue, Live
<1>6. CodesTrue'
    BY <1>1, CodesKeep DEF Trying, Locking, PurposeOf, codes
<1>7. ThrottleTrue'
    <2>1. Counting' = Counting /\ LetIn' = LetIn
        BY <1>1 DEF Counting, LetIn
    <2>2. Counting \in SUBSET Slots /\ LetIn \in SUBSET Slots
        BY DEF Counting, LetIn
    <2>3. /\ Cardinality(Counting) \in Nat /\ Cardinality(LetIn) \in Nat
          /\ Cardinality(LetIn) <= Cardinality(Slots)
        BY <2>2, SubsetCounted
    <2> QED BY <1>1, <2>1, <2>3, AccountAssumption, SlotsCounted DEF ThrottleTrue
<1> QED BY <1>2, <1>4, <1>5, <1>6, <1>7 DEF IInv

-----------------------------------------------------------------------------
(* One-time codes.                                                          *)

Hashes == [id: {Ghost} \cup 0..MaxCodes, tries: Nat, locked: BOOLEAN]

\* A step of a call about a code.
LEMMA CodeStepKeeps ==
    ASSUME IInv, NEW s \in Slots, NEW c \in Call, Goto(s, c), CallTrue(c)',
           UNCHANGED <<account, sessions, rest>>,
           code' \in [Purposes -> Hashes], issued' \in 0..MaxCodes,
           mailed' \subseteq 1..issued', guessed' \in [1..MaxCodes -> Nat],
           issued <= issued',
           code'["verify_email"].id \in {code["verify_email"].id, 0, Ghost, issued + 1},
           calls[s].stage # "count", ~Carries(c), c.stage \notin {"user", "count"},
           CodesTrue'
    PROVE  IInv'
<1>1. /\ calls' \in [Slots -> Call]
      /\ \A t \in Slots : calls'[t] = IF t = s THEN c ELSE calls[t]
    BY GotoIs DEF IInv
<1>2. TypeOK'
    BY <1>1 DEF IInv, TypeOK, rest, throttle, Hashes
<1>3. Grows
    BY SessionsAre, AccountAssumption DEF IInv, TypeOK, Grows, rest
<1>4. CallsTrue'
    BY <1>2, <1>3, CallsKeep
<1>5. AccountTrue'
    BY AccountSame, AccountKeeps DEF rest
<1>6. LinesTrue'
    BY <1>1, LinesKeep
<1>7. ThrottleTrue'
    BY <1>1, ThrottleKeeps DEF Counting, LetIn, rest
<1> QED BY <1>2, <1>4, <1>5, <1>6, <1>7 DEF IInv

\* How a move of one slot changes the counts of a purpose.
LEMMA CodeCounts ==
    ASSUME IInv, NEW s \in Slots, NEW c \in Call, Goto(s, c), NEW p \in Purposes
    PROVE  /\ Cardinality(Trying(p)') \in Nat /\ Cardinality(Locking(p)') \in Nat
           /\ Cardinality(Trying(p)) \in Nat /\ Cardinality(Locking(p)) \in Nat
           /\ Cardinality(Trying(p)) + Cardinality(Locking(p)) <= Cardinality(Slots)
           /\ Cardinality(Trying(p)') + Cardinality(Locking(p)') <= Cardinality(Slots)
           /\ Cardinality(Trying(p)') = Cardinality(Trying(p))
                 + (IF c.stage = "try" /\ PurposeOf(c) = p THEN 1 ELSE 0)
                 - (IF calls[s].stage = "try" /\ PurposeOf(calls[s]) = p THEN 1 ELSE 0)
           /\ Cardinality(Locking(p)') = Cardinality(Locking(p))
                 + (IF c.stage = "lock" /\ PurposeOf(c) = p THEN 1 ELSE 0)
                 - (IF calls[s].stage = "lock" /\ PurposeOf(calls[s]) = p THEN 1 ELSE 0)
<1> DEFINE A == Trying(p)
           B == Locking(p)
<1>1. \A t \in Slots : calls'[t] = IF t = s THEN c ELSE calls[t]
    BY GotoIs DEF IInv
<1>2. /\ A \in SUBSET Slots /\ A' \in SUBSET Slots
      /\ B \in SUBSET Slots /\ B' \in SUBSET Slots
      /\ A \cap B = {} /\ A' \cap B' = {}
    BY DEF Trying, Locking
<1>3. /\ \A t \in Slots \ {s} : t \in A <=> t \in A'
      /\ \A t \in Slots \ {s} : t \in B <=> t \in B'
      /\ s \in A <=> calls[s].stage = "try" /\ PurposeOf(calls[s]) = p
      /\ s \in A' <=> c.stage = "try" /\ PurposeOf(c) = p
      /\ s \in B <=> calls[s].stage = "lock" /\ PurposeOf(calls[s]) = p
      /\ s \in B' <=> c.stage = "lock" /\ PurposeOf(c) = p
    BY <1>1 DEF Trying, Locking, PurposeOf
<1>4. /\ Cardinality(A') \in Nat /\ Cardinality(B') \in Nat
      /\ Cardinality(A) \in Nat /\ Cardinality(B) \in Nat
    BY <1>2, SubsetCounted
<1>5. /\ Cardinality(A) + Cardinality(B) <= Cardinality(Slots)
      /\ Cardinality(A') + Cardinality(B') <= Cardinality(Slots)
    BY <1>2, DisjointCounted
<1>6. Cardinality(A') = IF s \in A /\ s \notin A' THEN Cardinality(A) - 1
                        ELSE IF s \in A' /\ s \notin A THEN Cardinality(A) + 1
                        ELSE Cardinality(A)
    BY <1>2, <1>3, CountChanges
<1>7. Cardinality(B') = IF s \in B /\ s \notin B' THEN Cardinality(B) - 1
                        ELSE IF s \in B' /\ s \notin B THEN Cardinality(B) + 1
                        ELSE Cardinality(B)
    BY <1>2, <1>3, CountChanges
<1> QED BY <1>3, <1>4, <1>5, <1>6, <1>7

\* What the type says of a stored code.
LEMMA CodesAre ==
    ASSUME IInv, NEW p \in Purposes
    PROVE  /\ code[p] \in Hashes /\ code[p].id <= issued
           /\ code[p].id > 0 => code[p].id \in 1..MaxCodes /\ guessed[code[p].id] \in Nat
           /\ code[p].id \in Int /\ issued \in Nat /\ issued <= MaxCodes
           /\ code[p].tries \in Nat
<1>1. code[p] \in Hashes /\ code[p].id <= issued /\ issued \in 0..MaxCodes
    BY DEF IInv, TypeOK, CodesTrue, Hashes
<1>2. code[p].id \in {Ghost} \cup 0..MaxCodes /\ code[p].tries \in Nat
    BY <1>1 DEF Hashes
<1>3. code[p].id > 0 => code[p].id \in 1..MaxCodes
    BY <1>1, <1>2, AccountAssumption DEF Ghost
<1>4. code[p].id > 0 => guessed[code[p].id] \in Nat
    BY <1>3 DEF IInv, TypeOK
<1> QED BY <1>1, <1>2, <1>3, <1>4, AccountAssumption DEF Ghost

\* The parts of CodesTrue about marks, when no call gets there.
LEMMA MarksKeep ==
    ASSUME IInv, NEW s \in Slots, NEW c \in Call, Goto(s, c), c.stage # "mark"
    PROVE  \A t, u \in Slots :
              /\ calls'[t].stage = "mark" /\ calls'[u].stage = "mark"
              /\ calls'[t].code = calls'[u].code
              => t = u
<1>1. \A t \in Slots : calls'[t] = IF t = s THEN c ELSE calls[t]
    BY GotoIs DEF IInv
<1> QED BY <1>1 DEF IInv, CodesTrue

\* The hash of one purpose is written, by a call of that purpose.
LEMMA HashKeeps ==
    ASSUME IInv, NEW p \in Purposes, NEW h \in Hashes,
           code' = [code EXCEPT ![p] = h], UNCHANGED <<issued, guessed>>,
           h.id = code[p].id \/ h.id \in {0, Ghost},
           h.id > 0 /\ ~h.locked =>
              /\ h.tries <= OtpMax - 1 + Cardinality(Locking(p)')
              /\ guessed[h.id] <= h.tries + Cardinality(Trying(p)'),
           \A q \in Purposes \ {p} : Trying(q)' = Trying(q) /\ Locking(q)' = Locking(q),
           \A t, u \in Slots :
              /\ calls'[t].stage = "mark" /\ calls'[u].stage = "mark"
              /\ calls'[t].code = calls'[u].code
              => t = u
    PROVE  CodesTrue'
<1>1. \A q \in Purposes : code'[q] = IF q = p THEN h ELSE code[q]
    BY DEF IInv, TypeOK
<1>2. code[p].id <= issued /\ 0 <= issued /\ Ghost <= issued /\ ~(0 > 0) /\ ~(Ghost > 0)
    BY CodesAre, AccountAssumption DEF Ghost
<1>3. h.id <= issued /\ (h.id > 0 => h.id = code[p].id)
    BY <1>2
<1>4. \A q \in Purposes : code'[q].id <= issued
    BY <1>1, <1>3 DEF IInv, CodesTrue
<1>5. \A q, r \in Purposes : code'[q].id > 0 /\ code'[q].id = code'[r].id => q = r
    BY <1>1, <1>3 DEF IInv, CodesTrue
<1>6. ASSUME NEW q \in Purposes, code'[q].id > 0, ~code'[q].locked
      PROVE  /\ code'[q].tries <= OtpMax - 1 + Cardinality(Locking(q)')
             /\ guessed[code'[q].id] <= code'[q].tries + Cardinality(Trying(q)')
    <2>1. CASE q = p
        BY <1>1, <1>6, <2>1
    <2>2. CASE q # p
        <3>1. code'[q] = code[q] /\ Trying(q)' = Trying(q) /\ Locking(q)' = Locking(q)
            BY <1>1, <2>2
        <3> QED BY <1>6, <3>1 DEF IInv, CodesTrue
    <2> QED BY <2>1, <2>2
<1> QED BY <1>4, <1>5, <1>6 DEF IInv, CodesTrue

\* A code that is written stays a code, and is no newer than those issued.
LEMMA HashIs ==
    ASSUME IInv, NEW p \in Purposes, NEW h \in Hashes, code' = [code EXCEPT ![p] = h],
           h.id = code[p].id \/ h.id \in {0, Ghost}
    PROVE  /\ code' \in [Purposes -> Hashes]
           /\ code'["verify_email"].id \in {code["verify_email"].id, 0, Ghost, issued + 1}
BY DEF IInv, TypeOK, Hashes, Purposes

\* The deleted hash is a hash without a code.
LEMMA NoCodeIs == NoCode \in Hashes /\ NoCode.id = 0 /\ ~(NoCode.id > 0)
<1>1. 0 \in 0..MaxCodes /\ ~(0 > 0)
    BY AccountAssumption
<1> QED BY <1>1 DEF NoCode, Hashes

\* A deleted code can no longer be guessed.
LEMMA DeleteOtpKeeps ==
    ASSUME IInv, NEW s \in Slots, DeleteOtp(s)
    PROVE  IInv'
<1>1. PICK p \in Purposes, h \in Hashes :
         code' = [code EXCEPT ![p] = h] /\ h.id = 0 /\ ~(h.id > 0)
    BY NoCodeIs DEF DeleteOtp, Purpose, Purposes
<1>2. /\ Goto(s, Idle) /\ calls[s].stage = "unsend"
      /\ UNCHANGED <<account, sessions, issued, mailed, guessed, rest>>
    BY DEF DeleteOtp, End, letters
<1>3. \A q \in Purposes : Trying(q)' = Trying(q) /\ Locking(q)' = Locking(q)
    BY <1>2, IdleCall, SlotsKeep
<1>4. \A t, u \in Slots :
         /\ calls'[t].stage = "mark" /\ calls'[u].stage = "mark"
         /\ calls'[t].code = calls'[u].code
         => t = u
    BY <1>2, IdleCall, MarksKeep
<1>5. CodesTrue'
    BY <1>1, <1>2, <1>3, <1>4, HashKeeps
<1>6. CallTrue(Idle)'
    BY DEF CallTrue, Idle
<1>7. /\ code' \in [Purposes -> Hashes]
      /\ code'["verify_email"].id \in {code["verify_email"].id, 0, Ghost, issued + 1}
    BY <1>1, HashIs
<1>8. /\ issued' \in 0..MaxCodes /\ mailed' \subseteq 1..issued'
      /\ guessed' \in [1..MaxCodes -> Nat] /\ issued <= issued'
    BY <1>2, AccountAssumption DEF IInv, TypeOK
<1> QED BY <1>2, <1>5, <1>6, <1>7, <1>8, IdleCall, CodeStepKeeps

LEMMA ExpireKeeps ==
    ASSUME IInv, NEW p \in Purposes, Expire(p)
    PROVE  IInv'
<1>1. UNCHANGED <<account, sessions, issued, mailed, guessed, rest, calls>>
    BY DEF Expire, letters
<1>h. PICK h \in Hashes : code' = [code EXCEPT ![p] = h] /\ h.id = 0 /\ ~(h.id > 0)
    BY NoCodeIs DEF Expire
<1>2. \A q \in Purposes : Trying(q)' = Trying(q) /\ Locking(q)' = Locking(q)
    BY <1>1 DEF Trying, Locking, PurposeOf
<1>3. \A t, u \in Slots :
         /\ calls'[t].stage = "mark" /\ calls'[u].stage = "mark"
         /\ calls'[t].code = calls'[u].code
         => t = u
    BY <1>1 DEF IInv, CodesTrue
<1>4. CodesTrue'
    BY <1>1, <1>h, <1>2, <1>3, HashKeeps
<1>5. /\ code' \in [Purposes -> Hashes]
      /\ code'["verify_email"].id \in {code["verify_email"].id, 0, Ghost, issued + 1}
    BY <1>h, HashIs
<1>6. TypeOK'
    BY <1>1, <1>5 DEF IInv, TypeOK, Hashes, rest, throttle
<1>7. Grows
    BY <1>1, <1>5, SessionsAre, AccountAssumption DEF IInv, TypeOK, Grows, rest
<1>8. CallsTrue'
    BY <1>1, <1>6, <1>7, CallsStay
<1>9. AccountTrue' /\ LinesTrue'
    BY <1>1 DEF IInv, AccountTrue, LinesTrue, Live, rest
<1>10. ThrottleTrue'
    BY <1>1, ThrottleKeeps DEF Counting, LetIn, rest
<1> QED BY <1>4, <1>6, <1>8, <1>9, <1>10 DEF IInv

\* A call about one purpose leaves the counts of the other one alone.
LEMMA OthersCounted ==
    ASSUME IInv, NEW s \in Slots, NEW c \in Call, Goto(s, c), NEW p,
           PurposeOf(calls[s]) = p, PurposeOf(c) = p \/ c.stage = "idle"
    PROVE  \A q \in Purposes \ {p} : Trying(q)' = Trying(q) /\ Locking(q)' = Locking(q)
<1>1. \A t \in Slots : calls'[t] = IF t = s THEN c ELSE calls[t]
    BY GotoIs DEF IInv
<1> QED BY <1>1 DEF Trying, Locking, PurposeOf

\* The counter moves with the guess that is counted, and the call that counts
\* the last one will lock.
LEMMA IncrementKeeps ==
    ASSUME IInv, NEW s \in Slots, IncrementOtpAttempts(s)
    PROVE  IInv'
<1>1. PICK p \in Purposes :
         /\ p = Purpose(s) /\ p = PurposeOf(calls[s]) /\ calls[s].stage = "try"
         /\ CallTrue(calls[s]) /\ calls[s].op # "request"
         /\ UNCHANGED <<account, sessions, issued, mailed, guessed, rest>>
    BY DEF IncrementOtpAttempts, Purpose, Purposes, PurposeOf, IInv, CallsTrue, CallTrue, letters
<1>2. PICK h \in Hashes :
         /\ code' = [code EXCEPT ![p] = h]
         /\ h.tries = code[p].tries + 1 /\ h.locked = code[p].locked
         /\ h.id = IF code[p].id = 0 THEN Ghost ELSE code[p].id
    <2> DEFINE k == Touched(code[p])
    <2>1. /\ k \in Hashes /\ k.tries = code[p].tries /\ k.locked = code[p].locked
          /\ k.id = IF code[p].id = 0 THEN Ghost ELSE code[p].id
          /\ k.tries + 1 \in Nat
        BY CodesAre DEF Touched, Hashes
    <2>2. code' = [code EXCEPT ![p] = [k EXCEPT !.tries = k.tries + 1]]
        BY <1>1 DEF IncrementOtpAttempts
    <2> HIDE DEF k
    <2>3. /\ [k EXCEPT !.tries = k.tries + 1] \in Hashes
          /\ [k EXCEPT !.tries = k.tries + 1].tries = k.tries + 1
          /\ [k EXCEPT !.tries = k.tries + 1].locked = k.locked
          /\ [k EXCEPT !.tries = k.tries + 1].id = k.id
        BY <2>1 DEF Hashes
    <2> QED BY <2>1, <2>2, <2>3
<1>4. PICK c \in Call : /\ Goto(s, c) /\ c.op # "request"
                        /\ c.stage = "idle" => c.op = "login" /\ c.token = 0
                        /\ c.stage = "lock" => c.op = calls[s].op /\ c.token = calls[s].token
                        /\ c.stage = IF code[p].tries + 1 >= OtpMax THEN "lock" ELSE "idle"
                        /\ ~Carries(c) /\ PurposeOf(c) \in Purposes
    <2>1. CASE code[p].tries + 1 >= OtpMax /\ Stage(s, "lock")
        <3>1. PICK c \in Call : /\ Goto(s, c) /\ c.stage = "lock" /\ c.op = calls[s].op
                                /\ c.token = calls[s].token
            BY <2>1, StageIs DEF IInv, Stages
        <3>2. ~Carries(c) /\ PurposeOf(c) \in Purposes
            BY <3>1 DEF Carries, PurposeOf, Purposes
        <3> QED BY <1>1, <2>1, <3>1, <3>2
    <2>2. CASE ~(code[p].tries + 1 >= OtpMax) /\ End(s)
        <3>1. PurposeOf(Idle) \in Purposes
            BY DEF PurposeOf, Purposes
        <3> QED BY <2>2, <3>1, IdleCall DEF End
    <2> QED BY <1>1, <2>1, <2>2 DEF IncrementOtpAttempts
<1>5. /\ \A q \in Purposes \ {p} : Trying(q)' = Trying(q) /\ Locking(q)' = Locking(q)
      /\ \A t, u \in Slots :
            /\ calls'[t].stage = "mark" /\ calls'[u].stage = "mark"
            /\ calls'[t].code = calls'[u].code
            => t = u
    <2>1. PurposeOf(c) = p \/ c.stage = "idle"
        BY <1>1, <1>4 DEF PurposeOf
    <2> QED BY <1>1, <1>4, <2>1, OthersCounted, MarksKeep
<1>6. h.id > 0 /\ ~h.locked =>
         /\ h.tries <= OtpMax - 1 + Cardinality(Locking(p)')
         /\ guessed[h.id] <= h.tries + Cardinality(Trying(p)')
    <2> SUFFICES ASSUME h.id > 0, ~h.locked
                 PROVE  /\ h.tries <= OtpMax - 1 + Cardinality(Locking(p)')
                        /\ guessed[h.id] <= h.tries + Cardinality(Trying(p)')
        OBVIOUS
    <2>1. ~(Ghost > 0)
        BY DEF Ghost
    <2>2. h.id = code[p].id /\ code[p].id > 0 /\ ~code[p].locked
        BY <1>2, <2>1
    <2>3. /\ code[p].tries <= OtpMax - 1 + Cardinality(Locking(p))
          /\ guessed[code[p].id] <= code[p].tries + Cardinality(Trying(p))
        BY <1>1, <2>2 DEF IInv, CodesTrue
    <2>4. PurposeOf(c) = p \/ c.stage = "idle"
        BY <1>1, <1>4 DEF PurposeOf
    <2>5. /\ Cardinality(Trying(p)') \in Nat /\ Cardinality(Locking(p)') \in Nat
          /\ Cardinality(Trying(p)) \in Nat /\ Cardinality(Locking(p)) \in Nat
          /\ Cardinality(Trying(p)') = Cardinality(Trying(p)) - 1
          /\ Cardinality(Locking(p)') = Cardinality(Locking(p))
                + (IF code[p].tries + 1 >= OtpMax THEN 1 ELSE 0)
        BY <1>1, <1>4, <2>4, CodeCounts
    <2>6. guessed[code[p].id] \in Nat /\ code[p].tries \in Nat
        BY <1>1, <2>2, CodesAre
    <2> QED BY <1>2, <2>2, <2>3, <2>5, <2>6, AccountAssumption
<1>7. h.id = code[p].id \/ h.id \in {0, Ghost}
    BY <1>2
<1>8. CodesTrue'
    BY <1>1, <1>2, <1>5, <1>6, <1>7, HashKeeps
<1>9. /\ code' \in [Purposes -> Hashes]
      /\ code'["verify_email"].id \in {code["verify_email"].id, 0, Ghost, issued + 1}
    BY <1>2, <1>7, HashIs
<1>10. /\ issued' \in 0..MaxCodes /\ mailed' \subseteq 1..issued'
       /\ guessed' \in [1..MaxCodes -> Nat] /\ issued <= issued'
    BY <1>1, AccountAssumption DEF IInv, TypeOK
<1>11. CallTrue(c)'
    BY <1>1, <1>4 DEF CallTrue, Carries
<1> QED BY <1>1, <1>4, <1>8, <1>9, <1>10, <1>11, CodeStepKeeps

\* The code is locked: nobody else is let in to guess it.
LEMMA LockKeeps ==
    ASSUME IInv, NEW s \in Slots, LockOtp(s)
    PROVE  IInv'
<1>1. PICK p \in Purposes :
         /\ p = Purpose(s) /\ p = PurposeOf(calls[s]) /\ Goto(s, Idle)
         /\ calls[s].stage = "lock"
         /\ UNCHANGED <<account, sessions, issued, mailed, guessed, rest>>
    BY DEF LockOtp, End, Purpose, Purposes, PurposeOf, letters
<1>2. PICK h \in Hashes :
         /\ code' = [code EXCEPT ![p] = h] /\ h.locked
         /\ h.id = IF code[p].id = 0 THEN Ghost ELSE code[p].id
    <2> DEFINE k == Touched(code[p])
    <2>1. k \in Hashes /\ k.id = IF code[p].id = 0 THEN Ghost ELSE code[p].id
        BY CodesAre DEF Touched, Hashes
    <2>2. code' = [code EXCEPT ![p] = [k EXCEPT !.locked = TRUE]]
        BY <1>1 DEF LockOtp
    <2> HIDE DEF k
    <2>3. /\ [k EXCEPT !.locked = TRUE] \in Hashes
          /\ [k EXCEPT !.locked = TRUE].locked
          /\ [k EXCEPT !.locked = TRUE].id = k.id
        BY <2>1 DEF Hashes
    <2> QED BY <2>1, <2>2, <2>3
<1>3. h.id = code[p].id \/ h.id \in {0, Ghost}
    BY <1>2
<1>4. /\ \A q \in Purposes \ {p} : Trying(q)' = Trying(q) /\ Locking(q)' = Locking(q)
      /\ \A t, u \in Slots :
            /\ calls'[t].stage = "mark" /\ calls'[u].stage = "mark"
            /\ calls'[t].code = calls'[u].code
            => t = u
    BY <1>1, IdleCall, OthersCounted, MarksKeep
<1>5. CodesTrue'
    BY <1>1, <1>2, <1>3, <1>4, HashKeeps
<1>6. /\ code' \in [Purposes -> Hashes]
      /\ code'["verify_email"].id \in {code["verify_email"].id, 0, Ghost, issued + 1}
    BY <1>2, <1>3, HashIs
<1>7. /\ issued' \in 0..MaxCodes /\ mailed' \subseteq 1..issued'
      /\ guessed' \in [1..MaxCodes -> Nat] /\ issued <= issued'
    BY <1>1, AccountAssumption DEF IInv, TypeOK
<1>8. CallTrue(Idle)'
    BY DEF CallTrue, Idle
<1> QED BY <1>1, <1>5, <1>6, <1>7, <1>8, IdleCall, CodeStepKeeps

\* Of two calls that have a code accepted, the second finds another one.
LEMMA ConsumeKeeps ==
    ASSUME IInv, NEW s \in Slots, ConsumeOtp(s)
    PROVE  IInv'
<1>1. /\ calls[s].stage = "consume" /\ CallTrue(calls[s]) /\ calls[s].op # "request"
      /\ calls[s].code \in 1..issued /\ issued \in Nat
      /\ UNCHANGED <<account, sessions, issued, mailed, guessed, rest>>
    BY AccountAssumption
       DEF ConsumeOtp, IInv, TypeOK, CallsTrue, CallTrue, letters
<1>2. CASE End(s) /\ UNCHANGED code
    BY <1>1, <1>2, AccountSame, EndKeeps DEF codes
<1>3. CASE /\ code["verify_email"].id = calls[s].code
           /\ code' = [code EXCEPT !["verify_email"] = NoCode] /\ Stage(s, "mark")
    <2>1. PICK c \in Call : /\ Goto(s, c) /\ c.stage = "mark" /\ c.op = calls[s].op
                            /\ c.token = calls[s].token /\ c.code = calls[s].code
        BY <1>3, StageIs DEF IInv, Stages
    <2>2. PICK p \in Purposes : p = "verify_email"
        BY DEF Purposes
    <2>3. PICK h \in Hashes : code' = [code EXCEPT ![p] = h] /\ h.id = 0 /\ ~(h.id > 0)
        BY <1>3, <2>2, NoCodeIs
    <2>4. \A t \in Slots : calls'[t] = IF t = s THEN c ELSE calls[t]
        BY <2>1, GotoIs DEF IInv
    <2>5. \A q \in Purposes : Trying(q)' = Trying(q) /\ Locking(q)' = Locking(q)
        BY <1>1, <2>1, <2>4 DEF Trying, Locking, PurposeOf
    <2>6. \A t \in Slots : calls[t].stage = "mark" => calls[t].code # calls[s].code
        BY <1>3 DEF IInv, CallsTrue, CallTrue
    <2>7. \A t, u \in Slots :
             /\ calls'[t].stage = "mark" /\ calls'[u].stage = "mark"
             /\ calls'[t].code = calls'[u].code
             => t = u
        BY <2>1, <2>4, <2>6 DEF IInv, CodesTrue
    <2>8. CodesTrue'
        BY <1>1, <2>3, <2>5, <2>7, HashKeeps
    <2>9. /\ code' \in [Purposes -> Hashes]
          /\ code'["verify_email"].id \in {code["verify_email"].id, 0, Ghost, issued + 1}
        BY <2>3, HashIs
    <2>10. /\ issued' \in 0..MaxCodes /\ mailed' \subseteq 1..issued'
           /\ guessed' \in [1..MaxCodes -> Nat] /\ issued <= issued'
        BY <1>1 DEF IInv, TypeOK
    <2>11. code'["verify_email"].id = 0 /\ c.code # 0
        BY <1>1, <2>1, <2>2, <2>3 DEF IInv, TypeOK
    <2>12. CallTrue(c)' /\ ~Carries(c)
        BY <1>1, <2>1, <2>11 DEF CallTrue, Carries
    <2> QED BY <1>1, <2>1, <2>8, <2>9, <2>10, <2>12, CodeStepKeeps
<1> QED BY <1>2, <1>3 DEF ConsumeOtp

\* A wrong guess is compared: one more, and one more call that will count it.
LEMMA GuessKeeps ==
    ASSUME IInv, NEW s \in Slots, NEW p \in Purposes, p = PurposeOf(calls[s]),
           calls[s].stage = "read", Stage(s, "try"), code[p].id > 0, ~code[p].locked,
           guessed' = [guessed EXCEPT ![code[p].id] = @ + 1],
           UNCHANGED <<account, sessions, code, issued, mailed, rest>>
    PROVE  IInv'
<1>1. PICK c \in Call : /\ Goto(s, c) /\ c.stage = "try" /\ c.op = calls[s].op
                        /\ c.token = calls[s].token
    BY StageIs DEF IInv, Stages
<1>2. PurposeOf(c) = p
    BY <1>1 DEF PurposeOf
<1>3. CallTrue(calls[s]) /\ calls[s].op # "request"
    BY DEF IInv, CallsTrue, CallTrue
<1>4. CallTrue(c)' /\ ~Carries(c)
    BY <1>1, <1>3 DEF CallTrue, Carries
<1>5. PICK n \in 1..MaxCodes : n = code[p].id /\ n <= issued
    BY CodesAre
<1>6. /\ guessed' \in [1..MaxCodes -> Nat] /\ guessed[n] \in Nat
      /\ \A m \in 1..MaxCodes : guessed'[m] = IF m = n THEN guessed[n] + 1 ELSE guessed[m]
    BY <1>5 DEF IInv, TypeOK
<1>7. /\ Cardinality(Trying(p)') \in Nat /\ Cardinality(Locking(p)') \in Nat
      /\ Cardinality(Trying(p)) \in Nat /\ Cardinality(Locking(p)) \in Nat
      /\ Cardinality(Trying(p)') + Cardinality(Locking(p)') <= Cardinality(Slots)
      /\ Cardinality(Trying(p)') = Cardinality(Trying(p)) + 1
      /\ Cardinality(Locking(p)') = Cardinality(Locking(p))
    BY <1>1, <1>2, CodeCounts
<1>8. /\ code[p].tries <= OtpMax - 1 + Cardinality(Locking(p))
      /\ guessed[n] <= code[p].tries + Cardinality(Trying(p))
      /\ code[p].tries \in Nat
    BY <1>5, CodesAre DEF IInv, CodesTrue
<1>9. \A q \in Purposes \ {p} : Trying(q)' = Trying(q) /\ Locking(q)' = Locking(q)
    BY <1>1, <1>2, OthersCounted
<1>10. /\ guessed[n] + 1 <= OtpMax - 1 + Cardinality(Slots)
       /\ code[p].tries <= OtpMax - 1 + Cardinality(Locking(p)')
       /\ guessed[n] + 1 <= code[p].tries + Cardinality(Trying(p)')
    <2>1. PICK g \in Nat, k \in Nat, a \in Nat, b \in Nat, l \in Nat :
             /\ g = guessed[n] /\ k = code[p].tries
             /\ a = Cardinality(Trying(p)) /\ b = Cardinality(Trying(p)')
             /\ l = Cardinality(Locking(p))
        BY <1>6, <1>7, <1>8
    <2>2. /\ b + l <= Cardinality(Slots) /\ b = a + 1
          /\ k <= OtpMax - 1 + l /\ g <= k + a
        BY <1>7, <1>8, <2>1
    <2>3. /\ g + 1 <= OtpMax - 1 + Cardinality(Slots)
          /\ g + 1 <= k + b
        BY <2>2, SlotsCounted, AccountAssumption
    <2> QED BY <1>7, <1>8, <2>1, <2>3
<1>11. \A m \in 1..MaxCodes : /\ m > issued => guessed'[m] = 0
                              /\ guessed'[m] <= OtpMax - 1 + Cardinality(Slots)
    <2>1. issued \in Nat /\ ~(n > issued)
        BY <1>5, CodesAre
    <2> QED BY <1>6, <1>10, <2>1 DEF IInv, CodesTrue
<1>12. ASSUME NEW q \in Purposes, code'[q].id > 0, ~code'[q].locked
       PROVE  /\ code'[q].tries <= OtpMax - 1 + Cardinality(Locking(q)')
              /\ guessed'[code'[q].id] <= code'[q].tries + Cardinality(Trying(q)')
    <2>1. CASE q = p
        BY <1>5, <1>6, <1>10, <2>1
    <2>2. CASE q # p
        <3>1. code[q].id # n /\ code[q].id \in 1..MaxCodes
            BY <1>5, <1>12, <2>2, CodesAre DEF IInv, CodesTrue
        <3>2. guessed'[code[q].id] = guessed[code[q].id]
            BY <1>6, <3>1
        <3> QED BY <1>9, <1>12, <2>2, <3>2 DEF IInv, CodesTrue
    <2> QED BY <2>1, <2>2
<1>13. \A t, u \in Slots :
          /\ calls'[t].stage = "mark" /\ calls'[u].stage = "mark"
          /\ calls'[t].code = calls'[u].code
          => t = u
    BY <1>1, MarksKeep
<1>14. CodesTrue'
    BY <1>11, <1>12, <1>13 DEF IInv, CodesTrue
<1>15. /\ code' \in [Purposes -> Hashes] /\ issued' \in 0..MaxCodes
       /\ mailed' \subseteq 1..issued' /\ issued <= issued'
    BY AccountAssumption DEF IInv, TypeOK, Hashes
<1> QED BY <1>1, <1>4, <1>6, <1>14, <1>15, CodeStepKeeps

\* A guess is compared; a wrong one is counted by the next step.
LEMMA CheckOtpKeeps ==
    ASSUME IInv, NEW s \in Slots, CheckOtp(s)
    PROVE  IInv'
<1>1. PICK p \in Purposes : p = Purpose(s) /\ p = PurposeOf(calls[s])
    BY DEF Purpose, Purposes, PurposeOf
<1>2. /\ calls[s].stage = "read" /\ CallTrue(calls[s]) /\ calls[s].op # "request"
      /\ UNCHANGED <<account, sessions, code, issued, mailed, rest>>
    BY DEF CheckOtp, IInv, CallsTrue, CallTrue
<1>3. CASE End(s) /\ UNCHANGED guessed
    BY <1>2, <1>3, AccountSame, EndKeeps DEF codes
<1>4. CASE /\ code[p].id \in mailed
           /\ Goto(s, [calls[s] EXCEPT !.code = code[p].id,
                         !.stage = IF calls[s].op = "verify" THEN "consume" ELSE "password"])
           /\ UNCHANGED guessed
    <2>1. PICK n \in 1..issued : n = code[p].id /\ n \in 0..MaxCodes
        BY <1>4, CodesAre DEF IInv, TypeOK
    <2>2. PICK c \in Call : /\ Goto(s, c) /\ c.stage \in {"consume", "password"}
                            /\ c.op = calls[s].op /\ c.token = calls[s].token /\ c.code = n
        <3> DEFINE stage == IF calls[s].op = "verify" THEN "consume" ELSE "password"
                   c == [calls[s] EXCEPT !.code = n, !.stage = stage]
        <3>1. stage \in {"consume", "password"} /\ stage \in Stages
            BY DEF Stages
        <3> HIDE DEF stage
        <3>2. /\ c \in Call /\ c.stage = stage /\ c.op = calls[s].op
              /\ c.token = calls[s].token /\ c.code = n
            BY <2>1, <3>1 DEF IInv, TypeOK, Call
        <3>3. Goto(s, c)
            BY <1>4, <2>1 DEF stage
        <3> QED BY <3>1, <3>2, <3>3
    <2>3. CallTrue(c)' /\ ~Carries(c)
        BY <1>2, <2>1, <2>2 DEF CallTrue, Carries
    <2> QED BY <1>2, <1>4, <2>2, <2>3, AccountSame, StageKeeps DEF codes
<1>5. CASE /\ code[p].id > 0 /\ ~code[p].locked /\ Stage(s, "try")
           /\ guessed' = [guessed EXCEPT ![code[p].id] = @ + 1]
    BY <1>1, <1>2, <1>5, GuessKeeps
<1> QED BY <1>1, <1>3, <1>4, <1>5 DEF CheckOtp

\* A code that is stored is a new one: nothing was compared with it.
LEMMA StoreKeeps ==
    ASSUME IInv, NEW s \in Slots, StoreOtp(s)
    PROVE  IInv'
<1>1. PICK p \in Purposes : p = Purpose(s)
    BY DEF Purpose, Purposes
<1>2. PICK n \in 1..MaxCodes : n = issued + 1 /\ issued \in Nat
    BY AccountAssumption DEF StoreOtp, IInv, TypeOK
<1>3. PICK h \in Hashes : h.id = n /\ h.tries = 0 /\ code' = [code EXCEPT ![p] = h]
    <2>1. n \in 0..MaxCodes /\ NoCode.tries = 0
        BY AccountAssumption DEF NoCode
    <2>2. /\ [NoCode EXCEPT !.id = n] \in Hashes /\ [NoCode EXCEPT !.id = n].id = n
          /\ [NoCode EXCEPT !.id = n].tries = 0
        BY <2>1, NoCodeIs DEF Hashes
    <2>3. code' = [code EXCEPT ![p] = [NoCode EXCEPT !.id = n]]
        BY <1>1, <1>2 DEF StoreOtp
    <2> QED BY <2>2, <2>3
<1>4. /\ calls[s].stage = "store" /\ CallTrue(calls[s]) /\ calls[s].op # "request"
      /\ issued' = n
      /\ UNCHANGED <<account, sessions, mailed, guessed, rest>>
    BY <1>2 DEF StoreOtp, IInv, CallsTrue, CallTrue
<1>5. PICK c \in Call : /\ Goto(s, c) /\ c.stage = "mail" /\ c.op = calls[s].op
                        /\ c.token = calls[s].token /\ c.code = n
    <2> DEFINE c == [calls[s] EXCEPT !.stage = "mail", !.code = n]
    <2>1. n \in 0..MaxCodes /\ "mail" \in Stages
        BY AccountAssumption DEF Stages
    <2>2. /\ c \in Call /\ c.stage = "mail" /\ c.op = calls[s].op
          /\ c.token = calls[s].token /\ c.code = n
        BY <2>1 DEF IInv, TypeOK, Call
    <2> QED BY <1>2, <2>2 DEF StoreOtp
<1>6. CallTrue(c)' /\ ~Carries(c)
    BY <1>2, <1>4, <1>5 DEF CallTrue, Carries
<1>7. \A q \in Purposes : Trying(q)' = Trying(q) /\ Locking(q)' = Locking(q)
    BY <1>4, <1>5, SlotsKeep
<1>8. \A q \in Purposes : code'[q] = IF q = p THEN h ELSE code[q]
    BY <1>3 DEF IInv, TypeOK
<1>9. \A q \in Purposes : code[q].id <= issued /\ code[q].id \in Int
    BY CodesAre
<1>10. \A q \in Purposes : code'[q].id <= n
    BY <1>2, <1>3, <1>8, <1>9
<1>11. \A q, r \in Purposes : code'[q].id > 0 /\ code'[q].id = code'[r].id => q = r
    <2>1. \A q \in Purposes : code[q].id # n
        BY <1>2, <1>9
    <2> QED BY <1>3, <1>8, <2>1 DEF IInv, CodesTrue
<1>12. guessed[n] = 0
    <2>1. n > issued
        BY <1>2
    <2> QED BY <2>1 DEF IInv, CodesTrue
<1>13. \A m \in 1..MaxCodes : m > n => guessed[m] = 0
    <2>1. \A m \in 1..MaxCodes : m > n => m > issued
        BY <1>2, AccountAssumption
    <2> QED BY <2>1 DEF IInv, CodesTrue
<1>14. ASSUME NEW q \in Purposes, code'[q].id > 0, ~code'[q].locked
       PROVE  /\ code'[q].tries <= OtpMax - 1 + Cardinality(Locking(q)')
              /\ guessed[code'[q].id] <= code'[q].tries + Cardinality(Trying(q)')
    <2>1. CASE q = p
        <3>1. Cardinality(Trying(q)') \in Nat /\ Cardinality(Locking(q)') \in Nat
            BY <1>5, CodeCounts
        <3> QED BY <1>3, <1>8, <1>12, <2>1, <3>1, AccountAssumption
    <2>2. CASE q # p
        <3>1. code'[q] = code[q] /\ Trying(q)' = Trying(q) /\ Locking(q)' = Locking(q)
            BY <1>7, <1>8, <2>2
        <3> QED BY <1>14, <3>1 DEF IInv, CodesTrue
    <2> QED BY <2>1, <2>2
<1>15. \A t, u \in Slots :
          /\ calls'[t].stage = "mark" /\ calls'[u].stage = "mark"
          /\ calls'[t].code = calls'[u].code
          => t = u
    BY <1>5, MarksKeep
<1>16. CodesTrue'
    BY <1>4, <1>10, <1>11, <1>13, <1>14, <1>15 DEF IInv, CodesTrue
<1>17. code' \in [Purposes -> Hashes]
    BY <1>3 DEF IInv, TypeOK, Hashes
<1>18. code'["verify_email"].id \in {code["verify_email"].id, 0, Ghost, issued + 1}
    BY <1>2, <1>3, <1>8 DEF Purposes
<1>19. /\ issued' \in 0..MaxCodes /\ mailed' \subseteq 1..issued'
       /\ guessed' \in [1..MaxCodes -> Nat] /\ issued <= issued'
    BY <1>2, <1>4, AccountAssumption DEF IInv, TypeOK
<1> QED BY <1>4, <1>5, <1>6, <1>16, <1>17, <1>18, <1>19, CodeStepKeeps

\* The mail arrives, or the next steps clean up after its failure.
LEMMA MailKeeps ==
    ASSUME IInv, NEW s \in Slots, MailOtp(s)
    PROVE  IInv'
<1>1. /\ calls[s].stage = "mail" /\ calls[s].code \in 1..issued
      /\ UNCHANGED <<account, sessions, code, issued, guessed, rest>>
    BY DEF MailOtp, IInv, CallsTrue, CallTrue
<1>2. CASE mailed' = mailed \cup {calls[s].code} /\ End(s)
    <2>1. Goto(s, Idle) /\ CallTrue(Idle)'
        BY <1>2 DEF End, CallTrue, Idle
    <2>2. CodesTrue'
        BY <1>1, <2>1, IdleCall, SlotsKeep, CodesKeep
    <2>3. code' \in [Purposes -> Hashes] /\ guessed' \in [1..MaxCodes -> Nat]
        BY <1>1 DEF IInv, TypeOK, Hashes
    <2>4. mailed' \subseteq 1..issued'
        BY <1>1, <1>2 DEF IInv, TypeOK
    <2>5. issued' \in 0..MaxCodes /\ issued <= issued'
        BY <1>1, AccountAssumption DEF IInv, TypeOK
    <2> QED BY <1>1, <2>1, <2>2, <2>3, <2>4, <2>5, IdleCall, CodeStepKeeps
<1>3. CASE UNCHANGED mailed /\ Stage(s, "unregister")
    BY <1>1, <1>3, AccountSame, GoOnKeeps DEF Stages, codes
<1>4. CASE UNCHANGED mailed /\ Stage(s, "unsend")
    BY <1>1, <1>4, AccountSame, GoOnKeeps DEF Stages, codes
<1> QED BY <1>2, <1>3, <1>4 DEF MailOtp

-----------------------------------------------------------------------------
(* The specification.                                                       *)

\* Nothing is there before the first registration.
LEMMA InitHolds == Init => IInv
<1> SUFFICES ASSUME Init PROVE IInv
    OBVIOUS
<1>1. /\ Len(sessions) = 0 /\ sessions \in Seq(Session) /\ issued = 0 /\ mailed = {}
      /\ failures = 0 /\ guesses = 0 /\ clock = 0 /\ events = {} /\ out = {}
      /\ guessed = [c \in 1..MaxCodes |-> 0] /\ load \in Workloads
    BY DEF Init
<1>2. /\ \A s \in Slots : calls[s] = Idle
      /\ calls \in [Slots -> Call]
    BY IdleCall DEF Init
<1>3. /\ \A p \in Purposes : code[p] = NoCode
      /\ code \in [Purposes -> Hashes]
    BY NoCodeIs DEF Init
<1>4. /\ account \in [here: BOOLEAN, verified: BOOLEAN, banned: BOOLEAN,
                      deleted: BOOLEAN, google: BOOLEAN,
                      password: 0..MaxPasswords, validAfter: 0..MaxMoves]
      /\ ~account.google
    <2>1. 0 \in 0..MaxPasswords /\ 1 \in 0..MaxPasswords /\ 0 \in 0..MaxMoves
        BY AccountAssumption
    <2>2. CASE account = Nobody
        BY <2>1, <2>2 DEF Nobody
    <2>3. CASE account = [Nobody EXCEPT !.here = TRUE, !.verified = TRUE, !.password = 1]
        <3>1. account = [here |-> TRUE, verified |-> TRUE, banned |-> FALSE,
                         deleted |-> FALSE, google |-> FALSE, password |-> 1,
                         validAfter |-> 0]
            BY <2>3 DEF Nobody
        <3> QED BY <2>1, <3>1
    <2> QED BY <2>2, <2>3 DEF Init
<1>5. 0 \in 0..MaxCodes /\ 0 \in 0..MaxMoves /\ 0 <= MaxSessions /\ 0 \in Nat
    BY AccountAssumption
<1>6. TypeOK
    BY <1>1, <1>2, <1>3, <1>4, <1>5 DEF TypeOK, Hashes
<1>7. CallsTrue
    BY <1>2, IdleCall DEF CallsTrue, CallTrue
<1>8. AccountTrue
    BY <1>1, <1>4 DEF AccountTrue
<1>9. LinesTrue
    BY <1>1, <1>2, IdleCall DEF LinesTrue, Carries
<1>10. CodesTrue
    <2>1. Cardinality(Slots) \in Nat
        BY SlotsCounted
    <2>2. \A n \in 1..MaxCodes : guessed[n] = 0
        BY <1>1
    <2>3. 0 <= OtpMax - 1 + Cardinality(Slots)
        BY <2>1, AccountAssumption
    <2>4. \A p \in Purposes : code[p].id = 0 /\ ~(code[p].id > 0) /\ code[p].id <= issued
        BY <1>1, <1>3, NoCodeIs
    <2>5. \A s \in Slots : calls[s].stage # "mark"
        BY <1>2, IdleCall
    <2> QED BY <2>2, <2>3, <2>4, <2>5 DEF CodesTrue
<1>11. ThrottleTrue
    <2>1. Counting = {} /\ LetIn = {}
        BY <1>2, IdleCall DEF Counting, LetIn
    <2>2. Cardinality(Counting) = 0 /\ Cardinality(LetIn) = 0
        BY <2>1, FS_EmptySet
    <2> QED BY <1>1, <2>2, SlotsCounted, AccountAssumption DEF ThrottleTrue
<1> QED BY <1>6, <1>7, <1>8, <1>9, <1>10, <1>11 DEF IInv

\* Every step keeps the invariant.
LEMMA StepHolds == IInv /\ [Next]_vars => IInv'
<1> SUFFICES ASSUME IInv, [Next]_vars PROVE IInv'
    OBVIOUS
<1>1. ASSUME NEW s \in Slots, SignIn(s) PROVE IInv'
    BY <1>1, IssueTokensKeeps, LoginKeeps, CheckPasswordKeeps, CountFailureKeeps,
       ClearCounterKeeps, RequestsKeep, LinkGoogleKeeps, CreateGoogleKeeps DEF SignIn
<1>2. ASSUME NEW s \in Slots, SessionStep(s) PROVE IInv'
    BY <1>2, RefreshSessionKeeps, RevocationsKeep, RecordReuseKeeps, RotateKeeps,
       ReadOwnerKeeps, AuthenticateKeeps, AnswersKeep DEF SessionStep
<1>3. ASSUME NEW s \in Slots, CodeStep(s) PROVE IInv'
    BY <1>3, RequestsKeep, InsertAccountKeeps, StoreKeeps, MailKeeps, UnregisterKeeps,
       DeleteOtpKeeps, CheckOtpKeeps, IncrementKeeps, LockKeeps, ConsumeKeeps,
       MarkVerifiedKeeps, SetPasswordKeeps, RevocationsKeep DEF CodeStep
<1>4. ASSUME NEW s \in Slots, AdminDelete(s) \/ RevokeDeleted(s) PROVE IInv'
    BY <1>4, AdminDeleteKeeps, RevocationsKeep
<1>5. ASSUME NEW i \in DOMAIN sessions, Logout(i) PROVE IInv'
    BY <1>5, LogoutKeeps
<1>6. ASSUME NEW p \in Purposes, Expire(p) PROVE IInv'
    BY <1>6, ExpireKeeps
<1>7. CASE NewWindow \/ BanUser \/ AdminRestore
    BY <1>7, NewWindowKeeps, OfficeKeeps
<1>8. CASE UNCHANGED vars
    <2>1. /\ UNCHANGED <<account, sessions, codes, rest, calls>>
          /\ UNCHANGED <<code, issued, mailed, guessed, failures, guesses, events, out, clock, load>>
        BY <1>8 DEF vars, codes, rest, throttle
    <2>2. /\ \A p \in Purposes : Trying(p)' = Trying(p) /\ Locking(p)' = Locking(p)
          /\ Counting' = Counting /\ LetIn' = LetIn
        BY <2>1 DEF Trying, Locking, PurposeOf, Counting, LetIn
    <2>3. TypeOK' /\ AccountTrue' /\ LinesTrue'
        BY <2>1 DEF IInv, TypeOK, AccountTrue, LinesTrue, Live
    <2>4. CallsTrue'
        BY <2>1 DEF IInv, CallsTrue, CallTrue
    <2>5. CodesTrue' /\ ThrottleTrue'
        BY <2>1, <2>2 DEF IInv, CodesTrue, ThrottleTrue
    <2> QED BY <2>3, <2>4, <2>5 DEF IInv
<1> QED BY <1>1, <1>2, <1>3, <1>4, <1>5, <1>6, <1>7, <1>8 DEF Next

\* The inductive invariant holds in every behaviour.
THEOREM Invariance == Spec => []IInv
BY InitHolds, StepHolds, PTL DEF Spec

\* Every variable keeps its type.
THEOREM TypeCorrect == Spec => []TypeOK
<1>1. IInv => TypeOK
    BY DEF IInv
<1> QED BY <1>1, Invariance, PTL

\* Of the sessions that descend from one sign-in at most one is live, however
\* rotations race, and none once a logout revoked a live one of them.
THEOREM FamiliesAreLines == Spec => []FamilyIsOneLine
<1>1. IInv => FamilyIsOneLine
    BY SessionsAre DEF IInv, LinesTrue, FamilyIsOneLine, Family
<1> QED BY <1>1, Invariance, PTL

\* A code is compared with a wrong guess, and a password with a wrong one, no
\* more often than the limit and once per further call in flight.
THEOREM GuessingIsLimited == Spec => []GuessesAreBounded
<1>1. ASSUME IInv PROVE GuessesAreBounded
    <2>1. \A n \in 1..MaxCodes : guessed[n] \in Nat
                                /\ guessed[n] <= OtpMax - 1 + Cardinality(Slots)
        BY <1>1 DEF IInv, TypeOK, CodesTrue
    <2>2. Counting \in SUBSET Slots /\ LetIn \in SUBSET Slots /\ Counting \subseteq LetIn
        BY DEF Counting, LetIn
    <2>3. /\ Cardinality(Counting) \in Nat /\ Cardinality(LetIn) \in Nat
          /\ Cardinality(Counting) <= Cardinality(LetIn)
        BY <2>2, SubsetCounted, FS_Subset
    <2>4. guesses <= LoginMax - 1 + Cardinality(Slots)
        <3>1. /\ guesses \in Nat /\ failures \in Nat
              /\ guesses <= failures + Cardinality(Counting)
              /\ failures + Cardinality(LetIn) <= LoginMax - 1 + Cardinality(Slots)
            BY <1>1 DEF IInv, TypeOK, ThrottleTrue
        <3> QED BY <2>3, <3>1, SlotsCounted, AccountAssumption
    <2>5. \A n \in 1..MaxCodes : guessed[n] <= OtpMax + (Cardinality(Slots) - 1)
        <3> SUFFICES ASSUME NEW n \in 1..MaxCodes
                     PROVE  guessed[n] <= OtpMax + (Cardinality(Slots) - 1)
            OBVIOUS
        <3>1. PICK g \in Nat : g = guessed[n] /\ g <= OtpMax - 1 + Cardinality(Slots)
            BY <2>1
        <3>2. g <= OtpMax + (Cardinality(Slots) - 1)
            BY <3>1, SlotsCounted, AccountAssumption
        <3> QED BY <3>1, <3>2
    <2>6. guesses <= LoginMax + (Cardinality(Slots) - 1)
        BY <1>1, <2>4, SlotsCounted, AccountAssumption DEF IInv, TypeOK
    <2> QED BY <2>5, <2>6 DEF GuessesAreBounded
<1> QED BY <1>1, Invariance, PTL

\* A verification code is accepted by one call.
THEOREM CodesAcceptedOnce == Spec => []CodeAcceptedOnce
<1>1. IInv => CodeAcceptedOnce
    BY DEF IInv, CallsTrue, CallTrue, CodesTrue, CodeAcceptedOnce, At
<1> QED BY <1>1, Invariance, PTL

\* A request that begins after a restoration is admitted on a session opened
\* after it only.
THEOREM RestorationShutsOut == Spec => OldTokensStayOut
<1> DEFINE A == \A s \in Slots :
                   Admit(s) => sessions[calls[s].token].iat >= calls[s].since
<1>1. IInv => A
    BY DEF IInv, CallsTrue, CallTrue, Admit, At
<1> QED BY <1>1, Invariance, PTL DEF OldTokensStayOut
=============================================================================
