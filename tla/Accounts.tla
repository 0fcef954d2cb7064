------------------------------ MODULE Accounts ------------------------------
(***************************************************************************)
(* One account: its users document, its auth_sessions, its one-time codes  *)
(* in Redis and its login counter, with every endpoint that opens, rotates *)
(* or revokes a session.  A call is a slot; a stage of it is the database  *)
(* operation that comes next.  A call may stop at any stage for ever (the  *)
(* server was killed): its slot then stays taken.                          *)
(*   Passwords and codes are numbered, a client knows the codes mailed to  *)
(* it, 0 is a wrong guess.  The dev-only MongoDB store of codes, CAPTCHAs  *)
(* and roles are left out.                                                 *)
(***************************************************************************)
EXTENDS Integers, FiniteSets, Sequences

CONSTANTS
    Slots,        \* calls that may be in flight together
    Workloads,    \* bound: sets of operations (Ops) explored together
    MaxSessions,  \* bound: sessions ever inserted
    MaxCodes,     \* bound: codes ever stored, of both purposes
    MaxPasswords, \* bound: passwords the account ever has
    MaxMoves,     \* bound: deletions and restorations
    OtpMax,       \* OTP_MAX_ATTEMPTS
    LoginMax      \* LOGIN_MAX_FAILURES

ASSUME AccountAssumption ==
    /\ IsFiniteSet(Slots)
    /\ MaxSessions \in Nat /\ MaxCodes \in Nat /\ MaxPasswords \in Nat \ {0}
    /\ MaxMoves \in Nat /\ OtpMax \in Nat \ {0} /\ LoginMax \in Nat \ {0}

Ops == {"login", "google", "refresh", "request", "logout", "register",
        "send", "verify", "forgot", "reset", "ban", "delete", "restore"}
Stages == {"idle", "user", "count", "clear", "link", "create", "issue",
           "reuse", "event", "rotate", "owner", "session", "insert",
           "store", "mail",
           "unregister", "unsend", "read", "try", "lock", "consume",
           "mark", "password", "revoke"}
Purposes == {"verify_email", "reset_password"}
Reasons == {"rotated", "logout", "refresh_token_reuse", "password_reset",
            "admin_account_deleted"}
Ghost == -1      \* a Redis hash that has counters and no otp_hash, no TTL

VARIABLES
    account,   \* the users document
    sessions,  \* auth_sessions, in the order of insertion
    events,    \* auth_security_events: families in which reuse was detected
    code,      \* the Redis hash of each purpose; id 0: no key
    issued,    \* number of codes stored so far
    mailed,    \* codes the client has received
    failures,  \* auth_rate_limits: failed logins in the current window
    clock,     \* deletions and restorations so far: the time of a token
    guessed,   \* history: wrong guesses compared with each code
    guesses,   \* history: wrong passwords compared since the counter was 0
    out,       \* history: families whose newest token was sent to logout
    load,      \* the workload of this behaviour
    calls

throttle == <<failures, guesses>>
codes == <<code, issued, mailed, guessed>>
letters == <<issued, mailed, guessed>>
rest == <<throttle, events, out, clock, load>>
vars == <<account, sessions, codes, rest, calls>>

Call == [op: Ops, stage: Stages, token: 0..MaxSessions,
         pass: 0..MaxPasswords, code: 0..MaxCodes, since: 0..MaxMoves]

Idle == [op |-> "login", stage |-> "idle", token |-> 0, pass |-> 0,
         code |-> 0, since |-> 0]

Session == [status: {"live"} \cup Reasons, family: 1..MaxSessions,
            iat: 0..MaxMoves]

TypeOK ==
    /\ account \in [here: BOOLEAN, verified: BOOLEAN, banned: BOOLEAN,
                    deleted: BOOLEAN, google: BOOLEAN,
                    password: 0..MaxPasswords, validAfter: 0..MaxMoves]
    /\ sessions \in Seq(Session) /\ Len(sessions) <= MaxSessions
    /\ events \subseteq 1..Len(sessions)
    /\ out \subseteq 1..Len(sessions)
    /\ code \in [Purposes -> [id: {Ghost} \cup 0..MaxCodes, tries: Nat,
                              locked: BOOLEAN]]
    /\ issued \in 0..MaxCodes
    /\ mailed \subseteq 1..issued
    /\ failures \in Nat /\ guesses \in Nat
    /\ clock \in 0..MaxMoves
    /\ guessed \in [1..MaxCodes -> Nat]
    /\ load \in Workloads
    /\ calls \in [Slots -> Call]

Nobody == [here |-> FALSE, verified |-> FALSE, banned |-> FALSE,
           deleted |-> FALSE, google |-> FALSE, password |-> 0,
           validAfter |-> 0]
NoCode == [id |-> 0, tries |-> 0, locked |-> FALSE]

\* No account yet, or one with a password whose address is verified.
Init ==
    /\ account \in {Nobody,
                    [Nobody EXCEPT !.here = TRUE, !.verified = TRUE,
                                   !.password = 1]}
    /\ sessions = << >>
    /\ events = {}
    /\ out = {}
    /\ code = [p \in Purposes |-> NoCode]
    /\ issued = 0
    /\ mailed = {}
    /\ failures = 0
    /\ clock = 0
    /\ guessed = [c \in 1..MaxCodes |-> 0]
    /\ guesses = 0
    /\ load \in Workloads
    /\ calls = [s \in Slots |-> Idle]

Goto(s, c) == calls' = [calls EXCEPT ![s] = c]
Stage(s, stage) == Goto(s, [calls[s] EXCEPT !.stage = stage])
End(s) == Goto(s, Idle)
At(s, op, stage) == calls[s].op = op /\ calls[s].stage = stage
Begin(s, op, stage) == Goto(s, [Idle EXCEPT !.op = op, !.stage = stage])
Start(s, op) == calls[s] = Idle /\ op \in load

Live(i) == sessions[i].status = "live"
Revoke(I, reason) ==
    sessions' = [i \in DOMAIN sessions |->
                    IF i \in I /\ Live(i)
                    THEN [sessions[i] EXCEPT !.status = reason]
                    ELSE sessions[i]]
Family(i) == {j \in DOMAIN sessions : sessions[j].family = sessions[i].family}

-----------------------------------------------------------------------------
(* Sign-in.                                                                *)

\* The last operation before _issue_tokens: the time of the token is not
\* before it.
ToIssue(s, op) == Goto(s, [Idle EXCEPT !.op = op, !.stage = "issue",
                           !.token = calls[s].token, !.since = clock])

Insert(s, iat) ==
    LET n == Len(sessions) + 1 IN
    sessions' = Append(sessions,
       [status |-> "live", iat |-> iat,
        family |-> IF calls[s].token = 0 THEN n
                   ELSE sessions[calls[s].token].family])

\* Mutant: the token's iat is rounded up.
IssueAhead(s) ==
    /\ calls[s].stage = "issue"
    /\ Len(sessions) < MaxSessions
    /\ Insert(s, clock + 1)
    /\ End(s)
    /\ UNCHANGED <<account, codes, rest>>

\* _issue_tokens: a new session, of the family of the token it replaces.  The
\* token is made before its session is inserted.
IssueTokens(s) ==
    /\ calls[s].stage = "issue"
    /\ Len(sessions) < MaxSessions
    /\ \E iat \in calls[s].since..clock : Insert(s, iat)
    /\ End(s)
    /\ UNCHANGED <<account, codes, rest>>

\* Mutant: one failure too many.
LoginPastLimit(s) ==
    /\ Start(s, "login")
    /\ failures <= LoginMax
    /\ \E pass \in {0, account.password} :
          Goto(s, [Idle EXCEPT !.op = "login", !.stage = "user", !.pass = pass])
    /\ UNCHANGED <<account, sessions, codes, rest>>

\* The counter is read before the password is compared.
Login(s) ==
    /\ Start(s, "login")
    /\ failures < LoginMax
    /\ \E pass \in {0, account.password} :
          Goto(s, [Idle EXCEPT !.op = "login", !.stage = "user", !.pass = pass])
    /\ UNCHANGED <<account, sessions, codes, rest>>

\* A deleted account is refused before the password is compared, a banned or
\* an unverified one after it.
CheckPassword(s) ==
    /\ At(s, "login", "user")
    /\ LET wrong == calls[s].pass = 0 \/ calls[s].pass # account.password IN
       IF account.here /\ account.deleted
       THEN End(s) /\ UNCHANGED guesses
       ELSE IF ~account.here \/ wrong
       THEN Stage(s, "count") /\ guesses' = guesses + 1
       ELSE /\ UNCHANGED guesses
            /\ IF account.banned \/ ~account.verified
               THEN End(s) ELSE Stage(s, "clear")
    /\ UNCHANGED <<account, sessions, codes, failures, events, out, clock,
                   load>>

CountFailure(s) ==
    /\ At(s, "login", "count")
    /\ failures' = failures + 1
    /\ End(s)
    /\ UNCHANGED <<account, sessions, codes, guesses, events, out, clock,
                   load>>

\* A success clears the counters.
ClearCounter(s) ==
    /\ At(s, "login", "clear")
    /\ failures' = 0
    /\ guesses' = 0
    /\ ToIssue(s, "login")
    /\ UNCHANGED <<account, sessions, codes, events, out, clock, load>>

\* The next window of the counter begins.
NewWindow ==
    /\ failures > 0
    /\ failures' = 0
    /\ guesses' = 0
    /\ UNCHANGED <<account, sessions, codes, events, out, clock, load, calls>>

\* By google_id first, then by address; a stranger's account is created.
GoogleLogin(s) ==
    /\ Start(s, "google")
    /\ ~(account.here /\ account.deleted)
    /\ \/ /\ account.here /\ account.google /\ ~account.banned
          /\ ToIssue(s, "google")
       \/ /\ account.here /\ ~account.google
          /\ Begin(s, "google", "link")
       \/ /\ ~account.here
          /\ Begin(s, "google", "create")
    /\ UNCHANGED <<account, sessions, codes, rest>>

\* The update filters on google_id; only the ban is looked at afterwards.
LinkGoogle(s) ==
    /\ At(s, "google", "link")
    /\ account' = IF account.here
                  THEN [account EXCEPT !.google = TRUE, !.verified = TRUE]
                  ELSE account
    /\ IF account.here /\ ~account.banned THEN ToIssue(s, "google") ELSE End(s)
    /\ UNCHANGED <<sessions, codes, rest>>

\* The unique indexes decide between two creations; the loser goes on with
\* the account found if it carries this google_id.
CreateGoogle(s) ==
    /\ At(s, "google", "create")
    /\ account' = IF account.here THEN account
                  ELSE [Nobody EXCEPT !.here = TRUE, !.google = TRUE,
                                      !.verified = TRUE]
    /\ IF account'.google /\ ~account'.banned
       THEN ToIssue(s, "google") ELSE End(s)
    /\ UNCHANGED <<sessions, codes, rest>>

-----------------------------------------------------------------------------
(* Sessions.                                                               *)

\* A token that was rotated before is reuse; any other revoked one is refused.
RefreshSession(s) ==
    /\ Start(s, "refresh")
    /\ \E i \in DOMAIN sessions :
          /\ sessions[i].status \in {"live", "rotated"}
          /\ Goto(s, [Idle EXCEPT !.op = "refresh", !.token = i,
                      !.stage = IF Live(i) THEN "rotate" ELSE "reuse"])
    /\ UNCHANGED <<account, sessions, codes, rest>>

RevokeFamily(s) ==
    /\ At(s, "refresh", "reuse")
    /\ Revoke(Family(calls[s].token), "refresh_token_reuse")
    /\ Stage(s, "event")
    /\ UNCHANGED <<account, codes, rest>>

RecordReuse(s) ==
    /\ At(s, "refresh", "event")
    /\ events' = events \cup {sessions[calls[s].token].family}
    /\ End(s)
    /\ UNCHANGED <<account, sessions, codes, throttle, out, clock, load>>

\* Mutant: the update filters on the session's id alone.
RotateBlind(s) ==
    /\ At(s, "refresh", "rotate")
    /\ Revoke({calls[s].token}, "rotated")
    /\ Stage(s, "owner")
    /\ UNCHANGED <<account, codes, rest>>

Rotate(s) ==
    /\ At(s, "refresh", "rotate")
    /\ Revoke({calls[s].token}, "rotated")
    /\ IF Live(calls[s].token) THEN Stage(s, "owner") ELSE End(s)
    /\ UNCHANGED <<account, codes, rest>>

ReadOwner(s) ==
    /\ At(s, "refresh", "owner")
    /\ IF /\ account.here /\ ~account.deleted
          /\ ~account.banned /\ account.verified
       THEN ToIssue(s, "refresh") ELSE End(s)
    /\ UNCHANGED <<account, sessions, codes, rest>>

\* The update filters on the token and on revoked_at; the answer is success
\* whether or not it matched anything.
Logout(i) ==
    /\ "logout" \in load
    /\ Revoke({i}, "logout")
    /\ out' = IF \A j \in Family(i) : j <= i
              THEN out \cup {sessions[i].family} ELSE out
    /\ UNCHANGED <<account, codes, throttle, events, clock, load, calls>>

\* get_current_user: the user is read and judged, then the session is.
Authenticate(s) ==
    /\ Start(s, "request")
    /\ account.here /\ ~account.deleted /\ ~account.banned /\ account.verified
    /\ \E i \in DOMAIN sessions :
          /\ sessions[i].iat >= account.validAfter
          /\ Goto(s, [Idle EXCEPT !.op = "request", !.stage = "session",
                                  !.token = i, !.since = clock])
    /\ UNCHANGED <<account, sessions, codes, rest>>

Admit(s) ==
    /\ At(s, "request", "session")
    /\ Live(calls[s].token)
    /\ End(s)
    /\ UNCHANGED <<account, sessions, codes, rest>>

Refuse(s) ==
    /\ At(s, "request", "session")
    /\ ~Live(calls[s].token)
    /\ End(s)
    /\ UNCHANGED <<account, sessions, codes, rest>>

-----------------------------------------------------------------------------
(* One-time codes.                                                         *)

Purpose(s) == IF calls[s].op \in {"forgot", "reset"}
              THEN "reset_password" ELSE "verify_email"

\* The address is free; the unique index decides in the next step.
Register(s) ==
    /\ Start(s, "register")
    /\ ~account.here
    /\ Begin(s, "register", "insert")
    /\ UNCHANGED <<account, sessions, codes, rest>>

InsertAccount(s) ==
    /\ At(s, "register", "insert")
    /\ account' = IF account.here THEN account
                  ELSE [Nobody EXCEPT !.here = TRUE, !.password = 1]
    /\ IF account.here THEN End(s) ELSE Stage(s, "store")
    /\ UNCHANGED <<sessions, codes, rest>>

\* send-otp; the code of a verified address is deleted.  get_otp fails on a
\* hash without created_at.  A code may be old enough for another at any time.
SendOtp(s) ==
    /\ Start(s, "send")
    /\ account.here /\ ~account.deleted
    /\ account.verified \/ code["verify_email"].id # Ghost
    /\ Begin(s, "send", IF account.verified THEN "unsend" ELSE "store")
    /\ UNCHANGED <<account, sessions, codes, rest>>

ForgotPassword(s) ==
    /\ Start(s, "forgot")
    /\ account.here
    /\ code["reset_password"].id # Ghost
    /\ Begin(s, "forgot", "store")
    /\ UNCHANGED <<account, sessions, codes, rest>>

StoreOtp(s) ==
    /\ calls[s].stage = "store"
    /\ issued < MaxCodes
    /\ issued' = issued + 1
    /\ code' = [code EXCEPT ![Purpose(s)] = [NoCode EXCEPT !.id = issued + 1]]
    /\ Goto(s, [calls[s] EXCEPT !.stage = "mail", !.code = issued + 1])
    /\ UNCHANGED <<account, sessions, mailed, guessed, rest>>

MailOtp(s) ==
    /\ calls[s].stage = "mail"
    /\ \/ mailed' = mailed \cup {calls[s].code} /\ End(s)
       \/ /\ UNCHANGED mailed
          /\ Stage(s, IF calls[s].op = "register"
                      THEN "unregister" ELSE "unsend")
    /\ UNCHANGED <<account, sessions, code, issued, guessed, rest>>

\* The mail failed: the account goes unless its address was verified since.
Unregister(s) ==
    /\ calls[s].stage = "unregister"
    /\ account' = IF account.verified THEN account ELSE Nobody
    /\ Stage(s, "unsend")
    /\ UNCHANGED <<sessions, codes, rest>>

\* delete_otp takes whatever code is there.
DeleteOtp(s) ==
    /\ calls[s].stage = "unsend"
    /\ code' = [code EXCEPT ![Purpose(s)] = NoCode]
    /\ End(s)
    /\ UNCHANGED <<account, sessions, letters, rest>>

\* The TTL of a code, or _otp_expired at its next use.
Expire(p) ==
    /\ code[p].id > 0
    /\ code' = [code EXCEPT ![p] = NoCode]
    /\ UNCHANGED <<account, sessions, letters, rest, calls>>

VerifyEmail(s) ==
    /\ Start(s, "verify")
    /\ account.here /\ ~account.deleted
    /\ Begin(s, "verify", IF account.verified THEN "unsend" ELSE "read")
    /\ UNCHANGED <<account, sessions, codes, rest>>

ResetPassword(s) ==
    /\ Start(s, "reset")
    /\ Begin(s, "reset", "read")
    /\ UNCHANGED <<account, sessions, codes, rest>>

\* get_otp and _check_otp: the submission is compared with the hash read.
CheckOtp(s) ==
    /\ calls[s].stage = "read"
    /\ LET c == code[Purpose(s)] IN
       \/ /\ c.id < 1 \/ c.locked
          /\ End(s)
          /\ UNCHANGED guessed
       \/ /\ c.id \in mailed /\ ~c.locked
          /\ Goto(s, [calls[s] EXCEPT !.code = c.id,
                      !.stage = IF calls[s].op = "verify"
                                THEN "consume" ELSE "password"])
          /\ UNCHANGED guessed
       \/ /\ c.id > 0 /\ ~c.locked
          /\ Stage(s, "try")
          /\ guessed' = [guessed EXCEPT ![c.id] = @ + 1]
    /\ UNCHANGED <<account, sessions, code, issued, mailed, rest>>

\* HINCRBY and HSET create a hash when the key is gone.
Touched(c) == IF c.id = 0 THEN [c EXCEPT !.id = Ghost] ELSE c

IncrementOtpAttempts(s) ==
    /\ calls[s].stage = "try"
    /\ LET p == Purpose(s) IN
       /\ code' = [code EXCEPT ![p] = [Touched(code[p]) EXCEPT !.tries = @ + 1]]
       /\ IF code[p].tries + 1 >= OtpMax THEN Stage(s, "lock") ELSE End(s)
    /\ UNCHANGED <<account, sessions, letters, rest>>

LockOtp(s) ==
    /\ calls[s].stage = "lock"
    /\ code' = [code EXCEPT ![Purpose(s)] = [Touched(@) EXCEPT !.locked = TRUE]]
    /\ End(s)
    /\ UNCHANGED <<account, sessions, letters, rest>>

\* Mutant: the code is deleted whatever it is, and the answer not looked at.
ConsumeBlind(s) ==
    /\ calls[s].stage = "consume"
    /\ code' = [code EXCEPT !["verify_email"] = NoCode]
    /\ Stage(s, "mark")
    /\ UNCHANGED <<account, sessions, letters, rest>>

\* One script compares and deletes.
ConsumeOtp(s) ==
    /\ calls[s].stage = "consume"
    /\ IF code["verify_email"].id = calls[s].code
       THEN /\ code' = [code EXCEPT !["verify_email"] = NoCode]
            /\ Stage(s, "mark")
       ELSE UNCHANGED code /\ End(s)
    /\ UNCHANGED <<account, sessions, letters, rest>>

MarkVerified(s) ==
    /\ At(s, "verify", "mark")
    /\ IF account.here /\ ~account.verified /\ ~account.deleted
       THEN /\ account' = [account EXCEPT !.verified = TRUE]
            /\ ToIssue(s, "verify")
       ELSE UNCHANGED account /\ End(s)
    /\ UNCHANGED <<sessions, codes, rest>>

SetPassword(s) ==
    /\ calls[s].stage = "password"
    /\ account.here => account.password < MaxPasswords
    /\ account' = IF account.here
                  THEN [account EXCEPT !.password = @ + 1] ELSE account
    /\ Stage(s, IF account.here THEN "revoke" ELSE "unsend")
    /\ UNCHANGED <<sessions, codes, rest>>

\* Every session ends; the code is deleted after it.
RevokeAll(s) ==
    /\ At(s, "reset", "revoke")
    /\ Revoke(DOMAIN sessions, "password_reset")
    /\ Stage(s, "unsend")
    /\ UNCHANGED <<account, codes, rest>>

-----------------------------------------------------------------------------
(* Administration.                                                         *)

BanUser ==
    /\ "ban" \in load
    /\ account.here
    /\ account' = [account EXCEPT !.banned = ~@]
    /\ UNCHANGED <<sessions, codes, rest, calls>>

\* Here and in AdminRestore the time is read and the account updated in one
\* step: nothing is awaited between the two.
AdminDelete(s) ==
    /\ Start(s, "delete")
    /\ account.here /\ ~account.deleted
    /\ clock < MaxMoves
    /\ clock' = clock + 1
    /\ account' = [account EXCEPT !.deleted = TRUE, !.validAfter = clock + 1]
    /\ Begin(s, "delete", "revoke")
    /\ UNCHANGED <<sessions, codes, throttle, events, out, load>>

RevokeDeleted(s) ==
    /\ At(s, "delete", "revoke")
    /\ Revoke(DOMAIN sessions, "admin_account_deleted")
    /\ End(s)
    /\ UNCHANGED <<account, codes, rest>>

\* Mutant: the restoration leaves token_valid_after alone.
RestoreOnly ==
    /\ "restore" \in load
    /\ account.here /\ account.deleted
    /\ clock < MaxMoves
    /\ clock' = clock + 1
    /\ account' = [account EXCEPT !.deleted = FALSE]
    /\ UNCHANGED <<sessions, codes, throttle, events, out, load, calls>>

AdminRestore ==
    /\ "restore" \in load
    /\ account.here /\ account.deleted
    /\ clock < MaxMoves
    /\ clock' = clock + 1
    /\ account' = [account EXCEPT !.deleted = FALSE, !.validAfter = clock + 1]
    /\ UNCHANGED <<sessions, codes, throttle, events, out, load, calls>>

-----------------------------------------------------------------------------
SignIn(s) ==
    \/ IssueTokens(s) \/ Login(s) \/ CheckPassword(s) \/ CountFailure(s)
    \/ ClearCounter(s) \/ GoogleLogin(s) \/ LinkGoogle(s) \/ CreateGoogle(s)
SessionStep(s) ==
    \/ RefreshSession(s) \/ RevokeFamily(s) \/ RecordReuse(s) \/ Rotate(s)
    \/ ReadOwner(s) \/ Authenticate(s) \/ Admit(s) \/ Refuse(s)
CodeStep(s) ==
    \/ Register(s) \/ InsertAccount(s) \/ SendOtp(s) \/ ForgotPassword(s)
    \/ StoreOtp(s) \/ MailOtp(s) \/ Unregister(s) \/ DeleteOtp(s)
    \/ VerifyEmail(s) \/ ResetPassword(s) \/ CheckOtp(s)
    \/ IncrementOtpAttempts(s) \/ LockOtp(s) \/ ConsumeOtp(s)
    \/ MarkVerified(s) \/ SetPassword(s) \/ RevokeAll(s)
Next ==
    \/ \E s \in Slots : SignIn(s) \/ SessionStep(s) \/ CodeStep(s)
                        \/ AdminDelete(s) \/ RevokeDeleted(s)
    \/ \E i \in DOMAIN sessions : Logout(i)
    \/ \E p \in Purposes : Expire(p)
    \/ NewWindow \/ BanUser \/ AdminRestore

Spec == Init /\ [][Next]_vars

-----------------------------------------------------------------------------
(* Properties.                                                             *)

\* Of the sessions that descend from one sign-in at most one is live: a
\* rotation that raced another, with the same cookie, opens nothing
\* (refresh_session's conditional update).  Once a logout has revoked a live
\* session of them (logout's own conditional update), none is live again.  It
\* says nothing of a logout that found its session revoked already.
FamilyIsOneLine ==
    \A i \in DOMAIN sessions :
        /\ \A j \in Family(i) \ {i} : ~(Live(i) /\ Live(j))
        /\ sessions[i].status = "logout" => \A j \in Family(i) : ~Live(j)

\* However the calls interleave, wrong guesses are compared with one code at
\* most OTP_MAX_ATTEMPTS times, and once more per further call in flight
\* (_check_otp reads the counter, compares, then increments and locks); and
\* wrong passwords LOGIN_MAX_FAILURES times, and as many more, within a
\* window or since the last success.
GuessesAreBounded ==
    LET late == Cardinality(Slots) - 1 IN
    /\ \A c \in 1..MaxCodes : guessed[c] <= OtpMax + late
    /\ guesses <= LoginMax + late

\* A verification code is accepted once: while one call goes on with it, it
\* is not in store, and no other call has it accepted (consume_otp).
CodeAcceptedOnce ==
    \A s \in Slots : At(s, "verify", "mark") =>
        /\ code["verify_email"].id # calls[s].code
        /\ \A t \in Slots \ {s} :
              At(t, "verify", "mark") => calls[t].code # calls[s].code

\* A restoration resurrects no access token: a request that begins after it
\* is admitted on a session opened after it only (token_valid_after) - also
\* when the session was inserted after the deletion had revoked them all.
OldTokensStayOut ==
    [][\A s \in Slots :
          Admit(s) => sessions[calls[s].token].iat >= calls[s].since]_vars

\* The whole family is revoked on reuse, says editzone-backend/README.md:213.
\* A refresh that had rotated its token inserts the next session afterwards.
FamilyRevokedOnReuse ==
    \A i \in DOMAIN sessions : Live(i) => sessions[i].family \notin events

\* Refresh tokens are revoked on logout, says the same line: after a logout
\* with the newest token of a sign-in, no session of it is live.  A logout that
\* comes while a refresh has rotated that token, and not yet inserted the next
\* session, matches nothing.
LogoutEndsTheLine ==
    \A i \in DOMAIN sessions : Live(i) => sessions[i].family \notin out

\* Old sessions remain revoked, says admin_restore_account: once an account
\* is restored, and no deletion is under way, no session opened before the
\* restoration is live - and could be refreshed into one that is admitted.  A
\* sign-in that read the account before its deletion inserts its session
\* after the deletion has revoked them all.
OldSessionsStayRevoked ==
    (~account.deleted /\ \A s \in Slots : calls[s].op # "delete") =>
        \A i \in DOMAIN sessions :
            Live(i) => sessions[i].iat >= account.validAfter
=============================================================================
