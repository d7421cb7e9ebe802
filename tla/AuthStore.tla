----------------------------- MODULE AuthStore -----------------------------
(***************************************************************************)
(* The authentication store (src/src/maddyweb/auth.py, class AuthStore):   *)
(* one SQLite database, every operation one BEGIN IMMEDIATE transaction.   *)
(* A table is a set of rows (records); a row is found by its key, and the  *)
(* foreign keys' ON DELETE CASCADE are part of each deletion.              *)
(*                                                                         *)
(* Two kinds of processes open the database.  The root helper serves one   *)
(* request at a time and, in two handlers, carries a proof from a first    *)
(* transaction into a second one: `held' is what it carries.  The root     *)
(* command line (auth-role, auth-purge, auth-bootstrap) runs beside it and *)
(* its transactions may fall between those two.                            *)
(*                                                                         *)
(* Abstractions.  Random tokens, secrets and recovery codes are values not *)
(* used before (`issued', `drawn').  A digest stands for its token.  A     *)
(* TOTP code is the counter it was computed for under the secret of the    *)
(* account it is sent for; every other code is the value -1.               *)
(*                                                                         *)
(* A definition just before another one with the same parameters is a      *)
(* wrong version of it (a forgotten cascade, an off-by-one, a dropped      *)
(* condition); PROJECT.json lists which property catches which.            *)
(***************************************************************************)
EXTENDS Integers, FiniteSets

CONSTANTS
    Emails,          \* canonical mailbox addresses
    AccountIds,      \* pool of account identifiers
    LoginTokens,     \* pool of pending-challenge tokens
    SessionTokens,   \* pool of session tokens
    CeremonyTokens,  \* pool of passkey ceremony challenges
    Credentials,     \* WebAuthn credential identifiers
    Roles,           \* the roles an account may have
    None,            \* SQL NULL
    MaxTime, MaxDraws, MaxSignCount,  \* bounds of the model
    Period, Window, RecoveryCount, ChallengeLifetime, FailureLimit,
    SessionIdle, SessionAbsolute, StepUp,
    MaxSessions, MaxChallenges, MaxCeremonies, MaxLoginCeremonies, MaxPasskeys

\* The constants auth.py fixes at lines 61-87 (30, 1, 10, 300, 5, ...), as
\* weakly as the store needs them.  MaxChallenges >= 2 because the challenge
\* that owns a pending enrollment is never evicted.
ASSUME LimitsAssumption ==
    /\ Period \in Nat \ {0} /\ Window \in Nat /\ RecoveryCount \in Nat \ {0}
    /\ ChallengeLifetime \in Nat \ {0} /\ FailureLimit \in Nat \ {0}
    /\ SessionIdle \in Nat \ {0} /\ SessionAbsolute \in Nat \ {0}
    /\ StepUp \in Nat \ {0} /\ MaxSessions \in Nat \ {0}
    /\ MaxChallenges \in Nat \ {0, 1} /\ MaxCeremonies \in Nat \ {0}
    /\ MaxLoginCeremonies \in Nat \ {0} /\ MaxPasskeys \in Nat \ {0}
    /\ MaxTime \in Nat /\ MaxDraws \in Nat /\ MaxSignCount \in Nat

ASSUME RolesAssumption == "user" \in Roles

ASSUME NoneAssumption ==
    None \notin AccountIds \cup LoginTokens \cup SessionTokens \cup Credentials

\* A challenge and a ceremony are looked up in different tables under
\* different digests.
ASSUME PoolsAssumption == LoginTokens \cap CeremonyTokens = {}

VARIABLES
    now,         \* the wall clock, in seconds
    accounts,    \* auth_accounts
    recovery,    \* auth_recovery_codes
    challenges,  \* auth_pending_challenges
    sessions,    \* auth_sessions
    passkeys,    \* auth_passkey_credentials
    ceremonies,  \* auth_passkey_challenges
    held,        \* what a helper handler carries between two transactions
    issued,      \* identifiers and tokens given out so far
    drawn,       \* number of random secrets and code sets drawn so far
    usedCounters,  \* history: <<secret, counter>> pairs accepted so far
    usedTokens,    \* history: challenge and ceremony tokens that were honoured
    usedCodes,     \* history: recovery codes accepted so far
    replays        \* history: whatever was accepted a second time

tables == <<accounts, recovery, challenges, sessions, passkeys, ceremonies>>
history == <<usedCounters, usedTokens, usedCodes, replays>>
vars == <<now, tables, held, issued, drawn, history>>

----------------------------------------------------------------------------
(* Rows *)

Counters == -1 .. (MaxTime \div Period) + Window
Codes == Counters
Secrets == 1 .. MaxDraws
RecoveryCodes == Secrets \X (1 .. RecoveryCount)
NoSecret == 0

Account ==
    [id : AccountIds, email : Emails, role : Roles, mustChange : BOOLEAN,
     enrollment : {"required", "pending", "active"}, secret : 0 .. MaxDraws,
     owner : LoginTokens \cup {None}, lastCounter : Counters]
RecoveryRow == [account : AccountIds, code : RecoveryCodes]
Challenge ==
    [token : LoginTokens, account : AccountIds, created : 0 .. MaxTime,
     failures : 0 .. FailureLimit - 1]
Session ==
    [token : SessionTokens, account : AccountIds, created : 0 .. MaxTime,
     lastSeen : 0 .. MaxTime, stepUpUntil : 0 .. MaxTime + StepUp]
Passkey ==
    [credential : Credentials, account : AccountIds, signCount : 0 .. MaxSignCount]
Purposes == {"registration", "login", "step_up"}
Ceremony ==
    [token : CeremonyTokens, purpose : Purposes, account : AccountIds \cup {None},
     session : SessionTokens \cup {None}, created : 0 .. MaxTime,
     failures : 0 .. FailureLimit - 1]
Held ==
    [kind : {"passkey", "totp"}, account : AccountIds, email : Emails,
     session : SessionTokens \cup {None}]

OfAccount(table, id) == {r \in table : r.account = id}
NotOfAccount(table, id) == {r \in table : r.account # id}

\* Deleting sessions deletes the ceremonies bound to them.
CascadeForgotten(cs, ss) == cs
Cascade(cs, ss) == {c \in cs : c.session = None \/ \E s \in ss : s.token = c.session}

\* ORDER BY <age> LIMIT n: a choice of the n oldest rows, ties in any order
\* (they are broken by the digest of a random token).
OldestRows(rows, n, older) ==
    {old \in SUBSET rows :
        /\ Cardinality(old) = IF n < Cardinality(rows) THEN n ELSE Cardinality(rows)
        /\ \A r \in old, k \in rows \ old : <<k, r>> \notin older}

Evictions(rows, evictable, cap, older) ==
    IF Cardinality(rows) >= cap
    THEN OldestRows(evictable, Cardinality(rows) - cap + 1, older)
    ELSE {{}}

\* The pairs in which the first row is older
CreatedBefore(rows) == {p \in rows \X rows : p[1].created < p[2].created}
SeenBefore(rows) ==
    {p \in rows \X rows :
        \/ p[1].lastSeen < p[2].lastSeen
        \/ p[1].lastSeen = p[2].lastSeen /\ p[1].created < p[2].created}

----------------------------------------------------------------------------
(* Helpers shared by the operations *)

HelperIdle == held = None

ReplaceAccount(a, b) == (accounts \ {a}) \cup {b}

NewAccount(id, e, role, flag) ==
    [id |-> id, email |-> e, role |-> role, mustChange |-> flag,
     enrollment |-> "required", secret |-> NoSecret, owner |-> None,
     lastCounter |-> -1]

\* Account row a with these second-factor columns
WithFactor(a, enrollment, secret, owner, counter) ==
    [id |-> a.id, email |-> a.email, role |-> a.role, mustChange |-> a.mustChange,
     enrollment |-> enrollment, secret |-> secret, owner |-> owner, lastCounter |-> counter]

Activated(a, secret) == WithFactor(a, "active", secret, None, -1)
Released(a) == WithFactor(a, "required", NoSecret, None, -1)
Consumed(a, code) == WithFactor(a, a.enrollment, a.secret, a.owner, code)

CodesOf(id, set) == [account : {id}, code : {set} \X (1 .. RecoveryCount)]

\* One random draw: the number of the secret or code set that it yields.
Draw == drawn + 1
CanDraw(n) == drawn + n <= MaxDraws

CounterMatches(code) ==
    /\ code >= 0
    /\ code >= (now \div Period) - Window
    /\ code <= (now \div Period) + Window

CodeAcceptedTwice(a, code) == CounterMatches(code) /\ code >= a.lastCounter
CodeAccepted(a, code) == CounterMatches(code) /\ code > a.lastCounter

\* History: the counters, tokens and codes this operation honours as proofs.
Accept(counters, tokens, codes) ==
    /\ usedCounters' = usedCounters \cup counters
    /\ usedTokens' = usedTokens \cup tokens
    /\ usedCodes' = usedCodes \cup codes
    /\ replays' = replays \cup (counters \cap usedCounters)
                  \cup (tokens \cap usedTokens) \cup (codes \cap usedCodes)

ChallengeExpired(c) == now >= c.created + ChallengeLifetime

\* _challenge_row_locked
LiveChallenge(c, a) == c.account = a.id /\ ~ChallengeExpired(c)

\* _record_challenge_failure_locked, with _release_pending_enrollment_locked
RecordChallengeFailureLate(c) ==
    /\ challenges' = (challenges \ {c}) \cup
           (IF c.failures >= FailureLimit THEN {} ELSE {[c EXCEPT !.failures = @ + 1]})
    /\ UNCHANGED accounts

RecordChallengeFailure(c) ==
    IF c.failures + 1 >= FailureLimit
    THEN /\ challenges' = challenges \ {c}
         /\ accounts' = {IF a.enrollment = "pending" /\ a.owner = c.token
                         THEN Released(a) ELSE a : a \in accounts}
    ELSE /\ challenges' = (challenges \ {c}) \cup {[c EXCEPT !.failures = @ + 1]}
         /\ UNCHANGED accounts

SessionExpired(s) ==
    now >= s.created + SessionAbsolute \/ now - s.lastSeen >= SessionIdle

LiveSessions == {s \in sessions : ~SessionExpired(s)}

SessionRow(t, id, created, seen, until) ==
    [token |-> t, account |-> id, created |-> created, lastSeen |-> seen, stepUpUntil |-> until]

Later(t) == IF now > t THEN now ELSE t

Touched(s) == SessionRow(s.token, s.account, s.created, Later(s.lastSeen), s.stepUpUntil)

\* _valid_session_row_locked: the row of a valid session, touched
TouchSession(s) == sessions' = (sessions \ {s}) \cup {Touched(s)}

\* _issue_session_locked over the sessions that the operation leaves
IssueSession(id, left) ==
    LET live == {s \in left : ~SessionExpired(s)}
        own == OfAccount(live, id)
    IN  \E t \in SessionTokens \ issued, old \in Evictions(own, own, MaxSessions, SeenBefore(own)) :
            /\ sessions' = (live \ old) \cup {SessionRow(t, id, now, now, 0)}
            /\ issued' = issued \cup {t}

ElevatedUntil(s) ==
    IF now + StepUp < s.created + SessionAbsolute
    THEN now + StepUp ELSE s.created + SessionAbsolute

\* A valid session, touched and elevated
ElevateSession(s) ==
    sessions' = (sessions \ {s}) \cup
        {SessionRow(s.token, s.account, s.created, Later(s.lastSeen), ElevatedUntil(s))}

----------------------------------------------------------------------------
(* Accounts and factors *)

Init ==
    /\ now = 0
    /\ accounts = {} /\ recovery = {} /\ challenges = {}
    /\ sessions = {} /\ passkeys = {} /\ ceremonies = {}
    /\ held = None
    /\ issued = {} /\ drawn = 0
    /\ usedCounters = {} /\ usedTokens = {} /\ usedCodes = {} /\ replays = {}

\* create_account; no caller under src/, part of the store's interface
CreateAccount(e, role, flag) ==
    /\ HelperIdle
    /\ \A a \in accounts : a.email # e
    /\ \E id \in AccountIds \ issued :
        /\ accounts' = accounts \cup {NewAccount(id, e, role, flag)}
        /\ issued' = issued \cup {id}
    /\ UNCHANGED <<now, recovery, challenges, sessions, passkeys, ceremonies,
                   held, drawn, history>>

\* sync_accounts for the addresses es: rows only for those that have none
SyncAccounts(es, role, flag) ==
    LET missing == {e \in es : \A a \in accounts : a.email # e}
    IN  /\ missing # {}
        /\ \E id \in [missing -> AccountIds \ issued] :
            /\ \A e, f \in missing : id[e] = id[f] => e = f
            /\ accounts' = accounts \cup {NewAccount(id[e], e, role, flag) : e \in missing}
            /\ issued' = issued \cup {id[e] : e \in missing}
        /\ UNCHANGED <<now, recovery, challenges, sessions, passkeys, ceremonies,
                       held, drawn, history>>

\* _revoke_pending_challenges_locked, and _revoke_account_authentication_locked
\* when the sessions go as well; b is the account row the operation wrote.
RevokeAuthenticationOfAll(a, b, andSessions) ==
    LET left == IF andSessions THEN NotOfAccount(sessions, a.id) ELSE sessions
    IN  /\ accounts' = ReplaceAccount(a, Released(b))
        /\ challenges' = NotOfAccount(challenges, a.id)
        /\ sessions' = left
        /\ ceremonies' = Cascade(NotOfAccount(ceremonies, a.id), left)

RevokeAuthentication(a, b, andSessions) ==
    LET left == IF andSessions THEN NotOfAccount(sessions, a.id) ELSE sessions
    IN  /\ accounts' = ReplaceAccount(a, IF b.enrollment = "pending" THEN Released(b) ELSE b)
        /\ challenges' = NotOfAccount(challenges, a.id)
        /\ sessions' = left
        /\ ceremonies' = Cascade(NotOfAccount(ceremonies, a.id), left)

\* set_role, by the root command line (auth-role)
SetRole(a, role) ==
    /\ RevokeAuthentication(a, [a EXCEPT !.role = role], TRUE)
    /\ UNCHANGED <<now, recovery, passkeys, held, issued, drawn, history>>

\* set_password_change_required: TRUE with the sessions by an administrator's
\* reset, FALSE without them at the end of a password change
SetPasswordChangeRequired(a, flag, andSessions) ==
    /\ HelperIdle
    /\ RevokeAuthentication(a, [a EXCEPT !.mustChange = flag], andSessions)
    /\ UNCHANGED <<now, recovery, passkeys, held, issued, drawn, history>>

\* revoke_sessions
RevokeSessions(a) ==
    /\ HelperIdle
    /\ RevokeAuthentication(a, a, TRUE)
    /\ UNCHANGED <<now, recovery, passkeys, held, issued, drawn, history>>

\* What reset_totp, rotate_totp and an import do to the account's other rows:
\* the recovery codes are replaced and all of its authentication state goes.
ReplaceFactorOnly(a, b, codes) ==
    /\ accounts' = ReplaceAccount(a, b)
    /\ recovery' = NotOfAccount(recovery, a.id) \cup codes
    /\ challenges' = challenges
    /\ sessions' = NotOfAccount(sessions, a.id)
    /\ ceremonies' = Cascade(NotOfAccount(ceremonies, a.id), sessions')

ReplaceFactor(a, b, codes) ==
    /\ accounts' = ReplaceAccount(a, b)
    /\ recovery' = NotOfAccount(recovery, a.id) \cup codes
    /\ challenges' = NotOfAccount(challenges, a.id)
    /\ sessions' = NotOfAccount(sessions, a.id)
    /\ ceremonies' = Cascade(NotOfAccount(ceremonies, a.id), sessions')

\* reset_totp; no caller under src/, part of the store's interface
ResetTotp(a) ==
    /\ HelperIdle
    /\ ReplaceFactor(a, Released(a), {})
    /\ UNCHANGED <<now, passkeys, held, issued, drawn, history>>

\* rotate_totp
RotateTotp(a) ==
    /\ HelperIdle
    /\ CanDraw(2)
    /\ ReplaceFactor(a, Activated(a, Draw), CodesOf(a.id, Draw + 1))
    /\ drawn' = drawn + 2
    /\ UNCHANGED <<now, passkeys, held, issued, history>>

\* regenerate_recovery_codes: a fresh code is consumed, the codes replaced
RegenerateRecoveryCodes(a, code) ==
    /\ HelperIdle
    /\ a.enrollment = "active" /\ CodeAccepted(a, code)
    /\ CanDraw(1)
    /\ ReplaceFactor(a, Consumed(a, code), CodesOf(a.id, Draw))
    /\ drawn' = drawn + 1
    /\ Accept({<<a.secret, code>>}, {}, {})
    /\ UNCHANGED <<now, passkeys, held, issued>>

\* provision_active_account
ProvisionActiveAccount(e, role, flag) ==
    /\ HelperIdle
    /\ \A a \in accounts : a.email # e
    /\ CanDraw(2)
    /\ \E id \in AccountIds \ issued :
        /\ accounts' = accounts \cup {Activated(NewAccount(id, e, role, flag), Draw)}
        /\ recovery' = recovery \cup CodesOf(id, Draw + 1)
        /\ issued' = issued \cup {id}
    /\ drawn' = drawn + 2
    /\ UNCHANGED <<now, challenges, sessions, passkeys, ceremonies, held, history>>

\* bootstrap_active_accounts for one record of the batch (auth-bootstrap).
\* The generator draws the imported secret and codes; the account keeps its
\* identifier when it has one.
BootstrapActiveAccount(e, role, flag) ==
    /\ CanDraw(2)
    /\ drawn' = drawn + 2
    /\ \/ /\ \A a \in accounts : a.email # e
          /\ \E id \in AccountIds \ issued :
              /\ accounts' = accounts \cup {Activated(NewAccount(id, e, role, flag), Draw)}
              /\ recovery' = recovery \cup CodesOf(id, Draw + 1)
              /\ issued' = issued \cup {id}
          /\ UNCHANGED <<challenges, sessions, ceremonies>>
       \/ /\ \E a \in accounts :
              /\ a.email = e
              /\ ReplaceFactor(a, Activated(NewAccount(a.id, e, role, flag), Draw),
                               CodesOf(a.id, Draw + 1))
          /\ UNCHANGED issued
    /\ UNCHANGED <<now, passkeys, held, history>>

\* delete_account with every ON DELETE CASCADE of the schema; by the helper's
\* account deletion or by auth-purge
DeleteAccount(a) ==
    /\ accounts' = accounts \ {a}
    /\ recovery' = NotOfAccount(recovery, a.id)
    /\ challenges' = NotOfAccount(challenges, a.id)
    /\ sessions' = NotOfAccount(sessions, a.id)
    /\ passkeys' = NotOfAccount(passkeys, a.id)
    /\ ceremonies' = Cascade(NotOfAccount(ceremonies, a.id), sessions')
    /\ UNCHANGED <<now, held, issued, drawn, history>>

----------------------------------------------------------------------------
(* Password login: a pending challenge, then a second factor *)

\* The challenges of an account that create_pending_challenge may evict: not
\* the one that owns its pending enrollment.
EvictableAll(own, rows) == own
Evictable(own, rows) ==
    {c \in own : \A b \in rows :
        ~(b.id = c.account /\ b.enrollment = "pending" /\ b.owner = c.token)}

\* create_pending_challenge: expired challenges of every account go, with the
\* enrollments they own; then the oldest of this account beyond the limit.
CreatePendingChallenge(a) ==
    LET live == {c \in challenges : ~ChallengeExpired(c)}
        swept == {IF b.enrollment = "pending" /\ (\E c \in challenges \ live : c.token = b.owner)
                  THEN Released(b) ELSE b : b \in accounts}
        own == OfAccount(live, a.id)
    IN  /\ HelperIdle
        /\ accounts' = swept
        /\ \E t \in LoginTokens \ issued,
              old \in Evictions(own, Evictable(own, swept), MaxChallenges, CreatedBefore(own)) :
            /\ challenges' = (live \ old) \cup
                   {[token |-> t, account |-> a.id, created |-> now, failures |-> 0]}
            /\ issued' = issued \cup {t}
        /\ UNCHANGED <<now, recovery, sessions, passkeys, ceremonies, held, drawn, history>>

\* begin_totp_enrollment from the state `required'.  (For the owner of a
\* pending enrollment it returns the same secret and changes nothing.)
BeginTotpEnrollment(c, a) ==
    /\ HelperIdle
    /\ LiveChallenge(c, a) /\ a.enrollment = "required"
    /\ CanDraw(1)
    /\ accounts' = ReplaceAccount(a, WithFactor(a, "pending", Draw, c.token, -1))
    /\ drawn' = drawn + 1
    /\ recovery' = NotOfAccount(recovery, a.id)
    /\ sessions' = NotOfAccount(sessions, a.id)
    /\ ceremonies' = Cascade(NotOfAccount(ceremonies, a.id), sessions')
    /\ UNCHANGED <<now, challenges, passkeys, held, issued, history>>

\* confirm_totp_enrollment by the owning challenge
ConfirmTotpEnrollment(c, a, code) ==
    /\ HelperIdle
    /\ LiveChallenge(c, a) /\ a.enrollment = "pending" /\ a.owner = c.token
    /\ CodeAccepted(a, code)
    /\ CanDraw(1)
    /\ accounts' = ReplaceAccount(a, WithFactor(a, "active", a.secret, None, code))
    /\ recovery' = recovery \cup CodesOf(a.id, Draw)
    /\ drawn' = drawn + 1
    /\ challenges' = NotOfAccount(challenges, a.id)
    /\ IssueSession(a.id, sessions)
    /\ ceremonies' = Cascade(ceremonies, sessions')
    /\ Accept({<<a.secret, code>>}, {c.token}, {})
    /\ UNCHANGED <<now, passkeys, held>>

\* complete_totp_challenge
CompleteTotpChallenge(c, a, code) ==
    /\ HelperIdle
    /\ LiveChallenge(c, a) /\ a.enrollment = "active"
    /\ CodeAccepted(a, code)
    /\ accounts' = ReplaceAccount(a, Consumed(a, code))
    /\ challenges' = challenges \ {c}
    /\ IssueSession(a.id, sessions)
    /\ ceremonies' = Cascade(ceremonies, sessions')
    /\ Accept({<<a.secret, code>>}, {c.token}, {})
    /\ UNCHANGED <<now, recovery, passkeys, held, drawn>>

\* complete_recovery_challenge: one code goes, and every other session
CompleteRecoveryChallenge(c, a, r) ==
    /\ HelperIdle
    /\ LiveChallenge(c, a) /\ a.enrollment = "active" /\ r.account = a.id
    /\ recovery' = recovery \ {r}
    /\ challenges' = NotOfAccount(challenges, a.id)
    /\ IssueSession(a.id, NotOfAccount(sessions, a.id))
    /\ ceremonies' = Cascade(NotOfAccount(ceremonies, a.id), sessions')
    /\ Accept({}, {c.token}, {r.code})
    /\ UNCHANGED <<now, accounts, passkeys, held, drawn>>

\* A second factor that does not match: confirm_totp_enrollment by the owner,
\* complete_totp_challenge and complete_recovery_challenge count the failure.
RejectSecondFactor(c, a) ==
    /\ HelperIdle
    /\ LiveChallenge(c, a)
    /\ a.enrollment = "active" \/ (a.enrollment = "pending" /\ a.owner = c.token)
    /\ RecordChallengeFailure(c)
    /\ UNCHANGED <<now, recovery, sessions, passkeys, ceremonies, held, issued, drawn, history>>

----------------------------------------------------------------------------
(* Sessions *)

\* A lookup of an expired session deletes its row (and commits).
DropExpiredSession(s) ==
    /\ HelperIdle
    /\ SessionExpired(s)
    /\ sessions' = sessions \ {s}
    /\ ceremonies' = Cascade(ceremonies, sessions')
    /\ UNCHANGED <<now, accounts, recovery, challenges, passkeys, held, issued, drawn, history>>

\* authenticate_session with touch, and require_step_up (which touches too)
AuthenticateSession(s) ==
    /\ HelperIdle
    /\ ~SessionExpired(s)
    /\ TouchSession(s)
    /\ UNCHANGED <<now, accounts, recovery, challenges, passkeys, ceremonies, held, issued,
                   drawn, history>>

\* The first transaction of the step-up handler: verify_totp for the account
\* of the authenticated session
VerifyTotp(s, a, code) ==
    /\ HelperIdle
    /\ s.account = a.id /\ ~SessionExpired(s)
    /\ a.enrollment = "active" /\ CodeAccepted(a, code)
    /\ accounts' = ReplaceAccount(a, Consumed(a, code))
    /\ held' = [kind |-> "totp", account |-> a.id, email |-> a.email, session |-> s.token]
    /\ Accept({<<a.secret, code>>}, {}, {})
    /\ UNCHANGED <<now, recovery, challenges, sessions, passkeys, ceremonies, issued, drawn>>

\* The second transaction: mark_step_up
MarkStepUp(s) ==
    /\ held # None /\ held.kind = "totp" /\ held.session = s.token
    /\ ~SessionExpired(s)
    /\ ElevateSession(s)
    /\ held' = None
    /\ UNCHANGED <<now, accounts, recovery, challenges, passkeys, ceremonies, issued, drawn,
                   history>>

\* revoke_session (logout) and revoke_session_by_id (another session of the
\* same account)
RevokeSession(s) ==
    /\ HelperIdle
    /\ sessions' = sessions \ {s}
    /\ ceremonies' = Cascade(ceremonies, sessions')
    /\ UNCHANGED <<now, accounts, recovery, challenges, passkeys, held, issued, drawn, history>>

\* list_sessions deletes what has expired
ListSessions ==
    /\ HelperIdle
    /\ sessions' = LiveSessions
    /\ ceremonies' = Cascade(ceremonies, sessions')
    /\ UNCHANGED <<now, accounts, recovery, challenges, passkeys, held, issued, drawn, history>>

----------------------------------------------------------------------------
(* Passkeys: a ceremony is begun in one transaction and completed in another *)

\* _create_passkey_challenge_locked: expired ceremonies go; then the oldest
\* login ceremonies of everybody, or the oldest others of this account.
CreateCeremony(purpose, id, session) ==
    LET live == {c \in ceremonies : ~ChallengeExpired(c)}
        rivals == {c \in live : IF purpose = "login" THEN c.purpose = "login"
                                ELSE c.purpose # "login" /\ c.account = id}
        cap == IF purpose = "login" THEN MaxLoginCeremonies ELSE MaxCeremonies
    IN  \E t \in CeremonyTokens \ issued, old \in Evictions(rivals, rivals, cap, CreatedBefore(rivals)) :
            /\ ceremonies' = (live \ old) \cup
                   {[token |-> t, purpose |-> purpose, account |-> id, session |-> session,
                     created |-> now, failures |-> 0]}
            /\ issued' = issued \cup {t}

\* _passkey_challenge_row_locked for a ceremony of session s
BoundToAccount(c, purpose, s) ==
    c.purpose = purpose /\ c.account = s.account /\ ~ChallengeExpired(c)

BoundTo(c, purpose, s) ==
    /\ c.purpose = purpose /\ c.account = s.account /\ c.session = s.token
    /\ ~ChallengeExpired(c)

\* _record_passkey_challenge_failure_locked
RecordCeremonyFailure(c) ==
    ceremonies' = (ceremonies \ {c}) \cup
        (IF c.failures + 1 >= FailureLimit THEN {} ELSE {[c EXCEPT !.failures = @ + 1]})

Elevated(s) == ~SessionExpired(s) /\ now < s.stepUpUntil

MayRegister(s) == Elevated(s) /\ Cardinality(OfAccount(passkeys, s.account)) < MaxPasskeys

\* _verify_passkey_assertion_locked: an authenticator that counts must count up
SignCountAccepted(p, n) == (n > 0 \/ p.signCount > 0) => n > p.signCount

Counted(p, n) == (passkeys \ {p}) \cup {[p EXCEPT !.signCount = n]}

\* begin_passkey_registration
BeginPasskeyRegistration(s) ==
    /\ HelperIdle
    /\ MayRegister(s)
    /\ TouchSession(s)
    /\ CreateCeremony("registration", s.account, s.token)
    /\ UNCHANGED <<now, accounts, recovery, challenges, passkeys, held, drawn, history>>

\* complete_passkey_registration of credential k
CompletePasskeyRegistration(s, c, k, n) ==
    /\ HelperIdle
    /\ MayRegister(s) /\ BoundTo(c, "registration", s)
    /\ \A p \in passkeys : p.credential # k
    /\ TouchSession(s)
    /\ passkeys' = passkeys \cup {[credential |-> k, account |-> s.account, signCount |-> n]}
    /\ ceremonies' = ceremonies \ {c}
    /\ Accept({}, {c.token}, {})
    /\ UNCHANGED <<now, accounts, recovery, challenges, held, issued, drawn>>

\* begin_passkey_step_up
BeginPasskeyStepUp(s) ==
    /\ HelperIdle
    /\ ~SessionExpired(s)
    /\ OfAccount(passkeys, s.account) # {}
    /\ TouchSession(s)
    /\ CreateCeremony("step_up", s.account, s.token)
    /\ UNCHANGED <<now, accounts, recovery, challenges, passkeys, held, drawn, history>>

\* complete_passkey_step_up by an assertion of passkey p
CompletePasskeyStepUp(s, c, p, n) ==
    /\ HelperIdle
    /\ ~SessionExpired(s) /\ BoundTo(c, "step_up", s)
    /\ p.account = s.account /\ SignCountAccepted(p, n)
    /\ passkeys' = Counted(p, n)
    /\ ElevateSession(s)
    /\ ceremonies' = ceremonies \ {c}
    /\ Accept({}, {c.token}, {})
    /\ UNCHANGED <<now, accounts, recovery, challenges, held, issued, drawn>>

\* A response that does not verify, or a credential that is already stored
RejectPasskeyResponse(s, c) ==
    /\ HelperIdle
    /\ \/ BoundTo(c, "registration", s) /\ MayRegister(s)
       \/ BoundTo(c, "step_up", s) /\ ~SessionExpired(s)
    /\ TouchSession(s)
    /\ RecordCeremonyFailure(c)
    /\ UNCHANGED <<now, accounts, recovery, challenges, passkeys, held, issued, drawn, history>>

\* begin_passkey_login
BeginPasskeyLogin ==
    /\ HelperIdle
    /\ CreateCeremony("login", None, None)
    /\ UNCHANGED <<now, accounts, recovery, challenges, sessions, passkeys, held, drawn, history>>

\* The first transaction of a passkey login: verify_passkey_login by an
\* assertion of passkey p of account a
VerifyPasskeyLogin(c, p, a, n) ==
    /\ HelperIdle
    /\ c.purpose = "login" /\ ~ChallengeExpired(c)
    /\ p.account = a.id /\ SignCountAccepted(p, n)
    /\ passkeys' = Counted(p, n)
    /\ ceremonies' = ceremonies \ {c}
    /\ held' = [kind |-> "passkey", account |-> a.id, email |-> a.email, session |-> None]
    /\ Accept({}, {c.token}, {})
    /\ UNCHANGED <<now, accounts, recovery, challenges, sessions, issued, drawn>>

\* verify_passkey_login of an assertion that does not verify
RejectPasskeyLogin(c) ==
    /\ HelperIdle
    /\ c.purpose = "login" /\ ~ChallengeExpired(c)
    /\ RecordCeremonyFailure(c)
    /\ UNCHANGED <<now, accounts, recovery, challenges, sessions, passkeys, held, issued, drawn,
                   history>>

\* The second transaction, once Maddy still knows the mailbox:
\* issue_verified_passkey_session
IssueSessionByAddress(a) ==
    /\ held # None /\ held.kind = "passkey" /\ held.email = a.email
    /\ IssueSession(a.id, sessions)
    /\ ceremonies' = Cascade(ceremonies, sessions')
    /\ held' = None
    /\ UNCHANGED <<now, accounts, recovery, challenges, passkeys, drawn, history>>

IssueVerifiedPasskeySession(a) ==
    /\ held # None /\ held.kind = "passkey"
    /\ held.account = a.id /\ held.email = a.email
    /\ IssueSession(a.id, sessions)
    /\ ceremonies' = Cascade(ceremonies, sessions')
    /\ held' = None
    /\ UNCHANGED <<now, accounts, recovery, challenges, passkeys, drawn, history>>

\* delete_passkey; ceremonies and sessions stay
DeletePasskey(p) ==
    /\ HelperIdle
    /\ passkeys' = passkeys \ {p}
    /\ UNCHANGED <<now, accounts, recovery, challenges, sessions, ceremonies, held, issued,
                   drawn, history>>

----------------------------------------------------------------------------
(* The processes *)

\* The handler ends between its two transactions: the mailbox is gone from
\* Maddy, the second transaction finds no row and raises, or the helper dies.
HelperGivesUp ==
    /\ ~HelperIdle
    /\ held' = None
    /\ UNCHANGED <<now, tables, issued, drawn, history>>

\* The wall clock: forward, or back when the system clock is stepped
Tick ==
    /\ \E t \in {now + 1, now - 1} : t \in 0 .. MaxTime /\ now' = t
    /\ UNCHANGED <<tables, held, issued, drawn, history>>

PasswordLogin ==
    \/ \E a \in accounts : CreatePendingChallenge(a)
    \/ \E c \in challenges, a \in accounts :
        \/ BeginTotpEnrollment(c, a)
        \/ \E code \in Codes : ConfirmTotpEnrollment(c, a, code)
        \/ \E code \in Codes : CompleteTotpChallenge(c, a, code)
        \/ \E r \in recovery : CompleteRecoveryChallenge(c, a, r)
        \/ RejectSecondFactor(c, a)

SessionUse ==
    \/ ListSessions
    \/ \E s \in sessions :
        \/ DropExpiredSession(s)
        \/ AuthenticateSession(s)
        \/ MarkStepUp(s)
        \/ RevokeSession(s)
        \/ \E a \in accounts, code \in Codes : VerifyTotp(s, a, code)

PasskeyUse ==
    \/ BeginPasskeyLogin
    \/ \E p \in passkeys : DeletePasskey(p)
    \/ \E c \in ceremonies : RejectPasskeyLogin(c)
    \/ \E c \in ceremonies, p \in passkeys, a \in accounts, n \in 0 .. MaxSignCount :
        VerifyPasskeyLogin(c, p, a, n)
    \/ \E a \in accounts : IssueVerifiedPasskeySession(a)
    \/ \E s \in sessions :
        \/ BeginPasskeyRegistration(s)
        \/ BeginPasskeyStepUp(s)
        \/ \E c \in ceremonies :
            \/ RejectPasskeyResponse(s, c)
            \/ \E k \in Credentials, n \in 0 .. MaxSignCount : CompletePasskeyRegistration(s, c, k, n)
            \/ \E p \in passkeys, n \in 0 .. MaxSignCount : CompletePasskeyStepUp(s, c, p, n)

AccountManagement ==
    \/ \E es \in SUBSET Emails, flag \in BOOLEAN : SyncAccounts(es, "user", flag)
    \/ \E e \in Emails : ProvisionActiveAccount(e, "user", FALSE)
    \/ \E a \in accounts :
        \/ SetPasswordChangeRequired(a, TRUE, TRUE)
        \/ SetPasswordChangeRequired(a, FALSE, FALSE)
        \/ RevokeSessions(a)
        \/ RotateTotp(a)
        \/ \E code \in Codes : RegenerateRecoveryCodes(a, code)

RootCommands ==
    \/ \E e \in Emails, role \in Roles, flag \in BOOLEAN : BootstrapActiveAccount(e, role, flag)
    \/ \E a \in accounts, role \in Roles : SetRole(a, role)
    \/ \E a \in accounts : DeleteAccount(a)

\* What the deployed processes do to the store
Next ==
    \/ PasswordLogin
    \/ SessionUse
    \/ PasskeyUse
    \/ AccountManagement
    \/ RootCommands
    \/ HelperGivesUp
    \/ Tick

\* What any user of the store's public methods may do
ApiNext ==
    \/ Next
    \/ \E e \in Emails, role \in Roles, flag \in BOOLEAN : CreateAccount(e, role, flag)
    \/ \E a \in accounts : ResetTotp(a)

Spec == Init /\ [][Next]_vars
ApiSpec == Init /\ [][ApiNext]_vars

----------------------------------------------------------------------------
(* Properties *)

\* Every row has the columns the schema gives it, and the clock, the drawn
\* secrets and the histories stay within the bounds of the model.
TypeOK ==
    /\ now \in 0 .. MaxTime
    /\ accounts \subseteq Account
    /\ recovery \subseteq RecoveryRow
    /\ challenges \subseteq Challenge
    /\ sessions \subseteq Session
    /\ passkeys \subseteq Passkey
    /\ ceremonies \subseteq Ceremony
    /\ held \in Held \cup {None}
    /\ issued \subseteq AccountIds \cup LoginTokens \cup SessionTokens \cup CeremonyTokens
    /\ drawn \in 0 .. MaxDraws
    /\ usedCounters \subseteq (0 .. MaxDraws) \X Counters
    /\ usedTokens \subseteq LoginTokens \cup CeremonyTokens
    /\ usedCodes \subseteq RecoveryCodes

\* An account whose enrollment is pending is owned by a challenge row of its
\* own.  The sweep of expired challenges and the failure limit find a pending
\* enrollment only through that row, so an account without it could never
\* enroll again (begin_totp_enrollment refuses every other challenge).
PendingHasOwner ==
    \A a \in accounts : a.enrollment = "pending" =>
        \E c \in challenges : c.token = a.owner /\ c.account = a.id

\* No TOTP counter of a secret, challenge token, ceremony or recovery code is
\* honoured twice, whatever the clock does and whoever commits in between
\* (totp_last_counter, the deletion of challenges, ceremonies and codes).
ProofsAreOneTime == replays = {}

\* Identifiers and tokens are keys, and a stored one was issued (so it is not
\* drawn again).
KeysUnique ==
    /\ \A a, b \in accounts : a.id = b.id => a = b
    /\ \A c, d \in challenges : c.token = d.token => c = d
    /\ \A c, d \in ceremonies : c.token = d.token => c = d
    /\ \A a \in accounts : a.id \in issued
    /\ \A c \in challenges \cup ceremonies : c.token \in issued

\* Every secret belongs to one account, was drawn before, and its accepted
\* counters are not above the counter the account remembers.
CountersRemembered ==
    /\ \A a \in accounts : a.secret <= drawn /\ (a.enrollment # "required" => a.secret # NoSecret)
    /\ \A a, b \in accounts : a.secret = b.secret /\ a.secret # NoSecret => a = b
    /\ \A u \in usedCounters : u[1] <= drawn /\ u[1] # NoSecret
    /\ \A u \in usedCounters, a \in accounts : u[1] = a.secret => u[2] <= a.lastCounter

\* A stored recovery code was drawn before, for one account, and is unused.
CodesFresh ==
    /\ \A r \in recovery : r.code[1] <= drawn /\ r.code \notin usedCodes
    /\ \A r, q \in recovery : r.code = q.code => r = q
    /\ \A u \in usedCodes : u[1] <= drawn

\* A token that was honoured was issued and is stored nowhere.
TokensGone ==
    /\ usedTokens \subseteq issued
    /\ \A c \in challenges \cup ceremonies : c.token \notin usedTokens

\* The limits on stored rows per account (MAX_SESSIONS_PER_ACCOUNT,
\* _MAX_CHALLENGES_PER_ACCOUNT, MAX_PASSKEYS_PER_ACCOUNT and the ceremony
\* limits) hold although evictions and checks are spread over the operations
\* and the owner of a pending enrollment is never evicted.
TablesBounded ==
    /\ \A a \in accounts :
        /\ Cardinality(OfAccount(sessions, a.id)) <= MaxSessions
        /\ Cardinality(OfAccount(challenges, a.id)) <= MaxChallenges
        /\ Cardinality(OfAccount(passkeys, a.id)) <= MaxPasskeys
        /\ Cardinality(OfAccount(ceremonies, a.id)) <= MaxCeremonies
        /\ Cardinality(OfAccount(recovery, a.id)) <= RecoveryCount
    /\ Cardinality({c \in ceremonies : c.purpose = "login"}) <= MaxLoginCeremonies

\* Sessions, passkeys and ceremonies of an account exist only while its second
\* factor is active.  issue_verified_passkey_session does not look at the
\* enrollment state, so this rests on every other operation.
EnrolledBeforeSession ==
    \A a \in accounts : a.enrollment # "active" =>
        /\ OfAccount(sessions, a.id) = {}
        /\ OfAccount(passkeys, a.id) = {}
        /\ OfAccount(ceremonies, a.id) = {}

\* Every row belongs to a stored account, and a ceremony that names a session
\* names a stored session of the same account: nothing of a deleted account or
\* of a revoked session can be presented later.
NoOrphans ==
    /\ \A r \in recovery \cup challenges \cup sessions \cup passkeys :
        \E a \in accounts : a.id = r.account
    /\ \A c \in ceremonies : c.purpose # "login" =>
        \E s \in sessions : s.token = c.session /\ s.account = c.account

\* The lifetimes nest: a session is used only while it lives, is never touched
\* backwards, and its elevation does not outlive it, also when the clock steps
\* back.
LifetimesNested ==
    \A s \in sessions :
        /\ s.created <= s.lastSeen /\ s.lastSeen < s.created + SessionAbsolute
        /\ s.stepUpUntil <= s.created + SessionAbsolute

\* A step that gives an enrolled account another secret, other recovery codes,
\* another role or a forced password change, and the use of a recovery code,
\* leaves none of the sessions, challenges and ceremonies the account had.
SensitiveChange(a, b) ==
    \/ a.secret # b.secret \/ a.role # b.role
    \/ b.mustChange /\ ~a.mustChange
    \/ OfAccount(recovery, a.id) # OfAccount(recovery', a.id)

SensitiveChangeRevokes ==
    [][\A a \in accounts, b \in accounts' :
        (a.id = b.id /\ a.enrollment = "active" /\ SensitiveChange(a, b)) =>
            /\ \A s \in OfAccount(sessions, a.id), t \in sessions' : s.token # t.token
            /\ \A c \in OfAccount(challenges, a.id), d \in challenges' : c.token # d.token
            /\ \A c \in OfAccount(ceremonies, a.id), d \in ceremonies' : c.token # d.token]_vars

\* A session is issued only to the account whose own login challenge the same
\* step consumed, or whose passkey the running handler verified: an account
\* purged and imported again under the same address is another account.
SessionIsEarned ==
    [][\A t \in sessions' :
        (\A s \in sessions : s.token # t.token) =>
            \/ \E c \in challenges \ challenges' : c.account = t.account
            \/ held # None /\ held.kind = "passkey" /\ held.account = t.account]_vars

\* A session becomes elevated only by consuming a step-up ceremony begun in
\* that very session, or in the helper handler that has just accepted a TOTP
\* code for that session; a session is never created elevated.
ElevationIsEarned ==
    [][\A t \in sessions' :
        LET before == {s \in sessions : s.token = t.token}
        IN  (t.stepUpUntil > 0 /\ \A s \in before : s.stepUpUntil # t.stepUpUntil) =>
                /\ before # {}
                /\ \/ \E c \in ceremonies \ ceremonies' :
                        c.purpose = "step_up" /\ c.session = t.token /\ c.account = t.account
                   \/ held # None /\ held.kind = "totp" /\ held.session = t.token
                      /\ held.account = t.account]_vars

\* The tables are consistent: rows of stored accounts only, within their limits,
\* with lifetimes that nest.
TablesSound == NoOrphans /\ TablesBounded /\ LifetimesNested
=============================================================================
