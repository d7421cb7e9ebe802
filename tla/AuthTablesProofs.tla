-------------------------- MODULE AuthTablesProofs --------------------------
(***************************************************************************)
(* Proofs about the tables of the authentication store: rows belong to     *)
(* stored accounts, stay within their limits and nest their lifetimes;     *)
(* sessions need an active second factor; sessions and elevations are      *)
(* earned; and a sensitive change leaves nothing of the account's          *)
(* authentication behind.                                                  *)
(***************************************************************************)
EXTENDS AuthStoreProofs, FiniteSetTheorems

----------------------------------------------------------------------------
(* The inductive invariant *)

\* Session tokens are keys and were issued.
SessionKeys ==
    /\ \A s, t \in sessions : s.token = t.token => s = t
    /\ \A s \in sessions : s.token \in issued

\* Every row of an account-owned table belongs to a stored account.
RowsOwned ==
    \A r \in recovery \cup challenges \cup sessions \cup passkeys :
        \E a \in accounts : a.id = r.account

\* A login ceremony names nobody; every other one a session of its account.
CeremoniesBound ==
    \A c \in ceremonies :
        /\ c.purpose = "login" => c.account = None /\ c.session = None
        /\ c.purpose # "login" =>
              \E s \in sessions : s.token = c.session /\ s.account = c.account

\* Only an account with an active second factor has recovery codes.
CodesEnrolled ==
    \A r \in recovery, a \in accounts : a.id = r.account => a.enrollment = "active"

\* At most n rows of the account.
AtMost(table, id, n) == Cardinality(OfAccount(table, id)) <= n

SessionsCounted == IsFiniteSet(sessions) /\ \A id \in AccountIds : AtMost(sessions, id, MaxSessions)
ChallengesCounted ==
    IsFiniteSet(challenges) /\ \A id \in AccountIds : AtMost(challenges, id, MaxChallenges)
PasskeysCounted == IsFiniteSet(passkeys) /\ \A id \in AccountIds : AtMost(passkeys, id, MaxPasskeys)
CodesCounted == IsFiniteSet(recovery) /\ \A id \in AccountIds : AtMost(recovery, id, RecoveryCount)

LoginCeremonies(cs) == {c \in cs : c.purpose = "login"}
CeremoniesCounted ==
    /\ IsFiniteSet(ceremonies)
    /\ \A id \in AccountIds : AtMost(ceremonies, id, MaxCeremonies)
    /\ Cardinality(LoginCeremonies(ceremonies)) <= MaxLoginCeremonies

\* A TOTP proof in the handler's hands names an issued token, and no session
\* of another account.
HeldBound ==
    held # None /\ held.kind = "totp" =>
        /\ held.session \in issued
        /\ \A s \in sessions : s.token = held.session => s.account = held.account

TablesInv ==
    /\ TypeOK /\ KeysUnique /\ SessionKeys /\ RowsOwned /\ CeremoniesBound /\ CodesEnrolled
    /\ SessionsCounted /\ ChallengesCounted /\ PasskeysCounted /\ CodesCounted
    /\ CeremoniesCounted /\ LifetimesNested /\ HeldBound

\* A passkey proof in the handler's hands is of an account that is enrolled
\* for as long as it is stored.
HeldEnrolled ==
    held # None /\ held.kind = "passkey" =>
        /\ held.account \in issued
        /\ \A a \in accounts : a.id = held.account => a.enrollment = "active"

EnrolledInv == TablesInv /\ EnrolledBeforeSession /\ HeldEnrolled

----------------------------------------------------------------------------
(* Counting rows *)

\* Evicting from at most cap rows leaves room for one more, when something is
\* evictable once the table is full.
LEMMA EvictionMakesRoom ==
    ASSUME NEW rows, IsFiniteSet(rows), NEW cap \in Nat \ {0}, Cardinality(rows) <= cap,
           NEW evictable \in SUBSET rows, Cardinality(rows) = cap => evictable # {},
           NEW older, NEW old \in Evictions(rows, evictable, cap, older)
    PROVE  old \subseteq rows /\ Cardinality(rows \ old) <= cap - 1
<1>1. Cardinality(rows) \in Nat
  BY FS_CardinalityType
<1>2. CASE Cardinality(rows) < cap
  <2>1. old = {}
    BY <1>1, <1>2 DEF Evictions
  <2>2. rows \ old = rows
    BY <2>1
  <2> QED
    BY <1>1, <1>2, <2>1, <2>2
<1>3. CASE Cardinality(rows) = cap
  <2>1. old \in OldestRows(evictable, 1, older)
    BY <1>1, <1>3 DEF Evictions
  <2>2. IsFiniteSet(evictable) /\ Cardinality(evictable) \in Nat /\ Cardinality(evictable) # 0
    BY <1>3, FS_Subset, FS_CardinalityType, FS_EmptySet
  <2>3. old \subseteq rows /\ Cardinality(old) = 1
    BY <2>1, <2>2 DEF OldestRows
  <2>4. rows \cap old = old
    BY <2>3
  <2> QED
    <3>1. Cardinality(rows \ old) = Cardinality(rows) - Cardinality(rows \cap old)
      BY FS_Difference
    <3> QED
      BY <1>1, <1>3, <2>3, <2>4, <3>1
<1> QED
  BY <1>1, <1>2, <1>3

\* A part of a finite table is finite and within the same limit.
LEMMA PartCounted ==
    ASSUME NEW S, IsFiniteSet(S), NEW T, T \subseteq S
    PROVE  /\ IsFiniteSet(T) /\ Cardinality(T) \in Nat /\ Cardinality(S) \in Nat
           /\ Cardinality(T) <= Cardinality(S)
  BY FS_Subset, FS_CardinalityType

\* Fewer rows in a table are fewer rows of each account.
LEMMA FewerRows ==
    ASSUME NEW S, IsFiniteSet(S), NEW T, T \subseteq S
    PROVE  /\ IsFiniteSet(T)
           /\ \A id : \A n \in Nat : AtMost(S, id, n) => AtMost(T, id, n)
<1>1. ASSUME NEW id, NEW n \in Nat, AtMost(S, id, n)
      PROVE  AtMost(T, id, n)
  <2>1. OfAccount(T, id) \subseteq OfAccount(S, id) /\ OfAccount(S, id) \subseteq S
    BY DEF OfAccount
  <2>2. IsFiniteSet(OfAccount(S, id))
    BY <2>1, PartCounted
  <2> QED
    BY <1>1, <2>1, <2>2, PartCounted DEF AtMost
<1> QED
  BY <1>1, PartCounted

\* One more element counts at most one.
LEMMA OneMore ==
    ASSUME NEW R, IsFiniteSet(R), NEW q
    PROVE  /\ Cardinality(R) \in Nat /\ Cardinality(R \cup {q}) \in Nat
           /\ Cardinality(R \cup {q}) <= Cardinality(R) + 1
<1>1. Cardinality(R) \in Nat
  BY FS_CardinalityType
<1>2. \/ Cardinality(R \cup {q}) = Cardinality(R)
      \/ Cardinality(R \cup {q}) = Cardinality(R) + 1
  BY FS_AddElement
<1> QED
  BY <1>1, <1>2

\* Writing a row anew keeps the number of rows of each account.
LEMMA RowReplaced ==
    ASSUME NEW S, IsFiniteSet(S), NEW r \in S, NEW q, q.account = r.account
    PROVE  /\ IsFiniteSet((S \ {r}) \cup {q})
           /\ \A id : \A n \in Nat : AtMost(S, id, n) => AtMost((S \ {r}) \cup {q}, id, n)
<1> DEFINE T == (S \ {r}) \cup {q}
<1>1. IsFiniteSet(T)
  BY FS_RemoveElement, FS_AddElement
<1>2. ASSUME NEW id, NEW n \in Nat, AtMost(S, id, n)
      PROVE  AtMost(T, id, n)
  <2>1. IsFiniteSet(OfAccount(S, id)) /\ Cardinality(OfAccount(S, id)) \in Nat
    BY PartCounted DEF OfAccount
  <2>2. CASE r.account # id
    <3>1. OfAccount(T, id) = OfAccount(S, id)
      BY <2>2 DEF OfAccount
    <3> QED
      BY <1>2, <3>1 DEF AtMost
  <2>3. CASE r.account = id
    <3> DEFINE R == OfAccount(S, id) \ {r}
    <3>1. OfAccount(T, id) = R \cup {q} /\ r \in OfAccount(S, id)
      BY <2>3 DEF OfAccount
    <3>2. IsFiniteSet(R) /\ Cardinality(R) = Cardinality(OfAccount(S, id)) - 1
      BY <2>1, <3>1, FS_RemoveElement
    <3> HIDE DEF R
    <3>3. /\ Cardinality(R) \in Nat /\ Cardinality(R \cup {q}) \in Nat
          /\ Cardinality(R \cup {q}) <= Cardinality(R) + 1
      BY <3>2, OneMore
    <3>4. Cardinality(OfAccount(S, id)) <= n
      BY <1>2 DEF AtMost
    <3>5. Cardinality(OfAccount(T, id)) <= n
      <4>1. Cardinality(R \cup {q}) <= n
        BY <2>1, <3>2, <3>3, <3>4
      <4> QED
        BY <3>1, <4>1
    <3> QED
      BY <3>5 DEF AtMost
  <2> QED
    BY <2>2, <2>3
<1> QED
  BY <1>1, <1>2

\* Adding a row where an account has room for it.
LEMMA RowAdded ==
    ASSUME NEW S, IsFiniteSet(S), NEW q, NEW n \in Nat \ {0}, AtMost(S, q.account, n - 1)
    PROVE  /\ IsFiniteSet(S \cup {q})
           /\ AtMost(S \cup {q}, q.account, n)
           /\ \A id : \A m \in Nat :
                 id # q.account /\ AtMost(S, id, m) => AtMost(S \cup {q}, id, m)
<1>1. IsFiniteSet(S \cup {q})
  BY FS_AddElement
<1> DEFINE R == OfAccount(S, q.account)
<1>2. OfAccount(S \cup {q}, q.account) = R \cup {q}
  BY DEF OfAccount
<1>3. IsFiniteSet(R) /\ Cardinality(R) \in Nat
  BY PartCounted DEF OfAccount
<1>4. Cardinality(R) <= n - 1
  BY DEF AtMost
<1> HIDE DEF R
<1>5. Cardinality(R \cup {q}) <= Cardinality(R) + 1 /\ Cardinality(R \cup {q}) \in Nat
  BY <1>3, OneMore
<1>6. AtMost(S \cup {q}, q.account, n)
  <2>1. Cardinality(OfAccount(S \cup {q}, q.account)) <= n
    <3>1. Cardinality(R \cup {q}) <= n
      BY <1>3, <1>4, <1>5
    <3> QED
      BY <1>2, <3>1
  <2> QED
    BY <2>1 DEF AtMost
<1>7. ASSUME NEW id, NEW m \in Nat, id # q.account, AtMost(S, id, m)
      PROVE  AtMost(S \cup {q}, id, m)
  <2>1. OfAccount(S \cup {q}, id) = OfAccount(S, id)
    BY <1>7 DEF OfAccount
  <2> QED
    BY <1>7, <2>1 DEF AtMost
<1> QED
  BY <1>1, <1>6, <1>7

\* A set of recovery codes has at most RECOVERY_CODE_COUNT rows.
LEMMA CodesOfCounted ==
    ASSUME NEW id, NEW n
    PROVE  IsFiniteSet(CodesOf(id, n)) /\ Cardinality(CodesOf(id, n)) <= RecoveryCount
<1> DEFINE S == 1 .. RecoveryCount
           T == CodesOf(id, n)
           f == [i \in S |-> [account |-> id, code |-> <<n, i>>]]
<1>1. IsFiniteSet(S) /\ Cardinality(S) = RecoveryCount
  BY FS_Interval, LimitsAssumption
<1>2. \A i \in S : f[i] \in T
  BY DEF CodesOf
<1>3. \A r \in T : \E i \in S : f[i] = r
  BY DEF CodesOf
<1>4. f \in Surjection(S, T)
  BY <1>2, <1>3 DEF Surjection
<1> QED
  BY <1>1, <1>4, FS_Surjection

----------------------------------------------------------------------------
(* What the methods do to each table *)

\* The elevation of session s is proved: this step consumes a step-up ceremony
\* of that session, or the handler holds a TOTP proof for it.
Proven(s) ==
    \/ \E c \in ceremonies \ ceremonies' :
          c.purpose = "step_up" /\ c.session = s.token /\ c.account = s.account
    \/ held # None /\ held.kind = "totp" /\ held.session = s.token

\* A session is used: its row is touched and, with a proof, elevated.
SessionUsed ==
    \E s \in sessions : \E until \in {s.stepUpUntil, ElevatedUntil(s)} :
        /\ until = s.stepUpUntil \/ Proven(s)
        /\ ~SessionExpired(s)
        /\ sessions' = (sessions \ {s}) \cup
             {SessionRow(s.token, s.account, s.created, Later(s.lastSeen), until)}

\* Account a has earned a session: this step consumes one of its challenges and
\* leaves it enrolled, or the handler holds a proof by one of its passkeys.
Earned(a) ==
    \/ /\ \E c \in challenges \ challenges' : c.account = a.id
       /\ \E b \in accounts' : b.id = a.id /\ b.enrollment = "active"
    \/ /\ held # None /\ held.kind = "passkey" /\ held.account = a.id
       /\ UNCHANGED accounts

\* A session is issued to a stored account that has earned it.
SessionIssued ==
    \E a \in accounts, left \in SUBSET sessions : IssueSession(a.id, left) /\ Earned(a)

\* Every method shortens the table of sessions, uses one, or issues one.
LEMMA SessionsStep ==
    ASSUME ApiNext
    PROVE  sessions' \subseteq sessions \/ SessionUsed \/ SessionIssued
<1> USE DEF history, tables
<1>1. ASSUME NEW s \in sessions, ~SessionExpired(s), TouchSession(s)
      PROVE  SessionUsed
  BY <1>1 DEF TouchSession, Touched, SessionUsed
<1>2. ASSUME NEW s \in sessions, ~SessionExpired(s), ElevateSession(s), Proven(s)
      PROVE  SessionUsed
  BY <1>2 DEF ElevateSession, SessionUsed
<1>3. ASSUME NEW a \in accounts, IssueSession(a.id, sessions), Earned(a)
      PROVE  SessionIssued
  BY <1>3 DEF SessionIssued
<1>4. CASE PasswordLogin
  <2>1. ASSUME NEW a \in accounts, IssueSession(a.id, NotOfAccount(sessions, a.id)),
               Earned(a)
        PROVE  SessionIssued
    BY <2>1 DEF SessionIssued, NotOfAccount
  <2>2. CASE \E a \in accounts : CreatePendingChallenge(a)
    BY <2>2 DEF CreatePendingChallenge
  <2>3. ASSUME NEW c \in challenges, NEW a \in accounts, BeginTotpEnrollment(c, a)
        PROVE  sessions' \subseteq sessions
    BY <2>3 DEF BeginTotpEnrollment, NotOfAccount
  <2>4. ASSUME NEW c \in challenges, NEW a \in accounts, NEW code,
               ConfirmTotpEnrollment(c, a, code) \/ CompleteTotpChallenge(c, a, code)
        PROVE  SessionIssued
    <3>1. IssueSession(a.id, sessions) /\ c \in challenges \ challenges' /\ c.account = a.id
      BY <2>4 DEF ConfirmTotpEnrollment, CompleteTotpChallenge, LiveChallenge, NotOfAccount
    <3>2. \E b \in accounts' : b.id = a.id /\ b.enrollment = "active"
      <4>1. WithFactor(a, "active", a.secret, None, code).id = a.id
        BY DEF WithFactor
      <4>2. WithFactor(a, "active", a.secret, None, code).enrollment = "active"
        BY DEF WithFactor
      <4>3. Consumed(a, code).id = a.id /\ Consumed(a, code).enrollment = a.enrollment
        BY DEF Consumed, WithFactor
      <4> QED
        BY <2>4, <4>1, <4>2, <4>3
        DEF ConfirmTotpEnrollment, CompleteTotpChallenge, ReplaceAccount
    <3> QED
      BY <1>3, <3>1, <3>2 DEF Earned
  <2>5. ASSUME NEW c \in challenges, NEW a \in accounts, NEW r \in recovery,
               CompleteRecoveryChallenge(c, a, r)
        PROVE  SessionIssued
    <3>1. /\ IssueSession(a.id, NotOfAccount(sessions, a.id))
          /\ c \in challenges \ challenges' /\ c.account = a.id
      BY <2>5 DEF CompleteRecoveryChallenge, LiveChallenge, NotOfAccount
    <3>2. a \in accounts' /\ a.enrollment = "active"
      BY <2>5 DEF CompleteRecoveryChallenge
    <3> QED
      BY <2>1, <3>1, <3>2 DEF Earned
  <2>6. ASSUME NEW c \in challenges, NEW a \in accounts, RejectSecondFactor(c, a)
        PROVE  sessions' \subseteq sessions
    BY <2>6 DEF RejectSecondFactor
  <2> QED
    BY <1>4, <2>2, <2>3, <2>4, <2>5, <2>6 DEF PasswordLogin
<1>5. CASE SessionUse
  BY <1>1, <1>2, <1>5
  DEF SessionUse, Proven, ListSessions, DropExpiredSession, AuthenticateSession, MarkStepUp,
      RevokeSession, VerifyTotp, LiveSessions
<1>6. CASE PasskeyUse
  <2>1. ASSUME NEW s \in sessions, NEW c \in ceremonies, NEW p, NEW n,
               CompletePasskeyStepUp(s, c, p, n)
        PROVE  SessionUsed
    <3>1. c \in ceremonies \ ceremonies'
      BY <2>1 DEF CompletePasskeyStepUp
    <3> QED
      BY <1>2, <2>1, <3>1 DEF CompletePasskeyStepUp, BoundTo, Proven
  <2>2. ASSUME \/ BeginPasskeyLogin
               \/ \E p \in passkeys : DeletePasskey(p)
               \/ \E c \in ceremonies : RejectPasskeyLogin(c)
               \/ \E c \in ceremonies, p \in passkeys, a \in accounts, n \in 0 .. MaxSignCount :
                    VerifyPasskeyLogin(c, p, a, n)
        PROVE  sessions' \subseteq sessions
    BY <2>2 DEF BeginPasskeyLogin, DeletePasskey, RejectPasskeyLogin, VerifyPasskeyLogin
  <2>3. ASSUME NEW a \in accounts, IssueVerifiedPasskeySession(a)
        PROVE  SessionIssued
    BY <1>3, <2>3 DEF IssueVerifiedPasskeySession, Earned
  <2>4. ASSUME NEW s \in sessions, BeginPasskeyRegistration(s) \/ BeginPasskeyStepUp(s)
        PROVE  SessionUsed
    BY <1>1, <2>4 DEF BeginPasskeyRegistration, BeginPasskeyStepUp, MayRegister, Elevated
  <2>5. ASSUME NEW s \in sessions, NEW c \in ceremonies, RejectPasskeyResponse(s, c)
        PROVE  SessionUsed
    BY <1>1, <2>5 DEF RejectPasskeyResponse, MayRegister, Elevated
  <2>6. ASSUME NEW s \in sessions, NEW c \in ceremonies, NEW k, NEW n,
               CompletePasskeyRegistration(s, c, k, n)
        PROVE  SessionUsed
    BY <1>1, <2>6 DEF CompletePasskeyRegistration, MayRegister, Elevated
  <2> QED
    BY <1>6, <2>1, <2>2, <2>3, <2>4, <2>5, <2>6 DEF PasskeyUse
<1>7. ASSUME NEW a, NEW b, NEW andSessions, RevokeAuthentication(a, b, andSessions)
      PROVE  sessions' \subseteq sessions
  BY <1>7 DEF RevokeAuthentication, NotOfAccount
<1>8. ASSUME NEW a, NEW b, NEW codes, ReplaceFactor(a, b, codes)
      PROVE  sessions' \subseteq sessions
  BY <1>8 DEF ReplaceFactor, NotOfAccount
<1>9. CASE AccountManagement
  BY <1>7, <1>8, <1>9
  DEF AccountManagement, SyncAccounts, ProvisionActiveAccount, SetPasswordChangeRequired,
      RevokeSessions, RotateTotp, RegenerateRecoveryCodes
<1>10. CASE RootCommands
  BY <1>7, <1>8, <1>10
  DEF RootCommands, BootstrapActiveAccount, SetRole, DeleteAccount, NotOfAccount
<1> QED
  BY <1>4, <1>5, <1>6, <1>8, <1>9, <1>10
  DEF ApiNext, Next, HelperGivesUp, Tick, CreateAccount, ResetTotp

\* A failed attempt is counted in the row of a challenge.
ChallengeCounted ==
    \E c \in challenges :
        challenges' = (challenges \ {c}) \cup {[c EXCEPT !.failures = @ + 1]}

\* Every method shortens the table of challenges, counts a failure, or creates one.
LEMMA ChallengesStep ==
    ASSUME ApiNext
    PROVE  \/ challenges' \subseteq challenges \/ ChallengeCounted
           \/ \E a \in accounts : CreatePendingChallenge(a)
<1> USE DEF history, tables
<1>1. ASSUME NEW c \in challenges, RecordChallengeFailure(c)
      PROVE  challenges' \subseteq challenges \/ ChallengeCounted
  BY <1>1 DEF RecordChallengeFailure, ChallengeCounted
<1>2. CASE PasswordLogin
  <2>1. ASSUME NEW c \in challenges, NEW a \in accounts,
               \/ BeginTotpEnrollment(c, a)
               \/ \E code \in Codes : ConfirmTotpEnrollment(c, a, code)
               \/ \E code \in Codes : CompleteTotpChallenge(c, a, code)
               \/ \E r \in recovery : CompleteRecoveryChallenge(c, a, r)
        PROVE  challenges' \subseteq challenges
    BY <2>1
    DEF BeginTotpEnrollment, ConfirmTotpEnrollment, CompleteTotpChallenge,
        CompleteRecoveryChallenge, NotOfAccount
  <2> QED
    BY <1>1, <1>2, <2>1 DEF PasswordLogin, RejectSecondFactor
<1>3. CASE SessionUse
  BY <1>3
  DEF SessionUse, ListSessions, DropExpiredSession, AuthenticateSession, MarkStepUp, RevokeSession,
      VerifyTotp
<1>4. CASE PasskeyUse
  BY <1>4, PasskeyUseKeeps
<1>5. ASSUME NEW a, NEW b, NEW andSessions, RevokeAuthentication(a, b, andSessions)
      PROVE  challenges' \subseteq challenges
  BY <1>5 DEF RevokeAuthentication, NotOfAccount
<1>6. ASSUME NEW a, NEW b, NEW codes, ReplaceFactor(a, b, codes)
      PROVE  challenges' \subseteq challenges
  BY <1>6 DEF ReplaceFactor, NotOfAccount
<1>7. CASE AccountManagement
  BY <1>5, <1>6, <1>7
  DEF AccountManagement, SyncAccounts, ProvisionActiveAccount, SetPasswordChangeRequired,
      RevokeSessions, RotateTotp, RegenerateRecoveryCodes
<1>8. CASE RootCommands
  BY <1>5, <1>6, <1>8
  DEF RootCommands, BootstrapActiveAccount, SetRole, DeleteAccount, NotOfAccount
<1> QED
  BY <1>2, <1>3, <1>4, <1>6, <1>7, <1>8
  DEF ApiNext, Next, HelperGivesUp, Tick, CreateAccount, ResetTotp

\* A passkey is stored for the account of an elevated session.
PasskeyStored ==
    \E s \in sessions, k \in Credentials, n \in 0 .. MaxSignCount :
        /\ MayRegister(s)
        /\ passkeys' = passkeys \cup {[credential |-> k, account |-> s.account, signCount |-> n]}

\* Every method shortens the table of passkeys, counts a use, or stores one.
LEMMA PasskeysStep ==
    ASSUME ApiNext
    PROVE  \/ passkeys' \subseteq passkeys \/ PasskeyStored
           \/ \E p \in passkeys : \E n \in 0 .. MaxSignCount : passkeys' = Counted(p, n)
<1> USE DEF history, tables
<1>1. CASE PasswordLogin
  <2>1. ASSUME NEW a \in accounts, CreatePendingChallenge(a)
        PROVE  passkeys' = passkeys
    BY <2>1 DEF CreatePendingChallenge
  <2>2. ASSUME NEW c \in challenges, NEW a \in accounts,
               \/ BeginTotpEnrollment(c, a) \/ RejectSecondFactor(c, a)
               \/ \E code \in Codes : ConfirmTotpEnrollment(c, a, code)
               \/ \E code \in Codes : CompleteTotpChallenge(c, a, code)
               \/ \E r \in recovery : CompleteRecoveryChallenge(c, a, r)
        PROVE  passkeys' = passkeys
    BY <2>2
    DEF BeginTotpEnrollment, ConfirmTotpEnrollment, CompleteTotpChallenge,
        CompleteRecoveryChallenge, RejectSecondFactor
  <2> QED
    BY <1>1, <2>1, <2>2 DEF PasswordLogin
<1>2. CASE SessionUse
  BY <1>2
  DEF SessionUse, ListSessions, DropExpiredSession, AuthenticateSession, MarkStepUp, RevokeSession,
      VerifyTotp
<1>3. CASE PasskeyUse
  <2>1. ASSUME NEW s \in sessions, NEW c \in ceremonies, NEW k \in Credentials,
               NEW n \in 0 .. MaxSignCount, CompletePasskeyRegistration(s, c, k, n)
        PROVE  PasskeyStored
    BY <2>1 DEF CompletePasskeyRegistration, PasskeyStored
  <2>2. ASSUME NEW p \in passkeys, NEW n \in 0 .. MaxSignCount,
               \/ \E s \in sessions, c \in ceremonies : CompletePasskeyStepUp(s, c, p, n)
               \/ \E c \in ceremonies, a \in accounts : VerifyPasskeyLogin(c, p, a, n)
        PROVE  passkeys' = Counted(p, n)
    BY <2>2 DEF CompletePasskeyStepUp, VerifyPasskeyLogin
  <2>3. ASSUME \/ BeginPasskeyLogin
               \/ \E p \in passkeys : DeletePasskey(p)
               \/ \E c \in ceremonies : RejectPasskeyLogin(c)
               \/ \E a \in accounts : IssueVerifiedPasskeySession(a)
               \/ \E s \in sessions :
                    \/ BeginPasskeyRegistration(s)
                    \/ BeginPasskeyStepUp(s)
                    \/ \E c \in ceremonies : RejectPasskeyResponse(s, c)
        PROVE  passkeys' \subseteq passkeys
    BY <2>3
    DEF BeginPasskeyLogin, DeletePasskey, RejectPasskeyLogin, IssueVerifiedPasskeySession,
        BeginPasskeyRegistration, BeginPasskeyStepUp, RejectPasskeyResponse
  <2> QED
    BY <1>3, <2>1, <2>2, <2>3 DEF PasskeyUse
<1>4. CASE AccountManagement
  BY <1>4
  DEF AccountManagement, SyncAccounts, ProvisionActiveAccount, SetPasswordChangeRequired,
      RevokeSessions, RotateTotp, RegenerateRecoveryCodes
<1>5. CASE RootCommands
  BY <1>5 DEF RootCommands, BootstrapActiveAccount, SetRole, DeleteAccount, NotOfAccount
<1> QED
  BY <1>1, <1>2, <1>3, <1>4, <1>5
  DEF ApiNext, Next, HelperGivesUp, Tick, CreateAccount, ResetTotp

\* The codes of an account are replaced by a set drawn for it.
CodesReplaced ==
    \E a \in accounts' : \E n \in Secrets :
        /\ recovery' = NotOfAccount(recovery, a.id) \cup CodesOf(a.id, n)
        /\ a.enrollment = "active"

\* Every method shortens the table of recovery codes or replaces the codes of
\* an account whose factor it leaves active.
LEMMA CodesTableStep ==
    ASSUME TypeOK, KeysUnique, RowsOwned, CodesEnrolled, ApiNext
    PROVE  recovery' \subseteq recovery \/ CodesReplaced
<1> USE DEF history, tables
<1>1. ASSUME NEW id \in AccountIds \ issued
      PROVE  NotOfAccount(recovery, id) = recovery
  BY <1>1 DEF RowsOwned, KeysUnique, NotOfAccount
<1>2. ASSUME NEW a \in accounts, a.enrollment # "active"
      PROVE  NotOfAccount(recovery, a.id) = recovery
  BY <1>2 DEF CodesEnrolled, NotOfAccount
<1>3. ASSUME NEW b \in accounts', NEW n \in Secrets, b.enrollment = "active",
             recovery' = NotOfAccount(recovery, b.id) \cup CodesOf(b.id, n)
      PROVE  CodesReplaced
  BY <1>3 DEF CodesReplaced
<1>4. CanDraw(1) => Draw \in Secrets
  BY LimitsAssumption DEF CanDraw, Draw, Secrets, TypeOK
<1>5. CanDraw(2) => Draw + 1 \in Secrets
  BY LimitsAssumption DEF CanDraw, Draw, Secrets, TypeOK
<1>6. ASSUME NEW a, NEW n
      PROVE  Activated(a, n).id = a.id /\ Activated(a, n).enrollment = "active"
  BY DEF Activated, WithFactor
<1>7. ASSUME NEW id, NEW e, NEW role, NEW flag
      PROVE  NewAccount(id, e, role, flag).id = id
  BY DEF NewAccount
<1>8. ASSUME NEW a \in accounts, RotateTotp(a)
      PROVE  CodesReplaced
  BY <1>3, <1>5, <1>6, <1>8 DEF RotateTotp, ReplaceFactor, ReplaceAccount
<1>9. ASSUME NEW a \in accounts, NEW code \in Codes, RegenerateRecoveryCodes(a, code)
      PROVE  CodesReplaced
  <2>1. Consumed(a, code).id = a.id /\ Consumed(a, code).enrollment = a.enrollment
    BY DEF Consumed, WithFactor
  <2> QED
    BY <1>3, <1>4, <1>9, <2>1 DEF RegenerateRecoveryCodes, ReplaceFactor, ReplaceAccount
<1>10. ASSUME NEW id \in AccountIds \ issued, NEW e, NEW role, NEW flag, CanDraw(2),
              accounts' = accounts \cup {Activated(NewAccount(id, e, role, flag), Draw)},
              recovery' = recovery \cup CodesOf(id, Draw + 1)
       PROVE  CodesReplaced
  BY <1>1, <1>3, <1>5, <1>6, <1>7, <1>10
<1>11. ASSUME NEW e \in Emails, ProvisionActiveAccount(e, "user", FALSE)
       PROVE  CodesReplaced
  BY <1>10, <1>11 DEF ProvisionActiveAccount
<1>12. ASSUME NEW e, NEW role, NEW flag, BootstrapActiveAccount(e, role, flag)
       PROVE  CodesReplaced
  <2>1. CASE \E id \in AccountIds \ issued :
              /\ accounts' = accounts \cup {Activated(NewAccount(id, e, role, flag), Draw)}
              /\ recovery' = recovery \cup CodesOf(id, Draw + 1)
    BY <1>10, <1>12, <2>1 DEF BootstrapActiveAccount
  <2>2. ASSUME NEW a \in accounts,
               ReplaceFactor(a, Activated(NewAccount(a.id, e, role, flag), Draw),
                             CodesOf(a.id, Draw + 1))
        PROVE  CodesReplaced
    BY <1>3, <1>5, <1>6, <1>7, <1>12, <2>2
    DEF BootstrapActiveAccount, ReplaceFactor, ReplaceAccount
  <2> QED
    BY <1>12, <2>1, <2>2 DEF BootstrapActiveAccount
<1>13. ASSUME NEW c \in challenges, NEW a \in accounts, NEW code \in Codes,
              ConfirmTotpEnrollment(c, a, code)
       PROVE  CodesReplaced
  <2> DEFINE b == WithFactor(a, "active", a.secret, None, code)
  <2>1. b.id = a.id /\ b.enrollment = "active"
    BY DEF WithFactor
  <2>2. b \in accounts' /\ recovery' = recovery \cup CodesOf(a.id, Draw) /\ CanDraw(1)
    BY <1>13 DEF ConfirmTotpEnrollment, ReplaceAccount
  <2>3. a.enrollment # "active"
    BY <1>13 DEF ConfirmTotpEnrollment
  <2> HIDE DEF b
  <2> QED
    BY <1>2, <1>3, <1>4, <2>1, <2>2, <2>3
<1>14. CASE PasswordLogin
  <2>1. ASSUME NEW a \in accounts, CreatePendingChallenge(a)
        PROVE  recovery' = recovery
    BY <2>1 DEF CreatePendingChallenge
  <2>2. ASSUME NEW c \in challenges, NEW a \in accounts,
               \/ BeginTotpEnrollment(c, a) \/ RejectSecondFactor(c, a)
               \/ \E code \in Codes : CompleteTotpChallenge(c, a, code)
               \/ \E r \in recovery : CompleteRecoveryChallenge(c, a, r)
        PROVE  recovery' \subseteq recovery
    BY <2>2
    DEF BeginTotpEnrollment, CompleteTotpChallenge, CompleteRecoveryChallenge, RejectSecondFactor,
        NotOfAccount
  <2> QED
    BY <1>13, <1>14, <2>1, <2>2 DEF PasswordLogin
<1>15. CASE SessionUse
  BY <1>15
  DEF SessionUse, ListSessions, DropExpiredSession, AuthenticateSession, MarkStepUp, RevokeSession,
      VerifyTotp
<1>16. CASE PasskeyUse
  BY <1>16, PasskeyUseKeeps
<1>17. CASE AccountManagement
  BY <1>8, <1>9, <1>11, <1>17
  DEF AccountManagement, SyncAccounts, SetPasswordChangeRequired, RevokeSessions
<1>18. CASE RootCommands
  BY <1>12, <1>18 DEF RootCommands, SetRole, DeleteAccount, NotOfAccount
<1> QED
  BY <1>14, <1>15, <1>16, <1>17, <1>18
  DEF ApiNext, Next, HelperGivesUp, Tick, CreateAccount, ResetTotp, ReplaceFactor, NotOfAccount

\* What was issued stays issued.
LEMMA IssuedGrows ==
    ASSUME ApiNext
    PROVE  issued \subseteq issued'
<1> USE DEF history, tables
<1>1. CASE PasswordLogin
  <2>1. ASSUME NEW a \in accounts, CreatePendingChallenge(a)
        PROVE  issued \subseteq issued'
    BY <2>1, CreatePendingChallengeEffect
  <2>2. ASSUME NEW id, NEW left, IssueSession(id, left)
        PROVE  issued \subseteq issued'
    BY <2>2, IssueSessionEffect
  <2>3. ASSUME NEW c \in challenges, NEW a \in accounts,
               \/ BeginTotpEnrollment(c, a) \/ RejectSecondFactor(c, a)
               \/ \E code \in Codes : ConfirmTotpEnrollment(c, a, code)
               \/ \E code \in Codes : CompleteTotpChallenge(c, a, code)
               \/ \E r \in recovery : CompleteRecoveryChallenge(c, a, r)
        PROVE  issued \subseteq issued'
    BY <2>2, <2>3
    DEF BeginTotpEnrollment, ConfirmTotpEnrollment, CompleteTotpChallenge,
        CompleteRecoveryChallenge, RejectSecondFactor
  <2> QED
    BY <1>1, <2>1, <2>3 DEF PasswordLogin
<1>2. CASE SessionUse
  BY <1>2
  DEF SessionUse, ListSessions, DropExpiredSession, AuthenticateSession, MarkStepUp, RevokeSession,
      VerifyTotp
<1>3. CASE PasskeyUse
  <2>1. ASSUME NEW purpose, NEW id, NEW session, CreateCeremony(purpose, id, session)
        PROVE  issued \subseteq issued'
    BY <2>1, CreateCeremonyEffect
  <2>2. ASSUME NEW id, NEW left, IssueSession(id, left)
        PROVE  issued \subseteq issued'
    BY <2>2, IssueSessionEffect
  <2>3. ASSUME \/ BeginPasskeyLogin
               \/ \E s \in sessions : BeginPasskeyRegistration(s) \/ BeginPasskeyStepUp(s)
        PROVE  issued \subseteq issued'
    BY <2>1, <2>3 DEF BeginPasskeyLogin, BeginPasskeyRegistration, BeginPasskeyStepUp
  <2>4. ASSUME NEW a \in accounts, IssueVerifiedPasskeySession(a)
        PROVE  issued \subseteq issued'
    BY <2>2, <2>4 DEF IssueVerifiedPasskeySession
  <2>5. ASSUME \/ \E p \in passkeys : DeletePasskey(p)
               \/ \E c \in ceremonies : RejectPasskeyLogin(c)
               \/ \E c \in ceremonies, p \in passkeys, a \in accounts, n \in 0 .. MaxSignCount :
                    VerifyPasskeyLogin(c, p, a, n)
        PROVE  issued \subseteq issued'
    BY <2>5 DEF DeletePasskey, RejectPasskeyLogin, VerifyPasskeyLogin
  <2>6. ASSUME NEW s \in sessions, NEW c \in ceremonies,
               \/ RejectPasskeyResponse(s, c)
               \/ \E k \in Credentials, n \in 0 .. MaxSignCount :
                    CompletePasskeyRegistration(s, c, k, n)
               \/ \E p \in passkeys, n \in 0 .. MaxSignCount : CompletePasskeyStepUp(s, c, p, n)
        PROVE  issued \subseteq issued'
    BY <2>6 DEF RejectPasskeyResponse, CompletePasskeyRegistration, CompletePasskeyStepUp
  <2> QED
    BY <1>3, <2>3, <2>4, <2>5, <2>6 DEF PasskeyUse
<1>4. CASE AccountManagement
  BY <1>4
  DEF AccountManagement, SyncAccounts, ProvisionActiveAccount, SetPasswordChangeRequired,
      RevokeSessions, RotateTotp, RegenerateRecoveryCodes
<1>5. CASE RootCommands
  BY <1>5 DEF RootCommands, BootstrapActiveAccount, SetRole, DeleteAccount
<1> QED
  BY <1>1, <1>2, <1>3, <1>4, <1>5
  DEF ApiNext, Next, HelperGivesUp, Tick, CreateAccount, ResetTotp

\* Every session row is the successor of an older one, or has an unused token.
LEMMA SessionRowsStep ==
    ASSUME ApiNext
    PROVE  /\ issued \subseteq issued'
           /\ \A t \in sessions' :
                \/ \E s \in sessions : s.token = t.token /\ s.account = t.account
                \/ t.token \in issued' \ issued /\ \E a \in accounts : a.id = t.account
<1>1. issued \subseteq issued'
  BY IssuedGrows
<1>2. CASE sessions' \subseteq sessions
  BY <1>1, <1>2
<1>3. CASE SessionUsed
  BY <1>1, <1>3 DEF SessionUsed, SessionRow
<1>4. CASE SessionIssued
  BY <1>1, <1>4, IssueSessionEffect DEF SessionIssued, SessionRow
<1> QED
  BY <1>1, <1>2, <1>3, <1>4, SessionsStep

\* The row b is account a after the step, and enrolled if it was.
Continues(a, b) ==
    a.id = b.id /\ (a.enrollment = "active" => b.enrollment = "active")

\* Every account stays unless it is deleted, and every row is that of an
\* account that was stored before or has a new identifier.
AccountsContinue ==
    /\ \A a \in accounts : DeleteAccount(a) \/ \E b \in accounts' : b.id = a.id
    /\ \A b \in accounts' : b.id \in issued' \ issued \/ \E a \in accounts : Continues(a, b)

\* An account row is written in place.
LEMMA AccountWritten ==
    ASSUME NEW a \in accounts, NEW b, Continues(a, b), accounts' = ReplaceAccount(a, b)
    PROVE  AccountsContinue
  BY DEF AccountsContinue, ReplaceAccount, Continues

\* Accounts are added.
LEMMA AccountsAdded ==
    ASSUME NEW new, accounts' = accounts \cup new, \A b \in new : b.id \in issued' \ issued
    PROVE  AccountsContinue
  BY DEF AccountsContinue, Continues

\* One account is added.
LEMMA AccountAdded ==
    ASSUME NEW b, accounts' = accounts \cup {b}, b.id \in issued' \ issued
    PROVE  AccountsContinue
  BY DEF AccountsContinue, Continues

\* Pending enrollments are released.
LEMMA AccountsSwept ==
    ASSUME NEW swept,
           accounts' = {IF b \in swept THEN Released(b) ELSE b : b \in accounts},
           \A b \in swept : b.enrollment = "pending"
    PROVE  AccountsContinue
<1>1. \A b : Released(b).id = b.id
  BY DEF Released, WithFactor
<1> QED
  BY <1>1 DEF AccountsContinue, Continues

\* What the methods do to the table of accounts: only reset_totp takes an
\* enrollment away.
LEMMA AccountsStep ==
    ASSUME TypeOK
    PROVE  /\ Next => AccountsContinue
           /\ ApiNext => AccountsContinue \/ \E a \in accounts : ResetTotp(a)
<1> USE DEF history, tables
<1>1. ASSUME UNCHANGED accounts
      PROVE  AccountsContinue
  BY <1>1 DEF AccountsContinue, Continues
<1>2. ASSUME NEW a, NEW b, NEW andSessions, a \in accounts, Continues(a, b), b.id = a.id,
             a.enrollment = b.enrollment, RevokeAuthentication(a, b, andSessions)
      PROVE  AccountsContinue
  <2>1. Continues(a, Released(b)) \/ b.enrollment # "pending"
    BY <1>2 DEF Continues, Released, WithFactor
  <2> QED
    BY <1>2, <2>1, AccountWritten DEF RevokeAuthentication
<1>3. ASSUME NEW a \in accounts, NEW role, NEW flag
      PROVE  LET b == [a EXCEPT !.role = role]
                 d == [a EXCEPT !.mustChange = flag]
             IN  /\ Continues(a, a)
                 /\ Continues(a, b) /\ b.id = a.id /\ b.enrollment = a.enrollment
                 /\ Continues(a, d) /\ d.id = a.id /\ d.enrollment = a.enrollment
  BY DEF Continues, TypeOK, Account
<1>4. ASSUME NEW a \in accounts, NEW role \in Roles, SetRole(a, role)
      PROVE  AccountsContinue
  BY <1>2, <1>3, <1>4 DEF SetRole
<1>5. ASSUME NEW a \in accounts, NEW flag, NEW andSessions,
             SetPasswordChangeRequired(a, flag, andSessions)
      PROVE  AccountsContinue
  BY <1>2, <1>3, <1>5 DEF SetPasswordChangeRequired
<1>6. ASSUME NEW a \in accounts, RevokeSessions(a)
      PROVE  AccountsContinue
  BY <1>2, <1>3, <1>6 DEF RevokeSessions
<1>8. ASSUME NEW x, NEW n
      PROVE  Activated(x, n).id = x.id /\ Activated(x, n).enrollment = "active"
  BY DEF Activated, WithFactor
<1>9. ASSUME NEW id, NEW e, NEW role, NEW flag
      PROVE  NewAccount(id, e, role, flag).id = id
  BY DEF NewAccount
<1>10. ASSUME NEW a \in accounts, RotateTotp(a)
       PROVE  AccountsContinue
  BY <1>8, <1>10, AccountWritten DEF RotateTotp, ReplaceFactor, Continues
<1>11. ASSUME NEW a \in accounts, NEW code, a.enrollment = "active",
              accounts' = ReplaceAccount(a, Consumed(a, code))
       PROVE  AccountsContinue
  <2>1. Continues(a, Consumed(a, code))
    BY <1>11 DEF Continues, Consumed, WithFactor
  <2> QED
    BY <1>11, <2>1, AccountWritten
<1>12. ASSUME NEW e, NEW role, NEW flag, NEW id \in AccountIds \ issued,
              accounts' = accounts \cup {Activated(NewAccount(id, e, role, flag), Draw)},
              issued' = issued \cup {id}
       PROVE  AccountsContinue
  <2> DEFINE b == Activated(NewAccount(id, e, role, flag), Draw)
  <2>1. b.id = id
    BY <1>8, <1>9
  <2> HIDE DEF b
  <2> QED
    BY <1>12, <2>1, AccountAdded DEF b
<1>13. ASSUME NEW e \in Emails, ProvisionActiveAccount(e, "user", FALSE)
       PROVE  AccountsContinue
  BY <1>12, <1>13 DEF ProvisionActiveAccount
<1>14. ASSUME NEW e, NEW role, NEW flag, BootstrapActiveAccount(e, role, flag)
       PROVE  AccountsContinue
  <2>1. ASSUME NEW a \in accounts, NEW codes,
               ReplaceFactor(a, Activated(NewAccount(a.id, e, role, flag), Draw), codes)
        PROVE  AccountsContinue
    BY <1>8, <1>9, <2>1, AccountWritten DEF ReplaceFactor, Continues
  <2> QED
    BY <1>12, <1>14, <2>1 DEF BootstrapActiveAccount
<1>15. ASSUME NEW e, NEW role, NEW flag, CreateAccount(e, role, flag)
       PROVE  AccountsContinue
  <2>1. PICK id \in AccountIds \ issued :
          /\ accounts' = accounts \cup {NewAccount(id, e, role, flag)}
          /\ issued' = issued \cup {id}
    BY <1>15 DEF CreateAccount
  <2> DEFINE b == NewAccount(id, e, role, flag)
  <2>2. b.id = id
    BY <1>9
  <2> HIDE DEF b
  <2> QED
    BY <2>1, <2>2, AccountAdded DEF b
<1>16. ASSUME NEW es \in SUBSET Emails, NEW flag, SyncAccounts(es, "user", flag)
       PROVE  AccountsContinue
  <2> DEFINE missing == {e \in es : \A a \in accounts : a.email # e}
  <2>1. PICK id \in [missing -> AccountIds \ issued] :
          /\ accounts' = accounts \cup {NewAccount(id[e], e, "user", flag) : e \in missing}
          /\ issued' = issued \cup {id[e] : e \in missing}
    BY <1>16 DEF SyncAccounts
  <2> HIDE DEF missing
  <2>2. \A b \in {NewAccount(id[e], e, "user", flag) : e \in missing} : b.id \in issued' \ issued
    BY <1>9, <2>1
  <2> QED
    BY <2>1, <2>2, AccountsAdded
<1>17. ASSUME NEW a \in accounts, CreatePendingChallenge(a)
       PROVE  AccountsContinue
  <2> DEFINE live == {c \in challenges : ~ChallengeExpired(c)}
             swept == {b \in accounts :
                         b.enrollment = "pending" /\ (\E c \in challenges \ live : c.token = b.owner)}
  <2>1. accounts' = {IF b \in swept THEN Released(b) ELSE b : b \in accounts}
    BY <1>17 DEF CreatePendingChallenge
  <2>2. \A b \in swept : b.enrollment = "pending"
    OBVIOUS
  <2> HIDE DEF swept
  <2> QED
    BY <2>1, <2>2, AccountsSwept
<1>18. ASSUME NEW c \in challenges, NEW a \in accounts, BeginTotpEnrollment(c, a)
       PROVE  AccountsContinue
  <2>1. Continues(a, WithFactor(a, "pending", Draw, c.token, -1))
    BY <1>18 DEF BeginTotpEnrollment, Continues, WithFactor
  <2> QED
    BY <1>18, <2>1, AccountWritten DEF BeginTotpEnrollment
<1>19. ASSUME NEW c \in challenges, NEW a \in accounts, NEW code, ConfirmTotpEnrollment(c, a, code)
       PROVE  AccountsContinue
  <2>1. Continues(a, WithFactor(a, "active", a.secret, None, code))
    BY DEF Continues, WithFactor
  <2> QED
    BY <1>19, <2>1, AccountWritten DEF ConfirmTotpEnrollment
<1>20. ASSUME NEW c \in challenges, NEW a \in accounts, RejectSecondFactor(c, a)
       PROVE  AccountsContinue
  <2> DEFINE swept == {b \in accounts : b.enrollment = "pending" /\ b.owner = c.token}
  <2>1. \/ UNCHANGED accounts
        \/ accounts' = {IF b \in swept THEN Released(b) ELSE b : b \in accounts}
    BY <1>20 DEF RejectSecondFactor, RecordChallengeFailure
  <2>2. \A b \in swept : b.enrollment = "pending"
    OBVIOUS
  <2> HIDE DEF swept
  <2> QED
    BY <1>1, <2>1, <2>2, AccountsSwept
<1>21. CASE PasswordLogin
  <2>1. ASSUME NEW c \in challenges, NEW a \in accounts,
               \/ \E code \in Codes : CompleteTotpChallenge(c, a, code)
               \/ \E r \in recovery : CompleteRecoveryChallenge(c, a, r)
        PROVE  AccountsContinue
    BY <1>1, <1>11, <2>1 DEF CompleteTotpChallenge, CompleteRecoveryChallenge
  <2> QED
    BY <1>17, <1>18, <1>19, <1>20, <1>21, <2>1 DEF PasswordLogin
<1>22. CASE SessionUse
  BY <1>1, <1>11, <1>22
  DEF SessionUse, ListSessions, DropExpiredSession, AuthenticateSession, MarkStepUp, RevokeSession,
      VerifyTotp
<1>23. CASE PasskeyUse
  BY <1>1, <1>23, PasskeyUseKeeps
<1>24. ASSUME NEW a \in accounts, NEW code, RegenerateRecoveryCodes(a, code)
       PROVE  AccountsContinue
  BY <1>11, <1>24 DEF RegenerateRecoveryCodes, ReplaceFactor
<1>25. ASSUME NEW a \in accounts, DeleteAccount(a)
       PROVE  AccountsContinue
  BY <1>25 DEF DeleteAccount, AccountsContinue, Continues
<1>26. CASE AccountManagement
  BY <1>5, <1>6, <1>10, <1>13, <1>16, <1>24, <1>26 DEF AccountManagement
<1>27. CASE RootCommands
  BY <1>4, <1>14, <1>25, <1>27 DEF RootCommands
<1>28. ASSUME Next
       PROVE  AccountsContinue
  BY <1>1, <1>21, <1>22, <1>23, <1>26, <1>27, <1>28 DEF Next, HelperGivesUp, Tick
<1> QED
  BY <1>15, <1>28 DEF ApiNext

\* reset_totp writes one row, which keeps its identifier.
LEMMA ResetWrites ==
    ASSUME NEW a \in accounts, ResetTotp(a)
    PROVE  /\ \A d \in accounts : \E b \in accounts' : b.id = d.id
           /\ \A b \in accounts' : b \in accounts \/ b.id = a.id
           /\ recovery' = NotOfAccount(recovery, a.id)
<1>1. Released(a).id = a.id
  BY DEF Released, WithFactor
<1> QED
  BY <1>1 DEF ResetTotp, ReplaceFactor, ReplaceAccount

\* Every stored ceremony is one whose session is still there, a new login
\* ceremony, or a new one of a stored session.
CeremoniesContinue ==
    \A c \in ceremonies' :
        \/ c.purpose = "login" /\ c.account = None /\ c.session = None
        \/ \E d \in ceremonies :
              /\ d.purpose = c.purpose /\ d.account = c.account /\ d.session = c.session
              /\ c.session # None => \E s \in sessions' : s.token = c.session
        \/ c.purpose # "login" /\ \E s \in sessions' : s.token = c.session /\ s.account = c.account

\* Ceremonies may go, and none of the sessions they name.
LEMMA CeremoniesKept ==
    ASSUME TypeOK, CeremoniesBound, ceremonies' \subseteq ceremonies,
           \A s \in sessions : \E t \in sessions' : t.token = s.token
    PROVE  CeremoniesContinue
  BY NoneAssumption DEF CeremoniesContinue, CeremoniesBound, TypeOK, Session

\* Sessions may go, with the ceremonies bound to them.
LEMMA CeremoniesCascade ==
    ASSUME NEW cs, cs \subseteq ceremonies, ceremonies' = Cascade(cs, sessions')
    PROVE  CeremoniesContinue
  BY DEF CeremoniesContinue, Cascade

\* A session that is used keeps its token.
LEMMA TokensStay ==
    ASSUME NEW s \in sessions, TouchSession(s) \/ ElevateSession(s)
    PROVE  /\ \A r \in sessions : \E t \in sessions' : t.token = r.token
           /\ \E t \in sessions' : t.token = s.token /\ t.account = s.account
<1>1. PICK q : q.token = s.token /\ q.account = s.account /\ sessions' = (sessions \ {s}) \cup {q}
  BY DEF TouchSession, ElevateSession, Touched, SessionRow
<1> QED
  BY <1>1

\* What the methods do to the table of ceremonies.
LEMMA CeremoniesStep ==
    ASSUME TypeOK, CeremoniesBound, ApiNext
    PROVE  CeremoniesContinue
<1> USE DEF history, tables
<1>1. ASSUME UNCHANGED <<sessions, ceremonies>>
      PROVE  CeremoniesContinue
  BY <1>1, CeremoniesKept
<1>2. ASSUME NEW a, NEW b, NEW andSessions, RevokeAuthentication(a, b, andSessions)
      PROVE  CeremoniesContinue
  BY <1>2, CeremoniesCascade DEF RevokeAuthentication, NotOfAccount
<1>3. ASSUME NEW a, NEW b, NEW codes, ReplaceFactor(a, b, codes)
      PROVE  CeremoniesContinue
  BY <1>3, CeremoniesCascade DEF ReplaceFactor, NotOfAccount
<1>4. CASE PasswordLogin
  <2>1. ASSUME NEW a \in accounts, CreatePendingChallenge(a)
        PROVE  CeremoniesContinue
    BY <1>1, <2>1 DEF CreatePendingChallenge
  <2>2. ASSUME NEW c \in challenges, NEW a \in accounts,
               \/ BeginTotpEnrollment(c, a)
               \/ \E code \in Codes : ConfirmTotpEnrollment(c, a, code)
               \/ \E code \in Codes : CompleteTotpChallenge(c, a, code)
               \/ \E r \in recovery : CompleteRecoveryChallenge(c, a, r)
        PROVE  CeremoniesContinue
    BY <2>2, CeremoniesCascade
    DEF BeginTotpEnrollment, ConfirmTotpEnrollment, CompleteTotpChallenge,
        CompleteRecoveryChallenge, NotOfAccount
  <2> QED
    BY <1>1, <1>4, <2>1, <2>2 DEF PasswordLogin, RejectSecondFactor
<1>5. CASE SessionUse
  <2>1. ASSUME NEW s \in sessions, AuthenticateSession(s) \/ MarkStepUp(s)
        PROVE  CeremoniesContinue
    BY <2>1, CeremoniesKept, TokensStay DEF AuthenticateSession, MarkStepUp
  <2> QED
    BY <1>1, <1>5, <2>1, CeremoniesCascade
    DEF SessionUse, ListSessions, DropExpiredSession, RevokeSession, VerifyTotp
<1>6. ASSUME NEW s \in sessions, BeginPasskeyRegistration(s) \/ BeginPasskeyStepUp(s)
      PROVE  CeremoniesContinue
  <2>1. TouchSession(s) /\ \E purpose \in {"registration", "step_up"} :
          CreateCeremony(purpose, s.account, s.token)
    BY <1>6 DEF BeginPasskeyRegistration, BeginPasskeyStepUp
  <2>2. PICK t \in CeremonyTokens, kept \in SUBSET ceremonies, purpose \in {"registration", "step_up"} :
          ceremonies' = kept \cup
            {[token |-> t, purpose |-> purpose, account |-> s.account, session |-> s.token,
              created |-> now, failures |-> 0]}
    BY <2>1, CreateCeremonyEffect
  <2>3. \A c \in ceremonies' : \/ c \in ceremonies
                               \/ c.purpose = purpose /\ c.account = s.account /\ c.session = s.token
    BY <2>2
  <2> QED
    BY <2>1, <2>2, <2>3, TokensStay, NoneAssumption
    DEF CeremoniesContinue, CeremoniesBound, TypeOK, Session
<1>7. ASSUME BeginPasskeyLogin
      PROVE  CeremoniesContinue
  <2>1. PICK t \in CeremonyTokens, kept \in SUBSET ceremonies :
          ceremonies' = kept \cup
            {[token |-> t, purpose |-> "login", account |-> None, session |-> None,
              created |-> now, failures |-> 0]}
    BY <1>7, CreateCeremonyEffect DEF BeginPasskeyLogin
  <2>2. \A c \in ceremonies' : \/ c \in ceremonies
                               \/ c.purpose = "login" /\ c.account = None /\ c.session = None
    BY <2>1
  <2> QED
    BY <1>7, <2>2, NoneAssumption
    DEF CeremoniesContinue, CeremoniesBound, TypeOK, Session, BeginPasskeyLogin
<1>8. ASSUME NEW c \in ceremonies, RecordCeremonyFailure(c),
             \A s \in sessions : \E t \in sessions' : t.token = s.token
      PROVE  CeremoniesContinue
  <2>1. \A d \in ceremonies' : \E e \in ceremonies :
          d.purpose = e.purpose /\ d.account = e.account /\ d.session = e.session
    BY <1>8 DEF RecordCeremonyFailure, TypeOK, Ceremony
  <2> QED
    BY <1>8, <2>1, NoneAssumption DEF CeremoniesContinue, CeremoniesBound, TypeOK, Session
<1>9. CASE PasskeyUse
  <2>1. ASSUME NEW s \in sessions, NEW c \in ceremonies,
               \/ \E k, n : CompletePasskeyRegistration(s, c, k, n)
               \/ \E p, n : CompletePasskeyStepUp(s, c, p, n)
        PROVE  CeremoniesContinue
    BY <2>1, CeremoniesKept, TokensStay DEF CompletePasskeyRegistration, CompletePasskeyStepUp
  <2>2. ASSUME NEW s \in sessions, NEW c \in ceremonies, RejectPasskeyResponse(s, c)
        PROVE  CeremoniesContinue
    BY <1>8, <2>2, TokensStay DEF RejectPasskeyResponse
  <2>3. ASSUME NEW c \in ceremonies, RejectPasskeyLogin(c)
        PROVE  CeremoniesContinue
    BY <1>8, <2>3 DEF RejectPasskeyLogin
  <2>4. ASSUME NEW c \in ceremonies, NEW p, NEW a, NEW n, VerifyPasskeyLogin(c, p, a, n)
        PROVE  CeremoniesContinue
    BY <2>4, CeremoniesKept DEF VerifyPasskeyLogin
  <2>5. ASSUME NEW a, IssueVerifiedPasskeySession(a)
        PROVE  CeremoniesContinue
    BY <2>5, CeremoniesCascade DEF IssueVerifiedPasskeySession
  <2>6. ASSUME NEW p, DeletePasskey(p)
        PROVE  CeremoniesContinue
    BY <1>1, <2>6 DEF DeletePasskey
  <2> QED
    BY <1>6, <1>7, <1>9, <2>1, <2>2, <2>3, <2>4, <2>5, <2>6 DEF PasskeyUse
<1>10. CASE AccountManagement
  BY <1>1, <1>2, <1>3, <1>10
  DEF AccountManagement, SyncAccounts, ProvisionActiveAccount, SetPasswordChangeRequired,
      RevokeSessions, RotateTotp, RegenerateRecoveryCodes
<1>11. CASE RootCommands
  BY <1>1, <1>2, <1>3, <1>11, CeremoniesCascade
  DEF RootCommands, BootstrapActiveAccount, SetRole, DeleteAccount, NotOfAccount
<1> QED
  BY <1>1, <1>3, <1>4, <1>5, <1>9, <1>10, <1>11
  DEF ApiNext, Next, HelperGivesUp, Tick, CreateAccount, ResetTotp

----------------------------------------------------------------------------
(* Every method keeps the tables sound *)

\* A session row keeps its key when it is used; a new one has a new key.
LEMMA SessionKeysStep ==
    ASSUME SessionKeys, ApiNext
    PROVE  SessionKeys'
<1>1. issued \subseteq issued'
  BY IssuedGrows
<1>2. CASE sessions' \subseteq sessions
  BY <1>1, <1>2 DEF SessionKeys
<1>3. CASE SessionUsed
  <2>1. PICK s \in sessions : \E q :
          q.token = s.token /\ sessions' = (sessions \ {s}) \cup {q}
    BY <1>3 DEF SessionUsed, SessionRow
  <2> QED
    BY <1>1, <2>1 DEF SessionKeys
<1>4. CASE SessionIssued
  <2>1. PICK a \in accounts : \E t \in SessionTokens \ issued, kept \in SUBSET sessions :
          /\ sessions' = kept \cup {SessionRow(t, a.id, now, now, 0)}
          /\ issued' = issued \cup {t}
    BY <1>4, IssueSessionEffect DEF SessionIssued
  <2>2. PICK t \in SessionTokens \ issued, kept \in SUBSET sessions :
          /\ sessions' = kept \cup {SessionRow(t, a.id, now, now, 0)}
          /\ issued' = issued \cup {t}
    BY <2>1
  <2>3. SessionRow(t, a.id, now, now, 0).token = t
    BY DEF SessionRow
  <2> QED
    BY <2>2, <2>3 DEF SessionKeys
<1> QED
  BY <1>2, <1>3, <1>4, SessionsStep

\* A session is touched only while it lives, and elevated within its lifetime.
LEMMA LifetimesStep ==
    ASSUME TypeOK, LifetimesNested, ApiNext
    PROVE  LifetimesNested'
<1> DEFINE Nested(s) == /\ s.created <= s.lastSeen /\ s.lastSeen < s.created + SessionAbsolute
                        /\ s.stepUpUntil <= s.created + SessionAbsolute
<1>1. \A s \in sessions : Nested(s)
  BY DEF LifetimesNested
<1>2. SUFFICES ASSUME NEW t \in sessions'
               PROVE  Nested(t)
  BY DEF LifetimesNested
<1>3. now \in Nat /\ SessionAbsolute \in Nat \ {0} /\ StepUp \in Nat
  BY LimitsAssumption DEF TypeOK
<1>4. CASE sessions' \subseteq sessions
  BY <1>1, <1>4
<1>5. CASE SessionUsed
  <2>a. PICK s \in sessions : \E until \in {s.stepUpUntil, ElevatedUntil(s)} :
          /\ ~SessionExpired(s)
          /\ sessions' = (sessions \ {s}) \cup
               {SessionRow(s.token, s.account, s.created, Later(s.lastSeen), until)}
    BY <1>5 DEF SessionUsed
  <2>1. PICK until \in {s.stepUpUntil, ElevatedUntil(s)} :
          /\ ~SessionExpired(s)
          /\ sessions' = (sessions \ {s}) \cup
               {SessionRow(s.token, s.account, s.created, Later(s.lastSeen), until)}
    BY <2>a
  <2>2. /\ s.created \in Nat /\ s.lastSeen \in Nat /\ s.stepUpUntil \in Nat
    BY LimitsAssumption DEF TypeOK, Session
  <2>3. now < s.created + SessionAbsolute
    BY <1>3, <2>1, <2>2 DEF SessionExpired
  <2>4. ElevatedUntil(s) <= s.created + SessionAbsolute /\ until <= s.created + SessionAbsolute
    BY <1>1, <1>3, <2>2 DEF ElevatedUntil
  <2>5. s.created <= Later(s.lastSeen) /\ Later(s.lastSeen) < s.created + SessionAbsolute
    BY <1>1, <1>3, <2>2, <2>3 DEF Later
  <2>6. Nested(SessionRow(s.token, s.account, s.created, Later(s.lastSeen), until))
    BY <2>4, <2>5 DEF SessionRow
  <2> QED
    BY <1>1, <2>1, <2>6
<1>6. CASE SessionIssued
  <2>1. PICK k \in SessionTokens, kept \in SUBSET sessions, id \in {a.id : a \in accounts} :
          sessions' = kept \cup {SessionRow(k, id, now, now, 0)}
    BY <1>6, IssueSessionEffect DEF SessionIssued
  <2>2. Nested(SessionRow(k, id, now, now, 0))
    BY <1>3 DEF SessionRow
  <2> QED
    BY <1>1, <2>1, <2>2
<1> QED
  BY <1>4, <1>5, <1>6, SessionsStep

\* A row is written for an account that stays, and goes with a deleted one.
LEMMA RowsOwnedStep ==
    ASSUME TypeOK, KeysUnique, RowsOwned, CodesEnrolled, ApiNext
    PROVE  RowsOwned'
<1>1. \A a \in accounts : DeleteAccount(a) \/ \E b \in accounts' : b.id = a.id
  BY AccountsStep, ResetWrites DEF AccountsContinue
<1>2. ASSUME NEW r \in sessions'
      PROVE  \E a \in accounts : a.id = r.account
  BY SessionRowsStep DEF RowsOwned
<1>3. ASSUME NEW r \in challenges'
      PROVE  \E a \in accounts : a.id = r.account
  <2>1. CASE challenges' \subseteq challenges
    BY <2>1 DEF RowsOwned
  <2>2. CASE ChallengeCounted
    <3>1. \A c \in challenges' : \E d \in challenges : d.account = c.account
      BY <2>2 DEF ChallengeCounted, TypeOK, Challenge
    <3> QED
      BY <3>1 DEF RowsOwned
  <2>3. ASSUME NEW a \in accounts, CreatePendingChallenge(a)
        PROVE  \E b \in accounts : b.id = r.account
    BY <2>3, CreatePendingChallengeEffect DEF RowsOwned
  <2> QED
    BY <2>1, <2>2, <2>3, ChallengesStep
<1>4. ASSUME NEW r \in passkeys'
      PROVE  \E a \in accounts : a.id = r.account
  <2>1. CASE passkeys' \subseteq passkeys
    BY <2>1 DEF RowsOwned
  <2>2. CASE PasskeyStored
    <3>1. \E s \in sessions : r \in passkeys \/ r.account = s.account
      BY <2>2 DEF PasskeyStored
    <3> QED
      BY <3>1 DEF RowsOwned
  <2>3. ASSUME NEW p \in passkeys, NEW n, passkeys' = Counted(p, n)
        PROVE  \E a \in accounts : a.id = r.account
    <3>1. r \in passkeys \/ r.account = p.account
      BY <2>3 DEF Counted, TypeOK, Passkey
    <3> QED
      BY <3>1 DEF RowsOwned
  <2> QED
    BY <2>1, <2>2, <2>3, PasskeysStep
<1>5. ASSUME NEW r \in recovery'
      PROVE  \/ \E a \in accounts : a.id = r.account
             \/ \E a \in accounts' : a.id = r.account
  <2>1. CASE CodesReplaced
    <3>1. r \in recovery \/ \E a \in accounts' : a.id = r.account
      BY <2>1 DEF CodesReplaced, NotOfAccount, CodesOf
    <3> QED
      BY <3>1 DEF RowsOwned
  <2> QED
    BY <2>1, CodesTableStep DEF RowsOwned
<1>6. ASSUME NEW r \in recovery' \cup challenges' \cup sessions' \cup passkeys',
             NEW a \in accounts, a.id = r.account, DeleteAccount(a)
      PROVE  FALSE
  BY <1>6 DEF DeleteAccount, NotOfAccount
<1> QED
  BY <1>1, <1>2, <1>3, <1>4, <1>5, <1>6 DEF RowsOwned

\* A ceremony stays only while its session does, and its account's.
LEMMA CeremoniesBoundStep ==
    ASSUME TypeOK, SessionKeys, CeremoniesBound, ApiNext
    PROVE  CeremoniesBound'
<1>1. CeremoniesContinue
  BY CeremoniesStep
<1>2. SUFFICES ASSUME NEW c \in ceremonies'
               PROVE  /\ c.purpose = "login" => c.account = None /\ c.session = None
                      /\ c.purpose # "login" =>
                           \E t \in sessions' : t.token = c.session /\ t.account = c.account
  BY DEF CeremoniesBound
<1>3. CASE \E d \in ceremonies :
             /\ d.purpose = c.purpose /\ d.account = c.account /\ d.session = c.session
             /\ c.session # None => \E s \in sessions' : s.token = c.session
  <2>1. PICK d \in ceremonies :
             /\ d.purpose = c.purpose /\ d.account = c.account /\ d.session = c.session
             /\ c.session # None => \E s \in sessions' : s.token = c.session
    BY <1>3
  <2>2. CASE d.purpose = "login"
    BY <2>1, <2>2 DEF CeremoniesBound
  <2>3. CASE d.purpose # "login"
    <3>1. PICK s \in sessions : s.token = d.session /\ s.account = d.account
      BY <2>3 DEF CeremoniesBound
    <3>2. s.token # None /\ s.token \in issued
      BY NoneAssumption DEF TypeOK, Session, SessionKeys
    <3>3. PICK t \in sessions' : t.token = s.token
      BY <2>1, <3>1, <3>2
    <3>4. t.account = s.account
      BY <3>2, <3>3, SessionRowsStep DEF SessionKeys
    <3> QED
      BY <2>1, <2>3, <3>1, <3>3, <3>4
  <2> QED
    BY <2>2, <2>3
<1> QED
  BY <1>1, <1>3 DEF CeremoniesContinue

\* Codes are stored for enrolled accounts and go when an enrollment is reset.
LEMMA CodesEnrolledStep ==
    ASSUME TypeOK, KeysUnique, KeysUnique', RowsOwned, CodesEnrolled, ApiNext
    PROVE  CodesEnrolled'
<1>1. SUFFICES ASSUME NEW r \in recovery', NEW b \in accounts', b.id = r.account
               PROVE  b.enrollment = "active"
  BY DEF CodesEnrolled
<1>2. CASE r \in recovery
  <2>1. PICK a \in accounts : a.id = r.account
    BY <1>2 DEF RowsOwned
  <2>2. ASSUME AccountsContinue
        PROVE  b.enrollment = "active"
    <3>1. PICK d \in accounts : Continues(d, b)
      BY <1>1, <2>1, <2>2 DEF AccountsContinue, KeysUnique
    <3>2. d = a /\ a.enrollment = "active"
      BY <1>1, <1>2, <2>1, <3>1 DEF Continues, KeysUnique, CodesEnrolled
    <3> QED
      BY <3>1, <3>2 DEF Continues
  <2>3. ASSUME NEW x \in accounts, ResetTotp(x)
        PROVE  b.enrollment = "active"
    BY <1>1, <1>2, <2>3, ResetWrites DEF CodesEnrolled, NotOfAccount
  <2> QED
    BY <2>2, <2>3, AccountsStep
<1>3. CASE CodesReplaced /\ r \notin recovery
  <2>1. PICK a \in accounts', n \in Secrets : a.enrollment = "active" /\ r \in CodesOf(a.id, n)
    BY <1>3 DEF CodesReplaced, NotOfAccount
  <2>2. r.account = a.id
    BY <2>1 DEF CodesOf
  <2> QED
    BY <1>1, <2>1, <2>2 DEF KeysUnique
<1> QED
  BY <1>2, <1>3, CodesTableStep

\* The handler's TOTP proof stays bound to its session.
LEMMA HeldBoundStep ==
    ASSUME SessionKeys, HeldBound, ApiNext
    PROVE  HeldBound'
<1> USE DEF history, tables
<1>1. CASE UNCHANGED held
  <2>1. SUFFICES ASSUME held # None, held.kind = "totp"
                 PROVE  /\ held.session \in issued'
                        /\ \A s \in sessions' : s.token = held.session => s.account = held.account
    BY <1>1 DEF HeldBound
  <2> QED
    BY <2>1, SessionRowsStep DEF HeldBound
<1>2. CASE held' = None
  BY <1>2 DEF HeldBound
<1>3. ASSUME NEW s \in sessions, NEW a, NEW code, VerifyTotp(s, a, code)
      PROVE  HeldBound'
  BY <1>3 DEF VerifyTotp, HeldBound, SessionKeys
<1>4. ASSUME NEW c, NEW p, NEW a, NEW n, VerifyPasskeyLogin(c, p, a, n)
      PROVE  HeldBound'
  <2>1. held'.kind = "passkey"
    BY <1>4 DEF VerifyPasskeyLogin
  <2> QED
    BY <2>1 DEF HeldBound
<1>5. CASE PasswordLogin
  <2>1. ASSUME NEW a \in accounts, CreatePendingChallenge(a)
        PROVE  UNCHANGED held
    BY <2>1 DEF CreatePendingChallenge
  <2>2. ASSUME NEW c \in challenges, NEW a \in accounts,
               \/ BeginTotpEnrollment(c, a) \/ RejectSecondFactor(c, a)
               \/ \E code \in Codes : ConfirmTotpEnrollment(c, a, code)
               \/ \E code \in Codes : CompleteTotpChallenge(c, a, code)
               \/ \E r \in recovery : CompleteRecoveryChallenge(c, a, r)
        PROVE  UNCHANGED held
    BY <2>2
    DEF BeginTotpEnrollment, ConfirmTotpEnrollment, CompleteTotpChallenge,
        CompleteRecoveryChallenge, RejectSecondFactor
  <2> QED
    BY <1>1, <1>5, <2>1, <2>2 DEF PasswordLogin
<1>6. CASE SessionUse
  BY <1>1, <1>2, <1>3, <1>6
  DEF SessionUse, ListSessions, DropExpiredSession, AuthenticateSession, MarkStepUp, RevokeSession
<1>7. CASE PasskeyUse
  BY <1>1, <1>2, <1>4, <1>7, PasskeyUseKeeps
<1>8. CASE AccountManagement
  BY <1>1, <1>8
  DEF AccountManagement, SyncAccounts, ProvisionActiveAccount, SetPasswordChangeRequired,
      RevokeSessions, RotateTotp, RegenerateRecoveryCodes
<1>9. CASE RootCommands
  BY <1>1, <1>9 DEF RootCommands, BootstrapActiveAccount, SetRole, DeleteAccount
<1> QED
  BY <1>1, <1>2, <1>5, <1>6, <1>7, <1>8, <1>9
  DEF ApiNext, Next, HelperGivesUp, Tick, CreateAccount, ResetTotp

----------------------------------------------------------------------------
(* Every method keeps the tables within their limits *)

\* Rows that stay and one row more, where the evictions made room for it.
LEMMA TableExtended ==
    ASSUME NEW S, IsFiniteSet(S), NEW ids, NEW n \in Nat \ {0},
           \A id \in ids : AtMost(S, id, n),
           NEW kept \in SUBSET S, NEW q, AtMost(kept, q.account, n - 1)
    PROVE  /\ IsFiniteSet(kept \cup {q})
           /\ \A id \in ids : AtMost(kept \cup {q}, id, n)
<1>1. IsFiniteSet(kept) /\ \A id \in ids : AtMost(kept, id, n)
  BY FewerRows
<1>2. ASSUME NEW id \in ids
      PROVE  AtMost(kept \cup {q}, id, n)
  <2>1. CASE id = q.account
    BY <1>1, <2>1, RowAdded
  <2>2. CASE id # q.account
    BY <1>1, <2>2, RowAdded
  <2> QED
    BY <2>1, <2>2
<1> QED
  BY <1>1, <1>2, RowAdded

\* _issue_session_locked makes room among the account's own sessions.
LEMMA IssueSessionCounted ==
    ASSUME TypeOK, SessionsCounted, NEW id \in AccountIds, NEW left \in SUBSET sessions,
           IssueSession(id, left)
    PROVE  SessionsCounted'
<1> DEFINE live == {s \in left : ~SessionExpired(s)}
           own == OfAccount(live, id)
<1>1. PICK t \in SessionTokens \ issued, old \in Evictions(own, own, MaxSessions, SeenBefore(own)) :
        sessions' = (live \ old) \cup {SessionRow(t, id, now, now, 0)}
  BY DEF IssueSession
<1>2. MaxSessions \in Nat \ {0}
  BY LimitsAssumption
<1>3. IsFiniteSet(sessions) /\ live \subseteq sessions /\ AtMost(sessions, id, MaxSessions)
  BY DEF SessionsCounted
<1>4. IsFiniteSet(live) /\ AtMost(live, id, MaxSessions)
  BY <1>2, <1>3, FewerRows
<1>5. IsFiniteSet(own) /\ Cardinality(own) <= MaxSessions /\ own \subseteq live
  BY <1>4, PartCounted DEF AtMost, OfAccount
<1>6. Cardinality(own) = MaxSessions => own # {}
  BY <1>2, FS_EmptySet
<1> HIDE DEF own, live
<1>7. old \subseteq own /\ Cardinality(own \ old) <= MaxSessions - 1
  BY <1>1, <1>2, <1>5, <1>6, EvictionMakesRoom
<1> DEFINE kept == live \ old
           q == SessionRow(t, id, now, now, 0)
<1>8. q.account = id
  BY DEF SessionRow
<1>9. OfAccount(kept, id) = own \ old
  BY DEF OfAccount, own
<1>10. AtMost(kept, q.account, MaxSessions - 1) /\ kept \subseteq sessions
  BY <1>3, <1>7, <1>8, <1>9 DEF AtMost
<1>11. sessions' = kept \cup {q}
  BY <1>1
<1> HIDE DEF kept, q
<1>12. IsFiniteSet(kept \cup {q}) /\ \A x \in AccountIds : AtMost(kept \cup {q}, x, MaxSessions)
  BY <1>2, <1>10, TableExtended DEF SessionsCounted
<1> QED
  BY <1>11, <1>12 DEF SessionsCounted

\* No account ever has more sessions than MAX_SESSIONS_PER_ACCOUNT.
LEMMA SessionsCountedStep ==
    ASSUME TypeOK, SessionsCounted, ApiNext
    PROVE  SessionsCounted'
<1>1. MaxSessions \in Nat
  BY LimitsAssumption
<1>2. CASE sessions' \subseteq sessions
  BY <1>1, <1>2, FewerRows DEF SessionsCounted
<1>3. CASE SessionUsed
  <2>1. PICK s \in sessions : \E q :
          q.account = s.account /\ sessions' = (sessions \ {s}) \cup {q}
    BY <1>3 DEF SessionUsed, SessionRow
  <2> QED
    BY <1>1, <2>1, RowReplaced DEF SessionsCounted
<1>4. CASE SessionIssued
  BY <1>4, IssueSessionCounted DEF SessionIssued, TypeOK, Account
<1> QED
  BY <1>2, <1>3, <1>4, SessionsStep

\* create_pending_challenge finds a row to evict once the account has its
\* MaxChallenges >= 2 rows: at most one of them owns its pending enrollment.
LEMMA CreatePendingChallengeCounted ==
    ASSUME TypeOK, KeysUnique, KeysUnique', ChallengesCounted, NEW a \in accounts,
           CreatePendingChallenge(a)
    PROVE  ChallengesCounted'
<1> DEFINE live == {c \in challenges : ~ChallengeExpired(c)}
           own == OfAccount(live, a.id)
           free == Evictable(own, accounts')
<1>1. PICK t \in LoginTokens \ issued,
           old \in Evictions(own, free, MaxChallenges, CreatedBefore(own)) :
        challenges' = (live \ old) \cup
          {[token |-> t, account |-> a.id, created |-> now, failures |-> 0]}
  BY DEF CreatePendingChallenge
<1>2. MaxChallenges \in Nat \ {0, 1} /\ a.id \in AccountIds
  BY LimitsAssumption DEF TypeOK, Account
<1>3. /\ IsFiniteSet(challenges) /\ live \subseteq challenges
      /\ AtMost(challenges, a.id, MaxChallenges)
  BY <1>2 DEF ChallengesCounted
<1>4. IsFiniteSet(live) /\ AtMost(live, a.id, MaxChallenges)
  BY <1>2, <1>3, FewerRows
<1>5. IsFiniteSet(own) /\ Cardinality(own) <= MaxChallenges /\ own \subseteq live
  BY <1>4, PartCounted DEF AtMost, OfAccount
<1>6. \A c, d \in own \ free : c = d
  BY <1>3, <1>5 DEF Evictable, KeysUnique, OfAccount
<1>7. Cardinality(own) = MaxChallenges => free # {}
  <2>1. SUFFICES ASSUME Cardinality(own) = MaxChallenges, free = {}
                 PROVE  FALSE
    OBVIOUS
  <2>2. \A c, d \in own : c = d
    BY <1>6, <2>1
  <2> HIDE DEF own
  <2>3. own = {} \/ \E c : own = {c}
    BY <2>2
  <2> QED
    BY <1>2, <2>1, <2>3, FS_EmptySet, FS_Singleton
<1>8. free \subseteq own
  BY DEF Evictable
<1> HIDE DEF own, live, free
<1>9. old \subseteq own /\ Cardinality(own \ old) <= MaxChallenges - 1
  BY <1>1, <1>2, <1>5, <1>7, <1>8, EvictionMakesRoom
<1> DEFINE kept == live \ old
           q == [token |-> t, account |-> a.id, created |-> now, failures |-> 0]
<1>10. OfAccount(kept, a.id) = own \ old
  BY DEF OfAccount, own
<1>11. AtMost(kept, q.account, MaxChallenges - 1) /\ kept \subseteq challenges
  BY <1>3, <1>9, <1>10 DEF AtMost
<1>12. challenges' = kept \cup {q}
  BY <1>1
<1> HIDE DEF kept, q
<1>13. IsFiniteSet(kept \cup {q}) /\ \A x \in AccountIds : AtMost(kept \cup {q}, x, MaxChallenges)
  BY <1>2, <1>11, TableExtended DEF ChallengesCounted
<1> QED
  BY <1>12, <1>13 DEF ChallengesCounted

\* No account ever has more pending challenges than _MAX_CHALLENGES_PER_ACCOUNT.
LEMMA ChallengesCountedStep ==
    ASSUME TypeOK, KeysUnique, KeysUnique', ChallengesCounted, ApiNext
    PROVE  ChallengesCounted'
<1>1. MaxChallenges \in Nat
  BY LimitsAssumption
<1>2. CASE challenges' \subseteq challenges
  BY <1>1, <1>2, FewerRows DEF ChallengesCounted
<1>3. CASE ChallengeCounted
  <2>1. PICK c \in challenges : \E q :
          q.account = c.account /\ challenges' = (challenges \ {c}) \cup {q}
    BY <1>3 DEF ChallengeCounted, TypeOK, Challenge
  <2> QED
    BY <1>1, <2>1, RowReplaced DEF ChallengesCounted
<1> QED
  BY <1>2, <1>3, ChallengesStep, CreatePendingChallengeCounted

\* No account ever has more passkeys than MAX_PASSKEYS_PER_ACCOUNT.
LEMMA PasskeysCountedStep ==
    ASSUME TypeOK, PasskeysCounted, ApiNext
    PROVE  PasskeysCounted'
<1>1. MaxPasskeys \in Nat \ {0}
  BY LimitsAssumption
<1>2. CASE passkeys' \subseteq passkeys
  BY <1>1, <1>2, FewerRows DEF PasskeysCounted
<1>3. ASSUME NEW p \in passkeys, NEW n, passkeys' = Counted(p, n)
      PROVE  PasskeysCounted'
  <2>1. \E q : q.account = p.account /\ passkeys' = (passkeys \ {p}) \cup {q}
    BY <1>3 DEF Counted, TypeOK, Passkey
  <2> QED
    BY <1>1, <2>1, RowReplaced DEF PasskeysCounted
<1>4. CASE PasskeyStored
  <2>1. PICK s \in sessions, k \in Credentials, n \in 0 .. MaxSignCount :
          /\ MayRegister(s)
          /\ passkeys' = passkeys \cup {[credential |-> k, account |-> s.account, signCount |-> n]}
    BY <1>4 DEF PasskeyStored
  <2> DEFINE q == [credential |-> k, account |-> s.account, signCount |-> n]
  <2>2. q.account = s.account /\ passkeys' = passkeys \cup {q}
    BY <2>1
  <2>3. Cardinality(OfAccount(passkeys, s.account)) < MaxPasskeys
    BY <2>1 DEF MayRegister
  <2>4. Cardinality(OfAccount(passkeys, s.account)) \in Nat
    BY PartCounted DEF PasskeysCounted, OfAccount
  <2>5. AtMost(passkeys, q.account, MaxPasskeys - 1)
    BY <1>1, <2>2, <2>3, <2>4 DEF AtMost
  <2> HIDE DEF q
  <2> QED
    BY <1>1, <2>2, <2>5, TableExtended DEF PasskeysCounted
<1> QED
  BY <1>2, <1>3, <1>4, PasskeysStep

\* No account ever has more codes than RECOVERY_CODE_COUNT.
LEMMA CodesCountedStep ==
    ASSUME TypeOK, KeysUnique, RowsOwned, CodesEnrolled, CodesCounted, ApiNext
    PROVE  CodesCounted'
<1>1. RecoveryCount \in Nat
  BY LimitsAssumption
<1>2. CASE recovery' \subseteq recovery
  BY <1>1, <1>2, FewerRows DEF CodesCounted
<1>3. CASE CodesReplaced
  <2>1. PICK x \in {a.id : a \in accounts'}, n \in Secrets :
          recovery' = NotOfAccount(recovery, x) \cup CodesOf(x, n)
    BY <1>3 DEF CodesReplaced
  <2>2. IsFiniteSet(recovery')
    BY <2>1, CodesOfCounted, PartCounted, FS_Union DEF CodesCounted, NotOfAccount
  <2>3. \A r \in CodesOf(x, n) : r.account = x
    BY DEF CodesOf
  <2>4. ASSUME NEW id \in AccountIds
        PROVE  AtMost(recovery', id, RecoveryCount)
    <3>1. CASE id = x
      <4>1. OfAccount(recovery', id) = CodesOf(x, n)
        BY <2>1, <2>3, <3>1 DEF OfAccount, NotOfAccount
      <4> QED
        BY <4>1, CodesOfCounted DEF AtMost
    <3>2. CASE id # x
      <4>1. OfAccount(recovery', id) = OfAccount(recovery, id)
        BY <2>1, <2>3, <3>2 DEF OfAccount, NotOfAccount
      <4> QED
        BY <4>1 DEF AtMost, CodesCounted
    <3> QED
      BY <3>1, <3>2
  <2> QED
    BY <2>2, <2>4 DEF CodesCounted
<1> QED
  BY <1>2, <1>3, CodesTableStep

\* A ceremony is begun: for nobody, or for a stored session.
CeremonyBegun ==
    \/ CreateCeremony("login", None, None)
    \/ \E s \in sessions, purpose \in {"registration", "step_up"} :
          CreateCeremony(purpose, s.account, s.token)

\* A failed attempt is counted in the row of a ceremony.
CeremonyFailed ==
    \E c \in ceremonies :
        ceremonies' = (ceremonies \ {c}) \cup {[c EXCEPT !.failures = @ + 1]}

\* Every method shortens the table of ceremonies, counts a failure, or begins one.
LEMMA CeremoniesTableStep ==
    ASSUME ApiNext
    PROVE  ceremonies' \subseteq ceremonies \/ CeremonyFailed \/ CeremonyBegun
<1> USE DEF history, tables
<1>1. ASSUME NEW c \in ceremonies, RecordCeremonyFailure(c)
      PROVE  ceremonies' \subseteq ceremonies \/ CeremonyFailed
  BY <1>1 DEF RecordCeremonyFailure, CeremonyFailed
<1>2. ASSUME NEW cs, cs \subseteq ceremonies, ceremonies' = Cascade(cs, sessions')
      PROVE  ceremonies' \subseteq ceremonies
  BY <1>2 DEF Cascade
<1>3. ASSUME NEW id, ceremonies' = Cascade(NotOfAccount(ceremonies, id), sessions')
      PROVE  ceremonies' \subseteq ceremonies
  BY <1>3 DEF Cascade, NotOfAccount
<1>4. CASE PasswordLogin
  <2>1. ASSUME NEW a \in accounts, CreatePendingChallenge(a)
        PROVE  UNCHANGED ceremonies
    BY <2>1 DEF CreatePendingChallenge
  <2>2. ASSUME NEW c \in challenges, NEW a \in accounts,
               \/ BeginTotpEnrollment(c, a) \/ RejectSecondFactor(c, a)
               \/ \E code \in Codes : ConfirmTotpEnrollment(c, a, code)
               \/ \E code \in Codes : CompleteTotpChallenge(c, a, code)
               \/ \E r \in recovery : CompleteRecoveryChallenge(c, a, r)
        PROVE  ceremonies' \subseteq ceremonies
    BY <1>2, <1>3, <2>2
    DEF BeginTotpEnrollment, ConfirmTotpEnrollment, CompleteTotpChallenge,
        CompleteRecoveryChallenge, RejectSecondFactor
  <2> QED
    BY <1>4, <2>1, <2>2 DEF PasswordLogin
<1>5. CASE SessionUse
  BY <1>2, <1>5
  DEF SessionUse, ListSessions, DropExpiredSession, AuthenticateSession, MarkStepUp, RevokeSession,
      VerifyTotp
<1>6. CASE PasskeyUse
  <2>1. ASSUME \/ BeginPasskeyLogin
               \/ \E s \in sessions : BeginPasskeyRegistration(s) \/ BeginPasskeyStepUp(s)
        PROVE  CeremonyBegun
    BY <2>1 DEF BeginPasskeyLogin, BeginPasskeyRegistration, BeginPasskeyStepUp, CeremonyBegun
  <2>2. ASSUME NEW c \in ceremonies,
               RejectPasskeyLogin(c) \/ \E s \in sessions : RejectPasskeyResponse(s, c)
        PROVE  ceremonies' \subseteq ceremonies \/ CeremonyFailed
    BY <1>1, <2>2 DEF RejectPasskeyLogin, RejectPasskeyResponse
  <2>3. ASSUME NEW s \in sessions, NEW c \in ceremonies,
               \/ \E k, n : CompletePasskeyRegistration(s, c, k, n)
               \/ \E p, n : CompletePasskeyStepUp(s, c, p, n)
        PROVE  ceremonies' \subseteq ceremonies
    BY <2>3 DEF CompletePasskeyRegistration, CompletePasskeyStepUp
  <2>4. ASSUME NEW c, NEW p, NEW a, NEW n, VerifyPasskeyLogin(c, p, a, n)
        PROVE  ceremonies' \subseteq ceremonies
    BY <2>4 DEF VerifyPasskeyLogin
  <2> QED
    BY <1>2, <1>6, <2>1, <2>2, <2>3, <2>4
    DEF PasskeyUse, DeletePasskey, IssueVerifiedPasskeySession
<1>7. ASSUME NEW a, NEW b, NEW andSessions, RevokeAuthentication(a, b, andSessions)
      PROVE  ceremonies' \subseteq ceremonies
  BY <1>3, <1>7 DEF RevokeAuthentication
<1>8. ASSUME NEW a, NEW b, NEW codes, ReplaceFactor(a, b, codes)
      PROVE  ceremonies' \subseteq ceremonies
  BY <1>3, <1>8 DEF ReplaceFactor
<1>9. CASE AccountManagement
  BY <1>7, <1>8, <1>9
  DEF AccountManagement, SyncAccounts, ProvisionActiveAccount, SetPasswordChangeRequired,
      RevokeSessions, RotateTotp, RegenerateRecoveryCodes
<1>10. CASE RootCommands
  BY <1>3, <1>7, <1>8, <1>10
  DEF RootCommands, BootstrapActiveAccount, SetRole, DeleteAccount
<1> QED
  BY <1>4, <1>5, <1>6, <1>8, <1>9, <1>10
  DEF ApiNext, Next, HelperGivesUp, Tick, CreateAccount, ResetTotp

\* Begun ceremonies evict older ones of their kind: _create_passkey_challenge_locked.
LEMMA CreateCeremonyRoom ==
    ASSUME CeremoniesCounted, CeremoniesBound, NEW purpose, NEW id, NEW session,
           CreateCeremony(purpose, id, session),
           purpose = "login" \/ id \in AccountIds
    PROVE  \E t \in CeremonyTokens, kept \in SUBSET ceremonies :
              /\ ceremonies' = kept \cup
                   {[token |-> t, purpose |-> purpose, account |-> id, session |-> session,
                     created |-> now, failures |-> 0]}
              /\ purpose = "login" =>
                   Cardinality(LoginCeremonies(kept)) <= MaxLoginCeremonies - 1
              /\ purpose # "login" => AtMost(kept, id, MaxCeremonies - 1)
<1> DEFINE live == {c \in ceremonies : ~ChallengeExpired(c)}
           rivals == {c \in live : IF purpose = "login" THEN c.purpose = "login"
                                   ELSE c.purpose # "login" /\ c.account = id}
           cap == IF purpose = "login" THEN MaxLoginCeremonies ELSE MaxCeremonies
<1>1. PICK t \in CeremonyTokens \ issued, old \in Evictions(rivals, rivals, cap, CreatedBefore(rivals)) :
        ceremonies' = (live \ old) \cup
             {[token |-> t, purpose |-> purpose, account |-> id, session |-> session,
               created |-> now, failures |-> 0]}
  BY DEF CreateCeremony
<1>2. cap \in Nat \ {0}
  BY LimitsAssumption
<1>3. IsFiniteSet(rivals) /\ IsFiniteSet(live)
  BY PartCounted DEF CeremoniesCounted
<1>4. purpose = "login" => rivals = LoginCeremonies(live)
  BY DEF LoginCeremonies
<1>5. purpose # "login" => rivals = OfAccount(live, id)
  BY NoneAssumption DEF OfAccount, CeremoniesBound
<1>6. Cardinality(rivals) <= cap
  <2>1. CASE purpose = "login"
    <3>1. /\ LoginCeremonies(live) \subseteq LoginCeremonies(ceremonies)
          /\ LoginCeremonies(ceremonies) \subseteq ceremonies
      BY DEF LoginCeremonies
    <3>2. IsFiniteSet(LoginCeremonies(ceremonies))
      BY <3>1, PartCounted DEF CeremoniesCounted
    <3>3. Cardinality(LoginCeremonies(live)) <= MaxLoginCeremonies
      BY <1>2, <2>1, <3>1, <3>2, PartCounted DEF CeremoniesCounted
    <3> QED
      BY <1>4, <2>1, <3>3
  <2>2. CASE purpose # "login"
    <3>1. AtMost(live, id, MaxCeremonies)
      BY <1>2, <2>2, FewerRows DEF CeremoniesCounted
    <3> QED
      BY <1>5, <2>2, <3>1 DEF AtMost
  <2> QED
    BY <2>1, <2>2
<1>7. Cardinality(rivals) = cap => rivals # {}
  BY <1>2, FS_EmptySet
<1> HIDE DEF rivals, cap
<1>8. old \subseteq rivals /\ Cardinality(rivals \ old) <= cap - 1
  BY <1>1, <1>2, <1>3, <1>6, <1>7, EvictionMakesRoom
<1> DEFINE kept == live \ old
<1>9. purpose = "login" => LoginCeremonies(kept) = rivals \ old
  BY <1>4 DEF LoginCeremonies
<1>10. purpose # "login" => OfAccount(kept, id) = rivals \ old
  BY <1>5 DEF OfAccount
<1>11. /\ purpose = "login" => Cardinality(LoginCeremonies(kept)) <= MaxLoginCeremonies - 1
       /\ purpose # "login" => AtMost(kept, id, MaxCeremonies - 1)
  BY <1>8, <1>9, <1>10 DEF AtMost, cap
<1>12. kept \in SUBSET ceremonies
  OBVIOUS
<1> HIDE DEF kept
<1> QED
  BY <1>1, <1>11, <1>12 DEF kept

\* Writing one row of a finite set anew does not make it larger.
LEMMA Rewritten ==
    ASSUME NEW R, IsFiniteSet(R), NEW r \in R, NEW q
    PROVE  Cardinality((R \ {r}) \cup {q}) <= Cardinality(R)
<1>1. Cardinality(R) \in Nat
  BY FS_CardinalityType
<1>2. IsFiniteSet(R \ {r}) /\ Cardinality(R \ {r}) = Cardinality(R) - 1
  BY FS_RemoveElement
<1>3. /\ Cardinality((R \ {r}) \cup {q}) \in Nat
      /\ Cardinality((R \ {r}) \cup {q}) <= Cardinality(R \ {r}) + 1
  BY <1>2, OneMore
<1> QED
  BY <1>1, <1>2, <1>3

\* The limits on ceremonies hold for every account and for all logins together.
LEMMA CeremoniesCountedStep ==
    ASSUME TypeOK, CeremoniesBound, CeremoniesCounted, ApiNext
    PROVE  CeremoniesCounted'
<1>1. MaxCeremonies \in Nat \ {0} /\ MaxLoginCeremonies \in Nat \ {0}
  BY LimitsAssumption
<1>2. IsFiniteSet(LoginCeremonies(ceremonies))
  BY PartCounted DEF CeremoniesCounted, LoginCeremonies
<1>3. ASSUME NEW T, T \subseteq ceremonies
      PROVE  /\ IsFiniteSet(T) /\ \A id \in AccountIds : AtMost(T, id, MaxCeremonies)
             /\ IsFiniteSet(LoginCeremonies(T))
             /\ Cardinality(LoginCeremonies(T)) <= MaxLoginCeremonies
  <2>1. LoginCeremonies(T) \subseteq LoginCeremonies(ceremonies)
    BY <1>3 DEF LoginCeremonies
  <2>2. /\ IsFiniteSet(LoginCeremonies(T)) /\ Cardinality(LoginCeremonies(T)) \in Nat
        /\ Cardinality(LoginCeremonies(ceremonies)) \in Nat
        /\ Cardinality(LoginCeremonies(T)) <= Cardinality(LoginCeremonies(ceremonies))
    BY <1>2, <2>1, PartCounted
  <2>3. Cardinality(LoginCeremonies(ceremonies)) <= MaxLoginCeremonies
    BY DEF CeremoniesCounted
  <2>4. Cardinality(LoginCeremonies(T)) <= MaxLoginCeremonies
    BY <1>1, <2>2, <2>3
  <2> QED
    BY <1>1, <1>3, <2>2, <2>4, FewerRows DEF CeremoniesCounted
<1>4. CASE ceremonies' \subseteq ceremonies
  BY <1>3, <1>4 DEF CeremoniesCounted
<1>5. CASE CeremonyFailed
  <2>1. PICK c \in ceremonies : ceremonies' = (ceremonies \ {c}) \cup {[c EXCEPT !.failures = @ + 1]}
    BY <1>5 DEF CeremonyFailed
  <2> DEFINE q == [c EXCEPT !.failures = @ + 1]
             L == LoginCeremonies(ceremonies)
  <2>2. q.account = c.account /\ q.purpose = c.purpose /\ ceremonies' = (ceremonies \ {c}) \cup {q}
    BY <2>1 DEF TypeOK, Ceremony
  <2> HIDE DEF q
  <2>3. IsFiniteSet(ceremonies') /\ \A id \in AccountIds : AtMost(ceremonies', id, MaxCeremonies)
    BY <1>1, <2>2, RowReplaced DEF CeremoniesCounted
  <2>4. CASE c.purpose # "login"
    <3>1. LoginCeremonies(ceremonies') = L
      BY <2>2, <2>4 DEF LoginCeremonies
    <3> QED
      BY <2>3, <3>1 DEF CeremoniesCounted
  <2>5. CASE c.purpose = "login"
    <3>1. LoginCeremonies(ceremonies') = (L \ {c}) \cup {q} /\ c \in L
      BY <2>2, <2>5 DEF LoginCeremonies
    <3>2. Cardinality((L \ {c}) \cup {q}) <= Cardinality(L) /\ Cardinality(L) <= MaxLoginCeremonies
      BY <1>2, <3>1, Rewritten DEF CeremoniesCounted
    <3>3. Cardinality(L) \in Nat /\ Cardinality((L \ {c}) \cup {q}) \in Nat
      BY <1>2, FS_CardinalityType, FS_RemoveElement, OneMore
    <3>4. Cardinality((L \ {c}) \cup {q}) <= MaxLoginCeremonies
      BY <1>1, <3>2, <3>3
    <3> QED
      BY <2>3, <3>1, <3>4 DEF CeremoniesCounted
  <2> QED
    BY <2>4, <2>5
<1>6. CASE CreateCeremony("login", None, None)
  <2>1. PICK t \in CeremonyTokens, kept \in SUBSET ceremonies :
          /\ ceremonies' = kept \cup
               {[token |-> t, purpose |-> "login", account |-> None, session |-> None,
                 created |-> now, failures |-> 0]}
          /\ Cardinality(LoginCeremonies(kept)) <= MaxLoginCeremonies - 1
    BY <1>6, CreateCeremonyRoom
  <2> DEFINE q == [token |-> t, purpose |-> "login", account |-> None, session |-> None,
                   created |-> now, failures |-> 0]
             L == LoginCeremonies(kept)
  <2>2. q.account = None /\ q.purpose = "login" /\ ceremonies' = kept \cup {q}
    BY <2>1
  <2> HIDE DEF q
  <2>3. IsFiniteSet(ceremonies')
    BY <1>3, <2>2, FS_AddElement
  <2>4. ASSUME NEW id \in AccountIds
        PROVE  AtMost(ceremonies', id, MaxCeremonies)
    <3>1. OfAccount(ceremonies', id) = OfAccount(kept, id)
      BY <2>2, NoneAssumption DEF OfAccount
    <3> QED
      BY <1>3, <3>1 DEF AtMost
  <2>5. LoginCeremonies(ceremonies') = L \cup {q}
    BY <2>2 DEF LoginCeremonies
  <2>6. IsFiniteSet(L)
    BY <1>3
  <2> HIDE DEF L
  <2>7. /\ Cardinality(L) \in Nat /\ Cardinality(L \cup {q}) \in Nat
        /\ Cardinality(L \cup {q}) <= Cardinality(L) + 1
    BY <2>6, OneMore
  <2>8. Cardinality(L \cup {q}) <= MaxLoginCeremonies
    BY <1>1, <2>1, <2>7 DEF L
  <2> QED
    BY <2>3, <2>4, <2>5, <2>8 DEF CeremoniesCounted
<1>7. ASSUME NEW s \in sessions, NEW purpose \in {"registration", "step_up"},
             CreateCeremony(purpose, s.account, s.token)
      PROVE  CeremoniesCounted'
  <2>1. s.account \in AccountIds /\ purpose # "login"
    BY DEF TypeOK, Session
  <2>2. PICK t \in CeremonyTokens, kept \in SUBSET ceremonies :
          /\ ceremonies' = kept \cup
               {[token |-> t, purpose |-> purpose, account |-> s.account, session |-> s.token,
                 created |-> now, failures |-> 0]}
          /\ AtMost(kept, s.account, MaxCeremonies - 1)
    BY <1>7, <2>1, CreateCeremonyRoom
  <2> DEFINE q == [token |-> t, purpose |-> purpose, account |-> s.account, session |-> s.token,
                   created |-> now, failures |-> 0]
  <2>3. q.account = s.account /\ q.purpose # "login" /\ ceremonies' = kept \cup {q}
    BY <2>1, <2>2
  <2> HIDE DEF q
  <2>4. IsFiniteSet(ceremonies') /\ \A id \in AccountIds : AtMost(ceremonies', id, MaxCeremonies)
    <3>1. AtMost(kept, q.account, MaxCeremonies - 1)
      BY <2>2, <2>3
    <3> QED
      BY <1>1, <2>3, <3>1, TableExtended DEF CeremoniesCounted
  <2>5. LoginCeremonies(ceremonies') = LoginCeremonies(kept)
    BY <2>3 DEF LoginCeremonies
  <2> QED
    BY <1>3, <2>4, <2>5 DEF CeremoniesCounted
<1> QED
  BY <1>4, <1>5, <1>6, <1>7, CeremoniesTableStep DEF CeremonyBegun

----------------------------------------------------------------------------
(* The tables are always sound *)

\* An empty store satisfies the inductive invariant.
LEMMA TablesInit == Init => TablesInv
<1> SUFFICES ASSUME Init
             PROVE  TablesInv
  OBVIOUS
<1>1. IsFiniteSet({}) /\ Cardinality({}) = 0
  BY FS_EmptySet
<1>2. \A id, n : n \in Nat => AtMost({}, id, n)
  BY <1>1 DEF AtMost, OfAccount
<1>3. Cardinality(LoginCeremonies({})) = 0
  BY <1>1 DEF LoginCeremonies
<1>4. /\ SessionsCounted /\ ChallengesCounted /\ PasskeysCounted /\ CodesCounted
      /\ CeremoniesCounted
  BY <1>1, <1>2, <1>3, LimitsAssumption
  DEF Init, SessionsCounted, ChallengesCounted, PasskeysCounted, CodesCounted, CeremoniesCounted
<1>5. /\ SessionKeys /\ RowsOwned /\ CeremoniesBound /\ CodesEnrolled /\ LifetimesNested
      /\ HeldBound
  BY DEF Init, SessionKeys, RowsOwned, CeremoniesBound, CodesEnrolled, LifetimesNested, HeldBound
<1> QED
  BY <1>4, <1>5, TypeInit, KeysInit DEF TablesInv

\* Every method keeps the inductive invariant.
LEMMA TablesStep ==
    ASSUME TablesInv, [ApiNext]_vars
    PROVE  TablesInv'
<1>1. CASE UNCHANGED vars
  BY <1>1
  DEF TablesInv, TypeOK, KeysUnique, SessionKeys, RowsOwned, CeremoniesBound, CodesEnrolled,
      SessionsCounted, ChallengesCounted, PasskeysCounted, CodesCounted, CeremoniesCounted,
      LifetimesNested, HeldBound, vars, tables, history
<1>2. CASE ApiNext
  <2>1. TypeOK' /\ KeysUnique'
    BY <1>2, TypeStep, KeysStep DEF TablesInv
  <2>2. SessionKeys' /\ RowsOwned' /\ CeremoniesBound' /\ CodesEnrolled'
    BY <1>2, <2>1, SessionKeysStep, RowsOwnedStep, CeremoniesBoundStep, CodesEnrolledStep
    DEF TablesInv
  <2>3. SessionsCounted' /\ ChallengesCounted' /\ PasskeysCounted' /\ CodesCounted'
    BY <1>2, <2>1, SessionsCountedStep, ChallengesCountedStep, PasskeysCountedStep,
       CodesCountedStep DEF TablesInv
  <2>4. CeremoniesCounted' /\ LifetimesNested' /\ HeldBound'
    BY <1>2, CeremoniesCountedStep, LifetimesStep, HeldBoundStep DEF TablesInv
  <2> QED
    BY <2>1, <2>2, <2>3, <2>4 DEF TablesInv
<1> QED
  BY <1>1, <1>2

\* The inductive invariant says what the run checks.
LEMMA TablesImplied == TablesInv => TablesSound
<1> SUFFICES ASSUME TablesInv
             PROVE  TablesSound
  OBVIOUS
<1>1. NoOrphans
  BY DEF TablesInv, RowsOwned, CeremoniesBound, NoOrphans
<1>2. TablesBounded
  <2>1. \A a \in accounts : a.id \in AccountIds
    BY DEF TablesInv, TypeOK, Account
  <2> QED
    BY <2>1
    DEF TablesInv, TablesBounded, SessionsCounted, ChallengesCounted, PasskeysCounted,
        CodesCounted, CeremoniesCounted, AtMost, LoginCeremonies
<1> QED
  BY <1>1, <1>2 DEF TablesInv, TablesSound

\* Whatever methods are called and however the clock moves, rows belong to
\* stored accounts, a ceremony to a live session of its account, every limit
\* on rows per account holds, and no session's elevation or last use outlives
\* the session.
THEOREM TablesAlwaysSound == ApiSpec => []TablesSound
<1>1. TablesInv /\ [ApiNext]_vars => TablesInv'
  BY TablesStep
<1> QED
  BY <1>1, TablesInit, TablesImplied, PTL DEF ApiSpec

----------------------------------------------------------------------------
(* A second factor before every session *)

\* An account that a row of these tables names is enrolled.
LEMMA NamedEnrolled ==
    ASSUME TablesInv, EnrolledBeforeSession, NEW r \in sessions \cup passkeys \cup ceremonies,
           NEW a \in accounts, a.id = r.account
    PROVE  a.enrollment = "active"
  BY DEF EnrolledBeforeSession, OfAccount

\* An account that a row names is stored.
LEMMA NamedStored ==
    ASSUME TablesInv, NEW r \in sessions \cup passkeys \cup ceremonies, r.account # None
    PROVE  \E a \in accounts : a.id = r.account
  BY DEF TablesInv, RowsOwned, CeremoniesBound

\* A new row is for an account that had one of these rows, or that the step
\* leaves enrolled.
LEMMA RowsEarned ==
    ASSUME EnrolledInv, Next, KeysUnique',
           NEW r \in sessions' \cup passkeys' \cup ceremonies'
    PROVE  \/ r.account = None
           \/ \E q \in sessions \cup passkeys \cup ceremonies : q.account = r.account
           \/ \A b \in accounts' : b.id = r.account => b.enrollment = "active"
<1> DEFINE Good(id) ==
             \/ \E q \in sessions \cup passkeys \cup ceremonies : q.account = id
             \/ \A b \in accounts' : b.id = id => b.enrollment = "active"
<1>1. ApiNext
  BY DEF ApiNext
<1>2. ASSUME NEW t \in sessions'
      PROVE  Good(t.account)
  <2>1. CASE sessions' \subseteq sessions
    BY <2>1
  <2>2. CASE SessionUsed
    <3>1. \E s \in sessions : s.account = t.account
      BY <2>2 DEF SessionUsed, SessionRow
    <3> QED
      BY <3>1
  <2>3. CASE SessionIssued
    <3>1. PICK a \in accounts, left \in SUBSET sessions : IssueSession(a.id, left) /\ Earned(a)
      BY <2>3 DEF SessionIssued
    <3>2. t \in sessions \/ t.account = a.id
      BY <3>1, IssueSessionEffect DEF SessionRow
    <3>3. \A b \in accounts' : b.id = a.id => b.enrollment = "active"
      BY <3>1 DEF Earned, KeysUnique, EnrolledInv, HeldEnrolled
    <3> QED
      BY <3>2, <3>3
  <2> QED
    BY <1>1, <2>1, <2>2, <2>3, SessionsStep
<1>3. ASSUME NEW p \in passkeys'
      PROVE  Good(p.account)
  <2>1. CASE PasskeyStored
    <3>1. \E s \in sessions : p \in passkeys \/ p.account = s.account
      BY <2>1 DEF PasskeyStored
    <3> QED
      BY <3>1
  <2>2. ASSUME NEW q \in passkeys, NEW n, passkeys' = Counted(q, n)
        PROVE  Good(p.account)
    <3>1. p \in passkeys \/ p.account = q.account
      BY <2>2 DEF Counted, EnrolledInv, TablesInv, TypeOK, Passkey
    <3> QED
      BY <3>1
  <2> QED
    BY <1>1, <2>1, <2>2, PasskeysStep
<1>4. ASSUME NEW c \in ceremonies'
      PROVE  c.account = None \/ Good(c.account)
  <2>1. CeremoniesContinue
    BY <1>1, CeremoniesStep DEF EnrolledInv, TablesInv
  <2> HIDE DEF Good
  <2>2. CASE \E d \in ceremonies : d.account = c.account
    BY <2>2 DEF Good
  <2> QED
    BY <1>2, <2>1, <2>2 DEF CeremoniesContinue
<1> QED
  BY <1>2, <1>3, <1>4

\* The deployed processes keep the enrollment before every session.
LEMMA EnrolledStep ==
    ASSUME EnrolledInv, Next, TablesInv'
    PROVE  EnrolledBeforeSession'
<1>1. KeysUnique' /\ AccountsContinue
  BY AccountsStep DEF TablesInv, EnrolledInv
<1>2. SUFFICES ASSUME NEW b \in accounts', b.enrollment # "active",
                      NEW r \in sessions' \cup passkeys' \cup ceremonies', r.account = b.id
               PROVE  FALSE
  BY DEF EnrolledBeforeSession, OfAccount
<1>3. b.id # None
  BY <1>2, NoneAssumption DEF TablesInv, TypeOK, Account
<1>4. PICK q \in sessions \cup passkeys \cup ceremonies : q.account = b.id
  BY <1>1, <1>2, <1>3, RowsEarned
<1>5. PICK a \in accounts : a.id = b.id
  BY <1>3, <1>4, NamedStored DEF EnrolledInv
<1>6. a.enrollment = "active"
  BY <1>4, <1>5, NamedEnrolled DEF EnrolledInv
<1>7. PICK d \in accounts : Continues(d, b)
  BY <1>1, <1>5 DEF AccountsContinue, EnrolledInv, TablesInv, KeysUnique
<1>8. d = a
  BY <1>5, <1>7 DEF Continues, EnrolledInv, TablesInv, KeysUnique
<1> QED
  BY <1>2, <1>6, <1>7, <1>8 DEF Continues

\* The account a passkey was verified for stays enrolled while it is stored,
\* whatever the root commands do in between.
LEMMA HeldEnrolledStep ==
    ASSUME EnrolledInv, Next
    PROVE  HeldEnrolled'
<1> USE DEF history, tables
<1>1. AccountsContinue /\ issued \subseteq issued'
  BY AccountsStep, IssuedGrows DEF TablesInv, EnrolledInv, ApiNext
<1>2. CASE UNCHANGED held
  <2>1. SUFFICES ASSUME held # None, held.kind = "passkey"
                 PROVE  /\ held.account \in issued'
                        /\ \A b \in accounts' : b.id = held.account => b.enrollment = "active"
    BY <1>2 DEF HeldEnrolled
  <2>2. /\ held.account \in issued
        /\ \A a \in accounts : a.id = held.account => a.enrollment = "active"
    BY <2>1 DEF EnrolledInv, HeldEnrolled
  <2> QED
    BY <1>1, <2>2 DEF AccountsContinue, Continues
<1>3. CASE held' = None
  BY <1>3 DEF HeldEnrolled
<1>4. ASSUME NEW s, NEW a, NEW code, VerifyTotp(s, a, code)
      PROVE  HeldEnrolled'
  <2>1. held'.kind = "totp"
    BY <1>4 DEF VerifyTotp
  <2> QED
    BY <2>1 DEF HeldEnrolled
<1>5. ASSUME NEW c, NEW p \in passkeys, NEW a \in accounts, NEW n, VerifyPasskeyLogin(c, p, a, n)
      PROVE  HeldEnrolled'
  <2>1. held'.account = a.id /\ accounts' = accounts /\ p.account = a.id
    BY <1>5 DEF VerifyPasskeyLogin
  <2>2. \A b \in accounts : b.id = a.id => b.enrollment = "active"
    BY <2>1, NamedEnrolled DEF EnrolledInv
  <2>3. a.id \in issued
    BY DEF EnrolledInv, TablesInv, KeysUnique
  <2> QED
    BY <1>1, <2>1, <2>2, <2>3 DEF HeldEnrolled
<1>6. CASE PasswordLogin
  <2>1. ASSUME NEW a \in accounts, CreatePendingChallenge(a)
        PROVE  UNCHANGED held
    BY <2>1 DEF CreatePendingChallenge
  <2>2. ASSUME NEW c \in challenges, NEW a \in accounts,
               \/ BeginTotpEnrollment(c, a) \/ RejectSecondFactor(c, a)
               \/ \E code \in Codes : ConfirmTotpEnrollment(c, a, code)
               \/ \E code \in Codes : CompleteTotpChallenge(c, a, code)
               \/ \E r \in recovery : CompleteRecoveryChallenge(c, a, r)
        PROVE  UNCHANGED held
    BY <2>2
    DEF BeginTotpEnrollment, ConfirmTotpEnrollment, CompleteTotpChallenge,
        CompleteRecoveryChallenge, RejectSecondFactor
  <2> QED
    BY <1>2, <1>6, <2>1, <2>2 DEF PasswordLogin
<1>7. CASE SessionUse
  BY <1>2, <1>3, <1>4, <1>7
  DEF SessionUse, ListSessions, DropExpiredSession, AuthenticateSession, MarkStepUp, RevokeSession
<1>8. CASE PasskeyUse
  BY <1>2, <1>3, <1>5, <1>8, PasskeyUseKeeps
<1>9. CASE AccountManagement
  BY <1>2, <1>9
  DEF AccountManagement, SyncAccounts, ProvisionActiveAccount, SetPasswordChangeRequired,
      RevokeSessions, RotateTotp, RegenerateRecoveryCodes
<1>10. CASE RootCommands
  BY <1>2, <1>10 DEF RootCommands, BootstrapActiveAccount, SetRole, DeleteAccount
<1> QED
  BY <1>2, <1>3, <1>6, <1>7, <1>8, <1>9, <1>10 DEF Next, HelperGivesUp, Tick

\* Under the deployed processes no account has a session, a passkey or a
\* ceremony unless its second factor is active, although
\* issue_verified_passkey_session never looks at the enrollment.
THEOREM AlwaysEnrolledBeforeSession == Spec => []EnrolledBeforeSession
<1>1. Init => EnrolledInv
  BY TablesInit DEF Init, EnrolledInv, EnrolledBeforeSession, HeldEnrolled
<1>2. EnrolledInv /\ [Next]_vars => EnrolledInv'
  <2>1. SUFFICES ASSUME EnrolledInv, [Next]_vars
                 PROVE  EnrolledInv'
    OBVIOUS
  <2>2. TablesInv'
    BY <2>1, TablesStep DEF EnrolledInv, ApiNext
  <2>3. CASE UNCHANGED vars
    BY <2>1, <2>2, <2>3 DEF EnrolledInv, EnrolledBeforeSession, HeldEnrolled, vars, tables
  <2>4. CASE Next
    BY <2>1, <2>2, <2>4, EnrolledStep, HeldEnrolledStep DEF EnrolledInv
  <2> QED
    BY <2>1, <2>3, <2>4
<1>3. EnrolledInv => EnrolledBeforeSession
  BY DEF EnrolledInv
<1> QED
  BY <1>1, <1>2, <1>3, PTL DEF Spec

----------------------------------------------------------------------------
(* Sessions and elevations are earned *)

\* A step satisfies the action property SessionIsEarned.
LEMMA SessionEarnedStep ==
    ASSUME ApiNext, NEW t \in sessions', \A s \in sessions : s.token # t.token
    PROVE  \/ \E c \in challenges \ challenges' : c.account = t.account
           \/ held # None /\ held.kind = "passkey" /\ held.account = t.account
<1>1. CASE sessions' \subseteq sessions
  BY <1>1
<1>2. CASE SessionUsed
  <2>1. \E s \in sessions : s.token = t.token
    BY <1>2 DEF SessionUsed, SessionRow
  <2> QED
    BY <2>1
<1>3. CASE SessionIssued
  <2>1. PICK a \in accounts, left \in SUBSET sessions : IssueSession(a.id, left) /\ Earned(a)
    BY <1>3 DEF SessionIssued
  <2>2. t \in sessions \/ t.account = a.id
    BY <2>1, IssueSessionEffect DEF SessionRow
  <2> QED
    BY <2>1, <2>2 DEF Earned
<1> QED
  BY <1>1, <1>2, <1>3, SessionsStep

\* Whoever calls which method, a session is issued only to the account whose
\* own challenge the step consumes, or whose passkey the handler verified.
THEOREM EverySessionEarned == ApiSpec => SessionIsEarned
<1> DEFINE Step == \A t \in sessions' :
             (\A s \in sessions : s.token # t.token) =>
                 \/ \E c \in challenges \ challenges' : c.account = t.account
                 \/ held # None /\ held.kind = "passkey" /\ held.account = t.account
<1>1. ApiNext => Step
  BY SessionEarnedStep
<1>2. [ApiNext]_vars => [Step]_vars
  BY <1>1
<1> QED
  BY <1>2, PTL DEF ApiSpec, SessionIsEarned

\* A step satisfies the action property ElevationIsEarned.
LEMMA ElevationEarnedStep ==
    ASSUME TablesInv, ApiNext, NEW t \in sessions', t.stepUpUntil > 0,
           \A s \in sessions : s.token = t.token => s.stepUpUntil # t.stepUpUntil
    PROVE  /\ \E s \in sessions : s.token = t.token
           /\ \/ \E c \in ceremonies \ ceremonies' :
                   c.purpose = "step_up" /\ c.session = t.token /\ c.account = t.account
              \/ held # None /\ held.kind = "totp" /\ held.session = t.token
                 /\ held.account = t.account
<1>1. CASE sessions' \subseteq sessions
  BY <1>1
<1>2. CASE SessionUsed
  <2>1. PICK s \in sessions : \E until \in {s.stepUpUntil, ElevatedUntil(s)} :
          /\ until = s.stepUpUntil \/ Proven(s)
          /\ sessions' = (sessions \ {s}) \cup
               {SessionRow(s.token, s.account, s.created, Later(s.lastSeen), until)}
    BY <1>2 DEF SessionUsed
  <2>2. /\ t.token = s.token /\ t.account = s.account
        /\ t.stepUpUntil = s.stepUpUntil \/ Proven(s)
    BY <2>1 DEF SessionRow
  <2>3. Proven(s)
    BY <2>2
  <2> QED
    BY <2>2, <2>3 DEF Proven, TablesInv, HeldBound
<1>3. CASE SessionIssued
  <2>1. PICK a \in accounts, left \in SUBSET sessions : IssueSession(a.id, left)
    BY <1>3 DEF SessionIssued
  <2>2. t \in sessions \/ t.stepUpUntil = 0
    BY <2>1, IssueSessionEffect DEF SessionRow
  <2> QED
    BY <2>2
<1> QED
  BY <1>1, <1>2, <1>3, SessionsStep

\* Whoever calls which method, a session is elevated only by a step-up
\* ceremony of its own, or by the handler that accepted a TOTP code for it.
THEOREM EveryElevationEarned == ApiSpec => ElevationIsEarned
<1> DEFINE Step == \A t \in sessions' :
             LET before == {s \in sessions : s.token = t.token}
             IN  (t.stepUpUntil > 0 /\ \A s \in before : s.stepUpUntil # t.stepUpUntil) =>
                     /\ before # {}
                     /\ \/ \E c \in ceremonies \ ceremonies' :
                             c.purpose = "step_up" /\ c.session = t.token /\ c.account = t.account
                        \/ held # None /\ held.kind = "totp" /\ held.session = t.token
                           /\ held.account = t.account
<1>1. TablesInv /\ ApiNext => Step
  BY ElevationEarnedStep
<1>2. TablesInv /\ [ApiNext]_vars => [Step]_vars
  BY <1>1
<1>3. TablesInv /\ [ApiNext]_vars => TablesInv'
  BY TablesStep
<1> QED
  BY <1>2, <1>3, TablesInit, PTL DEF ApiSpec, ElevationIsEarned

----------------------------------------------------------------------------
(* A sensitive change revokes *)

\* Nothing of the account's authentication stays: sessions with new tokens
\* apart, only rows of other accounts.
Revoked(a) ==
    /\ \A t \in sessions' : t.token \notin issued \/ t \in NotOfAccount(sessions, a.id)
    /\ challenges' \subseteq NotOfAccount(challenges, a.id)
    /\ ceremonies' \subseteq NotOfAccount(ceremonies, a.id)

\* The tokens of a revoked account are gone.
LEMMA RevokedGone ==
    ASSUME TablesInv, NEW a \in accounts, Revoked(a)
    PROVE  /\ \A s \in OfAccount(sessions, a.id), t \in sessions' : s.token # t.token
           /\ \A c \in OfAccount(challenges, a.id), d \in challenges' : c.token # d.token
           /\ \A c \in OfAccount(ceremonies, a.id), d \in ceremonies' : c.token # d.token
<1>1. \A s \in OfAccount(sessions, a.id), t \in sessions' : s.token # t.token
  BY DEF Revoked, TablesInv, SessionKeys, OfAccount, NotOfAccount
<1>2. \A c \in OfAccount(challenges, a.id), d \in challenges' : c.token # d.token
  BY DEF Revoked, TablesInv, KeysUnique, OfAccount, NotOfAccount
<1>3. \A c \in OfAccount(ceremonies, a.id), d \in ceremonies' : c.token # d.token
  BY DEF Revoked, TablesInv, KeysUnique, OfAccount, NotOfAccount
<1> QED
  BY <1>1, <1>2, <1>3

\* The step changes account rows and recovery codes only of the account x.
OnlyOf(x) ==
    /\ \A d \in accounts' : d \in accounts \/ d.id = x
    /\ NotOfAccount(recovery', x) = NotOfAccount(recovery, x)

\* Another account's factor, role and codes are as they were.
LEMMA OthersUntouched ==
    ASSUME TablesInv, NEW x, OnlyOf(x), NEW a \in accounts, NEW b \in accounts', a.id = b.id,
           SensitiveChange(a, b)
    PROVE  a.id = x
<1>1. SUFFICES ASSUME a.id # x
               PROVE  FALSE
  OBVIOUS
<1>2. b = a
  BY <1>1 DEF OnlyOf, TablesInv, KeysUnique
<1>3. OfAccount(recovery', a.id) = OfAccount(recovery, a.id)
  <2>1. \A r : r.account # x => (r \in recovery' <=> r \in recovery)
    BY DEF OnlyOf, NotOfAccount
  <2> QED
    BY <1>1, <2>1 DEF OfAccount
<1> QED
  BY <1>2, <1>3 DEF SensitiveChange

\* A step that keeps the codes and gives enrolled accounts no other secret or
\* role and no new password flag is not sensitive.
LEMMA NotSensitive ==
    ASSUME TablesInv, UNCHANGED recovery,
           \A d \in accounts' :
              \/ \E e \in accounts : /\ d.id = e.id /\ d.secret = e.secret /\ d.role = e.role
                                     /\ d.mustChange => e.mustChange
              \/ d.id \notin issued
              \/ \E e \in accounts : d.id = e.id /\ e.enrollment # "active",
           NEW a \in accounts, a.enrollment = "active", NEW b \in accounts', a.id = b.id
    PROVE  ~SensitiveChange(a, b)
<1>1. a.secret = b.secret /\ a.role = b.role /\ (b.mustChange => a.mustChange)
  BY DEF TablesInv, KeysUnique
<1> QED
  BY <1>1 DEF SensitiveChange

\* revoke_sessions, set_role and an administrator's reset revoke everything.
LEMMA RevokeRevokes ==
    ASSUME TypeOK, NEW a \in accounts, NEW b, b.id = a.id, RevokeAuthentication(a, b, TRUE),
           UNCHANGED recovery
    PROVE  Revoked(a) /\ OnlyOf(a.id)
<1>1. Released(b).id = b.id
  BY DEF Released, WithFactor
<1>2. Revoked(a)
  BY DEF RevokeAuthentication, Revoked, NotOfAccount, Cascade
<1>3. OnlyOf(a.id)
  BY <1>1 DEF RevokeAuthentication, OnlyOf, ReplaceAccount
<1> QED
  BY <1>2, <1>3

\* reset_totp, rotate_totp, an import and new recovery codes revoke everything.
LEMMA ReplaceRevokes ==
    ASSUME NEW a \in accounts, NEW b, b.id = a.id, NEW codes,
           \A r \in codes : r.account = a.id, ReplaceFactor(a, b, codes)
    PROVE  Revoked(a) /\ OnlyOf(a.id)
<1>1. Revoked(a)
  BY DEF ReplaceFactor, Revoked, NotOfAccount, Cascade
<1>2. OnlyOf(a.id)
  BY DEF ReplaceFactor, OnlyOf, ReplaceAccount, NotOfAccount
<1> QED
  BY <1>1, <1>2

\* A step that is sensitive for an enrolled account revokes what it had.
LEMMA SensitiveStep ==
    ASSUME TablesInv, ApiNext, NEW a \in accounts, a.enrollment = "active", NEW b \in accounts',
           a.id = b.id, SensitiveChange(a, b)
    PROVE  Revoked(a)
<1> USE DEF history, tables
<1>1. ASSUME NEW x \in accounts, Revoked(x), OnlyOf(x.id)
      PROVE  Revoked(a)
  BY <1>1, OthersUntouched DEF TablesInv, KeysUnique
<1>2. ASSUME NEW x, OnlyOf(x),
             x \notin issued \/ \E d \in accounts : d.id = x /\ d.enrollment # "active"
      PROVE  FALSE
  BY <1>2, OthersUntouched DEF TablesInv, KeysUnique
<1>3. ASSUME UNCHANGED <<accounts, recovery>>
      PROVE  FALSE
  BY <1>3, NotSensitive
<1>4. TypeOK /\ accounts \subseteq Account
  BY DEF TablesInv, TypeOK
<1>5. ASSUME NEW id, NEW n
      PROVE  \A r \in CodesOf(id, n) : r.account = id
  BY DEF CodesOf
<1>6. ASSUME NEW id \in AccountIds \ issued, NEW row, row.id = id,
             accounts' = accounts \cup {row}, NEW codes, \A r \in codes : r.account = id,
             recovery' = recovery \cup codes
      PROVE  FALSE
  <2>1. OnlyOf(id)
    BY <1>6 DEF OnlyOf, NotOfAccount
  <2> QED
    BY <1>2, <2>1
<1>7. ASSUME NEW x, NEW e, NEW role, NEW flag, NEW n
      PROVE  /\ NewAccount(x, e, role, flag).id = x
             /\ Activated(NewAccount(x, e, role, flag), n).id = x
  BY DEF NewAccount, Activated, WithFactor
<1>8. ASSUME NEW e, NEW role, NEW flag, CreateAccount(e, role, flag)
      PROVE  FALSE
  <2>1. \A d \in accounts' : d \in accounts \/ d.id \notin issued
    BY <1>7, <1>8 DEF CreateAccount
  <2>2. UNCHANGED recovery
    BY <1>8 DEF CreateAccount
  <2> QED
    BY <2>1, <2>2, NotSensitive
<1>9. ASSUME NEW es \in SUBSET Emails, NEW flag, SyncAccounts(es, "user", flag)
      PROVE  FALSE
  <2> DEFINE missing == {e \in es : \A d \in accounts : d.email # e}
  <2>1. PICK id \in [missing -> AccountIds \ issued] :
          accounts' = accounts \cup {NewAccount(id[e], e, "user", flag) : e \in missing}
    BY <1>9 DEF SyncAccounts
  <2> HIDE DEF missing
  <2>2. \A d \in accounts' : d \in accounts \/ d.id \notin issued
    BY <2>1 DEF NewAccount
  <2>3. UNCHANGED recovery
    BY <1>9 DEF SyncAccounts
  <2> QED
    BY <2>2, <2>3, NotSensitive
<1>10. ASSUME NEW id \in AccountIds \ issued, NEW e, NEW role, NEW flag,
              accounts' = accounts \cup {Activated(NewAccount(id, e, role, flag), Draw)},
              recovery' = recovery \cup CodesOf(id, Draw + 1)
       PROVE  FALSE
  <2> DEFINE row == Activated(NewAccount(id, e, role, flag), Draw)
             codes == CodesOf(id, Draw + 1)
  <2>1. row.id = id
    BY <1>7
  <2>2. \A r \in codes : r.account = id
    BY <1>5
  <2>3. accounts' = accounts \cup {row} /\ recovery' = recovery \cup codes
    BY <1>10
  <2> HIDE DEF row, codes
  <2> QED
    BY <1>6, <2>1, <2>2, <2>3
<1>11. ASSUME NEW x \in accounts, NEW row, row.id = x.id, NEW n,
              ReplaceFactor(x, row, CodesOf(x.id, n))
       PROVE  Revoked(a)
  BY <1>1, <1>5, <1>11, ReplaceRevokes
<1>12. ASSUME NEW e, NEW role, NEW flag,
              BootstrapActiveAccount(e, role, flag) \/ ProvisionActiveAccount(e, role, flag)
       PROVE  Revoked(a)
  <2>1. ASSUME NEW x \in accounts,
               ReplaceFactor(x, Activated(NewAccount(x.id, e, role, flag), Draw),
                             CodesOf(x.id, Draw + 1))
        PROVE  Revoked(a)
    BY <1>7, <1>11, <2>1
  <2> QED
    BY <1>10, <1>12, <2>1 DEF BootstrapActiveAccount, ProvisionActiveAccount
<1>13. ASSUME NEW x \in accounts, ResetTotp(x)
       PROVE  Revoked(a)
  <2>1. Released(x).id = x.id
    BY DEF Released, WithFactor
  <2> QED
    BY <1>1, <1>13, <2>1, ReplaceRevokes DEF ResetTotp
<1>14. ASSUME NEW x \in accounts, RotateTotp(x)
       PROVE  Revoked(a)
  <2>1. Activated(x, Draw).id = x.id
    BY DEF Activated, WithFactor
  <2> QED
    BY <1>11, <1>14, <2>1 DEF RotateTotp
<1>15. ASSUME NEW x, NEW code
       PROVE  /\ Consumed(x, code).id = x.id /\ Consumed(x, code).secret = x.secret
              /\ Consumed(x, code).role = x.role /\ Consumed(x, code).mustChange = x.mustChange
  BY DEF Consumed, WithFactor
<1>16. ASSUME NEW x \in accounts, NEW code, RegenerateRecoveryCodes(x, code)
       PROVE  Revoked(a)
  BY <1>11, <1>15, <1>16 DEF RegenerateRecoveryCodes
<1>17. ASSUME NEW x \in accounts, NEW code, accounts' = ReplaceAccount(x, Consumed(x, code)),
              UNCHANGED recovery
       PROVE  FALSE
  <2>1. \A d \in accounts' : \E e \in accounts :
          /\ d.id = e.id /\ d.secret = e.secret /\ d.role = e.role
          /\ d.mustChange => e.mustChange
    BY <1>15, <1>17 DEF ReplaceAccount
  <2> QED
    BY <1>17, <2>1, NotSensitive
<1>18. ASSUME NEW x \in accounts, NEW role, NEW flag
       PROVE  [x EXCEPT !.role = role].id = x.id /\ [x EXCEPT !.mustChange = flag].id = x.id
  BY <1>4, <1>18 DEF Account
<1>19. ASSUME NEW x \in accounts,
              \/ \E role \in Roles : SetRole(x, role)
              \/ SetPasswordChangeRequired(x, TRUE, TRUE)
              \/ RevokeSessions(x)
       PROVE  Revoked(a)
  <2>1. /\ UNCHANGED recovery
        /\ \E row : row.id = x.id /\ RevokeAuthentication(x, row, TRUE)
    BY <1>18, <1>19 DEF SetRole, SetPasswordChangeRequired, RevokeSessions
  <2> QED
    BY <1>1, <1>4, <2>1, RevokeRevokes
<1>20. ASSUME NEW x \in accounts, SetPasswordChangeRequired(x, FALSE, FALSE)
       PROVE  FALSE
  <2> DEFINE row == [x EXCEPT !.mustChange = FALSE]
  <2>1. /\ row.id = x.id /\ row.secret = x.secret /\ row.role = x.role
        /\ row.enrollment = x.enrollment /\ row.mustChange = FALSE
    BY <1>4 DEF Account
  <2>2. /\ UNCHANGED recovery
        /\ accounts' = ReplaceAccount(x, IF row.enrollment = "pending" THEN Released(row) ELSE row)
    BY <1>20 DEF SetPasswordChangeRequired, RevokeAuthentication
  <2>3. Released(row).id = row.id
    BY DEF Released, WithFactor
  <2> HIDE DEF row
  <2>4. \A d \in accounts' :
          \/ \E e \in accounts : /\ d.id = e.id /\ d.secret = e.secret /\ d.role = e.role
                                 /\ d.mustChange => e.mustChange
          \/ \E e \in accounts : d.id = e.id /\ e.enrollment # "active"
    BY <2>1, <2>2, <2>3 DEF ReplaceAccount
  <2> QED
    BY <2>2, <2>4, NotSensitive
<1>21. ASSUME NEW x \in accounts, DeleteAccount(x)
       PROVE  FALSE
  <2>1. OnlyOf(x.id) /\ x \notin accounts'
    BY <1>21 DEF DeleteAccount, OnlyOf, NotOfAccount
  <2>2. a.id = x.id /\ b \in accounts
    BY <1>21, <2>1, OthersUntouched DEF DeleteAccount
  <2> QED
    BY <2>1, <2>2 DEF TablesInv, KeysUnique
<1>22. ASSUME NEW row
       PROVE  Released(row).id = row.id
  BY DEF Released, WithFactor
<1>23. ASSUME NEW x \in accounts, CreatePendingChallenge(x)
       PROVE  FALSE
  <2>1. UNCHANGED recovery
    BY <1>23 DEF CreatePendingChallenge
  <2>2. \A d \in accounts' :
          d \in accounts \/ \E e \in accounts : d.id = e.id /\ e.enrollment # "active"
    BY <1>22, <1>23 DEF CreatePendingChallenge
  <2> QED
    BY <2>1, <2>2, NotSensitive
<1>24. ASSUME NEW c \in challenges, NEW x \in accounts, RejectSecondFactor(c, x)
       PROVE  FALSE
  <2>1. \A d \in accounts' :
          d \in accounts \/ \E e \in accounts : d.id = e.id /\ e.enrollment # "active"
    BY <1>22, <1>24 DEF RejectSecondFactor, RecordChallengeFailure
  <2> QED
    BY <1>24, <2>1, NotSensitive DEF RejectSecondFactor
<1>25. ASSUME NEW x \in accounts, x.enrollment # "active", NEW row, row.id = x.id,
              accounts' = ReplaceAccount(x, row),
              \/ recovery' = NotOfAccount(recovery, x.id)
              \/ \E n : recovery' = recovery \cup CodesOf(x.id, n)
       PROVE  FALSE
  <2>1. OnlyOf(x.id)
    BY <1>5, <1>25 DEF OnlyOf, ReplaceAccount, NotOfAccount
  <2> QED
    BY <1>2, <1>25, <2>1
<1>26. ASSUME NEW x, NEW state, NEW secret, NEW owner, NEW code
       PROVE  WithFactor(x, state, secret, owner, code).id = x.id
  BY DEF WithFactor
<1>27. ASSUME NEW c \in challenges, NEW x \in accounts,
              BeginTotpEnrollment(c, x) \/ \E code \in Codes : ConfirmTotpEnrollment(c, x, code)
       PROVE  FALSE
  <2>1. x.enrollment # "active"
    BY <1>27 DEF BeginTotpEnrollment, ConfirmTotpEnrollment
  <2>2. \E state, secret, owner, code :
          accounts' = ReplaceAccount(x, WithFactor(x, state, secret, owner, code))
    BY <1>27 DEF BeginTotpEnrollment, ConfirmTotpEnrollment
  <2>3. \/ recovery' = NotOfAccount(recovery, x.id)
        \/ \E n : recovery' = recovery \cup CodesOf(x.id, n)
    BY <1>27 DEF BeginTotpEnrollment, ConfirmTotpEnrollment
  <2> QED
    BY <1>25, <1>26, <2>1, <2>2, <2>3
<1>28. ASSUME NEW c \in challenges, NEW x \in accounts, NEW r \in recovery,
              CompleteRecoveryChallenge(c, x, r)
       PROVE  Revoked(a)
  <2>1. r.account = x.id /\ recovery' = recovery \ {r} /\ UNCHANGED accounts
    BY <1>28 DEF CompleteRecoveryChallenge
  <2>2. OnlyOf(x.id)
    BY <2>1 DEF OnlyOf, NotOfAccount
  <2>3. IssueSession(x.id, NotOfAccount(sessions, x.id))
    BY <1>28 DEF CompleteRecoveryChallenge
  <2>4. \A t \in sessions' : t.token \notin issued \/ t \in NotOfAccount(sessions, x.id)
    BY <2>3, IssueSessionEffect DEF SessionRow
  <2>5. /\ challenges' \subseteq NotOfAccount(challenges, x.id)
        /\ ceremonies' \subseteq NotOfAccount(ceremonies, x.id)
    BY <1>28 DEF CompleteRecoveryChallenge, Cascade
  <2> QED
    BY <1>1, <2>2, <2>4, <2>5 DEF Revoked
<1>29. CASE PasswordLogin
  <2>1. ASSUME NEW c \in challenges, NEW x \in accounts, NEW code \in Codes,
               CompleteTotpChallenge(c, x, code)
        PROVE  FALSE
    BY <1>17, <2>1 DEF CompleteTotpChallenge
  <2> QED
    BY <1>23, <1>24, <1>27, <1>28, <1>29, <2>1 DEF PasswordLogin
<1>30. CASE SessionUse
  BY <1>3, <1>17, <1>30
  DEF SessionUse, ListSessions, DropExpiredSession, AuthenticateSession, MarkStepUp, RevokeSession,
      VerifyTotp
<1>31. CASE PasskeyUse
  BY <1>3, <1>31, PasskeyUseKeeps
<1>32. CASE AccountManagement
  BY <1>9, <1>12, <1>14, <1>16, <1>19, <1>20, <1>32 DEF AccountManagement
<1>33. CASE RootCommands
  BY <1>12, <1>19, <1>21, <1>33 DEF RootCommands
<1> QED
  BY <1>3, <1>8, <1>13, <1>29, <1>30, <1>31, <1>32, <1>33
  DEF ApiNext, Next, HelperGivesUp, Tick

\* Whoever calls which method, another secret, other recovery codes, another
\* role or a forced password change for an enrolled account, and the use of a
\* recovery code, leave none of its sessions, challenges and ceremonies.
THEOREM EverySensitiveChangeRevokes == ApiSpec => SensitiveChangeRevokes
<1> DEFINE Step == \A a \in accounts, b \in accounts' :
             (a.id = b.id /\ a.enrollment = "active" /\ SensitiveChange(a, b)) =>
                 /\ \A s \in OfAccount(sessions, a.id), t \in sessions' : s.token # t.token
                 /\ \A c \in OfAccount(challenges, a.id), d \in challenges' : c.token # d.token
                 /\ \A c \in OfAccount(ceremonies, a.id), d \in ceremonies' : c.token # d.token
<1>1. TablesInv /\ ApiNext => Step
  BY SensitiveStep, RevokedGone
<1>2. TablesInv /\ [ApiNext]_vars => [Step]_vars
  BY <1>1
<1>3. TablesInv /\ [ApiNext]_vars => TablesInv'
  BY TablesStep
<1> QED
  BY <1>2, <1>3, TablesInit, PTL DEF ApiSpec, SensitiveChangeRevokes
=============================================================================
