-------------------------- MODULE AuthStoreProofs --------------------------
(***************************************************************************)
(* Proofs about the authentication store, for every size of its pools and  *)
(* every value of its limits.  Everything is proved of ApiSpec, which lets *)
(* a caller use all of the store's methods; Spec has fewer steps.          *)
(***************************************************************************)
EXTENDS AuthStore, TLAPS

\* The counter that stands for "no code accepted yet" is a counter.
LEMMA NoCounterType == -1 \in Counters
<1>1. MaxTime \div Period \in Nat
  BY LimitsAssumption
<1> QED
  BY <1>1, LimitsAssumption DEF Counters

----------------------------------------------------------------------------
(* Types of the rows that the operations write *)

\* A new account row has the columns of an account.
LEMMA NewAccountType ==
    ASSUME NEW id \in AccountIds, NEW e \in Emails, NEW role \in Roles, NEW flag \in BOOLEAN
    PROVE  NewAccount(id, e, role, flag) \in Account
  BY NoCounterType, LimitsAssumption DEF NewAccount, Account, NoSecret

\* Replacing the second-factor columns of an account keeps it an account.
LEMMA WithFactorType ==
    ASSUME NEW a \in Account, NEW state \in {"required", "pending", "active"},
           NEW secret \in 0 .. MaxDraws, NEW owner \in LoginTokens \cup {None},
           NEW counter \in Counters
    PROVE  WithFactor(a, state, secret, owner, counter) \in Account
  BY DEF WithFactor, Account

\* Releasing a pending enrollment keeps the row type.
LEMMA ReleasedType ==
    ASSUME NEW a \in Account
    PROVE  Released(a) \in Account
  BY WithFactorType, NoCounterType, LimitsAssumption DEF Released, NoSecret

\* Activating a drawn secret keeps the row type.
LEMMA ActivatedType ==
    ASSUME NEW a \in Account, NEW n \in Secrets
    PROVE  Activated(a, n) \in Account
  BY WithFactorType, NoCounterType, LimitsAssumption DEF Activated, Secrets

\* Writing the role, the password flag or the last counter keeps the row type.
LEMMA SimpleAccountTypes ==
    ASSUME NEW a \in Account, NEW role \in Roles, NEW flag \in BOOLEAN, NEW counter \in Counters
    PROVE  /\ [a EXCEPT !.role = role] \in Account
           /\ [a EXCEPT !.mustChange = flag] \in Account
           /\ Consumed(a, counter) \in Account
  BY DEF Account, Consumed, WithFactor

\* A freshly drawn set of recovery codes is a set of recovery rows.
LEMMA CodesOfType ==
    ASSUME NEW id \in AccountIds, NEW n \in Secrets
    PROVE  CodesOf(id, n) \subseteq RecoveryRow
  BY DEF CodesOf, RecoveryRow, RecoveryCodes

\* A session row built from typed columns is a session.
LEMMA SessionRowType ==
    ASSUME NEW t \in SessionTokens, NEW id \in AccountIds, NEW created \in 0 .. MaxTime,
           NEW seen \in 0 .. MaxTime, NEW until \in 0 .. MaxTime + StepUp
    PROVE  SessionRow(t, id, created, seen, until) \in Session
  BY DEF SessionRow, Session

\* A touched or elevated session is a session.
LEMMA TouchedType ==
    ASSUME NEW s \in Session, now \in 0 .. MaxTime
    PROVE  /\ Touched(s) \in Session
           /\ SessionRow(s.token, s.account, s.created, Later(s.lastSeen), ElevatedUntil(s))
                \in Session
<1>1. /\ s.token \in SessionTokens /\ s.account \in AccountIds /\ s.created \in 0 .. MaxTime
      /\ s.lastSeen \in 0 .. MaxTime /\ s.stepUpUntil \in 0 .. MaxTime + StepUp
  BY DEF Session
<1>2. Later(s.lastSeen) \in 0 .. MaxTime
  BY <1>1 DEF Later
<1>3. ElevatedUntil(s) \in 0 .. MaxTime + StepUp
  BY <1>1, LimitsAssumption DEF ElevatedUntil
<1> QED
  BY <1>1, <1>2, <1>3, SessionRowType DEF Touched

----------------------------------------------------------------------------
(* What the operations with evictions do: they add one row under a token that *)
(* was not issued before, and remove some others.                            *)

\* What _issue_session_locked leaves: older rows, and one new row with an unused token.
LEMMA IssueSessionEffect ==
    ASSUME NEW id, NEW left, IssueSession(id, left)
    PROVE  \E t \in SessionTokens \ issued, kept \in SUBSET left :
              /\ sessions' = kept \cup {SessionRow(t, id, now, now, 0)}
              /\ issued' = issued \cup {t}
<1> DEFINE live == {s \in left : ~SessionExpired(s)}
           own == OfAccount(live, id)
<1>1. PICK t \in SessionTokens \ issued, old \in Evictions(own, own, MaxSessions, SeenBefore(own)) :
        /\ sessions' = (live \ old) \cup {SessionRow(t, id, now, now, 0)}
        /\ issued' = issued \cup {t}
  BY DEF IssueSession
<1> QED
  BY <1>1

\* What _create_passkey_challenge_locked leaves: older rows, and one new row with an unused token.
LEMMA CreateCeremonyEffect ==
    ASSUME NEW purpose, NEW id, NEW session, CreateCeremony(purpose, id, session)
    PROVE  \E t \in CeremonyTokens \ issued, kept \in SUBSET ceremonies :
              /\ ceremonies' = kept \cup
                   {[token |-> t, purpose |-> purpose, account |-> id, session |-> session,
                     created |-> now, failures |-> 0]}
              /\ issued' = issued \cup {t}
<1> DEFINE live == {c \in ceremonies : ~ChallengeExpired(c)}
           rivals == {c \in live : IF purpose = "login" THEN c.purpose = "login"
                                   ELSE c.purpose # "login" /\ c.account = id}
           cap == IF purpose = "login" THEN MaxLoginCeremonies ELSE MaxCeremonies
<1>1. PICK t \in CeremonyTokens \ issued, old \in Evictions(rivals, rivals, cap, CreatedBefore(rivals)) :
        /\ ceremonies' = (live \ old) \cup
             {[token |-> t, purpose |-> purpose, account |-> id, session |-> session,
               created |-> now, failures |-> 0]}
        /\ issued' = issued \cup {t}
  BY DEF CreateCeremony
<1> QED
  BY <1>1

\* The challenges that go are expired, with their enrollments released, or
\* evicted, and then they own no enrollment.
LEMMA CreatePendingChallengeEffect ==
    ASSUME NEW a \in accounts, CreatePendingChallenge(a)
    PROVE  \E t \in LoginTokens \ issued, kept \in SUBSET challenges :
              /\ challenges' = kept \cup
                   {[token |-> t, account |-> a.id, created |-> now, failures |-> 0]}
              /\ issued' = issued \cup {t}
              /\ \A c \in challenges \ kept :
                   \/ ChallengeExpired(c)
                   \/ \A b \in accounts' :
                        ~(b.id = c.account /\ b.enrollment = "pending" /\ b.owner = c.token)
<1> DEFINE live == {c \in challenges : ~ChallengeExpired(c)}
           own == OfAccount(live, a.id)
<1>1. PICK t \in LoginTokens \ issued,
           old \in Evictions(own, Evictable(own, accounts'), MaxChallenges, CreatedBefore(own)) :
        /\ challenges' = (live \ old) \cup
             {[token |-> t, account |-> a.id, created |-> now, failures |-> 0]}
        /\ issued' = issued \cup {t}
  BY Zenon DEF CreatePendingChallenge
<1>2. old \subseteq Evictable(own, accounts')
  BY <1>1 DEF Evictions, OldestRows
<1>3. \A c \in challenges \ (live \ old) :
        \/ ChallengeExpired(c)
        \/ \A b \in accounts' :
             ~(b.id = c.account /\ b.enrollment = "pending" /\ b.owner = c.token)
  BY <1>2 DEF Evictable
<1> QED
  BY <1>1, <1>3

\* Issuing a session keeps the types of sessions and issued tokens.
LEMMA IssueSessionType ==
    ASSUME TypeOK, NEW id \in AccountIds, NEW left \in SUBSET Session, IssueSession(id, left)
    PROVE  /\ sessions' \subseteq Session
           /\ issued' \subseteq AccountIds \cup LoginTokens \cup SessionTokens \cup CeremonyTokens
  BY IssueSessionEffect, SessionRowType, LimitsAssumption DEF TypeOK

\* Creating a ceremony keeps the types of ceremonies and issued tokens.
LEMMA CreateCeremonyType ==
    ASSUME TypeOK, NEW purpose \in Purposes, NEW id \in AccountIds \cup {None},
           NEW session \in SessionTokens \cup {None}, CreateCeremony(purpose, id, session)
    PROVE  /\ ceremonies' \subseteq Ceremony
           /\ issued' \subseteq AccountIds \cup LoginTokens \cup SessionTokens \cup CeremonyTokens
<1>1. \A t \in CeremonyTokens :
        [token |-> t, purpose |-> purpose, account |-> id, session |-> session,
         created |-> now, failures |-> 0] \in Ceremony
  BY LimitsAssumption DEF TypeOK, Ceremony
<1> QED
  BY <1>1, CreateCeremonyEffect DEF TypeOK

\* A failed attempt below the limit keeps the row of a challenge or ceremony typed.
LEMMA RecordFailureTypes ==
    /\ \A c \in Challenge : c.failures + 1 < FailureLimit =>
         [c EXCEPT !.failures = @ + 1] \in Challenge
    /\ \A c \in Ceremony : c.failures + 1 < FailureLimit =>
         [c EXCEPT !.failures = @ + 1] \in Ceremony
  BY LimitsAssumption DEF Challenge, Ceremony

----------------------------------------------------------------------------
(* Type correctness *)

\* An empty database is well typed.
LEMMA TypeInit == Init => TypeOK
  BY LimitsAssumption DEF Init, TypeOK

\* Every operation keeps the rows in their types.
LEMMA TypeStep ==
    ASSUME TypeOK, ApiNext
    PROVE  TypeOK'
<1> USE DEF history, tables
<1>1. ASSUME NEW e \in Emails, NEW role \in Roles, NEW flag \in BOOLEAN,
             CreateAccount(e, role, flag)
      PROVE  TypeOK'
  BY <1>1, NewAccountType DEF CreateAccount, TypeOK
<1>2. ASSUME NEW es \in SUBSET Emails, NEW flag \in BOOLEAN, SyncAccounts(es, "user", flag)
      PROVE  TypeOK'
  BY <1>2, NewAccountType, RolesAssumption DEF SyncAccounts, TypeOK
<1>3. ASSUME NEW a \in accounts, NEW b \in Account, NEW andSessions \in BOOLEAN,
             RevokeAuthentication(a, b, andSessions),
             UNCHANGED <<now, recovery, passkeys, held, issued, drawn, history>>
      PROVE  TypeOK'
  BY <1>3, ReleasedType DEF RevokeAuthentication, ReplaceAccount, NotOfAccount, Cascade, TypeOK
<1>4. ASSUME NEW a \in accounts, NEW role \in Roles, SetRole(a, role)
      PROVE  TypeOK'
  <2>1. [a EXCEPT !.role = role] \in Account
    BY SimpleAccountTypes, NoCounterType DEF TypeOK
  <2> QED
    BY <1>3, <1>4, <2>1 DEF SetRole
<1>5. ASSUME NEW a \in accounts, NEW flag \in BOOLEAN, NEW andSessions \in BOOLEAN,
             SetPasswordChangeRequired(a, flag, andSessions)
      PROVE  TypeOK'
  <2>1. [a EXCEPT !.mustChange = flag] \in Account
    BY SimpleAccountTypes, NoCounterType, RolesAssumption DEF TypeOK
  <2> QED
    BY <1>3, <1>5, <2>1 DEF SetPasswordChangeRequired
<1>6. ASSUME NEW a \in accounts, RevokeSessions(a)
      PROVE  TypeOK'
  BY <1>3, <1>6 DEF RevokeSessions, TypeOK
<1>7. ASSUME NEW a \in accounts, NEW b \in Account, NEW codes \in SUBSET RecoveryRow,
             ReplaceFactor(a, b, codes)
      PROVE  /\ accounts' \subseteq Account /\ recovery' \subseteq RecoveryRow
             /\ challenges' \subseteq Challenge /\ sessions' \subseteq Session
             /\ ceremonies' \subseteq Ceremony
  BY <1>7 DEF ReplaceFactor, ReplaceAccount, NotOfAccount, Cascade, TypeOK
<1>8. ASSUME NEW a \in accounts, ResetTotp(a)
      PROVE  TypeOK'
  BY <1>7, <1>8, ReleasedType DEF ResetTotp, TypeOK
<1>9. ASSUME CanDraw(2)
      PROVE  Draw \in Secrets /\ Draw + 1 \in Secrets /\ drawn + 2 \in 0 .. MaxDraws
  BY <1>9, LimitsAssumption DEF CanDraw, Draw, Secrets, TypeOK
<1>10. ASSUME CanDraw(1)
       PROVE  Draw \in Secrets /\ drawn + 1 \in 0 .. MaxDraws
  BY <1>10, LimitsAssumption DEF CanDraw, Draw, Secrets, TypeOK
<1>11. ASSUME NEW a \in accounts
       PROVE  a \in Account /\ a.id \in AccountIds /\ a.secret \in 0 .. MaxDraws /\ a.email \in Emails
  BY DEF TypeOK, Account
<1>12. ASSUME NEW a \in accounts, RotateTotp(a)
       PROVE  TypeOK'
  <2>1. Activated(a, Draw) \in Account /\ CodesOf(a.id, Draw + 1) \subseteq RecoveryRow
    BY <1>9, <1>11, <1>12, ActivatedType, CodesOfType DEF RotateTotp
  <2> QED
    BY <1>7, <1>9, <1>12, <2>1 DEF RotateTotp, TypeOK
<1>13. ASSUME NEW a \in accounts, NEW code \in Codes, RegenerateRecoveryCodes(a, code)
       PROVE  TypeOK'
  <2>1. Consumed(a, code) \in Account /\ CodesOf(a.id, Draw) \subseteq RecoveryRow
    BY <1>10, <1>11, <1>13, SimpleAccountTypes, CodesOfType, RolesAssumption
    DEF RegenerateRecoveryCodes, Codes
  <2> QED
    BY <1>7, <1>10, <1>11, <1>13, <2>1 DEF RegenerateRecoveryCodes, Accept, Codes, TypeOK
<1>14. ASSUME NEW e \in Emails, NEW id \in AccountIds, NEW role \in Roles, NEW flag \in BOOLEAN,
              CanDraw(2)
       PROVE  /\ Activated(NewAccount(id, e, role, flag), Draw) \in Account
              /\ CodesOf(id, Draw + 1) \subseteq RecoveryRow
  BY <1>9, <1>14, NewAccountType, ActivatedType, CodesOfType
<1>15. ASSUME NEW e \in Emails, ProvisionActiveAccount(e, "user", FALSE)
       PROVE  TypeOK'
  <2>1. CanDraw(2) /\ drawn' = drawn + 2
        /\ UNCHANGED <<now, challenges, sessions, passkeys, ceremonies, held, history>>
    BY <1>15 DEF ProvisionActiveAccount
  <2>2. PICK id \in AccountIds \ issued :
          /\ accounts' = accounts \cup {Activated(NewAccount(id, e, "user", FALSE), Draw)}
          /\ recovery' = recovery \cup CodesOf(id, Draw + 1)
          /\ issued' = issued \cup {id}
    BY <1>15 DEF ProvisionActiveAccount
  <2>3. /\ Activated(NewAccount(id, e, "user", FALSE), Draw) \in Account
        /\ CodesOf(id, Draw + 1) \subseteq RecoveryRow
    BY <1>14, <2>1, RolesAssumption
  <2>4. drawn' \in 0 .. MaxDraws
    BY <1>9, <2>1
  <2> QED
    BY <2>1, <2>2, <2>3, <2>4 DEF TypeOK
<1>16. ASSUME NEW e \in Emails, NEW role \in Roles, NEW flag \in BOOLEAN,
              BootstrapActiveAccount(e, role, flag)
       PROVE  TypeOK'
  <2>1. CanDraw(2)
    BY <1>16 DEF BootstrapActiveAccount
  <2>2. CASE \E id \in AccountIds \ issued :
              /\ accounts' = accounts \cup {Activated(NewAccount(id, e, role, flag), Draw)}
              /\ recovery' = recovery \cup CodesOf(id, Draw + 1)
              /\ issued' = issued \cup {id}
              /\ UNCHANGED <<challenges, sessions, ceremonies>>
    BY <1>9, <1>14, <1>16, <2>1, <2>2 DEF BootstrapActiveAccount, TypeOK
  <2>3. CASE \E a \in accounts :
              /\ ReplaceFactor(a, Activated(NewAccount(a.id, e, role, flag), Draw),
                               CodesOf(a.id, Draw + 1))
              /\ UNCHANGED issued
    BY <1>7, <1>9, <1>11, <1>14, <1>16, <2>1, <2>3 DEF BootstrapActiveAccount, TypeOK
  <2> QED
    BY <1>16, <2>2, <2>3 DEF BootstrapActiveAccount
<1>17. ASSUME NEW a \in accounts, DeleteAccount(a)
       PROVE  TypeOK'
  BY <1>17 DEF DeleteAccount, NotOfAccount, Cascade, TypeOK
<1>18. ASSUME NEW c \in challenges
       PROVE  c \in Challenge /\ c.token \in LoginTokens /\ c.account \in AccountIds
  BY DEF TypeOK, Challenge
<1>19. ASSUME NEW a \in accounts, CreatePendingChallenge(a)
       PROVE  TypeOK'
  <2>1. accounts' \subseteq Account
    BY <1>19, ReleasedType DEF CreatePendingChallenge, TypeOK
  <2>2. PICK t \in LoginTokens, kept \in SUBSET challenges :
          /\ challenges' = kept \cup
               {[token |-> t, account |-> a.id, created |-> now, failures |-> 0]}
          /\ issued' = issued \cup {t}
    BY <1>19, CreatePendingChallengeEffect
  <2>3. [token |-> t, account |-> a.id, created |-> now, failures |-> 0] \in Challenge
    BY <1>11, LimitsAssumption DEF TypeOK, Challenge
  <2> QED
    BY <1>19, <2>1, <2>2, <2>3 DEF CreatePendingChallenge, TypeOK
<1>20. ASSUME NEW c \in challenges, NEW a \in accounts, BeginTotpEnrollment(c, a)
       PROVE  TypeOK'
  <2>1. WithFactor(a, "pending", Draw, c.token, -1) \in Account
    BY <1>10, <1>11, <1>18, <1>20, WithFactorType, NoCounterType DEF BeginTotpEnrollment, Secrets
  <2> QED
    BY <1>10, <1>20, <2>1 DEF BeginTotpEnrollment, ReplaceAccount, NotOfAccount, Cascade, TypeOK
<1>21. ASSUME NEW c \in challenges, NEW a \in accounts, NEW code \in Codes,
              ConfirmTotpEnrollment(c, a, code)
       PROVE  TypeOK'
  <2>1. WithFactor(a, "active", a.secret, None, code) \in Account
    BY <1>11, <1>21, WithFactorType DEF Codes
  <2>2. CodesOf(a.id, Draw) \subseteq RecoveryRow /\ drawn + 1 \in 0 .. MaxDraws
    BY <1>10, <1>11, <1>21, CodesOfType DEF ConfirmTotpEnrollment
  <2>3. /\ sessions' \subseteq Session
        /\ issued' \subseteq AccountIds \cup LoginTokens \cup SessionTokens \cup CeremonyTokens
    BY <1>11, <1>21, IssueSessionType DEF ConfirmTotpEnrollment, TypeOK
  <2> QED
    BY <1>11, <1>18, <1>21, <2>1, <2>2, <2>3
    DEF ConfirmTotpEnrollment, ReplaceAccount, NotOfAccount, Cascade, Accept, Codes, TypeOK
<1>22. ASSUME NEW c \in challenges, NEW a \in accounts, NEW code \in Codes,
              CompleteTotpChallenge(c, a, code)
       PROVE  TypeOK'
  <2>1. Consumed(a, code) \in Account
    BY <1>11, SimpleAccountTypes, RolesAssumption DEF Codes
  <2>2. /\ sessions' \subseteq Session
        /\ issued' \subseteq AccountIds \cup LoginTokens \cup SessionTokens \cup CeremonyTokens
    BY <1>11, <1>22, IssueSessionType DEF CompleteTotpChallenge, TypeOK
  <2> QED
    BY <1>11, <1>18, <1>22, <2>1, <2>2
    DEF CompleteTotpChallenge, ReplaceAccount, Cascade, Accept, Codes, TypeOK
<1>23. ASSUME NEW c \in challenges, NEW a \in accounts, NEW r \in recovery,
              CompleteRecoveryChallenge(c, a, r)
       PROVE  TypeOK'
  <2>1. r.code \in RecoveryCodes
    BY DEF TypeOK, RecoveryRow
  <2>2. /\ sessions' \subseteq Session
        /\ issued' \subseteq AccountIds \cup LoginTokens \cup SessionTokens \cup CeremonyTokens
    <3>1. NotOfAccount(sessions, a.id) \in SUBSET Session
      BY DEF NotOfAccount, TypeOK
    <3> QED
      BY <1>11, <1>23, <3>1, IssueSessionType DEF CompleteRecoveryChallenge
  <2> QED
    BY <1>18, <1>23, <2>1, <2>2
    DEF CompleteRecoveryChallenge, NotOfAccount, Cascade, Accept, TypeOK
<1>24. ASSUME NEW c \in challenges, NEW a \in accounts, RejectSecondFactor(c, a)
       PROVE  TypeOK'
  <2>1. CASE c.failures + 1 >= FailureLimit
    BY <1>24, <2>1, ReleasedType DEF RejectSecondFactor, RecordChallengeFailure, TypeOK
  <2>2. CASE ~(c.failures + 1 >= FailureLimit)
    <3>1. [c EXCEPT !.failures = @ + 1] \in Challenge
      <4>1. c.failures \in Nat
        BY <1>18, LimitsAssumption DEF Challenge
      <4> QED
        BY <1>18, <2>2, <4>1, RecordFailureTypes, LimitsAssumption
    <3> QED
      BY <1>24, <2>2, <3>1 DEF RejectSecondFactor, RecordChallengeFailure, TypeOK
  <2> QED
    BY <2>1, <2>2
<1>25. ASSUME NEW s \in sessions
       PROVE  /\ s \in Session /\ s.account \in AccountIds /\ s.token \in SessionTokens
              /\ Touched(s) \in Session
              /\ TouchSession(s) => sessions' \subseteq Session
              /\ ElevateSession(s) => sessions' \subseteq Session
  BY TouchedType DEF TypeOK, Session, TouchSession, ElevateSession
<1>26. ASSUME NEW s \in sessions, DropExpiredSession(s) \/ RevokeSession(s)
       PROVE  TypeOK'
  BY <1>26 DEF DropExpiredSession, RevokeSession, Cascade, TypeOK
<1>27. ASSUME NEW s \in sessions, AuthenticateSession(s)
       PROVE  TypeOK'
  BY <1>25, <1>27 DEF AuthenticateSession, TypeOK
<1>28. ASSUME NEW s \in sessions, NEW a \in accounts, NEW code \in Codes, VerifyTotp(s, a, code)
       PROVE  TypeOK'
  <2>1. Consumed(a, code) \in Account
    BY <1>11, SimpleAccountTypes, RolesAssumption DEF Codes
  <2>2. [kind |-> "totp", account |-> a.id, email |-> a.email, session |-> s.token] \in Held
    BY <1>11, <1>25 DEF Held
  <2> QED
    BY <1>11, <1>28, <2>1, <2>2 DEF VerifyTotp, ReplaceAccount, Accept, Codes, TypeOK
<1>29. ASSUME NEW s \in sessions, MarkStepUp(s)
       PROVE  TypeOK'
  BY <1>25, <1>29 DEF MarkStepUp, TypeOK
<1>30. ASSUME ListSessions
       PROVE  TypeOK'
  BY <1>30 DEF ListSessions, LiveSessions, Cascade, TypeOK
<1>31. ASSUME NEW s \in sessions, BeginPasskeyRegistration(s)
       PROVE  TypeOK'
  BY <1>25, <1>31, CreateCeremonyType DEF BeginPasskeyRegistration, Purposes, TypeOK
<1>32. ASSUME NEW s \in sessions, BeginPasskeyStepUp(s)
       PROVE  TypeOK'
  BY <1>25, <1>32, CreateCeremonyType DEF BeginPasskeyStepUp, Purposes, TypeOK
<1>33. ASSUME BeginPasskeyLogin
       PROVE  TypeOK'
  BY <1>33, CreateCeremonyType DEF BeginPasskeyLogin, Purposes, TypeOK
<1>34. ASSUME NEW c \in ceremonies
       PROVE  /\ c \in Ceremony /\ c.token \in CeremonyTokens
              /\ RecordCeremonyFailure(c) => ceremonies' \subseteq Ceremony
  <2>1. c \in Ceremony /\ c.token \in CeremonyTokens /\ c.failures \in Nat
    BY LimitsAssumption DEF TypeOK, Ceremony
  <2> QED
    BY <2>1, RecordFailureTypes, LimitsAssumption DEF RecordCeremonyFailure, TypeOK
<1>35. ASSUME NEW p \in passkeys, NEW n \in 0 .. MaxSignCount
       PROVE  Counted(p, n) \subseteq Passkey
  BY DEF Counted, Passkey, TypeOK
<1>36. ASSUME NEW s \in sessions, NEW c \in ceremonies, NEW k \in Credentials,
              NEW n \in 0 .. MaxSignCount, CompletePasskeyRegistration(s, c, k, n)
       PROVE  TypeOK'
  <2>1. [credential |-> k, account |-> s.account, signCount |-> n] \in Passkey
    BY <1>25 DEF Passkey
  <2> QED
    BY <1>25, <1>34, <1>36, <2>1 DEF CompletePasskeyRegistration, Accept, TypeOK
<1>37. ASSUME NEW s \in sessions, NEW c \in ceremonies, NEW p \in passkeys,
              NEW n \in 0 .. MaxSignCount, CompletePasskeyStepUp(s, c, p, n)
       PROVE  TypeOK'
  BY <1>25, <1>34, <1>35, <1>37 DEF CompletePasskeyStepUp, Accept, TypeOK
<1>38. ASSUME NEW s \in sessions, NEW c \in ceremonies, RejectPasskeyResponse(s, c)
       PROVE  TypeOK'
  BY <1>25, <1>34, <1>38 DEF RejectPasskeyResponse, TypeOK
<1>39. ASSUME NEW c \in ceremonies, NEW p \in passkeys, NEW a \in accounts,
              NEW n \in 0 .. MaxSignCount, VerifyPasskeyLogin(c, p, a, n)
       PROVE  TypeOK'
  <2>1. [kind |-> "passkey", account |-> a.id, email |-> a.email, session |-> None] \in Held
    BY <1>11 DEF Held
  <2> QED
    BY <1>34, <1>35, <1>39, <2>1 DEF VerifyPasskeyLogin, Accept, TypeOK
<1>40. ASSUME NEW c \in ceremonies, RejectPasskeyLogin(c)
       PROVE  TypeOK'
  BY <1>34, <1>40 DEF RejectPasskeyLogin, TypeOK
<1>41. ASSUME NEW a \in accounts, IssueVerifiedPasskeySession(a)
       PROVE  TypeOK'
  <2>1. /\ sessions' \subseteq Session
        /\ issued' \subseteq AccountIds \cup LoginTokens \cup SessionTokens \cup CeremonyTokens
    BY <1>11, <1>41, IssueSessionType DEF IssueVerifiedPasskeySession, TypeOK
  <2> QED
    BY <1>41, <2>1 DEF IssueVerifiedPasskeySession, Cascade, TypeOK
<1>42. ASSUME NEW p \in passkeys, DeletePasskey(p)
       PROVE  TypeOK'
  BY <1>42 DEF DeletePasskey, TypeOK
<1>43. ASSUME HelperGivesUp \/ Tick
       PROVE  TypeOK'
  BY <1>43 DEF HelperGivesUp, Tick, TypeOK
<1>44. ASSUME PasswordLogin \/ SessionUse
       PROVE  TypeOK'
  BY <1>44, <1>19, <1>20, <1>21, <1>22, <1>23, <1>24, <1>26, <1>27, <1>28, <1>29, <1>30
  DEF PasswordLogin, SessionUse
<1>45. ASSUME PasskeyUse
       PROVE  TypeOK'
  BY <1>45, <1>31, <1>32, <1>33, <1>36, <1>37, <1>38, <1>39, <1>40, <1>41, <1>42 DEF PasskeyUse
<1>46. ASSUME AccountManagement \/ RootCommands
       PROVE  TypeOK'
  BY <1>46, <1>2, <1>4, <1>5, <1>6, <1>12, <1>13, <1>15, <1>16, <1>17
  DEF AccountManagement, RootCommands
<1> QED
  BY <1>1, <1>8, <1>43, <1>44, <1>45, <1>46 DEF ApiNext, Next

\* Type correctness of the store under every use of its methods.
THEOREM TypeCorrect == ApiSpec => []TypeOK
<1>1. TypeOK /\ UNCHANGED vars => TypeOK'
  BY DEF TypeOK, vars, tables, history
<1>2. TypeOK /\ [ApiNext]_vars => TypeOK'
  BY <1>1, TypeStep
<1> QED
  BY TypeInit, <1>2, PTL DEF ApiSpec

----------------------------------------------------------------------------
(* Keys *)

\* The row an operation writes in place of account a keeps its identifier.
LEMMA SameId ==
    ASSUME NEW a \in Account, NEW state, NEW secret, NEW owner, NEW counter, NEW role, NEW flag
    PROVE  /\ WithFactor(a, state, secret, owner, counter).id = a.id
           /\ Released(a).id = a.id /\ Activated(a, secret).id = a.id
           /\ [a EXCEPT !.role = role].id = a.id
           /\ [a EXCEPT !.mustChange = flag].id = a.id
           /\ Consumed(a, counter).id = a.id
  BY DEF WithFactor, Released, Activated, Consumed, Account

\* An operation that writes at most one account row, in place, and otherwise
\* only removes challenges and ceremonies keeps the keys.
LEMMA KeysKept ==
    ASSUME KeysUnique,
           \/ accounts' \subseteq accounts
           \/ \E a \in accounts : \E b : b.id = a.id /\ accounts' = ReplaceAccount(a, b),
           challenges' \subseteq challenges, ceremonies' \subseteq ceremonies,
           issued \subseteq issued'
    PROVE  KeysUnique'
  BY DEF KeysUnique, ReplaceAccount

\* An operation that adds accounts takes identifiers that were not issued.
LEMMA KeysAdded ==
    ASSUME KeysUnique, accounts \subseteq accounts',
           \A a \in accounts' \ accounts : a.id \in issued' \ issued,
           \A a, b \in accounts' \ accounts : a.id = b.id => a = b,
           challenges' \subseteq challenges, ceremonies' \subseteq ceremonies,
           issued \subseteq issued'
    PROVE  KeysUnique'
  BY DEF KeysUnique

\* An empty database has unique keys.
LEMMA KeysInit == Init => KeysUnique
  BY DEF Init, KeysUnique

\* Every method keeps identifiers and tokens unique and issued.
LEMMA KeysStep ==
    ASSUME TypeOK, KeysUnique, ApiNext
    PROVE  KeysUnique'
<1> USE DEF history, tables
<1>a. accounts \subseteq Account
  BY DEF TypeOK
<1>1. ASSUME NEW e \in Emails, NEW role \in Roles, NEW flag \in BOOLEAN,
             CreateAccount(e, role, flag)
      PROVE  KeysUnique'
  <2>1. PICK id \in AccountIds \ issued :
          /\ accounts' = accounts \cup {NewAccount(id, e, role, flag)}
          /\ issued' = issued \cup {id}
    BY <1>1 DEF CreateAccount
  <2> QED
    BY <1>1, <2>1, KeysAdded DEF CreateAccount, NewAccount
<1>2. ASSUME NEW es \in SUBSET Emails, NEW flag \in BOOLEAN, SyncAccounts(es, "user", flag)
      PROVE  KeysUnique'
  <2> DEFINE missing == {e \in es : \A a \in accounts : a.email # e}
  <2>1. PICK id \in [missing -> AccountIds \ issued] :
          /\ \A e, f \in missing : id[e] = id[f] => e = f
          /\ accounts' = accounts \cup {NewAccount(id[e], e, "user", flag) : e \in missing}
          /\ issued' = issued \cup {id[e] : e \in missing}
    BY <1>2 DEF SyncAccounts
  <2>2. \A e \in missing : NewAccount(id[e], e, "user", flag).id = id[e]
    BY DEF NewAccount
  <2>3. \A a \in accounts' \ accounts : \E e \in missing :
          a = NewAccount(id[e], e, "user", flag) /\ a.id = id[e]
    BY <2>1, <2>2
  <2>4. \A a \in accounts' \ accounts : a.id \in issued' \ issued
    BY <2>1, <2>3
  <2>5. \A a, b \in accounts' \ accounts : a.id = b.id => a = b
    BY <2>1, <2>3
  <2> QED
    BY <1>2, <2>1, <2>4, <2>5, KeysAdded DEF SyncAccounts
<1>3. ASSUME NEW a \in accounts, NEW b, b.id = a.id, NEW andSessions \in BOOLEAN,
             b \in Account, RevokeAuthentication(a, b, andSessions), UNCHANGED issued
      PROVE  KeysUnique'
  BY <1>3, KeysKept, SameId DEF RevokeAuthentication, NotOfAccount, Cascade
<1>4. ASSUME NEW a \in accounts, NEW role \in Roles, SetRole(a, role)
      PROVE  KeysUnique'
  BY <1>3, <1>4, <1>a, SameId, SimpleAccountTypes, NoCounterType DEF SetRole
<1>5. ASSUME NEW a \in accounts, NEW flag \in BOOLEAN, NEW andSessions \in BOOLEAN,
             SetPasswordChangeRequired(a, flag, andSessions)
      PROVE  KeysUnique'
  BY <1>3, <1>5, <1>a, SameId, SimpleAccountTypes, NoCounterType, RolesAssumption
  DEF SetPasswordChangeRequired
<1>6. ASSUME NEW a \in accounts, RevokeSessions(a)
      PROVE  KeysUnique'
  BY <1>3, <1>6, <1>a DEF RevokeSessions
<1>7. ASSUME NEW a \in accounts, NEW b, b.id = a.id, NEW codes,
             ReplaceFactor(a, b, codes), UNCHANGED issued
      PROVE  KeysUnique'
  BY <1>7, KeysKept DEF ReplaceFactor, NotOfAccount, Cascade
<1>8. ASSUME NEW a \in accounts, NEW code \in Codes,
             ResetTotp(a) \/ RotateTotp(a) \/ RegenerateRecoveryCodes(a, code)
      PROVE  KeysUnique'
  BY <1>7, <1>8, <1>a, SameId DEF ResetTotp, RotateTotp, RegenerateRecoveryCodes
<1>9. ASSUME NEW id, NEW e, NEW role, NEW flag, NEW secret
      PROVE  Activated(NewAccount(id, e, role, flag), secret).id = id
  BY DEF Activated, WithFactor, NewAccount
<1>10. ASSUME NEW e \in Emails, NEW flag \in BOOLEAN,
              ProvisionActiveAccount(e, "user", flag)
       PROVE  KeysUnique'
  <2>1. PICK id \in AccountIds \ issued :
          /\ accounts' = accounts \cup {Activated(NewAccount(id, e, "user", flag), Draw)}
          /\ issued' = issued \cup {id}
          /\ UNCHANGED <<challenges, ceremonies>>
    BY <1>10 DEF ProvisionActiveAccount
  <2>2. \A a \in accounts' \ accounts :
          a = Activated(NewAccount(id, e, "user", flag), Draw) /\ a.id = id
    BY <1>9, <2>1
  <2> QED
    BY <2>1, <2>2, KeysAdded
<1>11. ASSUME NEW e \in Emails, NEW role \in Roles, NEW flag \in BOOLEAN,
              BootstrapActiveAccount(e, role, flag)
       PROVE  KeysUnique'
  <2>1. CASE \E id \in AccountIds \ issued :
              /\ accounts' = accounts \cup {Activated(NewAccount(id, e, role, flag), Draw)}
              /\ issued' = issued \cup {id}
              /\ UNCHANGED <<challenges, ceremonies>>
    <3>1. PICK id \in AccountIds \ issued :
              /\ accounts' = accounts \cup {Activated(NewAccount(id, e, role, flag), Draw)}
              /\ issued' = issued \cup {id}
              /\ UNCHANGED <<challenges, ceremonies>>
      BY <2>1
    <3> QED
      BY <1>9, <3>1, KeysAdded
  <2>2. CASE \E a \in accounts :
              /\ ReplaceFactor(a, Activated(NewAccount(a.id, e, role, flag), Draw),
                               CodesOf(a.id, Draw + 1))
              /\ UNCHANGED issued
    BY <1>7, <1>9, <2>2
  <2> QED
    BY <1>11, <2>1, <2>2 DEF BootstrapActiveAccount
<1>12. ASSUME NEW a \in accounts, DeleteAccount(a)
       PROVE  KeysUnique'
  BY <1>12, KeysKept DEF DeleteAccount, NotOfAccount, Cascade
<1>13. ASSUME NEW a \in accounts, CreatePendingChallenge(a)
       PROVE  KeysUnique'
  <2>1. \A b, d \in accounts' : b.id = d.id => b = d
    BY <1>13, <1>a, SameId DEF CreatePendingChallenge, KeysUnique
  <2>2. \A b \in accounts' : b.id \in issued
    BY <1>13, <1>a, SameId DEF CreatePendingChallenge, KeysUnique
  <2> QED
    BY <1>13, <2>1, <2>2, CreatePendingChallengeEffect DEF CreatePendingChallenge, KeysUnique
<1>14. ASSUME NEW c \in challenges, NEW a \in accounts, BeginTotpEnrollment(c, a)
       PROVE  KeysUnique'
  BY <1>14, <1>a, SameId, KeysKept DEF BeginTotpEnrollment, NotOfAccount, Cascade
<1>15. ASSUME NEW c \in challenges, NEW a \in accounts, NEW code \in Codes,
              \/ ConfirmTotpEnrollment(c, a, code)
              \/ CompleteTotpChallenge(c, a, code)
       PROVE  KeysUnique'
  <2>1. issued \subseteq issued'
    BY <1>15, IssueSessionEffect DEF ConfirmTotpEnrollment, CompleteTotpChallenge
  <2>2. challenges' \subseteq challenges /\ ceremonies' \subseteq ceremonies
    BY <1>15 DEF ConfirmTotpEnrollment, CompleteTotpChallenge, NotOfAccount, Cascade
  <2>3. \E b : b.id = a.id /\ accounts' = ReplaceAccount(a, b)
    BY <1>15, <1>a, SameId DEF ConfirmTotpEnrollment, CompleteTotpChallenge
  <2> QED
    BY <2>1, <2>2, <2>3, KeysKept
<1>16. ASSUME NEW c \in challenges, NEW a \in accounts, NEW r \in recovery,
              CompleteRecoveryChallenge(c, a, r)
       PROVE  KeysUnique'
  <2>1. issued \subseteq issued'
    BY <1>16, IssueSessionEffect DEF CompleteRecoveryChallenge
  <2> QED
    BY <1>16, <2>1, KeysKept DEF CompleteRecoveryChallenge, NotOfAccount, Cascade
<1>17. ASSUME NEW c \in challenges, NEW a \in accounts, RejectSecondFactor(c, a)
       PROVE  KeysUnique'
  <2>1. c \in Challenge
    BY DEF TypeOK
  <2>2. [c EXCEPT !.failures = @ + 1].token = c.token
    BY <2>1 DEF Challenge
  <2>3. CASE c.failures + 1 >= FailureLimit
    <3>1. \A b, d \in accounts' : b.id = d.id => b = d
      BY <1>17, <1>a, <2>3, SameId DEF RejectSecondFactor, RecordChallengeFailure, KeysUnique
    <3>2. \A b \in accounts' : b.id \in issued
      BY <1>17, <1>a, <2>3, SameId DEF RejectSecondFactor, RecordChallengeFailure, KeysUnique
    <3> QED
      BY <1>17, <2>3, <3>1, <3>2 DEF RejectSecondFactor, RecordChallengeFailure, KeysUnique
  <2>4. CASE ~(c.failures + 1 >= FailureLimit)
    BY <1>17, <2>2, <2>4 DEF RejectSecondFactor, RecordChallengeFailure, KeysUnique
  <2> QED
    BY <2>3, <2>4
<1>18. ASSUME NEW s \in sessions, NEW a \in accounts, NEW code \in Codes, VerifyTotp(s, a, code)
       PROVE  KeysUnique'
  BY <1>18, <1>a, SameId, KeysKept DEF VerifyTotp
<1>19. ASSUME NEW s \in sessions,
              \/ DropExpiredSession(s) \/ RevokeSession(s) \/ AuthenticateSession(s)
              \/ MarkStepUp(s)
       PROVE  KeysUnique'
  BY <1>19, KeysKept DEF DropExpiredSession, RevokeSession, AuthenticateSession, MarkStepUp, Cascade
<1>20. ASSUME \/ ListSessions \/ HelperGivesUp \/ Tick
              \/ \E p \in passkeys : DeletePasskey(p)
       PROVE  KeysUnique'
  BY <1>20, KeysKept DEF ListSessions, HelperGivesUp, Tick, DeletePasskey, Cascade
<1>21. ASSUME NEW purpose, NEW id, NEW session, CreateCeremony(purpose, id, session),
              UNCHANGED <<accounts, challenges>>
       PROVE  KeysUnique'
  <2>1. PICK t \in CeremonyTokens \ issued, kept \in SUBSET ceremonies :
          /\ ceremonies' = kept \cup
               {[token |-> t, purpose |-> purpose, account |-> id, session |-> session,
                 created |-> now, failures |-> 0]}
          /\ issued' = issued \cup {t}
    BY <1>21, CreateCeremonyEffect
  <2> QED
    BY <1>21, <2>1 DEF KeysUnique
<1>22. ASSUME \/ BeginPasskeyLogin
              \/ \E s \in sessions : BeginPasskeyRegistration(s) \/ BeginPasskeyStepUp(s)
       PROVE  KeysUnique'
  BY <1>21, <1>22 DEF BeginPasskeyLogin, BeginPasskeyRegistration, BeginPasskeyStepUp
<1>23. ASSUME NEW c \in ceremonies, RecordCeremonyFailure(c), UNCHANGED <<accounts, challenges, issued>>
       PROVE  KeysUnique'
  <2> DEFINE d == [c EXCEPT !.failures = @ + 1]
  <2>1. d.token = c.token
    BY DEF TypeOK, Ceremony
  <2>2. ceremonies' \subseteq (ceremonies \ {c}) \cup {d}
    BY <1>23 DEF RecordCeremonyFailure
  <2> HIDE DEF d
  <2> QED
    BY <1>23, <2>1, <2>2 DEF KeysUnique
<1>24. ASSUME NEW c \in ceremonies,
              RejectPasskeyLogin(c) \/ \E s \in sessions : RejectPasskeyResponse(s, c)
       PROVE  KeysUnique'
  BY <1>23, <1>24 DEF RejectPasskeyLogin, RejectPasskeyResponse
<1>25. ASSUME NEW c \in ceremonies, NEW n \in 0 .. MaxSignCount,
              \/ \E s \in sessions, k \in Credentials : CompletePasskeyRegistration(s, c, k, n)
              \/ \E s \in sessions, p \in passkeys : CompletePasskeyStepUp(s, c, p, n)
              \/ \E p \in passkeys, a \in accounts : VerifyPasskeyLogin(c, p, a, n)
       PROVE  KeysUnique'
  BY <1>25, KeysKept DEF CompletePasskeyRegistration, CompletePasskeyStepUp, VerifyPasskeyLogin
<1>26. ASSUME NEW a \in accounts, IssueVerifiedPasskeySession(a)
       PROVE  KeysUnique'
  BY <1>26, IssueSessionEffect, KeysKept DEF IssueVerifiedPasskeySession, Cascade
<1>27. ASSUME PasswordLogin \/ SessionUse
       PROVE  KeysUnique'
  BY <1>27, <1>13, <1>14, <1>15, <1>16, <1>17, <1>18, <1>19, <1>20 DEF PasswordLogin, SessionUse
<1>28. ASSUME PasskeyUse
       PROVE  KeysUnique'
  BY <1>28, <1>20, <1>22, <1>24, <1>25, <1>26 DEF PasskeyUse
<1>29. ASSUME AccountManagement \/ RootCommands
       PROVE  KeysUnique'
  <2>1. -1 \in Codes
    BY NoCounterType DEF Codes
  <2> QED
    BY <1>29, <2>1, <1>2, <1>4, <1>5, <1>6, <1>8, <1>10, <1>11, <1>12
    DEF AccountManagement, RootCommands
<1>30. ASSUME NEW a \in accounts, ResetTotp(a)
       PROVE  KeysUnique'
  <2>1. -1 \in Codes
    BY NoCounterType DEF Codes
  <2> QED
    BY <1>8, <1>30, <2>1
<1> QED
  BY <1>1, <1>20, <1>27, <1>28, <1>29, <1>30 DEF ApiNext, Next

----------------------------------------------------------------------------
(* Pending enrollments *)

\* What the passkey handlers leave alone: no account, recovery code or pending
\* login changes, and a helper between its two transactions stays there except
\* where a passkey login begins or ends
LEMMA PasskeyUseKeeps ==
    ASSUME PasskeyUse
    PROVE  /\ UNCHANGED <<accounts, recovery, challenges>>
           /\ \/ UNCHANGED held
              \/ held' = None
              \/ \E c \in ceremonies, p \in passkeys, a \in accounts, n \in 0 .. MaxSignCount :
                   VerifyPasskeyLogin(c, p, a, n)
<1> DEFINE Kept == UNCHANGED <<accounts, recovery, challenges>>
<1>1. ASSUME BeginPasskeyLogin
      PROVE  Kept /\ UNCHANGED held
  BY <1>1 DEF BeginPasskeyLogin
<1>2. ASSUME NEW p, DeletePasskey(p)
      PROVE  Kept /\ UNCHANGED held
  BY <1>2 DEF DeletePasskey
<1>3. ASSUME NEW c, RejectPasskeyLogin(c)
      PROVE  Kept /\ UNCHANGED held
  BY <1>3 DEF RejectPasskeyLogin
<1>4. ASSUME NEW c, NEW p, NEW a, NEW n, VerifyPasskeyLogin(c, p, a, n)
      PROVE  Kept
  BY <1>4 DEF VerifyPasskeyLogin
<1>5. ASSUME NEW a, IssueVerifiedPasskeySession(a)
      PROVE  Kept /\ held' = None
  BY <1>5 DEF IssueVerifiedPasskeySession
<1>6. ASSUME NEW s, BeginPasskeyRegistration(s) \/ BeginPasskeyStepUp(s)
      PROVE  Kept /\ UNCHANGED held
  BY <1>6 DEF BeginPasskeyRegistration, BeginPasskeyStepUp
<1>7. ASSUME NEW s, NEW c, RejectPasskeyResponse(s, c)
      PROVE  Kept /\ UNCHANGED held
  BY <1>7 DEF RejectPasskeyResponse
<1>8. ASSUME NEW s, NEW c, NEW k, NEW n, CompletePasskeyRegistration(s, c, k, n)
      PROVE  Kept /\ UNCHANGED held
  BY <1>8 DEF CompletePasskeyRegistration
<1>9. ASSUME NEW s, NEW c, NEW p, NEW n, CompletePasskeyStepUp(s, c, p, n)
      PROVE  Kept /\ UNCHANGED held
  BY <1>9 DEF CompletePasskeyStepUp
<1> HIDE DEF Kept
<1>10. Kept
  BY <1>1, <1>2, <1>3, <1>4, <1>5, <1>6, <1>7, <1>8, <1>9 DEF PasskeyUse
<1>11. \/ UNCHANGED held
       \/ held' = None
       \/ \E c \in ceremonies, p \in passkeys, a \in accounts, n \in 0 .. MaxSignCount :
            VerifyPasskeyLogin(c, p, a, n)
  BY <1>1, <1>2, <1>3, <1>5, <1>6, <1>7, <1>8, <1>9 DEF PasskeyUse
<1> QED
  BY <1>10, <1>11 DEF Kept

\* An operation that adds or removes accounts, none of them added as pending,
\* and removes no challenge of an account that stays.
LEMMA OwnersKept ==
    ASSUME PendingHasOwner,
           \A a \in accounts' \ accounts : a.enrollment # "pending",
           \A c \in challenges : \A a \in accounts' : c.account = a.id => c \in challenges'
    PROVE  PendingHasOwner'
  BY DEF PendingHasOwner

\* An operation that leaves account a enrolled or unenrolled, and removes only
\* challenges of a.
LEMMA OwnersKeptElsewhere ==
    ASSUME TypeOK, KeysUnique, PendingHasOwner, NEW a \in accounts, NEW b, b.enrollment # "pending",
           accounts' = ReplaceAccount(a, b),
           NotOfAccount(challenges, a.id) \subseteq challenges'
    PROVE  PendingHasOwner'
  BY DEF PendingHasOwner, KeysUnique, ReplaceAccount, NotOfAccount

\* An empty database has no pending enrollment.
LEMMA PendingInit == Init => PendingHasOwner
  BY DEF Init, PendingHasOwner

\* Every method keeps or releases a pending enrollment together with its owner row.
LEMMA PendingStep ==
    ASSUME TypeOK, KeysUnique, PendingHasOwner, ApiNext
    PROVE  PendingHasOwner'
<1> USE DEF history, tables
<1>a. accounts \subseteq Account
  BY DEF TypeOK
<1>b. ASSUME NEW a, NEW secret
      PROVE  Released(a).enrollment = "required" /\ Activated(a, secret).enrollment = "active"
  BY DEF Released, Activated, WithFactor
<1>c. ASSUME NEW a, NEW code
      PROVE  Consumed(a, code).enrollment = a.enrollment
  BY DEF Consumed, WithFactor
<1>1. ASSUME \/ \E e \in Emails, role \in Roles, flag \in BOOLEAN : CreateAccount(e, role, flag)
             \/ \E es \in SUBSET Emails, flag \in BOOLEAN : SyncAccounts(es, "user", flag)
      PROVE  PendingHasOwner'
  <2>1. ASSUME NEW id, NEW e, NEW role, NEW flag \in BOOLEAN
        PROVE  NewAccount(id, e, role, flag).enrollment = "required"
    BY DEF NewAccount
  <2>2. ASSUME NEW e \in Emails, NEW role \in Roles, NEW flag \in BOOLEAN,
               CreateAccount(e, role, flag)
        PROVE  PendingHasOwner'
    BY <2>1, <2>2, OwnersKept DEF CreateAccount
  <2>3. ASSUME NEW es \in SUBSET Emails, NEW flag \in BOOLEAN, SyncAccounts(es, "user", flag)
        PROVE  PendingHasOwner'
    <3> DEFINE missing == {e \in es : \A a \in accounts : a.email # e}
    <3>1. PICK id \in [missing -> AccountIds \ issued] :
            accounts' = accounts \cup {NewAccount(id[e], e, "user", flag) : e \in missing}
      BY <2>3 DEF SyncAccounts
    <3> HIDE DEF missing
    <3>2. \A a \in accounts' \ accounts : a.enrollment # "pending"
      BY <2>1, <3>1
    <3> QED
      BY <2>3, <3>2, OwnersKept DEF SyncAccounts
  <2> QED
    BY <1>1, <2>2, <2>3
<1>2. ASSUME NEW a \in accounts, NEW b, NEW andSessions, RevokeAuthentication(a, b, andSessions)
      PROVE  PendingHasOwner'
  <2>1. PICK d : d.enrollment # "pending" /\ accounts' = ReplaceAccount(a, d)
    BY <1>2, <1>b DEF RevokeAuthentication
  <2> QED
    BY <1>2, <2>1, OwnersKeptElsewhere DEF RevokeAuthentication
<1>3. ASSUME NEW a \in accounts,
             \/ \E role \in Roles : SetRole(a, role)
             \/ SetPasswordChangeRequired(a, TRUE, TRUE)
             \/ SetPasswordChangeRequired(a, FALSE, FALSE)
             \/ RevokeSessions(a)
      PROVE  PendingHasOwner'
  BY <1>2, <1>3 DEF SetRole, SetPasswordChangeRequired, RevokeSessions
<1>4. ASSUME NEW a \in accounts, NEW b, b.enrollment # "pending", NEW codes,
             ReplaceFactor(a, b, codes)
      PROVE  PendingHasOwner'
  BY <1>4, OwnersKeptElsewhere DEF ReplaceFactor
<1>5. ASSUME NEW a \in accounts,
             \/ ResetTotp(a) \/ RotateTotp(a)
             \/ \E code \in Codes : RegenerateRecoveryCodes(a, code)
      PROVE  PendingHasOwner'
  BY <1>4, <1>5, <1>b, <1>c DEF ResetTotp, RotateTotp, RegenerateRecoveryCodes
<1>6. ASSUME NEW e \in Emails, NEW flag \in BOOLEAN, ProvisionActiveAccount(e, "user", flag)
      PROVE  PendingHasOwner'
  <2>1. PICK id \in AccountIds \ issued :
          /\ accounts' = accounts \cup {Activated(NewAccount(id, e, "user", flag), Draw)}
          /\ UNCHANGED challenges
    BY <1>6 DEF ProvisionActiveAccount
  <2> QED
    BY <1>b, <2>1, OwnersKept
<1>7. ASSUME NEW e \in Emails, NEW role \in Roles, NEW flag \in BOOLEAN,
             BootstrapActiveAccount(e, role, flag)
      PROVE  PendingHasOwner'
  <2>1. ASSUME NEW id \in AccountIds \ issued,
               accounts' = accounts \cup {Activated(NewAccount(id, e, role, flag), Draw)},
               UNCHANGED challenges
        PROVE  PendingHasOwner'
    BY <1>b, <2>1, OwnersKept
  <2>2. ASSUME NEW a \in accounts,
               ReplaceFactor(a, Activated(NewAccount(a.id, e, role, flag), Draw),
                             CodesOf(a.id, Draw + 1))
        PROVE  PendingHasOwner'
    BY <1>4, <1>b, <2>2
  <2> QED
    BY <1>7, <2>1, <2>2 DEF BootstrapActiveAccount
<1>8. ASSUME NEW a \in accounts, DeleteAccount(a)
      PROVE  PendingHasOwner'
  <2>1. \A c \in challenges : \A x \in accounts' : c.account = x.id => c \in challenges'
    BY <1>8 DEF DeleteAccount, NotOfAccount, KeysUnique
  <2> QED
    BY <1>8, <2>1, OwnersKept DEF DeleteAccount
<1>9. ASSUME NEW a \in accounts, CreatePendingChallenge(a)
      PROVE  PendingHasOwner'
  <2>1. PICK t \in LoginTokens \ issued, kept \in SUBSET challenges :
          /\ challenges' = kept \cup
               {[token |-> t, account |-> a.id, created |-> now, failures |-> 0]}
          /\ \A c \in challenges \ kept :
               \/ ChallengeExpired(c)
               \/ \A b \in accounts' :
                    ~(b.id = c.account /\ b.enrollment = "pending" /\ b.owner = c.token)
    BY <1>9, CreatePendingChallengeEffect
  <2>2. SUFFICES ASSUME NEW b \in accounts', b.enrollment = "pending"
                 PROVE  \E c \in challenges' : c.token = b.owner /\ c.account = b.id
    BY DEF PendingHasOwner
  <2>3. /\ b \in accounts
        /\ \A c \in challenges : c.token = b.owner => ~ChallengeExpired(c)
    BY <1>9, <1>b, <2>2 DEF CreatePendingChallenge
  <2>4. PICK c \in challenges : c.token = b.owner /\ c.account = b.id
    BY <2>2, <2>3 DEF PendingHasOwner
  <2>5. c \in kept
    BY <2>1, <2>2, <2>3, <2>4
  <2> QED
    BY <2>1, <2>4, <2>5
<1>10. ASSUME NEW c \in challenges, NEW a \in accounts, BeginTotpEnrollment(c, a)
       PROVE  PendingHasOwner'
  <2>1. /\ accounts' = ReplaceAccount(a, WithFactor(a, "pending", Draw, c.token, -1))
        /\ challenges' = challenges /\ c.account = a.id
    BY <1>10 DEF BeginTotpEnrollment, LiveChallenge
  <2> QED
    BY <2>1 DEF PendingHasOwner, ReplaceAccount, WithFactor
<1>11. ASSUME NEW c \in challenges, NEW a \in accounts, NEW code \in Codes,
              ConfirmTotpEnrollment(c, a, code)
       PROVE  PendingHasOwner'
  <2>1. WithFactor(a, "active", a.secret, None, code).enrollment # "pending"
    BY DEF WithFactor
  <2> QED
    BY <1>11, <2>1, OwnersKeptElsewhere DEF ConfirmTotpEnrollment
<1>12. ASSUME NEW c \in challenges, NEW a \in accounts, NEW code \in Codes,
              CompleteTotpChallenge(c, a, code)
       PROVE  PendingHasOwner'
  <2>1. /\ accounts' = ReplaceAccount(a, Consumed(a, code)) /\ Consumed(a, code).enrollment # "pending"
        /\ NotOfAccount(challenges, a.id) \subseteq challenges'
    BY <1>12, <1>c DEF CompleteTotpChallenge, LiveChallenge, NotOfAccount
  <2> QED
    BY <2>1, OwnersKeptElsewhere
<1>13. ASSUME NEW c \in challenges, NEW a \in accounts, NEW r \in recovery,
              CompleteRecoveryChallenge(c, a, r)
       PROVE  PendingHasOwner'
  <2>1. accounts' = accounts /\ challenges' = NotOfAccount(challenges, a.id) /\ a.enrollment = "active"
    BY <1>13 DEF CompleteRecoveryChallenge
  <2> QED
    BY <2>1 DEF PendingHasOwner, KeysUnique, NotOfAccount
<1>14. ASSUME NEW c \in challenges, NEW a \in accounts, RejectSecondFactor(c, a)
       PROVE  PendingHasOwner'
  <2>1. CASE c.failures + 1 >= FailureLimit
    <3>1. SUFFICES ASSUME NEW b \in accounts', b.enrollment = "pending"
                   PROVE  \E d \in challenges' : d.token = b.owner /\ d.account = b.id
      BY DEF PendingHasOwner
    <3>2. b \in accounts /\ b.owner # c.token
      BY <1>14, <1>b, <2>1, <3>1 DEF RejectSecondFactor, RecordChallengeFailure
    <3> QED
      BY <1>14, <2>1, <3>1, <3>2 DEF RejectSecondFactor, RecordChallengeFailure, PendingHasOwner
  <2>2. CASE ~(c.failures + 1 >= FailureLimit)
    <3>1. c \in Challenge
      BY DEF TypeOK
    <3>2. PICK d : d.token = c.token /\ d.account = c.account /\ accounts' = accounts
                   /\ challenges' = (challenges \ {c}) \cup {d}
      <4>1. LET d == [c EXCEPT !.failures = @ + 1] IN d.token = c.token /\ d.account = c.account
        BY <3>1 DEF Challenge
      <4> QED
        BY <1>14, <2>2, <4>1 DEF RejectSecondFactor, RecordChallengeFailure
    <3> QED
      BY <3>2 DEF PendingHasOwner
  <2> QED
    BY <2>1, <2>2
<1>15. ASSUME NEW s \in sessions, NEW a \in accounts, NEW code \in Codes, VerifyTotp(s, a, code)
       PROVE  PendingHasOwner'
  <2>1. /\ accounts' = ReplaceAccount(a, Consumed(a, code)) /\ Consumed(a, code).enrollment # "pending"
        /\ challenges' = challenges
    BY <1>15, <1>c DEF VerifyTotp
  <2> QED
    BY <2>1, OwnersKeptElsewhere DEF NotOfAccount
<1>16. ASSUME UNCHANGED <<accounts, challenges>>
       PROVE  PendingHasOwner'
  BY <1>16 DEF PendingHasOwner
<1>17. ASSUME PasswordLogin
       PROVE  PendingHasOwner'
  BY <1>17, <1>9, <1>10, <1>11, <1>12, <1>13, <1>14 DEF PasswordLogin
<1>18. ASSUME SessionUse
       PROVE  PendingHasOwner'
  BY <1>18, <1>15, <1>16
  DEF SessionUse, ListSessions, DropExpiredSession, AuthenticateSession, MarkStepUp, RevokeSession
<1>19. ASSUME PasskeyUse
       PROVE  PendingHasOwner'
  BY <1>19, <1>16, PasskeyUseKeeps
<1>20. ASSUME AccountManagement \/ RootCommands
       PROVE  PendingHasOwner'
  BY <1>20, <1>1, <1>3, <1>5, <1>6, <1>7, <1>8 DEF AccountManagement, RootCommands
<1>21. ASSUME HelperGivesUp \/ Tick
       PROVE  PendingHasOwner'
  BY <1>16, <1>21 DEF HelperGivesUp, Tick
<1> QED
  BY <1>1, <1>5, <1>17, <1>18, <1>19, <1>20, <1>21 DEF ApiNext, Next

\* No account is ever left pending without the challenge that owns its
\* enrollment, whatever sequence of methods the helper and the root commands
\* call.
THEOREM PendingAlwaysOwned == ApiSpec => []PendingHasOwner
<1> DEFINE Inv == TypeOK /\ KeysUnique /\ PendingHasOwner
<1>1. Init => Inv
  BY TypeInit, KeysInit, PendingInit
<1>2. Inv /\ UNCHANGED vars => Inv'
  BY DEF TypeOK, KeysUnique, PendingHasOwner, vars, tables, history
<1>3. Inv /\ [ApiNext]_vars => Inv'
  BY <1>2, TypeStep, KeysStep, PendingStep
<1> QED
  BY <1>1, <1>3, PTL DEF ApiSpec

----------------------------------------------------------------------------
(* One-time proofs: tokens *)

\* While nothing is honoured, old rows and rows with an unused token keep TokensGone.
LEMMA TokensKept ==
    ASSUME TokensGone, UNCHANGED usedTokens, issued \subseteq issued',
           \A c \in challenges' \cup ceremonies' :
              c.token \notin issued \/ \E d \in challenges \cup ceremonies : d.token = c.token
    PROVE  TokensGone'
  BY DEF TokensGone

\* A token that is honoured was not honoured before, and its row goes.
LEMMA TokenSpent ==
    ASSUME TypeOK, KeysUnique, TokensGone, NEW c \in challenges \cup ceremonies,
           usedTokens' = usedTokens \cup {c.token}, issued \subseteq issued',
           challenges' \subseteq challenges \ {c}, ceremonies' \subseteq ceremonies \ {c}
    PROVE  TokensGone' /\ {c.token} \cap usedTokens = {}
<1>1. \A x \in challenges, y \in ceremonies : x.token # y.token
  BY PoolsAssumption DEF TypeOK, Challenge, Ceremony
<1>2. \A x \in challenges' \cup ceremonies' : x.token # c.token
  BY <1>1 DEF KeysUnique
<1> QED
  BY <1>2 DEF TokensGone, KeysUnique

\* Every method deletes the challenge or ceremony it honours.
LEMMA TokensStep ==
    ASSUME TypeOK, KeysUnique, TokensGone, ApiNext
    PROVE  TokensGone'
<1> USE DEF history, tables
<1>1. ASSUME challenges' \subseteq challenges, ceremonies' \subseteq ceremonies,
             issued \subseteq issued', UNCHANGED usedTokens
      PROVE  TokensGone'
  BY <1>1, TokensKept
<1>2. ASSUME NEW a \in accounts, NEW b, NEW andSessions, RevokeAuthentication(a, b, andSessions)
      PROVE  challenges' \subseteq challenges /\ ceremonies' \subseteq ceremonies
  BY <1>2 DEF RevokeAuthentication, NotOfAccount, Cascade
<1>3. ASSUME NEW a \in accounts, NEW b, NEW codes, ReplaceFactor(a, b, codes)
      PROVE  challenges' \subseteq challenges /\ ceremonies' \subseteq ceremonies
  BY <1>3 DEF ReplaceFactor, NotOfAccount, Cascade
<1>4. ASSUME NEW a \in accounts,
             \/ \E role \in Roles : SetRole(a, role)
             \/ SetPasswordChangeRequired(a, TRUE, TRUE)
             \/ SetPasswordChangeRequired(a, FALSE, FALSE)
             \/ RevokeSessions(a)
      PROVE  TokensGone'
  BY <1>1, <1>2, <1>4 DEF SetRole, SetPasswordChangeRequired, RevokeSessions
<1>5. ASSUME NEW a \in accounts,
             \/ ResetTotp(a) \/ RotateTotp(a)
             \/ \E code \in Codes : RegenerateRecoveryCodes(a, code)
      PROVE  TokensGone'
  BY <1>1, <1>3, <1>5 DEF ResetTotp, RotateTotp, RegenerateRecoveryCodes, Accept
<1>6. ASSUME NEW e \in Emails, NEW role \in Roles, NEW flag \in BOOLEAN,
             \/ CreateAccount(e, role, flag)
             \/ BootstrapActiveAccount(e, role, flag)
             \/ ProvisionActiveAccount(e, "user", flag)
      PROVE  TokensGone'
  <2>1. issued \subseteq issued' /\ UNCHANGED usedTokens
    BY <1>6 DEF CreateAccount, BootstrapActiveAccount, ProvisionActiveAccount
  <2>2. challenges' \subseteq challenges /\ ceremonies' \subseteq ceremonies
    BY <1>3, <1>6 DEF CreateAccount, BootstrapActiveAccount, ProvisionActiveAccount
  <2> QED
    BY <1>1, <2>1, <2>2
<1>7. ASSUME NEW es \in SUBSET Emails, NEW flag \in BOOLEAN, SyncAccounts(es, "user", flag)
      PROVE  TokensGone'
  BY <1>1, <1>7 DEF SyncAccounts
<1>8. ASSUME NEW a \in accounts, DeleteAccount(a)
      PROVE  TokensGone'
  BY <1>1, <1>8 DEF DeleteAccount, NotOfAccount, Cascade
<1>9. ASSUME NEW a \in accounts, CreatePendingChallenge(a)
      PROVE  TokensGone'
  BY <1>9, CreatePendingChallengeEffect, TokensKept DEF CreatePendingChallenge
<1>10. ASSUME NEW c \in challenges, NEW a \in accounts, BeginTotpEnrollment(c, a)
       PROVE  TokensGone'
  BY <1>1, <1>10 DEF BeginTotpEnrollment, NotOfAccount, Cascade
<1>11. ASSUME NEW c \in challenges, NEW a \in accounts,
              \/ \E code \in Codes : ConfirmTotpEnrollment(c, a, code)
              \/ \E code \in Codes : CompleteTotpChallenge(c, a, code)
              \/ \E r \in recovery : CompleteRecoveryChallenge(c, a, r)
       PROVE  TokensGone'
  <2>1. issued \subseteq issued'
    BY <1>11, IssueSessionEffect
    DEF ConfirmTotpEnrollment, CompleteTotpChallenge, CompleteRecoveryChallenge
  <2>2. usedTokens' = usedTokens \cup {c.token}
    BY <1>11 DEF ConfirmTotpEnrollment, CompleteTotpChallenge, CompleteRecoveryChallenge, Accept
  <2>3. challenges' \subseteq challenges \ {c}
    BY <1>11
    DEF ConfirmTotpEnrollment, CompleteTotpChallenge, CompleteRecoveryChallenge, NotOfAccount,
        LiveChallenge
  <2>4. ceremonies' \subseteq ceremonies \ {c}
    <3>1. c \notin ceremonies
      BY PoolsAssumption DEF TypeOK, Challenge, Ceremony
    <3> QED
      BY <1>11, <3>1
      DEF ConfirmTotpEnrollment, CompleteTotpChallenge, CompleteRecoveryChallenge, NotOfAccount,
          Cascade
  <2> QED
    BY <2>1, <2>2, <2>3, <2>4, TokenSpent
<1>12. ASSUME NEW c \in challenges, NEW a \in accounts, RejectSecondFactor(c, a)
       PROVE  TokensGone'
  <2>1. [c EXCEPT !.failures = @ + 1].token = c.token
    BY DEF TypeOK, Challenge
  <2> QED
    BY <1>12, <2>1, TokensKept DEF RejectSecondFactor, RecordChallengeFailure
<1>13. ASSUME SessionUse
       PROVE  TokensGone'
  BY <1>1, <1>13
  DEF SessionUse, ListSessions, DropExpiredSession, AuthenticateSession, MarkStepUp, RevokeSession,
      VerifyTotp, Accept, Cascade
<1>14. ASSUME NEW purpose, NEW id, NEW session, CreateCeremony(purpose, id, session),
              UNCHANGED <<challenges, usedTokens>>
       PROVE  TokensGone'
  BY <1>14, CreateCeremonyEffect, TokensKept
<1>15. ASSUME NEW c \in ceremonies, RecordCeremonyFailure(c), UNCHANGED <<challenges, issued, usedTokens>>
       PROVE  TokensGone'
  <2>1. [c EXCEPT !.failures = @ + 1].token = c.token
    BY DEF TypeOK, Ceremony
  <2> QED
    BY <1>15, <2>1, TokensKept DEF RecordCeremonyFailure
<1>16. ASSUME NEW c \in ceremonies, NEW n \in 0 .. MaxSignCount,
              \/ \E s \in sessions, k \in Credentials : CompletePasskeyRegistration(s, c, k, n)
              \/ \E s \in sessions, p \in passkeys : CompletePasskeyStepUp(s, c, p, n)
              \/ \E p \in passkeys, a \in accounts : VerifyPasskeyLogin(c, p, a, n)
       PROVE  TokensGone'
  <2>1. c \notin challenges
    BY PoolsAssumption DEF TypeOK, Challenge, Ceremony
  <2>2. /\ usedTokens' = usedTokens \cup {c.token} /\ issued' = issued
        /\ challenges' = challenges /\ ceremonies' = ceremonies \ {c}
    BY <1>16 DEF CompletePasskeyRegistration, CompletePasskeyStepUp, VerifyPasskeyLogin, Accept
  <2> QED
    BY <2>1, <2>2, TokenSpent
<1>17. ASSUME NEW a \in accounts, IssueVerifiedPasskeySession(a)
       PROVE  TokensGone'
  BY <1>1, <1>17, IssueSessionEffect DEF IssueVerifiedPasskeySession, Cascade
<1>18. ASSUME PasskeyUse
       PROVE  TokensGone'
  BY <1>18, <1>1, <1>14, <1>15, <1>16, <1>17
  DEF PasskeyUse, BeginPasskeyLogin, DeletePasskey, RejectPasskeyLogin,
      BeginPasskeyRegistration, BeginPasskeyStepUp, RejectPasskeyResponse
<1>19. ASSUME PasswordLogin
       PROVE  TokensGone'
  BY <1>19, <1>9, <1>10, <1>11, <1>12 DEF PasswordLogin
<1>20. ASSUME AccountManagement \/ RootCommands
       PROVE  TokensGone'
  BY <1>20, <1>4, <1>5, <1>6, <1>7, <1>8, RolesAssumption DEF AccountManagement, RootCommands
<1>21. ASSUME HelperGivesUp \/ Tick
       PROVE  TokensGone'
  BY <1>1, <1>21 DEF HelperGivesUp, Tick
<1> QED
  BY <1>5, <1>6, <1>13, <1>18, <1>19, <1>20, <1>21 DEF ApiNext, Next

----------------------------------------------------------------------------
(* One-time proofs: recovery codes *)

\* Deleting recovery rows while no code is honoured keeps CodesFresh.
LEMMA CodesKept ==
    ASSUME TypeOK, TypeOK', CodesFresh, recovery' \subseteq recovery, UNCHANGED usedCodes,
           drawn <= drawn'
    PROVE  CodesFresh'
  BY DEF CodesFresh, TypeOK, RecoveryRow, RecoveryCodes, Secrets

\* New codes come from a draw that was not made before.
LEMMA CodesDrawn ==
    ASSUME TypeOK, TypeOK', CodesFresh, NEW id \in AccountIds, NEW n \in Secrets,
           recovery' \subseteq recovery \cup CodesOf(id, n), UNCHANGED usedCodes,
           drawn < n, n <= drawn'
    PROVE  CodesFresh'
<1>1. \A r \in CodesOf(id, n) : r.account = id /\ r.code[1] = n
  BY DEF CodesOf
<1>2. \A r, q \in CodesOf(id, n) : r.code = q.code => r = q
  BY DEF CodesOf
<1>3. drawn \in Nat /\ drawn' \in Nat /\ n \in Nat
  BY DEF TypeOK, Secrets
<1>4. \A r \in recovery : r.code[1] \in Nat /\ r.code[1] <= drawn
  BY DEF CodesFresh, TypeOK, RecoveryRow, RecoveryCodes, Secrets
<1>5. \A u \in usedCodes : u[1] \in Nat /\ u[1] <= drawn
  BY DEF CodesFresh, TypeOK, RecoveryCodes, Secrets
<1>6. \A r \in recovery' : r.code[1] <= drawn' /\ r.code \notin usedCodes'
  BY <1>1, <1>3, <1>4, <1>5 DEF CodesFresh
<1>7. \A r, q \in recovery' : r.code = q.code => r = q
  <2> SUFFICES ASSUME NEW r \in recovery', NEW q \in recovery', r.code = q.code
               PROVE  r = q
    OBVIOUS
  <2>1. CASE r \in recovery /\ q \in recovery
    BY <2>1 DEF CodesFresh
  <2>2. CASE r \in CodesOf(id, n) /\ q \in CodesOf(id, n)
    BY <1>2, <2>2
  <2>3. CASE r \in recovery /\ q \in CodesOf(id, n)
    BY <1>1, <1>3, <1>4, <2>3
  <2>4. CASE r \in CodesOf(id, n) /\ q \in recovery
    BY <1>1, <1>3, <1>4, <2>4
  <2> QED
    BY <2>1, <2>2, <2>3, <2>4
<1>8. \A u \in usedCodes' : u[1] <= drawn'
  BY <1>3, <1>5
<1> QED
  BY <1>6, <1>7, <1>8 DEF CodesFresh

\* Every method deletes the recovery code it honours and stores only fresh ones.
LEMMA CodesStep ==
    ASSUME TypeOK, TypeOK', CodesFresh, ApiNext
    PROVE  CodesFresh'
<1> USE DEF history, tables
<1>a. drawn \in Nat
  BY DEF TypeOK
<1>1. ASSUME recovery' \subseteq recovery, UNCHANGED usedCodes, drawn' = drawn \/ drawn' = drawn + 1
      PROVE  CodesFresh'
  BY <1>1, <1>a, CodesKept
<1>2. ASSUME NEW a \in accounts
      PROVE  a.id \in AccountIds
  BY DEF TypeOK, Account
<1>3. ASSUME NEW a \in accounts,
             \/ \E role \in Roles : SetRole(a, role)
             \/ SetPasswordChangeRequired(a, TRUE, TRUE)
             \/ SetPasswordChangeRequired(a, FALSE, FALSE)
             \/ RevokeSessions(a)
      PROVE  CodesFresh'
  BY <1>1, <1>3 DEF SetRole, SetPasswordChangeRequired, RevokeSessions
<1>4. ASSUME NEW a \in accounts, ResetTotp(a)
      PROVE  CodesFresh'
  BY <1>1, <1>4 DEF ResetTotp, ReplaceFactor, NotOfAccount
<1>5. ASSUME NEW id \in AccountIds, CanDraw(2), drawn' = drawn + 2, UNCHANGED usedCodes,
             recovery' \subseteq recovery \cup CodesOf(id, Draw + 1)
      PROVE  CodesFresh'
  BY <1>5, <1>a, CodesDrawn, LimitsAssumption DEF CanDraw, Draw, Secrets
<1>6. ASSUME NEW id \in AccountIds, CanDraw(1), drawn' = drawn + 1, UNCHANGED usedCodes,
             recovery' \subseteq recovery \cup CodesOf(id, Draw)
      PROVE  CodesFresh'
  BY <1>6, <1>a, CodesDrawn, LimitsAssumption DEF CanDraw, Draw, Secrets
<1>7. ASSUME NEW a \in accounts, RotateTotp(a)
      PROVE  CodesFresh'
  BY <1>2, <1>5, <1>7 DEF RotateTotp, ReplaceFactor, NotOfAccount
<1>8. ASSUME NEW a \in accounts, NEW code \in Codes, RegenerateRecoveryCodes(a, code)
      PROVE  CodesFresh'
  BY <1>2, <1>6, <1>8 DEF RegenerateRecoveryCodes, ReplaceFactor, NotOfAccount, Accept
<1>9. ASSUME NEW e \in Emails, NEW flag \in BOOLEAN, ProvisionActiveAccount(e, "user", flag)
      PROVE  CodesFresh'
  BY <1>5, <1>9 DEF ProvisionActiveAccount
<1>10. ASSUME NEW e \in Emails, NEW role \in Roles, NEW flag \in BOOLEAN,
              BootstrapActiveAccount(e, role, flag)
       PROVE  CodesFresh'
  <2>1. CanDraw(2) /\ drawn' = drawn + 2 /\ UNCHANGED usedCodes
    BY <1>10 DEF BootstrapActiveAccount
  <2>2. \E id \in AccountIds : recovery' \subseteq recovery \cup CodesOf(id, Draw + 1)
    BY <1>2, <1>10 DEF BootstrapActiveAccount, ReplaceFactor, NotOfAccount
  <2> QED
    BY <1>5, <2>1, <2>2
<1>11. ASSUME \/ \E e \in Emails, role \in Roles, flag \in BOOLEAN : CreateAccount(e, role, flag)
              \/ \E es \in SUBSET Emails, flag \in BOOLEAN : SyncAccounts(es, "user", flag)
              \/ \E a \in accounts : DeleteAccount(a)
       PROVE  CodesFresh'
  BY <1>1, <1>11 DEF CreateAccount, SyncAccounts, DeleteAccount, NotOfAccount
<1>12. ASSUME NEW c \in challenges, NEW a \in accounts, NEW code \in Codes,
              ConfirmTotpEnrollment(c, a, code)
       PROVE  CodesFresh'
  BY <1>2, <1>6, <1>12 DEF ConfirmTotpEnrollment, Accept
<1>13. ASSUME NEW c \in challenges, NEW a \in accounts, NEW r \in recovery,
              CompleteRecoveryChallenge(c, a, r)
       PROVE  CodesFresh'
  <2>1. /\ recovery' = recovery \ {r} /\ usedCodes' = usedCodes \cup {r.code} /\ drawn' = drawn
    BY <1>13 DEF CompleteRecoveryChallenge, Accept
  <2> QED
    BY <2>1 DEF CodesFresh
<1>14. ASSUME PasswordLogin
       PROVE  CodesFresh'
  <2>1. ASSUME NEW a \in accounts, CreatePendingChallenge(a)
        PROVE  CodesFresh'
    BY <1>1, <2>1 DEF CreatePendingChallenge
  <2>2. ASSUME NEW c \in challenges, NEW a \in accounts, BeginTotpEnrollment(c, a)
        PROVE  CodesFresh'
    BY <1>1, <2>2 DEF BeginTotpEnrollment, NotOfAccount
  <2>3. ASSUME NEW c \in challenges, NEW a \in accounts, NEW code \in Codes,
               CompleteTotpChallenge(c, a, code)
        PROVE  CodesFresh'
    BY <1>1, <2>3 DEF CompleteTotpChallenge, Accept
  <2>4. ASSUME NEW c \in challenges, NEW a \in accounts, RejectSecondFactor(c, a)
        PROVE  CodesFresh'
    BY <1>1, <2>4 DEF RejectSecondFactor
  <2> QED
    BY <1>12, <1>13, <1>14, <2>1, <2>2, <2>3, <2>4 DEF PasswordLogin
<1>15. ASSUME SessionUse
       PROVE  CodesFresh'
  BY <1>1, <1>15
  DEF SessionUse, ListSessions, DropExpiredSession, AuthenticateSession, MarkStepUp, RevokeSession,
      VerifyTotp, Accept
<1>16. ASSUME PasskeyUse
       PROVE  CodesFresh'
  BY <1>1, <1>16
  DEF PasskeyUse, BeginPasskeyLogin, DeletePasskey, RejectPasskeyLogin, VerifyPasskeyLogin,
      IssueVerifiedPasskeySession, BeginPasskeyRegistration, BeginPasskeyStepUp,
      RejectPasskeyResponse, CompletePasskeyRegistration, CompletePasskeyStepUp, Accept
<1>17. ASSUME AccountManagement \/ RootCommands
       PROVE  CodesFresh'
  BY <1>17, <1>3, <1>7, <1>8, <1>9, <1>10, <1>11 DEF AccountManagement, RootCommands
<1>18. ASSUME HelperGivesUp \/ Tick
       PROVE  CodesFresh'
  BY <1>1, <1>18 DEF HelperGivesUp, Tick
<1> QED
  BY <1>4, <1>11, <1>14, <1>15, <1>16, <1>17, <1>18 DEF ApiNext, Next

----------------------------------------------------------------------------
(* One-time proofs: TOTP counters *)

\* An operation under which every account keeps its factor, has none, or is
\* the one account x that gets a newly drawn secret.
LEMMA CountersKept ==
    ASSUME TypeOK, TypeOK', KeysUnique', CountersRemembered, NEW x,
           UNCHANGED usedCounters, drawn <= drawn',
           \A b \in accounts' :
              \/ \E a \in accounts : /\ b.id = a.id /\ b.secret = a.secret
                                     /\ b.lastCounter = a.lastCounter
                                     /\ b.enrollment = a.enrollment
              \/ b.secret = NoSecret /\ b.enrollment = "required"
              \/ b.id = x /\ drawn < b.secret /\ b.secret <= drawn'
    PROVE  CountersRemembered'
<1>1. drawn \in Nat /\ drawn' \in Nat
  BY DEF TypeOK
<1>2. \A b \in accounts' : b.secret \in Nat /\ b.lastCounter \in Int
  BY DEF TypeOK, Account, Counters
<1>3. \A b \in accounts : b.secret \in Nat /\ b.lastCounter \in Int /\ b.secret <= drawn
  BY DEF TypeOK, Account, Counters, CountersRemembered
<1>4. \A u \in usedCounters : u[1] \in Nat /\ u[1] <= drawn /\ u[1] # NoSecret
  BY DEF TypeOK, CountersRemembered
<1>5. \A a \in accounts' : a.secret <= drawn' /\ (a.enrollment # "required" => a.secret # NoSecret)
  BY <1>1, <1>2, <1>3 DEF CountersRemembered, NoSecret
<1>6. ASSUME NEW a \in accounts', NEW b \in accounts', a.secret = b.secret, a.secret # NoSecret
      PROVE  a = b
  BY <1>1, <1>2, <1>3, <1>6 DEF CountersRemembered, NoSecret, KeysUnique
<1>7. ASSUME NEW u \in usedCounters', NEW a \in accounts', u[1] = a.secret
      PROVE  u[2] <= a.lastCounter
  BY <1>1, <1>2, <1>3, <1>4, <1>7 DEF CountersRemembered
<1>8. \A u \in usedCounters' : u[1] <= drawn' /\ u[1] # NoSecret
  BY <1>1, <1>4
<1> QED
  BY <1>5, <1>6, <1>7, <1>8 DEF CountersRemembered

\* A code that is accepted is above the remembered counter, so it was not
\* accepted before, and becomes the remembered counter.
LEMMA CounterSpent ==
    ASSUME TypeOK, TypeOK', KeysUnique', CountersRemembered, NEW a \in accounts, NEW b,
           NEW code \in Codes, a.enrollment # "required", CodeAccepted(a, code),
           b.id = a.id, b.secret = a.secret, b.lastCounter = code, b.enrollment # "required",
           accounts' = ReplaceAccount(a, b),
           usedCounters' = usedCounters \cup {<<a.secret, code>>}, drawn <= drawn'
    PROVE  CountersRemembered' /\ {<<a.secret, code>>} \cap usedCounters = {}
<1>1. drawn \in Nat /\ drawn' \in Nat /\ code \in Int
  BY DEF TypeOK, Codes, Counters
<1>2. \A d \in accounts : d.secret \in Nat /\ d.lastCounter \in Int /\ d.secret <= drawn
  BY DEF TypeOK, Account, Counters, CountersRemembered
<1>3. \A u \in usedCounters : u[1] \in Nat /\ u[1] <= drawn /\ u[1] # NoSecret /\ u[2] \in Int
  BY DEF TypeOK, Counters, CountersRemembered
<1>4. a.lastCounter < code /\ a.secret # NoSecret
  BY <1>1, <1>2 DEF CodeAccepted, CountersRemembered
<1>5. {<<a.secret, code>>} \cap usedCounters = {}
  BY <1>1, <1>2, <1>4 DEF CountersRemembered
<1>6. \A d \in accounts' : d = b \/ (d \in accounts /\ d # a)
  BY DEF ReplaceAccount
<1>7. \A d \in accounts' : d.secret <= drawn' /\ (d.enrollment # "required" => d.secret # NoSecret)
  BY <1>1, <1>2, <1>4, <1>6 DEF CountersRemembered
<1>8. ASSUME NEW d \in accounts', NEW e \in accounts', d.secret = e.secret, d.secret # NoSecret
      PROVE  d = e
  BY <1>6, <1>8 DEF CountersRemembered
<1>9. ASSUME NEW u \in usedCounters', NEW d \in accounts', u[1] = d.secret
      PROVE  u[2] <= d.lastCounter
  <2>1. CASE u \in usedCounters
    BY <1>1, <1>2, <1>3, <1>4, <1>6, <1>9, <2>1 DEF CountersRemembered
  <2>2. CASE u = <<a.secret, code>>
    BY <1>1, <1>4, <1>6, <1>9, <2>2 DEF CountersRemembered
  <2> QED
    BY <2>1, <2>2
<1>10. \A u \in usedCounters' : u[1] <= drawn' /\ u[1] # NoSecret
  BY <1>1, <1>2, <1>3, <1>4
<1> QED
  BY <1>5, <1>7, <1>8, <1>9, <1>10 DEF CountersRemembered

\* Every method remembers the counter it honours with its secret.
LEMMA CountersStep ==
    ASSUME TypeOK, TypeOK', KeysUnique', CountersRemembered, ApiNext
    PROVE  CountersRemembered'
<1> USE DEF history, tables
<1>a. drawn \in Nat /\ accounts \subseteq Account
  BY DEF TypeOK
<1>b. \A a \in Account :
        /\ Released(a).secret = NoSecret /\ Released(a).enrollment = "required"
  BY DEF Released, WithFactor
<1>c. ASSUME NEW a, NEW code
      PROVE  /\ Consumed(a, code).id = a.id /\ Consumed(a, code).secret = a.secret
             /\ Consumed(a, code).lastCounter = code
             /\ Consumed(a, code).enrollment = a.enrollment
  BY DEF Consumed, WithFactor
<1>1. ASSUME accounts' \subseteq accounts, UNCHANGED usedCounters,
             drawn' = drawn \/ drawn' = drawn + 1
      PROVE  CountersRemembered'
  BY <1>1, <1>a, CountersKept
<1>2. ASSUME NEW a \in accounts, NEW b, NEW andSessions, RevokeAuthentication(a, b, andSessions),
             b \in Account, b.id = a.id, b.secret = a.secret, b.lastCounter = a.lastCounter,
             b.enrollment = a.enrollment, UNCHANGED <<usedCounters, drawn>>
      PROVE  CountersRemembered'
  <2>1. \A d \in accounts' :
          \/ d \in accounts \/ d = b
          \/ d.secret = NoSecret /\ d.enrollment = "required"
    BY <1>2, <1>b DEF RevokeAuthentication, ReplaceAccount
  <2> QED
    BY <1>2, <1>a, <2>1, CountersKept
<1>3. ASSUME NEW a \in accounts, NEW role \in Roles, NEW flag \in BOOLEAN
      PROVE  LET b == [a EXCEPT !.role = role]
                 d == [a EXCEPT !.mustChange = flag]
             IN  /\ b \in Account /\ b.id = a.id /\ b.secret = a.secret
                 /\ b.lastCounter = a.lastCounter /\ b.enrollment = a.enrollment
                 /\ d \in Account /\ d.id = a.id /\ d.secret = a.secret
                 /\ d.lastCounter = a.lastCounter /\ d.enrollment = a.enrollment
  BY <1>a DEF Account
<1>4. ASSUME NEW a \in accounts, NEW role \in Roles, SetRole(a, role)
      PROVE  CountersRemembered'
  BY <1>2, <1>3, <1>4 DEF SetRole
<1>5. ASSUME NEW a \in accounts, NEW flag \in BOOLEAN, NEW andSessions \in BOOLEAN,
             SetPasswordChangeRequired(a, flag, andSessions)
      PROVE  CountersRemembered'
  BY <1>2, <1>3, <1>5, RolesAssumption DEF SetPasswordChangeRequired
<1>6. ASSUME NEW a \in accounts, RevokeSessions(a)
      PROVE  CountersRemembered'
  BY <1>2, <1>6, <1>a DEF RevokeSessions
<1>7. ASSUME NEW a \in accounts, ResetTotp(a)
      PROVE  CountersRemembered'
  <2>1. \A d \in accounts' : d \in accounts \/ (d.secret = NoSecret /\ d.enrollment = "required")
    BY <1>7, <1>a, <1>b DEF ResetTotp, ReplaceFactor, ReplaceAccount
  <2> QED
    BY <1>7, <1>a, <2>1, CountersKept DEF ResetTotp
<1>8. ASSUME NEW id, NEW row, row.id = id, row.secret = Draw, drawn' = drawn + 2,
             UNCHANGED usedCounters, \A d \in accounts' : d \in accounts \/ d = row
      PROVE  CountersRemembered'
  BY <1>8, <1>a, CountersKept DEF Draw
<1>9. ASSUME NEW a
      PROVE  Activated(a, Draw).id = a.id /\ Activated(a, Draw).secret = Draw
  BY DEF Activated, WithFactor
<1>10. ASSUME NEW a \in accounts, RotateTotp(a)
       PROVE  CountersRemembered'
  BY <1>8, <1>9, <1>10 DEF RotateTotp, ReplaceFactor, ReplaceAccount
<1>11. ASSUME NEW e \in Emails, NEW flag \in BOOLEAN, ProvisionActiveAccount(e, "user", flag)
       PROVE  CountersRemembered'
  BY <1>8, <1>9, <1>11 DEF ProvisionActiveAccount
<1>12. ASSUME NEW e \in Emails, NEW role \in Roles, NEW flag \in BOOLEAN,
              BootstrapActiveAccount(e, role, flag)
       PROVE  CountersRemembered'
  <2>1. drawn' = drawn + 2 /\ UNCHANGED usedCounters
    BY <1>12 DEF BootstrapActiveAccount
  <2>2. \E id : \A d \in accounts' :
          d \in accounts \/ d = Activated(NewAccount(id, e, role, flag), Draw)
    BY <1>12 DEF BootstrapActiveAccount, ReplaceFactor, ReplaceAccount
  <2> QED
    BY <1>8, <1>9, <2>1, <2>2
<1>13. ASSUME NEW e \in Emails, NEW role \in Roles, NEW flag \in BOOLEAN,
              CreateAccount(e, role, flag)
       PROVE  CountersRemembered'
  <2>1. \A d \in accounts' : d \in accounts \/ (d.secret = NoSecret /\ d.enrollment = "required")
    BY <1>13 DEF CreateAccount, NewAccount
  <2> QED
    BY <1>13, <1>a, <2>1, CountersKept DEF CreateAccount
<1>14. ASSUME NEW es \in SUBSET Emails, NEW flag \in BOOLEAN, SyncAccounts(es, "user", flag)
       PROVE  CountersRemembered'
  <2> DEFINE missing == {e \in es : \A a \in accounts : a.email # e}
  <2>1. PICK id \in [missing -> AccountIds \ issued] :
          accounts' = accounts \cup {NewAccount(id[e], e, "user", flag) : e \in missing}
    BY <1>14 DEF SyncAccounts
  <2> HIDE DEF missing
  <2>2. \A d \in accounts' : d \in accounts \/ (d.secret = NoSecret /\ d.enrollment = "required")
    BY <2>1 DEF NewAccount
  <2> QED
    BY <1>14, <1>a, <2>2, CountersKept DEF SyncAccounts
<1>15. ASSUME NEW a \in accounts, DeleteAccount(a)
       PROVE  CountersRemembered'
  BY <1>1, <1>15 DEF DeleteAccount
<1>16. ASSUME NEW a \in accounts, CreatePendingChallenge(a)
       PROVE  CountersRemembered'
  <2>1. \A d \in accounts' : d \in accounts \/ (d.secret = NoSecret /\ d.enrollment = "required")
    BY <1>16, <1>a, <1>b DEF CreatePendingChallenge
  <2> QED
    BY <1>16, <1>a, <2>1, CountersKept DEF CreatePendingChallenge
<1>17. ASSUME NEW c \in challenges, NEW a \in accounts, BeginTotpEnrollment(c, a)
       PROVE  CountersRemembered'
  <2> DEFINE row == WithFactor(a, "pending", Draw, c.token, -1)
  <2>1. row.id = a.id /\ row.secret = drawn + 1
    BY DEF WithFactor, Draw
  <2>2. /\ drawn' = drawn + 1 /\ UNCHANGED usedCounters
        /\ \A d \in accounts' : d \in accounts \/ d = row
    BY <1>17 DEF BeginTotpEnrollment, ReplaceAccount
  <2> HIDE DEF row
  <2> QED
    BY <1>a, <2>1, <2>2, CountersKept
<1>18. ASSUME NEW c \in challenges, NEW a \in accounts, NEW code \in Codes,
              ConfirmTotpEnrollment(c, a, code)
       PROVE  CountersRemembered'
  <2> DEFINE row == WithFactor(a, "active", a.secret, None, code)
  <2>1. /\ row.id = a.id /\ row.secret = a.secret /\ row.lastCounter = code
        /\ row.enrollment # "required"
    BY DEF WithFactor
  <2>2. /\ a.enrollment # "required" /\ CodeAccepted(a, code) /\ accounts' = ReplaceAccount(a, row)
        /\ usedCounters' = usedCounters \cup {<<a.secret, code>>} /\ drawn' = drawn + 1
    BY <1>18 DEF ConfirmTotpEnrollment, Accept
  <2> HIDE DEF row
  <2> QED
    BY <1>a, <2>1, <2>2, CounterSpent
<1>19. ASSUME NEW a \in accounts, NEW code \in Codes, a.enrollment = "active",
              CodeAccepted(a, code), accounts' = ReplaceAccount(a, Consumed(a, code)),
              usedCounters' = usedCounters \cup {<<a.secret, code>>},
              drawn' = drawn \/ drawn' = drawn + 1
       PROVE  CountersRemembered'
  BY <1>19, <1>a, <1>c, CounterSpent
<1>20. ASSUME NEW a \in accounts, NEW code \in Codes,
              \/ RegenerateRecoveryCodes(a, code)
              \/ \E c \in challenges : CompleteTotpChallenge(c, a, code)
              \/ \E s \in sessions : VerifyTotp(s, a, code)
       PROVE  CountersRemembered'
  BY <1>19, <1>20
  DEF RegenerateRecoveryCodes, ReplaceFactor, CompleteTotpChallenge, VerifyTotp, Accept
<1>21. ASSUME NEW c \in challenges, NEW a \in accounts, RejectSecondFactor(c, a)
       PROVE  CountersRemembered'
  <2>1. \A d \in accounts' : d \in accounts \/ (d.secret = NoSecret /\ d.enrollment = "required")
    BY <1>21, <1>a, <1>b DEF RejectSecondFactor, RecordChallengeFailure
  <2> QED
    BY <1>21, <1>a, <2>1, CountersKept DEF RejectSecondFactor
<1>22. ASSUME PasswordLogin
       PROVE  CountersRemembered'
  BY <1>22, <1>1, <1>16, <1>17, <1>18, <1>20, <1>21
  DEF PasswordLogin, CompleteRecoveryChallenge, Accept
<1>23. ASSUME SessionUse
       PROVE  CountersRemembered'
  BY <1>1, <1>20, <1>23
  DEF SessionUse, ListSessions, DropExpiredSession, AuthenticateSession, MarkStepUp, RevokeSession
<1>24. ASSUME PasskeyUse
       PROVE  CountersRemembered'
  BY <1>1, <1>24
  DEF PasskeyUse, BeginPasskeyLogin, DeletePasskey, RejectPasskeyLogin, VerifyPasskeyLogin,
      IssueVerifiedPasskeySession, BeginPasskeyRegistration, BeginPasskeyStepUp,
      RejectPasskeyResponse, CompletePasskeyRegistration, CompletePasskeyStepUp, Accept
<1>25. ASSUME AccountManagement \/ RootCommands
       PROVE  CountersRemembered'
  BY <1>25, <1>4, <1>5, <1>6, <1>10, <1>11, <1>12, <1>14, <1>15, <1>20
  DEF AccountManagement, RootCommands
<1>26. ASSUME HelperGivesUp \/ Tick
       PROVE  CountersRemembered'
  BY <1>1, <1>26 DEF HelperGivesUp, Tick
<1> QED
  BY <1>7, <1>13, <1>22, <1>23, <1>24, <1>25, <1>26 DEF ApiNext, Next

----------------------------------------------------------------------------
(* One-time proofs: nothing is honoured twice *)

\* Under the strengthening no method accepts a proof a second time.
LEMMA OnceStep ==
    ASSUME TypeOK, TypeOK', KeysUnique, KeysUnique', TokensGone, CodesFresh, CountersRemembered,
           ProofsAreOneTime, ApiNext
    PROVE  ProofsAreOneTime'
<1> USE DEF history, tables
<1>1. ASSUME UNCHANGED replays
      PROVE  ProofsAreOneTime'
  BY <1>1 DEF ProofsAreOneTime
<1>2. ASSUME NEW a \in accounts, a.enrollment # "required", NEW code \in Codes, CodeAccepted(a, code)
      PROVE  <<a.secret, code>> \notin usedCounters
  <2>1. \A u \in usedCounters : u[1] = a.secret => u[2] <= a.lastCounter
    BY DEF CountersRemembered
  <2>2. a.lastCounter \in Int /\ code \in Int /\ a.lastCounter < code
    BY <1>2 DEF TypeOK, Account, Codes, Counters, CodeAccepted
  <2> QED
    BY <2>1, <2>2
<1>3. \A c \in challenges \cup ceremonies : c.token \notin usedTokens
  BY DEF TokensGone
<1>4. ASSUME NEW c \in challenges, NEW a \in accounts, NEW code \in Codes,
             ConfirmTotpEnrollment(c, a, code) \/ CompleteTotpChallenge(c, a, code)
      PROVE  ProofsAreOneTime'
  <2>1. a.enrollment # "required" /\ CodeAccepted(a, code)
    BY <1>4 DEF ConfirmTotpEnrollment, CompleteTotpChallenge
  <2>2. Accept({<<a.secret, code>>}, {c.token}, {})
    BY <1>4 DEF ConfirmTotpEnrollment, CompleteTotpChallenge
  <2> QED
    BY <1>2, <1>3, <2>1, <2>2 DEF Accept, ProofsAreOneTime
<1>5. ASSUME NEW c \in challenges, NEW a \in accounts, NEW r \in recovery,
             CompleteRecoveryChallenge(c, a, r)
      PROVE  ProofsAreOneTime'
  <2>1. Accept({}, {c.token}, {r.code}) /\ r.code \notin usedCodes
    BY <1>5 DEF CompleteRecoveryChallenge, CodesFresh
  <2> QED
    BY <1>3, <2>1 DEF Accept, ProofsAreOneTime
<1>6. ASSUME NEW a \in accounts, NEW code \in Codes,
             RegenerateRecoveryCodes(a, code) \/ \E s \in sessions : VerifyTotp(s, a, code)
      PROVE  ProofsAreOneTime'
  <2>1. a.enrollment # "required" /\ CodeAccepted(a, code) /\ Accept({<<a.secret, code>>}, {}, {})
    BY <1>6 DEF RegenerateRecoveryCodes, VerifyTotp
  <2> QED
    BY <1>2, <2>1 DEF Accept, ProofsAreOneTime
<1>7. ASSUME NEW c \in ceremonies, NEW n \in 0 .. MaxSignCount,
             \/ \E s \in sessions, k \in Credentials : CompletePasskeyRegistration(s, c, k, n)
             \/ \E s \in sessions, p \in passkeys : CompletePasskeyStepUp(s, c, p, n)
             \/ \E p \in passkeys, a \in accounts : VerifyPasskeyLogin(c, p, a, n)
      PROVE  ProofsAreOneTime'
  <2>1. Accept({}, {c.token}, {})
    BY <1>7 DEF CompletePasskeyRegistration, CompletePasskeyStepUp, VerifyPasskeyLogin
  <2> QED
    BY <1>3, <2>1 DEF Accept, ProofsAreOneTime
<1>8. ASSUME PasswordLogin
      PROVE  ProofsAreOneTime'
  BY <1>1, <1>4, <1>5, <1>8
  DEF PasswordLogin, CreatePendingChallenge, BeginTotpEnrollment, RejectSecondFactor
<1>9. ASSUME SessionUse
      PROVE  ProofsAreOneTime'
  BY <1>1, <1>6, <1>9
  DEF SessionUse, ListSessions, DropExpiredSession, AuthenticateSession, MarkStepUp, RevokeSession
<1>10. ASSUME PasskeyUse
       PROVE  ProofsAreOneTime'
  BY <1>1, <1>7, <1>10
  DEF PasskeyUse, BeginPasskeyLogin, DeletePasskey, RejectPasskeyLogin,
      IssueVerifiedPasskeySession, BeginPasskeyRegistration, BeginPasskeyStepUp,
      RejectPasskeyResponse
<1>11. ASSUME AccountManagement \/ RootCommands
       PROVE  ProofsAreOneTime'
  BY <1>1, <1>6, <1>11
  DEF AccountManagement, RootCommands, SyncAccounts, ProvisionActiveAccount,
      SetPasswordChangeRequired, RevokeSessions, RotateTotp, BootstrapActiveAccount, SetRole,
      DeleteAccount
<1> QED
  BY <1>1, <1>8, <1>9, <1>10, <1>11
  DEF ApiNext, Next, HelperGivesUp, Tick, CreateAccount, ResetTotp

\* The parts of the inductive invariant hold in the empty store.
LEMMA OnceInit ==
    Init => TokensGone /\ CodesFresh /\ CountersRemembered /\ ProofsAreOneTime
  BY DEF Init, TokensGone, CodesFresh, CountersRemembered, ProofsAreOneTime

\* No TOTP code, challenge, ceremony or recovery code is honoured twice, for
\* any number of accounts and tokens, any interleaving of the root commands
\* with the helper's handlers, and any movement of the wall clock.
THEOREM EveryProofOnce == ApiSpec => []ProofsAreOneTime
<1> DEFINE Inv == /\ TypeOK /\ KeysUnique /\ TokensGone /\ CodesFresh /\ CountersRemembered
                  /\ ProofsAreOneTime
<1>1. Init => Inv
  BY TypeInit, KeysInit, OnceInit
<1>2. Inv /\ UNCHANGED vars => Inv'
  BY DEF TypeOK, KeysUnique, TokensGone, CodesFresh, CountersRemembered, ProofsAreOneTime, vars,
         tables, history
<1>3. Inv /\ [ApiNext]_vars => Inv'
  BY <1>2, TypeStep, KeysStep, TokensStep, CodesStep, CountersStep, OnceStep
<1> QED
  BY <1>1, <1>3, PTL DEF ApiSpec
=============================================================================
