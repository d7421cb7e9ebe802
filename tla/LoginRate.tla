----------------------------- MODULE LoginRate -----------------------------
(***************************************************************************)
(* The durable limits on sign-in attempts: one table of fixed windows, a   *)
(* row for each scope and identity, shared by password attempts (service,  *)
(* address, account, and address with account) and by passkey attempts     *)
(* (service and address, under digests of their own).  A window opens with *)
(* its first attempt.  Rows are kept by age, so time needs no bound.       *)
(***************************************************************************)
EXTENDS Integers, FiniteSets, FiniteSetsExt, Functions

CONSTANTS
    Emails, Addrs,
    None,     \* in place of the email or address an identity does not have
    Limit,    \* attempts in a window, by scope
    Window,   \* length of a window, by scope
    MaxRows,  \* _MAX_RATE_LIMIT_ROWS
    Watched   \* bound: the scopes whose admitted attempts are recorded

PasswordScopes == {"global", "ip", "account", "pair"}
PasskeyScopes == {"global", "ip"}

\* What every instance has to give; the MC modules assume it of theirs.
RateAssumption ==
    /\ Limit \in [PasswordScopes -> Nat \ {0}]
    /\ Window \in [PasswordScopes -> Nat \ {0}]
    /\ MaxRows \in Nat
    /\ Watched \subseteq PasswordScopes

VARIABLES
    rows,     \* auth_login_rate_limits: identity -> age of the window and count
    admitted, \* history: how many attempts were admitted how long ago
    told      \* the answer to the last attempt: 0, or the seconds to wait

vars == <<rows, admitted, told>>

(* _rate_identities and _passkey_login_rate_identities. *)
Key(kind, scope, e, a) == [kind |-> kind, scope |-> scope, email |-> e, addr |-> a]

PasswordKeys(e, a) ==
    {Key("password", "global", None, None), Key("password", "ip", None, a),
     Key("password", "account", e, None), Key("password", "pair", e, a)}

PasskeyKeys(a) == {Key("passkey", "global", None, None), Key("passkey", "ip", None, a)}

Keys == (UNION {PasswordKeys(e, a) : e \in Emails, a \in Addrs})
        \cup (UNION {PasskeyKeys(a) : a \in Addrs})
WatchedKeys == {k \in Keys : k.kind = "password" /\ k.scope \in Watched}

Init ==
    /\ rows = << >>
    /\ admitted = [k \in WatchedKeys |-> [t \in 0 .. Window[k.scope] - 1 |-> 0]]
    /\ told = 0

-----------------------------------------------------------------------------
Without(r, K) == Restrict(r, DOMAIN r \ K)

(* The rows of these scopes whose window is over. *)
Expired(r, scopes) == {k \in DOMAIN r : k.scope \in scopes /\ r[k].age >= Window[k.scope]}

Longest(scopes) == Max({Window[s] : s \in scopes})

(* How long the limits of these identities ask to wait. *)
LimitWait(r, K) ==
    Max({0} \cup {Window[k.scope] - r[k].age : k \in {j \in K \cap DOMAIN r : r[j].count >= Limit[j.scope]}})

(* A full table admits no attempt that needs new rows. *)
NoRoom(r, K) == Cardinality(DOMAIN r) + Cardinality(K \ DOMAIN r) > MaxRows

Wait(r, K, scopes) ==
    IF LimitWait(r, K) > 0 THEN LimitWait(r, K)
    ELSE IF NoRoom(r, K) THEN Longest(scopes) ELSE 0

(* Mutant: an attempt late in a window opens it anew. *)
MutReserved(r, K) ==
    [k \in DOMAIN r \cup K |->
        IF k \notin K THEN r[k]
        ELSE IF k \in DOMAIN r /\ r[k].age = 0 THEN [r[k] EXCEPT !.count = @ + 1]
        ELSE [age |-> 0, count |-> 1]]

(* One attempt is counted for every identity. *)
Reserved(r, K) ==
    [k \in DOMAIN r \cup K |->
        IF k \notin K THEN r[k]
        ELSE IF k \in DOMAIN r THEN [r[k] EXCEPT !.count = @ + 1]
        ELSE [age |-> 0, count |-> 1]]

(* An attempt: expired rows of its scopes go, in any case; it is counted only
   when it is admitted. *)
Attempt(K, scopes) ==
    LET live == Without(rows, Expired(rows, scopes))
        wait == Wait(live, K, scopes)
    IN /\ told' = wait
       /\ IF wait > 0
          THEN rows' = live /\ UNCHANGED admitted
          ELSE /\ rows' = Reserved(live, K)
               /\ admitted' = [k \in WatchedKeys |->
                                 IF k \in K THEN [admitted[k] EXCEPT ![0] = @ + 1] ELSE admitted[k]]

(* check_login_rate *)
CheckLoginRate(e, a) == Attempt(PasswordKeys(e, a), PasswordScopes)

(* check_passkey_login_rate *)
CheckPasskeyLoginRate(a) == Attempt(PasskeyKeys(a), PasskeyScopes)

Forget(K) ==
    /\ rows' = Without(rows, K)
    /\ admitted' = [k \in WatchedKeys |->
                      IF k \in K THEN [t \in DOMAIN admitted[k] |-> 0] ELSE admitted[k]]
    /\ UNCHANGED told

(* record_login_result after a full success: only the pair is cleared. *)
RecordLoginSuccess(e, a) == Forget({Key("password", "pair", e, a)})

(* record_passkey_login_result after a success. *)
RecordPasskeySuccess(a) == Forget({Key("passkey", "ip", None, a)})

(* delete_account: the rows of the account's identity. *)
DeleteAccount(e) == Forget({k \in Keys : k.email = e})

Older(r, t) == [k \in DOMAIN r |-> [r[k] EXCEPT !.age = @ + t]]

(* Time passes; ages past the end of a window are not told apart. *)
Tick ==
    /\ rows' = [k \in DOMAIN rows |->
                  IF rows[k].age < Window[k.scope] THEN [rows[k] EXCEPT !.age = @ + 1] ELSE rows[k]]
    /\ admitted' = [k \in WatchedKeys |->
                      [t \in DOMAIN admitted[k] |-> IF t = 0 THEN 0 ELSE admitted[k][t - 1]]]
    /\ UNCHANGED told

Next ==
    \/ \E e \in Emails, a \in Addrs : CheckLoginRate(e, a) \/ RecordLoginSuccess(e, a)
    \/ \E a \in Addrs : CheckPasskeyLoginRate(a) \/ RecordPasskeySuccess(a)
    \/ \E e \in Emails : DeleteAccount(e)
    \/ Tick

Spec == Init /\ [][Next]_vars

-----------------------------------------------------------------------------
(* The table holds well formed rows, never more attempts in a window than its
   limit and never more rows than the table may have. *)
TypeOK ==
    /\ DOMAIN rows \subseteq Keys
    /\ \A k \in DOMAIN rows : /\ rows[k].age \in 0 .. Window[k.scope]
                              /\ rows[k].count \in 1 .. Limit[k.scope]
    /\ Cardinality(DOMAIN rows) <= MaxRows
    /\ told \in 0 .. Longest(PasswordScopes)

(* Windows follow one another as attempts come, so a stretch of time as long
   as a window can touch two of them; still it never sees as many as twice
   the limit of any identity, whatever is attempted in between by others. *)
SpanBound ==
    \A k \in WatchedKeys :
        SumFunction(admitted[k]) < 2 * Limit[k.scope]

(* A delay that a limit asks for is exact: that much later the limits of the
   identity no longer refuse, and a second earlier they still do. *)
RetryExact ==
    \A e \in Emails, a \in Addrs :
        LET K == PasswordKeys(e, a)
            live == Without(rows, Expired(rows, PasswordScopes))
            later(t) == Without(Older(live, t), Expired(Older(live, t), PasswordScopes))
            wait == LimitWait(live, K)
        IN wait > 0 => LimitWait(later(wait), K) = 0 /\ LimitWait(later(wait - 1), K) > 0

(* The longest window after the last attempt, a password is tried again: the
   full table or an exhausted limit cannot lock an account out for good. *)
PasswordRecovers ==
    \A e \in Emails, a \in Addrs :
        LET old == Older(rows, Longest(PasswordScopes))
        IN Wait(Without(old, Expired(old, PasswordScopes)), PasswordKeys(e, a), PasswordScopes) = 0

(* The same for passkeys, although a passkey attempt purges only two of the
   four scopes: the rows of accounts that it leaves in place never fill the
   shared table so far that its own two do not fit. *)
PasskeyRecovers ==
    \A a \in Addrs :
        LET old == Older(rows, Longest(PasswordScopes))
        IN Wait(Without(old, Expired(old, PasskeyScopes)), PasskeyKeys(a), PasskeyScopes) = 0

(* The limits hold, say exactly how long they hold, and end. *)
LimitsExact == TypeOK /\ SpanBound /\ RetryExact /\ PasswordRecovers /\ PasskeyRecovers
=============================================================================
