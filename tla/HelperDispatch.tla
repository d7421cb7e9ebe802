--------------------------- MODULE HelperDispatch ---------------------------
(***************************************************************************)
(* The privileged helper as a server (helper.py UnixHelperServer and       *)
(* PrivilegedDispatcher, protocol.py, cli.py _run_helper): one request per *)
(* connection, one connection at a time.  A request with a body is         *)
(* authorized before its body is read and again before its handler runs.   *)
(* Each authorization is a sequence of store transactions and Maddy        *)
(* commands; sessions expire, root commands and Maddy's own command line   *)
(* may fall between any two of them.                                       *)
(*                                                                         *)
(* Abstractions.  A request is an operation, the account whose token it    *)
(* carries, a target account, and whether it declares a body; all other    *)
(* parameters belong to the handlers.  An account has one session, which   *)
(* once dead stays dead.  Operations differ here by what the allow list    *)
(* says of them and by what they do to sessions and accounts.              *)
(*                                                                         *)
(* A definition just before another one with the same parameters is a      *)
(* wrong version of it; PROJECT.json lists which property catches which.   *)
(***************************************************************************)
EXTENDS Integers, Sequences, FiniteSets

CONSTANTS
    Accounts, Admins,  \* accounts, and those that begin as administrators
    Requests,          \* connections, each made once
    Ops,               \* the operations that are requested
    MaxServed,         \* _MAX_REQUESTS_PER_ACTIVATION
    MaxOutside,        \* bound on steps of root and of Maddy's command line
    MaxKills,          \* bound on kills of the helper
    None

----------------------------------------------------------------------------
(* ALLOWED_OPERATIONS: the columns of the table as sets *)

PublicOps ==
    {"maddy.health", "maddy.version", "auth.password_begin", "auth.enrollment_begin",
     "auth.enrollment_complete", "auth.totp_complete", "auth.recovery_complete",
     "auth.passkey_login_begin", "auth.passkey_login_complete"}

SessionOps ==
    {"auth.session", "auth.session_peek", "auth.logout", "auth.change_password",
     "auth.recovery_regenerate", "auth.step_up", "auth.passkeys_list",
     "auth.passkey_register_begin", "auth.passkey_register_complete", "auth.passkey_delete",
     "auth.passkey_step_up_begin", "auth.passkey_step_up_complete", "auth.sessions_list",
     "auth.session_revoke_other"}

AdminOps ==
    {"maddy.verify_config", "auth.admin_rotate_totp", "accounts.list", "accounts.create",
     "certificates.list", "certificates.health", "certificates.status",
     "certificates.timer_enable", "certificates.timer_disable", "certificates.renew_dry_run",
     "certificates.renew"}

AdminAccountOps ==
    {"accounts.change_password", "accounts.disable_credentials", "accounts.delete_imap_account",
     "accounts.get_append_limit", "accounts.set_append_limit"}

AccountOps ==
    {"mailboxes.list", "mailboxes.create", "mailboxes.delete", "mailboxes.rename", "rules.list",
     "rules.create", "rules.update", "rules.delete", "rules.reorder", "rules.run_create",
     "rules.run_status", "rules.run_step", "rules.run_cancel", "messages.list",
     "messages.latest", "messages.get", "messages.append", "messages.delete",
     "messages.delete_many", "messages.copy", "messages.move", "messages.set_flags",
     "messages.add_flags", "messages.remove_flags", "messages.send"}

StepUpOps ==
    {"auth.change_password", "auth.passkey_register_begin", "auth.passkey_register_complete",
     "auth.passkey_delete", "auth.session_revoke_other", "auth.admin_rotate_totp",
     "accounts.create", "accounts.change_password", "accounts.disable_credentials",
     "accounts.delete_imap_account", "accounts.set_append_limit", "mailboxes.delete",
     "rules.create", "rules.update", "rules.delete", "rules.reorder", "rules.run_create",
     "rules.run_step", "messages.delete", "messages.delete_many", "certificates.timer_enable",
     "certificates.timer_disable", "certificates.renew_dry_run", "certificates.renew"}

StreamIn == {"messages.append", "messages.send"}
StreamOut == {"messages.get"}
Unaudited == {"auth.session_peek", "messages.latest"}

Allowed == PublicOps \cup SessionOps \cup AdminOps \cup AdminAccountOps \cup AccountOps

\* What a principal may do before the required change of its password.
ForcedMay ==
    {"auth.session", "auth.session_peek", "auth.logout", "auth.change_password",
     "auth.step_up", "auth.passkeys_list", "auth.passkey_step_up_begin",
     "auth.passkey_step_up_complete", "auth.sessions_list"}

\* What the answer to a request can say.
Results ==
    {"ok", "failed", "operation_denied", "invalid_stream", "invalid_request", "unauthorized",
     "forbidden", "password_change_required", "step_up_required", "invalid_credentials"}

\* Requests as they are sent, and connections as they are served.
Asked == [r : Requests, op : Ops, who : Accounts \cup {None}, target : Accounts \cup {None},
          streamed : BOOLEAN]
Connections ==
    [q : Asked,
     at : {"accepted", "authenticate", "active", "rights", "target", "authorized", "receiving",
           "answering"},
     stage : {"none", "preflight", "dispatch"},
     principal : [admin : BOOLEAN, forced : BOOLEAN] \cup {None},
     spool : 0..2, result : Results \cup {None}]

\* What every instance has to give; the MC modules assume it of theirs.
HelperDispatchAssumption ==
    /\ Admins \subseteq Accounts /\ MaxServed \in Nat \ {0}
    /\ MaxOutside \in Nat /\ MaxKills \in Nat
    /\ StepUpOps \cup StreamIn \cup StreamOut \cup Unaudited \cup ForcedMay \subseteq Allowed
    /\ None \notin Accounts \cup Results \cup {"waiting", "transport"}
    /\ None \notin Connections

----------------------------------------------------------------------------
VARIABLES
    account,   \* what the store and Maddy know of each account
    helper,    \* whether the helper process runs, and how many it has served
    backlog,   \* connections that wait at the socket
    conn,      \* the connection that is served
    spools,    \* spool files on disk
    told,      \* what each client was told
    records,   \* history: audit records of each request
    effects,   \* history: how often each request's handler took effect
    since,     \* history: what was true of the caller since the request, or
               \* the end of its body, was read
    outside,   \* number of outside steps so far
    kills      \* number of times the helper was killed

world == <<account, outside>>
vars == <<account, helper, backlog, conn, spools, told, records, effects, since, outside, kills>>

Init ==
    /\ \E bound \in SUBSET Accounts :  \* who has to change its password
        account = [a \in Accounts |-> [exists |-> TRUE, live |-> TRUE, admin |-> a \in Admins,
                                       forced |-> a \in bound, active |-> TRUE,
                                       elevated |-> FALSE]]
    /\ helper = [up |-> FALSE, served |-> 0]
    /\ backlog = <<>> /\ conn = None /\ spools = 0
    /\ told = [r \in Requests |-> None]
    /\ records = [r \in Requests |-> 0] /\ effects = [r \in Requests |-> 0]
    /\ since = {} /\ outside = 0 /\ kills = 0

----------------------------------------------------------------------------
(* Clients and the life of the helper process *)

\* A token is sent with everything but public operations, a target with
\* operations on an account.
Connect(r, op, who, target, streamed) ==
    /\ told[r] = None
    /\ (who = None) = (op \in PublicOps \cup {"unknown"})
    /\ target # None => op \in AccountOps \cup AdminAccountOps
    /\ told' = [told EXCEPT ![r] = "waiting"]
    /\ backlog' = Append(backlog, [r |-> r, op |-> op, who |-> who, target |-> target,
                                   streamed |-> streamed])
    /\ UNCHANGED <<world, helper, conn, spools, records, effects, kills>>

\* systemd starts the helper when the socket becomes readable.
Activate ==
    /\ ~helper.up /\ backlog # <<>>
    /\ helper' = [up |-> TRUE, served |-> 0]
    /\ UNCHANGED <<world, backlog, conn, spools, told, records, effects, kills>>

Accept ==
    /\ helper.up /\ conn = None /\ backlog # <<>> /\ helper.served < MaxServed
    /\ conn' = [q |-> Head(backlog), at |-> "accepted", stage |-> "none", principal |-> None,
                spool |-> 0, result |-> None]
    /\ backlog' = Tail(backlog)
    /\ UNCHANGED <<world, helper, spools, told, records, effects, kills>>

RetireIdleOnly ==
    /\ helper.up /\ conn = None /\ helper.served > 0 /\ backlog = <<>>
    /\ helper' = [up |-> FALSE, served |-> 0]
    /\ UNCHANGED <<world, backlog, conn, spools, told, records, effects, kills>>

\* The request cap is reached, or accept timed out.
Retire ==
    /\ helper.up /\ conn = None /\ helper.served > 0
    /\ helper.served = MaxServed \/ backlog = <<>>
    /\ helper' = [up |-> FALSE, served |-> 0]
    /\ UNCHANGED <<world, backlog, conn, spools, told, records, effects, kills>>

\* The finally clauses of serve_connection; the client sees `outcome'.
Closed(outcome) ==
    /\ told' = [told EXCEPT ![conn.q.r] = outcome]
    /\ conn' = None
    /\ helper' = [helper EXCEPT !.served = @ + 1]
    /\ spools' = spools - conn.spool
    /\ UNCHANGED <<world, backlog, effects, kills>>

\* The process is killed, or an exception leaves serve_connection: the spool
\* files stay when it had no chance to run the finally clauses.
Killed ==
    /\ helper.up /\ conn # None /\ kills < MaxKills
    /\ told' = [told EXCEPT ![conn.q.r] = "transport"]
    /\ conn' = None /\ helper' = [up |-> FALSE, served |-> 0] /\ kills' = kills + 1
    /\ UNCHANGED <<world, backlog, spools, records, effects>>

----------------------------------------------------------------------------
(* One connection *)

At(at) == conn # None /\ conn.at = at
Audited == records' = [records EXCEPT ![conn.q.r] = @ + 1]

\* An answer that is ready to be sent.
Answering(result) == conn' = [conn EXCEPT !.at = "answering", !.result = result]

Refused(code) ==
    /\ Audited /\ Answering(code)
    /\ UNCHANGED <<world, helper, backlog, spools, told, effects, kills>>

Onward(at) ==
    /\ conn' = [conn EXCEPT !.at = at]
    /\ UNCHANGED <<world, helper, backlog, spools, told, records, effects, kills>>

\* The peer is not the application, or sends no well-formed request in time.
BadRequest ==
    /\ At("accepted")
    /\ Closed("transport")
    /\ UNCHANGED records

\* Up to here a request with and one without a body differ in nothing but
\* the stage: preflight and dispatch make the same checks.
Shape(q) ==
    CASE q.op \notin Allowed -> "operation_denied"
      [] (q.op \in StreamIn) # q.streamed -> "invalid_stream"
      [] OTHER -> "fits"

Enter(stage) ==
    \/ Shape(conn.q) # "fits" /\ Refused(Shape(conn.q))
    \/ /\ Shape(conn.q) = "fits"
       /\ conn' = [conn EXCEPT
                     !.at = IF conn.q.op \in PublicOps THEN "authorized" ELSE "authenticate",
                     !.stage = stage]
       /\ UNCHANGED <<world, helper, backlog, spools, told, records, effects, kills>>

ReadRequest ==
    /\ At("accepted")
    /\ Enter(IF conn.q.streamed THEN "preflight" ELSE "dispatch")

\* _authorize_request: authenticate_session
Authenticate ==
    /\ At("authenticate")
    /\ LET a == account[conn.q.who]
       IN  IF a.live
           THEN /\ conn' = [conn EXCEPT !.at = "active", !.principal =
                                [admin |-> a.admin, forced |-> a.forced]]
                /\ UNCHANGED <<world, helper, backlog, spools, told, records, effects, kills>>
           ELSE Refused("unauthorized")

\* _require_active_principal: a principal that Maddy no longer knows loses all
\* its sessions.
RequireActive ==
    /\ At("active")
    /\ IF account[conn.q.who].active
       THEN Onward("rights")
       ELSE /\ account' = [account EXCEPT ![conn.q.who].live = FALSE,
                                          ![conn.q.who].elevated = FALSE]
            /\ Audited /\ Answering("forbidden")
            /\ UNCHANGED <<outside, helper, backlog, spools, told, effects, kills>>

\* What the principal read first decides about the password and the role; the
\* step-up is read from the store again.
CheckRights ==
    /\ At("rights")
    /\ LET bound == conn.principal.forced /\ conn.q.op \notin ForcedMay
           lacking == conn.q.op \in AdminOps \cup AdminAccountOps /\ ~conn.principal.admin
           unproved == conn.q.op \in StepUpOps
                         /\ ~(account[conn.q.who].live /\ account[conn.q.who].elevated)
       IN  \/ bound /\ Refused("password_change_required")
           \/ ~bound /\ lacking /\ Refused("forbidden")
           \/ ~bound /\ ~lacking /\ unproved /\ Refused("step_up_required")
           \/ ~bound /\ ~lacking /\ ~unproved /\ Onward("target")

\* The target account; no target means the caller's own account.
Resolved(q) == IF q.target = None THEN q.who ELSE q.target

ResolveTarget ==
    /\ At("target")
    /\ LET q == conn.q
           known == account[Resolved(q)].exists
           foreign == ~conn.principal.admin /\ Resolved(q) # q.who
           missing == q.op \in AdminAccountOps /\ q.target = None
       IN  \/ q.op \notin AccountOps \cup AdminAccountOps /\ Onward("authorized")
           \/ /\ q.op \in AccountOps \cup AdminAccountOps
              /\ \/ missing /\ Refused("invalid_request")
                 \/ ~missing /\ ~known /\ Refused("invalid_credentials")
                 \/ ~missing /\ known /\ foreign /\ Refused("forbidden")
                 \/ ~missing /\ known /\ ~foreign /\ Onward("authorized")

\* The body: TrustedSpool.create and receive_stream_payload.
OpenSpool ==
    /\ At("authorized") /\ conn.stage = "preflight"
    /\ conn' = [conn EXCEPT !.at = "receiving", !.spool = 1]
    /\ spools' = spools + 1
    /\ UNCHANGED <<world, helper, backlog, told, records, effects, kills>>

\* The whole body is in: everything is checked again.
BodyReceivedTrusted ==
    /\ At("receiving")
    /\ conn' = [conn EXCEPT !.at = "authorized", !.stage = "dispatch"]
    /\ UNCHANGED <<world, helper, backlog, spools, told, records, effects, kills>>

BodyReceived ==
    /\ At("receiving")
    /\ Enter("dispatch")

\* Too long, too short, followed by more bytes, late, or the disk is full.
BodyFails ==
    /\ At("receiving")
    /\ Closed("transport")
    /\ Audited

\* What handlers do to sessions and accounts.
AccountAfter(q) ==
    [a \in Accounts |->
        CASE q.op = "auth.logout" /\ a = q.who ->
                [account[a] EXCEPT !.live = FALSE, !.elevated = FALSE]
          [] q.op = "auth.change_password" /\ a = q.who ->
                [account[a] EXCEPT !.live = FALSE, !.elevated = FALSE, !.forced = FALSE]
          [] q.op = "auth.step_up" /\ a = q.who ->
                [account[a] EXCEPT !.elevated = account[a].live]
          [] q.op = "accounts.disable_credentials" /\ a = Resolved(q) ->
                [account[a] EXCEPT !.live = FALSE, !.elevated = FALSE, !.active = FALSE]
          [] OTHER -> account[a]]

Handle ==
    /\ At("authorized") /\ conn.stage = "dispatch"
    /\ account' = AccountAfter(conn.q)
    /\ effects' = [effects EXCEPT ![conn.q.r] = @ + 1]
    /\ records' = IF conn.q.op \in Unaudited THEN records
                  ELSE [records EXCEPT ![conn.q.r] = @ + 1]
    /\ LET out == IF conn.q.op \in StreamOut THEN 1 ELSE 0
       IN  /\ spools' = spools + out
           /\ conn' = [conn EXCEPT !.at = "answering", !.result = "ok", !.spool = @ + out]
    /\ UNCHANGED <<outside, helper, backlog, told, kills>>

\* The handler raises; _safe_error names a code.
HandlerFails ==
    /\ At("authorized") /\ conn.stage = "dispatch"
    /\ Refused("failed")

\* A refusal sent while the client still sends its body may reach the client
\* only as a broken connection.
Answer ==
    /\ At("answering")
    /\ Closed(conn.result)
    /\ UNCHANGED records

AnswerLost ==
    /\ At("answering")
    /\ Closed("transport")
    /\ UNCHANGED records

----------------------------------------------------------------------------
(* Beside the helper *)

OutsideStep(a, new) ==
    /\ outside < MaxOutside /\ new # account[a]
    /\ account' = [account EXCEPT ![a] = new] /\ outside' = outside + 1
    /\ UNCHANGED <<helper, backlog, conn, spools, told, records, effects, kills>>

SessionExpires(a) ==
    OutsideStep(a, [account[a] EXCEPT !.live = FALSE, !.elevated = FALSE])

StepUpExpires(a) == OutsideStep(a, [account[a] EXCEPT !.elevated = FALSE])

\* maddyweb auth-role: the role changes and the sessions go in one transaction.
RootSetsRole(a) ==
    /\ account[a].exists /\ account[a].active
    /\ OutsideStep(a, [account[a] EXCEPT !.admin = ~@, !.live = FALSE, !.elevated = FALSE])

\* maddyweb auth-purge, of an account that Maddy no longer has.
RootPurges(a) ==
    /\ account[a].exists /\ ~account[a].active
    /\ OutsideStep(a, [account[a] EXCEPT !.exists = FALSE, !.live = FALSE, !.elevated = FALSE])

MaddyChanges(a) == OutsideStep(a, [account[a] EXCEPT !.active = ~@])

----------------------------------------------------------------------------
(* Behaviours *)

\* The history of the caller starts anew when the dispatcher begins to work on
\* the request, and again when the body is complete.
Observed ==
    since' = IF conn' = None \/ (conn' # None /\ conn'.q.who = None) THEN {}
             ELSE (IF conn # None /\ conn.stage = conn'.stage THEN since ELSE {})
                  \cup {account'[conn'.q.who]}

HelperStep ==
    \/ Accept \/ Retire \/ BadRequest \/ ReadRequest
    \/ Authenticate \/ RequireActive \/ CheckRights \/ ResolveTarget
    \/ OpenSpool \/ BodyReceived \/ BodyFails \/ Handle \/ HandlerFails
    \/ Answer \/ AnswerLost

ClientStep(requests, ops) ==
    \E r \in requests, op \in ops, who \in Accounts \cup {None},
      target \in Accounts \cup {None}, streamed \in BOOLEAN :
        Connect(r, op, who, target, streamed)

ServerStep ==
    \/ Activate \/ HelperStep \/ Killed
    \/ \E a \in Accounts :
         SessionExpires(a) \/ StepUpExpires(a) \/ RootSetsRole(a) \/ RootPurges(a)
         \/ MaddyChanges(a)

Next == (ClientStep(Requests, Ops) \/ ServerStep) /\ Observed

Spec == Init /\ [][Next]_vars

\* Socket timeouts bound every wait of the helper for its peer, command
\* timeouts every handler; systemd starts the helper for a waiting connection.
FairSpec ==
    /\ Spec
    /\ WF_vars(HelperStep /\ Observed) /\ WF_vars(Activate /\ Observed)

----------------------------------------------------------------------------
(* Properties *)

TypeOK ==
    /\ account \in [Accounts -> [exists : BOOLEAN, live : BOOLEAN, admin : BOOLEAN,
                                 forced : BOOLEAN, active : BOOLEAN, elevated : BOOLEAN]]
    /\ helper \in [up : BOOLEAN, served : 0..MaxServed]
    /\ told \in [Requests -> Results \cup {None, "waiting", "transport"}]
    /\ spools \in Nat /\ records \in [Requests -> 0..1] /\ effects \in [Requests -> 0..1]
    /\ conn \in Connections \cup {None}

Had(P(_)) == \E x \in since : P(x)

\* The caller had, since then, all the authority that op asks for: a live
\* session with the role, not bound to change its password first; an active
\* mailbox; a fresh step-up.
Authorized(op) ==
    op \notin PublicOps =>
        /\ Had(LAMBDA x : /\ x.live
                          /\ op \in AdminOps \cup AdminAccountOps => x.admin
                          /\ ~(x.forced /\ op \notin ForcedMay))
        /\ Had(LAMBDA x : x.active)
        /\ op \in StepUpOps => Had(LAMBDA x : x.live /\ x.elevated)

\* No handler runs for a caller who had lost its authority before the body was
\* complete: a session cannot be revoked midway and still perform a write.
NoStaleEffect ==
    At("authorized") /\ conn.stage = "dispatch" => Authorized(conn.q.op)

\* No byte of a body is stored for a caller that was not authorized.
NoUnauthorizedBody ==
    At("receiving") => Authorized(conn.q.op)

\* Whoever reaches another account than its own was an administrator.
OwnAccountOnly ==
    At("authorized") /\ conn.stage = "dispatch" /\ conn.q.op \in AccountOps \cup AdminAccountOps =>
        Resolved(conn.q) = conn.q.who \/ Had(LAMBDA x : x.live /\ x.admin)

\* A request that the dispatcher saw leaves exactly one audit record, unless
\* the helper was killed; only the polling operations leave none when they
\* succeed.
OneRecord ==
    At("answering") =>
        records[conn.q.r] = IF conn.result = "ok" /\ conn.q.op \in Unaudited THEN 0 ELSE 1

\* No spool file outlives its connection, unless the helper was killed.
SpoolsRemoved == spools <= 2 * kills + (IF conn = None THEN 0 ELSE conn.spool)

\* The answer "unauthorized", on which the application drops the cookie, is
\* given only to a caller whose session was dead.
UnauthorizedIsDead ==
    At("answering") /\ conn.result = "unauthorized" => Had(LAMBDA x : ~x.live)

\* Every connection is answered or closed, across restarts of the helper.
EveryConnectionEnds ==
    \A r \in Requests : told[r] = "waiting" ~> told[r] # "waiting"

\* Requests are authorized by the state they run in, and leave one record and
\* no file.
RequestsSound ==
    /\ TypeOK
    /\ NoStaleEffect /\ NoUnauthorizedBody /\ OwnAccountOnly /\ UnauthorizedIsDead
    /\ OneRecord /\ SpoolsRemoved
=============================================================================
