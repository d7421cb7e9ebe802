-------------------------- MODULE AccountLifecycle --------------------------
(***************************************************************************)
(* Accounts across two stores: credentials and mail storage of Maddy,      *)
(* changed by commands of its own, and the metadata, challenges and        *)
(* sessions of the authentication store.  The helper serves one request at *)
(* a time; the bootstrap of root is run offline, so it does not overlap    *)
(* with a request.  Every command of Maddy may fail, with or without its   *)
(* effect, and the process may be killed between two commands; what it has *)
(* already done stays.  Mail clients and Maddy's own command line act in   *)
(* between.                                                                *)
(*                                                                         *)
(* A challenge or a session is told apart only by the password it was      *)
(* obtained with: the current one, one that was since changed, or one of   *)
(* credentials that were since removed and made anew.                      *)
(***************************************************************************)
EXTENDS Naturals, FiniteSets, Sequences

CONSTANTS
    Users,
    Kinds,      \* the operations that are requested
    MaxFaults,  \* bound: failing commands and kills
    MaxOutside  \* bound: credentials made with Maddy's command line

\* What every instance has to give; the MC modules assume it of theirs.
LifecycleAssumption == MaxFaults \in Nat /\ MaxOutside \in Nat

VARIABLES
    cred, mbox, \* Maddy: the users with credentials, with mail storage
    by,         \* history: who decided last on the password and the duty to change it
    meta, must, \* the store: users with metadata, those that must change their password
    chal, sess, \* the store: challenges and sessions of each user
    op,         \* the operation under way
    told,       \* the answer of the last operation
    faults, outside,
    had,        \* history: credentials and mail storage when the operation began
    opened,     \* history: mail storage that a client opened since then
    foreign     \* history: credentials made by others since then

vars == <<cred, mbox, by, meta, must, chal, sess, op, told, faults, outside, had, opened, foreign>>
maddy == <<cred, mbox, by>>
store == <<meta, must, chal, sess>>
history == <<outside, had, opened, foreign>>

Ages == {"current", "changed"}
Seen == {"yes", "no", "unknown"}
Look(b) == IF b THEN "yes" ELSE "no"

Idle == [kind |-> "none", pc |-> "idle", u |-> CHOOSE u \in Users : TRUE, rest |-> {},
         made |-> << >>, all |-> {}, baseC |-> "no", baseM |-> "no", seenC |-> "no", seenM |-> "no",
         new |-> FALSE, sound |-> TRUE, answer |-> "none"]

(* Any mix of complete, disabled and unopened accounts, nobody signed in. *)
Init ==
    /\ cred \in SUBSET Users /\ mbox \in SUBSET Users
    /\ meta \in SUBSET (cred \cap mbox)
    /\ by = [u \in Users |-> "other"]
    /\ must = {}
    /\ chal = [u \in Users |-> {}] /\ sess = [u \in Users |-> {}]
    /\ op = Idle /\ told = "none"
    /\ faults = 0 /\ outside = 0
    /\ had = [c |-> {}, m |-> {}] /\ opened = {} /\ foreign = {}

Active(u) == u \in cred \cap mbox
Outdated(s, u) == [s EXCEPT ![u] = IF @ = {} THEN {} ELSE {"changed"}]

-----------------------------------------------------------------------------
(* Commands of Maddy.                                                      *)

CredsCreate(u) ==
    /\ u \notin cred
    /\ cred' = cred \cup {u} /\ by' = [by EXCEPT ![u] = "other"]
    /\ UNCHANGED <<mbox, store>>

CredsPassword(u, who) ==
    /\ u \in cred
    /\ by' = [by EXCEPT ![u] = who]
    /\ chal' = Outdated(chal, u) /\ sess' = Outdated(sess, u)
    /\ UNCHANGED <<cred, mbox, meta, must>>

CredsRemove(u) == u \in cred /\ cred' = cred \ {u} /\ UNCHANGED <<mbox, by, store>>
AcctCreate(u) == u \notin mbox /\ mbox' = mbox \cup {u} /\ UNCHANGED <<cred, by, store>>
AcctRemove(u) == u \in mbox /\ mbox' = mbox \ {u} /\ UNCHANGED <<cred, by, store>>

Nothing == UNCHANGED <<maddy, store>>
Fine == UNCHANGED faults
Fault(n) == faults + n <= MaxFaults /\ faults' = faults + n

Goto(pc) == op' = [op EXCEPT !.pc = pc] /\ UNCHANGED told
At(pc) == op.pc = pc /\ UNCHANGED history
End(answer) == op' = Idle /\ told' = answer

(* A command: it takes effect and the operation goes on, or it is refused or
   fails, which is no evidence that it had no effect. *)
Command(Effect, works, good, bad) ==
    \/ Fine /\ Effect /\ good
    \/ Fine /\ ~works /\ Nothing /\ bad
    \/ Fault(1) /\ (Effect \/ Nothing) /\ bad

(* A list command whose answer decides. *)
Check(ok, good, bad) ==
    /\ Nothing
    /\ \/ Fine /\ ok /\ good
       \/ Fine /\ ~ok /\ bad
       \/ Fault(1) /\ bad

-----------------------------------------------------------------------------
(* create_account, for one address of a request or of the bootstrap.       *)

Fails(answer) ==
    IF op.kind = "create" THEN End(answer)
    ELSE op' = [op EXCEPT !.pc = "rollback", !.answer = answer] /\ UNCHANGED told

BaselineCredentials ==
    /\ At("create") /\ Nothing
    /\ \/ Fine /\ op' = [op EXCEPT !.pc = "baseM", !.baseC = Look(op.u \in cred)] /\ UNCHANGED told
       \/ Fault(1) /\ Fails("failed")

BaselineMailboxes ==
    /\ At("baseM") /\ Nothing
    /\ \/ Fine /\ op' = [op EXCEPT !.pc = "credsCreate", !.baseM = Look(op.u \in mbox)] /\ UNCHANGED told
       \/ Fault(1) /\ Fails("failed")

CreateCredentials ==
    At("credsCreate") /\ Command(CredsCreate(op.u), op.u \notin cred, Goto("acctCreate"), Goto("observeC"))

CreateMailbox ==
    At("acctCreate") /\ Command(AcctCreate(op.u), op.u \notin mbox, Goto("verifyC"), Goto("observeC"))

VerifyCredentials == At("verifyC") /\ Check(op.u \in cred, Goto("verifyM"), Goto("observeC"))
VerifyMailbox ==
    /\ At("verifyM")
    /\ Check(op.u \in mbox,
             IF op.kind = "create" THEN Goto("provision")
             ELSE op' = [op EXCEPT !.pc = "next", !.made = Append(@, op.u)] /\ UNCHANGED told,
             Goto("observeC"))

(* observe: a list is read again once when reading it fails. *)
Observe(b, seen) ==
    /\ seen \in {Look(b), "unknown"}
    /\ IF seen = "unknown" THEN Fault(2) ELSE Fine
    /\ Nothing /\ UNCHANGED told

ObserveCredentials ==
    At("observeC") /\ \E seen \in Seen : /\ Observe(op.u \in cred, seen)
                                      /\ op' = [op EXCEPT !.pc = "observeM", !.seenC = seen]
ObserveMailbox ==
    At("observeM") /\ \E seen \in Seen : /\ Observe(op.u \in mbox, seen)
                                      /\ op' = [op EXCEPT !.pc = "undoM", !.seenM = seen]

New(base, seen) == base = "no" /\ seen = "yes"

(* Only what is new is removed, the mail storage before the credentials; how
   the commands end is not looked at. *)
UndoMailbox ==
    /\ At("undoM")
    /\ IF New(op.baseM, op.seenM)
       THEN Command(AcctRemove(op.u), op.u \in mbox, Goto("undoC"), Goto("undoC"))
       ELSE Fine /\ Nothing /\ Goto("undoC")

UndoCredentials ==
    /\ At("undoC")
    /\ IF New(op.baseC, op.seenC)
       THEN Command(CredsRemove(op.u), op.u \in cred, Goto("finalC"), Goto("finalC"))
       ELSE Fine /\ Nothing /\ Goto("finalC")

CreatedHere == New(op.baseC, op.seenC) \/ New(op.baseM, op.seenM)

FinalCredentials ==
    At("finalC") /\ \E seen \in Seen :
        /\ Observe(op.u \in cred, seen)
        /\ op' = [op EXCEPT !.pc = "finalM", !.new = CreatedHere, !.seenC = seen]

FinalMailbox ==
    At("finalM") /\ \E seen \in Seen : /\ Observe(op.u \in mbox, seen)
                                    /\ op' = [op EXCEPT !.pc = "decide", !.seenM = seen]

(* Mutant: a list that could not be read counts as clean. *)
MutVerified == op.seenC \in {op.baseC, "unknown"} /\ op.seenM \in {op.baseM, "unknown"}

Verified == op.seenC = op.baseC /\ op.seenM = op.baseM

Decide ==
    /\ At("decide") /\ Fine /\ Nothing
    /\ Fails(IF ~Verified THEN "unverified" ELSE IF op.new THEN "rolled back" ELSE "failed")

-----------------------------------------------------------------------------
(* disable_credentials and delete_imap_account, as stages of the requests   *)
(* and of the rollback of an account that was made in whole.               *)

StageFails ==
    IF op.kind = "bootstrap" THEN op' = [op EXCEPT !.pc = "rollback", !.sound = FALSE] /\ UNCHANGED told
    ELSE End(IF op.kind = "create" THEN "unverified" ELSE "error")

DisableCredentials ==
    At("removeC") /\ Command(CredsRemove(op.u), op.u \in cred, Goto("removedC"), StageFails)

DisableReadBack ==
    /\ At("removedC")
    /\ Check(op.u \notin cred,
             Goto(IF op.kind \in {"disable", "delete"} THEN "revoke" ELSE "removeM"),
             StageFails)

DeleteImapAccount ==
    At("removeM") /\ Command(AcctRemove(op.u), op.u \in mbox, Goto("removedM"), StageFails)

DeleteReadBack ==
    /\ At("removedM")
    /\ Check(op.u \notin mbox,
             IF op.kind = "create" THEN End("rolled back")
             ELSE Goto(IF op.kind = "bootstrap" THEN "rollback" ELSE "dropMeta"),
             StageFails)

-----------------------------------------------------------------------------
(* Store transactions of the requests.                                     *)

Revoked(u) == chal' = [chal EXCEPT ![u] = {}] /\ sess' = [sess EXCEPT ![u] = {}]

(* provision_active_account *)
Provision ==
    /\ At("provision") /\ UNCHANGED maddy
    /\ \/ /\ Fine /\ op.u \notin meta
          /\ meta' = meta \cup {op.u} /\ UNCHANGED <<must, chal, sess>>
          /\ End("created")
       \/ op.u \in meta /\ Fine /\ UNCHANGED store /\ Goto("removeC")
       \/ Fault(1) /\ UNCHANGED store /\ Goto("removeC")

(* revoke_sessions after the credentials were removed, if there are metadata *)
RevokeDisabled ==
    /\ At("revoke") /\ UNCHANGED <<maddy, meta, must>>
    /\ \/ /\ Fine
          /\ Revoked(op.u)
          /\ IF op.kind = "disable" THEN End("done")
             ELSE Goto(IF op.seenM = "yes" THEN "removeM" ELSE "dropMeta")
       \/ Fault(1) /\ UNCHANGED <<chal, sess>> /\ End("error")

(* delete_account of the store, with all that refers to the account *)
DropMeta ==
    /\ At("dropMeta") /\ UNCHANGED maddy
    /\ \/ /\ Fine
          /\ meta' = meta \ {op.u} /\ must' = must \ {op.u} /\ Revoked(op.u)
          /\ End("done")
       \/ Fault(1) /\ UNCHANGED store /\ End("error")

(* Mutant: the reset only sets the flag; sessions are left to expire. *)
MutRequireChange ==
    /\ At("require") /\ UNCHANGED <<maddy, meta>>
    /\ \/ Fine /\ must' = must \cup {op.u} /\ UNCHANGED <<chal, sess>> /\ Goto("password")
       \/ Fault(1) /\ UNCHANGED <<must, chal, sess>> /\ End("error")

(* set_password_change_required(True) of a reset, before the password *)
RequireChange ==
    /\ At("require") /\ UNCHANGED <<maddy, meta>>
    /\ \/ Fine /\ must' = must \cup {op.u} /\ Revoked(op.u) /\ Goto("password")
       \/ Fault(1) /\ UNCHANGED <<must, chal, sess>> /\ End("error")

(* revoke_sessions of a user's own change, before the password *)
RevokeOwn ==
    /\ At("revokeOwn") /\ UNCHANGED <<maddy, meta, must>>
    /\ \/ Fine /\ Revoked(op.u) /\ Goto("password")
       \/ Fault(1) /\ UNCHANGED <<chal, sess>> /\ End("error")

ChangePassword ==
    /\ At("password")
    /\ Command(CredsPassword(op.u, IF op.kind = "reset" THEN "admin" ELSE "user"), op.u \in cred,
               Goto("passwordBack"), End("error"))

PasswordReadBack ==
    /\ At("passwordBack")
    /\ Check(op.u \in cred, IF op.kind = "reset" THEN End("done") ELSE Goto("clear"), End("error"))

(* set_password_change_required(False, revoke_sessions=False) *)
ClearRequired ==
    /\ At("clear") /\ UNCHANGED <<maddy, meta, sess>>
    /\ \/ /\ Fine
          /\ must' = must \ {op.u} /\ chal' = [chal EXCEPT ![op.u] = {}]
          /\ End("done")
       \/ Fault(1) /\ UNCHANGED <<must, chal>> /\ End("error")

-----------------------------------------------------------------------------
(* The bootstrap.                                                          *)

(* The next address to create, or the transaction of all records: root decides
   anew for each address, an imported one too, whether its password has to be
   changed. *)
BootstrapNext ==
    /\ At("next") /\ Fine /\ UNCHANGED <<cred, mbox>>
    /\ IF op.rest # {}
       THEN /\ \E u \in op.rest : op' = [op EXCEPT !.pc = "create", !.u = u, !.rest = @ \ {u}]
            /\ UNCHANGED <<by, store, told>>
       ELSE \E required \in SUBSET op.all :
              /\ by' = [u \in Users |-> IF u \in op.all THEN "other" ELSE by[u]]
              /\ meta' = meta \cup op.all
              /\ must' = (must \ op.all) \cup required
              /\ chal' = [u \in Users |-> IF u \in op.all THEN {} ELSE chal[u]]
              /\ sess' = [u \in Users |-> IF u \in op.all THEN {} ELSE sess[u]]
              /\ End("created")

BootstrapStoreFails ==
    /\ At("next") /\ op.rest = {} /\ Fault(1) /\ Nothing
    /\ op' = [op EXCEPT !.pc = "rollback", !.answer = "failed"] /\ UNCHANGED told

(* The accounts that were made are removed, the last one first. *)
Rollback ==
    /\ At("rollback") /\ Fine /\ Nothing
    /\ IF op.made # << >>
       THEN /\ op' = [op EXCEPT !.pc = "removeC", !.u = op.made[Len(op.made)],
                                !.made = SubSeq(@, 1, Len(@) - 1)]
            /\ UNCHANGED told
       ELSE End(IF op.sound THEN op.answer ELSE "unverified")

-----------------------------------------------------------------------------
(* Operations begin.                                                       *)

Begin(kind, u, pc, seenC, seenM) ==
    /\ op.pc = "idle" /\ kind \in Kinds
    /\ op' = [Idle EXCEPT !.kind = kind, !.u = u, !.pc = pc, !.seenC = seenC, !.seenM = seenM]
    /\ told' = "none"
    /\ had' = [c |-> cred, m |-> mbox] /\ opened' = {} /\ foreign' = {}
    /\ UNCHANGED outside /\ Fine /\ Nothing

(* accounts.create *)
StartCreate(u) == Begin("create", u, "create", "no", "no")

(* The other requests name an account by its metadata. *)
StartDisable(u) == u \in meta /\ Begin("disable", u, "removeC", "no", "no")
StartReset(u) == u \in meta /\ Begin("reset", u, "require", "no", "no")

(* auth.change_password: a session that may be used, and the right password *)
StartChange(u) == sess[u] # {} /\ Active(u) /\ Begin("change", u, "revokeOwn", "no", "no")

(* accounts.delete_imap_account: the list of accounts decides the stages. *)
StartDelete(u) ==
    /\ u \in meta
    /\ Begin("delete", u,
             IF u \in cred THEN "removeC" ELSE IF u \in mbox THEN "removeM" ELSE "dropMeta",
             Look(u \in cred), Look(u \in mbox))

(* auth bootstrap: addresses to create are unknown to Maddy, the others are
   complete, or nothing is done. *)
StartBootstrap ==
    /\ op.pc = "idle" /\ "bootstrap" \in Kinds
    /\ \E all \in SUBSET Users \ {{}} : \E new \in SUBSET all :
          IF new \cap (cred \cup mbox) = {} /\ \A u \in all \ new : Active(u)
          THEN /\ op' = [Idle EXCEPT !.kind = "bootstrap", !.pc = "next", !.rest = new, !.all = all]
               /\ told' = "none"
          ELSE told' = "refused" /\ UNCHANGED op
    /\ had' = [c |-> cred, m |-> mbox] /\ opened' = {} /\ foreign' = {}
    /\ UNCHANGED outside /\ Fine /\ Nothing

(* The process is killed between two steps. *)
Killed == op.pc # "idle" /\ Fault(1) /\ End("none") /\ Nothing /\ UNCHANGED history

-----------------------------------------------------------------------------
(* Signing in, requests with a session, and others.                        *)

Quiet == op.pc = "idle" /\ UNCHANGED <<op, told, faults, history, maddy>>

(* auth.password_begin *)
PasswordBegin(u) ==
    /\ Quiet /\ Active(u)
    /\ meta' = meta \cup {u}
    /\ chal' = [chal EXCEPT ![u] = @ \cup {"current"}]
    /\ UNCHANGED <<must, sess>>

(* auth.totp_complete: only the store is asked. *)
TotpComplete(u) ==
    /\ Quiet
    /\ \E c \in chal[u] :
          /\ chal' = [chal EXCEPT ![u] = @ \ {c}]
          /\ sess' = [sess EXCEPT ![u] = @ \cup {c}]
    /\ UNCHANGED <<meta, must>>

(* Any request with the session of an account that is not complete. *)
RefusedRequest(u) ==
    /\ Quiet /\ sess[u] # {} /\ ~Active(u)
    /\ Revoked(u) /\ UNCHANGED <<meta, must>>

(* A mail client signs in at Maddy, which opens missing storage. *)
ClientOpens(u) ==
    /\ u \in cred \ mbox
    /\ mbox' = mbox \cup {u} /\ opened' = opened \cup {u}
    /\ UNCHANGED <<cred, by, store, op, told, faults, outside, had, foreign>>

(* Credentials made with Maddy's command line. *)
OutsideEnables(u) ==
    /\ outside < MaxOutside /\ outside' = outside + 1
    /\ CredsCreate(u) /\ foreign' = foreign \cup {u}
    /\ UNCHANGED <<op, told, faults, had, opened>>

Step ==
    \/ BaselineCredentials \/ BaselineMailboxes \/ CreateCredentials \/ CreateMailbox
    \/ VerifyCredentials \/ VerifyMailbox \/ ObserveCredentials \/ ObserveMailbox
    \/ UndoMailbox \/ UndoCredentials \/ FinalCredentials \/ FinalMailbox \/ Decide
    \/ DisableCredentials \/ DisableReadBack \/ DeleteImapAccount \/ DeleteReadBack
    \/ Provision \/ RevokeDisabled \/ DropMeta \/ RequireChange \/ RevokeOwn
    \/ ChangePassword \/ PasswordReadBack \/ ClearRequired
    \/ BootstrapNext \/ BootstrapStoreFails \/ Rollback

Next ==
    \/ Step \/ Killed \/ StartBootstrap
    \/ \E u \in Users :
          \/ StartCreate(u) \/ StartDisable(u) \/ StartReset(u) \/ StartChange(u) \/ StartDelete(u)
          \/ PasswordBegin(u) \/ TotpComplete(u) \/ RefusedRequest(u)
          \/ ClientOpens(u) \/ OutsideEnables(u)

Spec == Init /\ [][Next]_vars

-----------------------------------------------------------------------------
(* The variables have their types, and challenges, sessions and the duty to
   change a password belong to accounts with metadata. *)
TypeOK ==
    /\ cred \subseteq Users /\ mbox \subseteq Users /\ meta \subseteq Users
    /\ by \in [Users -> {"other", "admin", "user"}]
    /\ op.seenC \in Seen /\ op.seenM \in Seen
    /\ \A u \in Users : chal[u] \cup sess[u] \subseteq Ages
    /\ must \subseteq meta
    /\ \A u \in Users \ meta : chal[u] = {} /\ sess[u] = {}

Ended == op.pc # "idle" /\ op'.pc = "idle"
Targets == IF op.kind = "bootstrap" THEN op.all ELSE {op.u}

(* What the caller is told of a creation is true, whichever commands failed
   and whether or not they had taken effect: a created account has its
   credentials, its mail storage and its metadata, and after a failure that
   was rolled back, or that is said to have done nothing, Maddy has what it
   had before.  (Storage that a client opens with credentials that existed
   before is the client's; credentials made by others are theirs.) *)
TellsTrue ==
    Ended =>
        /\ told' = "created" => Targets \subseteq cred' \cap mbox' \cap meta'
        /\ told' \in {"rolled back", "failed"} =>
              \A u \in Targets \ foreign :
                 /\ u \in cred' <=> u \in had.c
                 /\ u \in opened \cap had.c \/ (u \in mbox' <=> u \in had.m)

(* No creation, failed or not, removes credentials or mail storage that were
   there when it began: a disabled account whose address is asked for again
   keeps its mail. *)
KeepsBaseline ==
    op.kind \in {"create", "bootstrap"} =>
        had.c \cap cred \subseteq cred' /\ had.m \cap mbox \subseteq mbox'

(* Metadata go last: while Maddy still has anything of an account that is
   being deleted it can be named and its deletion tried again.  (Storage that
   a client opens after the stages were decided is not seen.) *)
ForgetsLast ==
    \A u \in meta \ meta' :
        /\ u \in cred => u \in foreign
        /\ u \in mbox => u \in opened

(* No challenge and no session that was obtained with a password outlives the
   change of it, however the change ends. *)
NoneOutlivesPassword == \A u \in Users : "changed" \notin chal[u] \cup sess[u]

(* A password that an administrator chose in a reset has to be changed by its
   user, also when the reset was interrupted, unless root decides otherwise in
   a bootstrap. *)
ResetForcesChange == \A u \in meta \cap cred : by[u] = "admin" => u \in must

(* A change of a password ends what the old one gave, and a reset leaves its
   duty, at whichever step it fails. *)
PasswordsRetired == TypeOK /\ NoneOutlivesPassword /\ ResetForcesChange

(* Answers are true, and nothing is removed that should have stayed. *)
StepSound == TellsTrue /\ KeepsBaseline /\ ForgetsLast
AccountsSound == [][StepSound]_vars
=============================================================================
