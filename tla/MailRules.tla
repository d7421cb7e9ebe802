----------------------------- MODULE MailRules -----------------------------
(***************************************************************************)
(* Filing rules and the snapshots delivery reads.  The rules are rows of   *)
(* the store (auth.py, mail_rules); for every address the helper publishes *)
(* one snapshot file (rule_snapshots.py) that the filter bridge loads for  *)
(* each message (filter_bridge.py).  The helper pauses delivery rules by   *)
(* an empty snapshot, commits, and publishes; at start it reconciles every *)
(* file with the database.  The helper may die between any two steps, a    *)
(* write may fail, and the root command auth-purge removes accounts beside *)
(* it.                                                                     *)
(*                                                                         *)
(* Abstractions.  A rule's name, condition, target, enabled and stop flags *)
(* are one value, its content.  A published record is the row it was made  *)
(* from.  Rule and account identifiers are random and never drawn twice.   *)
(* The size limit on the rule collection is checked before a request does  *)
(* anything and is left out.                                               *)
(*                                                                         *)
(* A definition just before another one with the same parameters is a      *)
(* wrong version of it; PROJECT.json lists which property catches which.   *)
(***************************************************************************)
EXTENDS Integers, FiniteSets

CONSTANTS
    Emails,      \* canonical mailbox addresses
    AccountIds,  \* pool of account identifiers
    RuleIds,     \* pool of rule identifiers
    Contents,    \* what a rule says
    None,        \* no request in progress
    Missing,     \* no snapshot file
    MaxRules,    \* _MAX_MAIL_RULES_PER_ACCOUNT
    MaxRevision, MaxFaults  \* bounds of the model

\* A request while it is served
Numberings == UNION {[ids -> 0 .. MaxRules] : ids \in SUBSET RuleIds}
Served == [kind : {"create", "update", "delete", "reorder", "remove"}, account : AccountIds,
           email : Emails, rule : RuleIds \cup {None}, rev : 1 .. MaxRevision \cup {None},
           content : Contents \cup {None}, order : Numberings \cup {None}]

\* What every instance has to give; the MC modules assume it of theirs.
MailRulesAssumption ==
    /\ MaxRules \in Nat \ {0} /\ MaxRevision \in Nat \ {0} /\ MaxFaults \in Nat
    /\ RuleIds \cap AccountIds = {}
    /\ None \notin Served

VARIABLES
    accounts,   \* auth_accounts, the key columns
    rules,      \* mail_rules
    files,      \* the snapshot directory: address -> rules or Missing
    mailboxes,  \* the addresses Maddy knows
    pc,         \* what the helper is doing
    req,        \* the request it serves
    plan,       \* snapshots it still has to publish at start
    issued,     \* identifiers drawn so far
    written,    \* history: every row ever stored, without its position
    faults      \* failed writes and crashes so far

vars == <<accounts, rules, files, mailboxes, pc, req, plan, issued, written, faults>>
helper == <<pc, req, plan>>

Rule == [id : RuleIds, account : AccountIds, pos : 0 .. MaxRules, rev : 1 .. MaxRevision,
         content : Contents]
Steps == {"down", "purging", "publishing", "idle", "paused", "committed", "unhosted", "forgotten"}

RulesOf(id) == {r \in rules : r.account = id}
Stored(id) == \E a \in accounts : a.id = id

\* A failing write, a failing command or a crash, within the bound
Fault == faults < MaxFaults /\ faults' = faults + 1

\* publish_snapshot replaces the file in one rename; the checks after the
\* rename may still fail.
Publish(e, rs) == files' = [files EXCEPT ![e] = rs]
PublishFails(e, rs) == Fault /\ (files' = files \/ Publish(e, rs))

Init ==
    /\ accounts = {} /\ rules = {} /\ mailboxes = {}
    /\ files = [e \in Emails |-> Missing]
    /\ pc = "down" /\ req = None /\ plan = <<>>
    /\ issued = {} /\ written = {} /\ faults = 0

----------------------------------------------------------------------------
(* Start and end of the helper *)

\* _reconcile_mail_rule_snapshots reads the rules of every account ...
StartHelperEmpty ==
    /\ pc = "down"
    /\ pc' = "purging"
    /\ plan' = <<>>
    /\ UNCHANGED <<accounts, rules, files, mailboxes, req, issued, written, faults>>

StartHelper ==
    /\ pc = "down"
    /\ pc' = "purging"
    /\ plan' = [e \in {a.email : a \in accounts} |->
                   {r \in rules : \E a \in accounts : a.email = e /\ r.account = a.id}]
    /\ UNCHANGED <<accounts, rules, files, mailboxes, req, issued, written, faults>>

\* ... replace_snapshot_set removes every file before it writes the first one
RemoveOldSnapshot(e) ==
    /\ pc = "purging" /\ files[e] # Missing
    /\ files' = [files EXCEPT ![e] = Missing]
    /\ UNCHANGED <<accounts, rules, mailboxes, helper, issued, written, faults>>

OldSnapshotsRemoved ==
    /\ pc = "purging" /\ \A e \in Emails : files[e] = Missing
    /\ pc' = "publishing"
    /\ UNCHANGED <<accounts, rules, files, mailboxes, req, plan, issued, written, faults>>

PublishPlanned(e) ==
    /\ pc = "publishing" /\ e \in DOMAIN plan
    /\ Publish(e, plan[e])
    /\ plan' = [f \in DOMAIN plan \ {e} |-> plan[f]]
    /\ UNCHANGED <<accounts, rules, mailboxes, pc, req, issued, written, faults>>

HelperReady ==
    /\ pc = "publishing" /\ DOMAIN plan = {}
    /\ pc' = "idle" /\ plan' = <<>>
    /\ UNCHANGED <<accounts, rules, files, mailboxes, req, issued, written, faults>>

\* A write of the reconciliation fails and the dispatcher is not created, or
\* the helper dies in any other state.
Crash ==
    /\ pc # "down" /\ Fault
    /\ pc' = "down" /\ req' = None /\ plan' = <<>>
    /\ UNCHANGED <<accounts, rules, files, mailboxes, issued, written>>

\* The idle deadline or the request cap of one activation
StopHelper ==
    /\ pc = "idle"
    /\ pc' = "down"
    /\ UNCHANGED <<accounts, rules, files, mailboxes, req, plan, issued, written, faults>>

----------------------------------------------------------------------------
(* Requests that change rules *)

Request(kind, a, id, rev, content, order) ==
    [kind |-> kind, account |-> a.id, email |-> a.email, rule |-> id, rev |-> rev,
     content |-> content, order |-> order]

\* _pause_mail_rule_delivery, after the checks of the request
PauseNothing(a, q) ==
    /\ pc = "idle" /\ pc' = "paused" /\ req' = q
    /\ files' = files
    /\ UNCHANGED <<accounts, rules, mailboxes, plan, issued, written, faults>>

PauseDelivery(a, q) ==
    /\ pc = "idle" /\ pc' = "paused" /\ req' = q
    /\ Publish(a.email, {})
    /\ UNCHANGED <<accounts, rules, mailboxes, plan, issued, written, faults>>

RulesCreate(a, c) == PauseDelivery(a, Request("create", a, None, None, c, None))

\* The browser sends the revision it edited; any but the current is refused.
RulesUpdate(a, r, c) == PauseDelivery(a, Request("update", a, r.id, r.rev, c, None))

RulesDelete(a, r) == PauseDelivery(a, Request("delete", a, r.id, None, None, None))

\* The supplied order names every rule of the account exactly once.
IdsOf(rs) == {r.id : r \in rs}
Orders(ids) ==
    {o \in [ids -> 0 .. Cardinality(ids) - 1] : \A i, j \in ids : o[i] = o[j] => i = j}

RulesReorder(a, order) == PauseDelivery(a, Request("reorder", a, None, None, None, order))

\* The empty snapshot cannot be written: the request fails unserved.
PauseFails(a) ==
    /\ pc = "idle"
    /\ PublishFails(a.email, {})
    /\ UNCHANGED <<accounts, rules, mailboxes, helper, issued, written>>

Committed(new, kept) ==
    /\ pc' = "committed"
    /\ rules' = kept \cup new
    /\ written' = written \cup {<<r.id, r.rev, r.content>> : r \in new}
    /\ UNCHANGED <<accounts, files, mailboxes, req, plan, faults>>

\* create_mail_rule: COALESCE(MAX(position), -1) + 1, revision 1
NextPosition(id) ==
    LET used == {r.pos : r \in RulesOf(id)}
    IN  CHOOSE p \in 0 .. MaxRules + 1 :
            /\ \A q \in used : q < p
            /\ p = 0 \/ p - 1 \in used

CommitCreate ==
    /\ pc = "paused" /\ req.kind = "create"
    /\ Stored(req.account) /\ Cardinality(RulesOf(req.account)) < MaxRules
    /\ \E id \in RuleIds \ issued :
        /\ Committed({[id |-> id, account |-> req.account, pos |-> NextPosition(req.account),
                       rev |-> 1, content |-> req.content]}, rules)
        /\ issued' = issued \cup {id}

\* update_mail_rule: WHERE revision = the expected one, and revision + 1
CommitUpdate ==
    /\ pc = "paused" /\ req.kind = "update"
    /\ \E r \in RulesOf(req.account) :
        /\ r.id = req.rule /\ r.rev = req.rev
        /\ Committed({[id |-> r.id, account |-> r.account, pos |-> r.pos, rev |-> r.rev + 1,
                       content |-> req.content]}, rules \ {r})
    /\ UNCHANGED issued

\* delete_mail_rule, with _compact_mail_rule_positions_locked
Compacted(rs, r) ==
    {[q EXCEPT !.pos = Cardinality({p \in rs \ {r} : p.pos < q.pos})] : q \in rs \ {r}}

CommitDelete ==
    /\ pc = "paused" /\ req.kind = "delete"
    /\ \E r \in RulesOf(req.account) :
        /\ r.id = req.rule
        /\ Committed(Compacted(RulesOf(req.account), r), rules \ RulesOf(req.account))
    /\ UNCHANGED issued

\* reorder_mail_rules; the revisions stay
Reordered(rs, order) == {[r EXCEPT !.pos = order[r.id]] : r \in rs}

CommitReorder ==
    /\ pc = "paused" /\ req.kind = "reorder"
    /\ IdsOf(RulesOf(req.account)) = DOMAIN req.order
    /\ Committed(Reordered(RulesOf(req.account), req.order), rules \ RulesOf(req.account))
    /\ UNCHANGED issued

\* The row or the account is gone, or the limit is reached.
Refused ==
    \/ req.kind = "create" /\ (~Stored(req.account)
                               \/ Cardinality(RulesOf(req.account)) >= MaxRules)
    \/ req.kind \in {"update", "delete"} /\ \A r \in RulesOf(req.account) : r.id # req.rule
    \/ req.kind = "reorder" /\ IdsOf(RulesOf(req.account)) # DOMAIN req.order

\* The transaction fails.  Only rules.create publishes the old rules again;
\* the other handlers end with delivery still paused.
CommitFails ==
    /\ pc = "paused"
    /\ \/ Refused /\ UNCHANGED faults
       \/ Fault
    /\ IF req.kind = "create" THEN pc' = "committed" /\ req' = req
                              ELSE pc' = "idle" /\ req' = None
    /\ UNCHANGED <<accounts, rules, files, mailboxes, plan, issued, written>>

\* _publish_mail_rules_after_mutation
PublishRules ==
    /\ pc = "committed"
    /\ Stored(req.account)
    /\ Publish(req.email, RulesOf(req.account))
    /\ pc' = "idle" /\ req' = None
    /\ UNCHANGED <<accounts, rules, mailboxes, plan, issued, written, faults>>

\* The file cannot be written, or the account was purged meanwhile: the
\* snapshot stays empty.
PublishRulesFails ==
    /\ pc = "committed"
    /\ \/ ~Stored(req.account) /\ UNCHANGED <<files, faults>>
       \/ Stored(req.account) /\ PublishFails(req.email, RulesOf(req.account))
    /\ pc' = "idle" /\ req' = None
    /\ UNCHANGED <<accounts, rules, mailboxes, plan, issued, written>>

----------------------------------------------------------------------------
(* Accounts *)

\* sync_accounts and the other ways an address Maddy knows gets its row
AddAccount(e) ==
    /\ e \in mailboxes /\ \A a \in accounts : a.email # e
    /\ \E id \in AccountIds \ issued :
        /\ accounts' = accounts \cup {[id |-> id, email |-> e]}
        /\ issued' = issued \cup {id}
    /\ UNCHANGED <<rules, files, mailboxes, helper, written, faults>>

\* accounts.delete_imap: first Maddy's account ...
AccountsDeleteImap(a) ==
    /\ pc = "idle"
    /\ mailboxes' = mailboxes \ {a.email}
    /\ pc' = "unhosted" /\ req' = Request("remove", a, None, None, None, None)
    /\ UNCHANGED <<accounts, rules, files, plan, issued, written, faults>>

\* ... then the snapshot (remove_snapshot) ...
RemoveSnapshot ==
    /\ pc = "unhosted"
    /\ files' = [files EXCEPT ![req.email] = Missing]
    /\ pc' = "forgotten"
    /\ UNCHANGED <<accounts, rules, mailboxes, req, plan, issued, written, faults>>

\* ... and at last the rows; the foreign key removes the rules.
DeleteAccount ==
    /\ pc = "forgotten"
    /\ accounts' = {a \in accounts : a.id # req.account}
    /\ rules' = rules \ RulesOf(req.account)
    /\ pc' = "idle" /\ req' = None
    /\ UNCHANGED <<files, mailboxes, plan, issued, written, faults>>

DeleteImapFails ==
    /\ pc \in {"unhosted", "forgotten"} /\ Fault
    /\ pc' = "idle" /\ req' = None
    /\ UNCHANGED <<accounts, rules, files, mailboxes, plan, issued, written>>

\* The root command auth-purge, for an address Maddy no longer knows; it
\* leaves the snapshot directory alone.
AuthPurge(a) ==
    /\ a.email \notin mailboxes
    /\ accounts' = accounts \ {a}
    /\ rules' = rules \ RulesOf(a.id)
    /\ UNCHANGED <<files, mailboxes, helper, issued, written, faults>>

\* Maddy's own command line, or accounts.create, adds and removes addresses.
MaddyChanges(e) ==
    /\ mailboxes' = IF e \in mailboxes THEN mailboxes \ {e} ELSE mailboxes \cup {e}
    /\ UNCHANGED <<accounts, rules, files, helper, issued, written, faults>>

----------------------------------------------------------------------------
(* Behaviours *)

\* The steps of a request or of a start once it has begun
HelperStep ==
    \/ \E e \in Emails : RemoveOldSnapshot(e) \/ PublishPlanned(e)
    \/ OldSnapshotsRemoved
    \/ HelperReady
    \/ CommitCreate \/ CommitUpdate \/ CommitDelete \/ CommitReorder \/ CommitFails
    \/ PublishRules \/ PublishRulesFails
    \/ RemoveSnapshot \/ DeleteAccount

Requests ==
    \E a \in accounts :
        \/ RuleIds \ issued # {} /\ \E c \in Contents : RulesCreate(a, c)
        \/ \E r \in RulesOf(a.id) :
            \/ RulesDelete(a, r)
            \/ r.rev < MaxRevision /\ \E c \in Contents : RulesUpdate(a, r, c)
        \/ \E order \in Orders(IdsOf(RulesOf(a.id))) : RulesReorder(a, order)
        \/ PauseFails(a)
        \/ AccountsDeleteImap(a)

Next ==
    \/ StartHelper
    \/ StopHelper
    \/ Crash
    \/ HelperStep
    \/ Requests
    \/ DeleteImapFails
    \/ \E e \in Emails : AddAccount(e) \/ MaddyChanges(e)
    \/ \E a \in accounts : AuthPurge(a)

Spec == Init /\ [][Next]_vars

\* A helper that is running goes on, a request arrives in the end and starts
\* one that is not, and the request cap ends every activation.
FairSpec ==
    /\ Spec
    /\ WF_vars(HelperStep)
    /\ WF_vars(StartHelper)
    /\ SF_vars(StopHelper)

----------------------------------------------------------------------------
(* Properties *)

TypeOK ==
    /\ accounts \subseteq [id : AccountIds, email : Emails]
    /\ rules \subseteq Rule
    /\ files \in [Emails -> (SUBSET Rule) \cup {Missing}]
    /\ mailboxes \subseteq Emails
    /\ pc \in Steps
    /\ req \in Served \cup {None}
    /\ (req = None) = (pc \in {"down", "purging", "publishing", "idle"})
    /\ DOMAIN plan \subseteq Emails /\ \A e \in DOMAIN plan : plan[e] \subseteq Rule
    /\ issued \subseteq AccountIds \cup RuleIds
    /\ written \subseteq RuleIds \X (1 .. MaxRevision) \X Contents
    /\ faults \in 0 .. MaxFaults

\* The rules delivery follows for an address, and those it should follow
Effective(e) == IF files[e] = Missing THEN {} ELSE files[e]
Wanted(e) == {r \in rules : \E a \in accounts : a.email = e /\ a.id = r.account}

\* A snapshot with a rule that is still stored holds exactly the rules stored
\* for its address: delivery never follows an outdated revision, a deleted
\* rule or a partial set, whichever step a write or the helper failed at.
SnapshotsCurrent ==
    \A e \in Emails :
        (\E r \in Effective(e), q \in rules : q.id = r.id) => Effective(e) = Wanted(e)

\* evaluate_filter_message accepts a list of rules: identifiers once, every
\* position once and below the limit
BridgeAccepts(rs) ==
    /\ \A r \in rs : r.pos \in 0 .. MaxRules - 1
    /\ \A r, q \in rs : r.id = q.id \/ r.pos = q.pos => r = q

\* The bridge accepts every snapshot there is: one bad position would turn all
\* of an account's rules off.
SnapshotsAccepted == \A e \in Emails : BridgeAccepts(Effective(e))

\* A revision of a rule names one content for ever, so an update that carries
\* the revision its author saw overwrites nothing the author has not seen.
RevisionNamesContent ==
    \A w, x \in written : w[1] = x[1] /\ w[2] = x[2] => w = x

\* Delivery always comes back to the stored rules, after failed writes,
\* crashes and purges.
DeliveryResumes == \A e \in Emails : []<>(Effective(e) = Wanted(e))

\* No rule carries over to an address after its account was purged and the
\* address was given to a new mailbox (between two requests of a helper that
\* keeps running).
RulesStayInGeneration ==
    pc = "idle" => \A e \in mailboxes : \A r \in Effective(e) : Stored(r.account)

\* What the delivery filter reads is sound: a snapshot it accepts, of the rules
\* that are stored, each under a revision that names one content.
SnapshotsSound ==
    TypeOK /\ SnapshotsCurrent /\ SnapshotsAccepted /\ RevisionNamesContent
=============================================================================
