------------------------------ MODULE RuleRuns ------------------------------
(***************************************************************************)
(* Applying one rule to the mail an account already has (helper.py,        *)
(* rules.run_create / run_step / run_cancel; auth.py, mail_rule_runs).  A  *)
(* run remembers, per source mailbox, the UID it has to continue at.  Each *)
(* request of the browser scans one window of messages below that UID,     *)
(* moves the matching ones and stores the next UID.  Every Maddy command   *)
(* and every transaction is a step of its own: mail is delivered, expunged *)
(* and whole mailboxes are renamed and created between them, and the       *)
(* helper may die between any two.                                         *)
(*                                                                         *)
(* Abstractions.  One account; its rule is the set of messages it matches, *)
(* because a run keeps its own copy of the rule.  A run never looks into   *)
(* an excluded mailbox: messages there are elsewhere, and one that comes   *)
(* from elsewhere may as well be a new one with the same verdict.  The     *)
(* counters of a run, its timestamps and the limit of 64 mailboxes are     *)
(* left out.  An IMAP client's DELETE of a mailbox is, for all a run can   *)
(* see, a rename to an excluded name; mailboxes.delete is refused while a  *)
(* run is active.                                                          *)
(*                                                                         *)
(* A definition just before another one with the same parameters is a      *)
(* wrong version of it; PROJECT.json lists which property catches which.   *)
(***************************************************************************)
EXTENDS Integers, FiniteSets, Sequences, FiniteSetsExt

CONSTANTS
    Msgs,        \* messages
    Matching,    \* those the rule matches
    Listing,     \* the mailbox names in the order Maddy lists them
    Target,      \* the rule's destination
    Excluded,    \* the destination, Trash and Archive
    None,        \* no mailbox that a run reads, no run
    Batch,       \* _RULE_RUN_BATCH_SIZE
    MaxRuns,     \* _MAX_MAIL_RULE_RUNS_PER_ACCOUNT
    MaxUid, MaxRenames, MaxFaults  \* bounds of the model

Names == {Listing[i] : i \in DOMAIN Listing}

\* What a row of mail_rule_runs holds of a run.
Final == {"completed", "failed", "cancelled"}
Sources == Seq([box : Names \ Excluded, cursor : 0 .. MaxUid])
Rows == [status : {"queued", "running"} \cup Final, sources : Sources, index : Nat \ {0}]

\* What every instance has to give; the MC modules assume it of theirs.
RuleRunsAssumption ==
    /\ Matching \subseteq Msgs
    /\ Listing \in Seq(Names) /\ Target \in Names /\ Target \in Excluded
    /\ None \notin Names /\ None \notin Rows
    /\ Batch \in Nat \ {0} /\ MaxRuns \in Nat \ {0}
    /\ MaxUid \in Nat /\ MaxRenames \in Nat /\ MaxFaults \in Nat

VARIABLES
    place,     \* where each message is: a source mailbox and a UID, or Elsewhere
    uidnext,   \* the mailboxes that exist, with the UID the next message gets
    run,       \* the newest row of mail_rule_runs, or None
    ended,     \* how many rows of mail_rule_runs are final
    pc,        \* what the helper is doing
    draft,     \* the run it plans: mailboxes still to look at, sources so far
    work,      \* the window it works on
    planned,   \* history: what was in the source mailboxes when they were planned
    replaced,  \* history: names that lost their mailbox since planning began
    renames, faults  \* how many so far

vars == <<place, uidnext, run, ended, pc, draft, work, planned, replaced, renames, faults>>
mail == <<place, uidnext, replaced, renames>>
rows == <<run, ended>>

Active == run # None /\ run.status \notin Final

Elsewhere == [box |-> None, uid |-> 0]
In(b) == {m \in Msgs : place[m].box = b}
Uids(b) == {place[m].uid : m \in In(b)}
\* The sequence number of a UID
Rank(b, u) == Cardinality({v \in Uids(b) : v <= u})

NoDraft == [todo |-> {}, sources |-> <<>>]
NoWork == [seq |-> 0, left |-> {}, hits |-> {}, next |-> 0]

Init ==
    /\ place = [m \in Msgs |-> Elsewhere]
    /\ \E bs \in SUBSET Names : Target \in bs /\ uidnext = [b \in bs |-> 1]
    /\ run = None /\ ended = 0
    /\ pc = "idle" /\ draft = NoDraft /\ work = NoWork
    /\ planned = {} /\ replaced = {}
    /\ renames = 0 /\ faults = 0

----------------------------------------------------------------------------
(* Mail that changes beside a run *)

\* Delivery, APPEND, COPY, or a MOVE from another mailbox
Arrive(m, b) ==
    /\ place[m] = Elsewhere /\ b \notin Excluded /\ uidnext[b] <= MaxUid
    /\ place' = [place EXCEPT ![m] = [box |-> b, uid |-> uidnext[b]]]
    /\ uidnext' = [uidnext EXCEPT ![b] = @ + 1]
    /\ UNCHANGED <<rows, pc, draft, work, planned, replaced, renames, faults>>

\* Messages leave for an excluded mailbox or for good.
Depart(ms) == place' = [m \in Msgs |-> IF m \in ms THEN Elsewhere ELSE place[m]]

\* EXPUNGE, or a MOVE to another mailbox
Leave(m) ==
    /\ place[m] # Elsewhere
    /\ Depart({m})
    /\ UNCHANGED <<uidnext, rows, pc, draft, work, planned, replaced, renames, faults>>

Renamed(b) ==
    /\ b \in DOMAIN uidnext /\ renames < MaxRenames
    /\ planned' = {p \in planned : p.at.box # b}
    /\ replaced' = replaced \cup {b}
    /\ renames' = renames + 1
    /\ UNCHANGED <<rows, pc, draft, work, faults>>

\* mailboxes.rename, or RENAME of an IMAP client: the messages keep their UIDs.
MailboxesRename(b, c) ==
    /\ c \notin DOMAIN uidnext /\ Excluded \cap {b, c} = {}
    /\ Renamed(b)
    /\ place' = [m \in Msgs |->
                    IF place[m].box = b THEN [box |-> c, uid |-> place[m].uid] ELSE place[m]]
    /\ uidnext' = [d \in (DOMAIN uidnext \ {b}) \cup {c} |->
                      IF d = c THEN uidnext[b] ELSE uidnext[d]]

\* The same, to a name that is excluded
MailboxesRenameAway(b) ==
    /\ Renamed(b)
    /\ Depart(In(b))
    /\ uidnext' = [d \in DOMAIN uidnext \ {b} |-> uidnext[d]]

\* mailboxes.create: UIDs start again at 1
MailboxesCreate(b) ==
    /\ b \notin DOMAIN uidnext
    /\ uidnext' = [d \in DOMAIN uidnext \cup {b} |-> IF d = b THEN 1 ELSE uidnext[d]]
    /\ UNCHANGED <<place, rows, pc, draft, work, planned, replaced, renames, faults>>

----------------------------------------------------------------------------
(* rules.run_create, and rules.create with apply_existing *)

RulesRunCreate ==
    /\ pc = "idle" /\ ~Active
    /\ Target \in DOMAIN uidnext
    /\ pc' = "planning"
    /\ draft' = [todo |-> DOMAIN uidnext \ Excluded, sources |-> <<>>]
    /\ planned' = {} /\ replaced' = {}
    /\ UNCHANGED <<place, uidnext, rows, work, renames, faults>>

\* latest_message_uid: 0 in an empty mailbox
LatestUid(b) == IF In(b) = {} THEN 0 ELSE Max(Uids(b))

\* The mailbox of the listing that is looked at next
NextListed == Listing[Min({i \in DOMAIN Listing : Listing[i] \in draft.todo})]

PlanMailbox ==
    /\ pc = "planning" /\ draft.todo # {}
    /\ LET b == NextListed
       IN  /\ b \in DOMAIN uidnext
           /\ draft' = [todo |-> draft.todo \ {b},
                        sources |-> Append(draft.sources, [box |-> b, cursor |-> LatestUid(b)])]
           /\ planned' = planned \cup {[msg |-> m, at |-> place[m]] : m \in In(b)}
    /\ UNCHANGED <<mail, rows, pc, work, faults>>

\* The mailbox is gone, or a command fails: the request ends without a run.
PlanFails ==
    /\ pc = "planning"
    /\ draft.todo # {} /\ NextListed \notin DOMAIN uidnext
    /\ pc' = "idle" /\ draft' = NoDraft
    /\ planned' = {}
    /\ UNCHANGED <<mail, rows, work, faults>>

\* A source is done when its cursor is 0.
FirstOpen(sources, i) ==
    Min({j \in i .. Len(sources) : sources[j].cursor # 0} \cup {Len(sources) + 1})

\* create_mail_rule_run keeps at most MaxRuns - 1 final rows and adds one.
Kept(n) == Min({n, MaxRuns - 1})

CreateRun(status) ==
    /\ pc = "planning" /\ draft.todo = {}
    /\ run' = [status |-> status, sources |-> draft.sources,
               index |-> FirstOpen(draft.sources, 1)]
    /\ draft' = NoDraft
    /\ UNCHANGED <<mail, work, planned, faults>>

\* _create_rule_run: a run with nothing to scan is completed by a second
\* transaction.
CreateMailRuleRun ==
    /\ CreateRun("queued")
    /\ ended' = Kept(ended)
    /\ pc' = IF run'.index > Len(run'.sources) THEN "finishing" ELSE "idle"

\* create_mail_rule_with_run: such a run is created completed.
CreateMailRuleWithRun ==
    /\ IF FirstOpen(draft.sources, 1) > Len(draft.sources)
       THEN CreateRun("completed") /\ ended' = Kept(ended) + 1
       ELSE CreateRun("queued") /\ ended' = Kept(ended)
    /\ pc' = "idle"

----------------------------------------------------------------------------
(* rules.run_step and rules.run_cancel *)

\* update_mail_rule_run; a final row is not updated again.
UpdateMailRuleRun(status, sources, index) ==
    /\ run' = [status |-> status, sources |-> sources, index |-> index]
    /\ ended' = IF status \in Final THEN ended + 1 ELSE ended

\* The request reads the row and marks it running.
RulesRunStep ==
    /\ pc = "idle" /\ Active
    /\ UpdateMailRuleRun("running", run.sources, run.index)
    /\ pc' = IF FirstOpen(run.sources, run.index) > Len(run.sources) THEN "finishing" ELSE "anchor"
    /\ UNCHANGED <<mail, draft, work, planned, faults>>

FinishRun ==
    /\ pc = "finishing"
    /\ UpdateMailRuleRun("completed", run.sources, FirstOpen(run.sources, run.index))
    /\ pc' = "idle"
    /\ UNCHANGED <<mail, draft, work, planned, faults>>

Source == run.sources[FirstOpen(run.sources, run.index)]

\* list_message_window, first command: the cursor's current sequence number
ResolveCursor ==
    /\ pc = "anchor"
    /\ Source.box \in DOMAIN uidnext /\ Source.cursor \in Uids(Source.box)
    /\ work' = [NoWork EXCEPT !.seq = Rank(Source.box, Source.cursor)]
    /\ pc' = "window"
    /\ UNCHANGED <<mail, rows, draft, planned, faults>>

\* Second command: the Batch + 1 messages that end at that sequence number
Window(b, seq) == {u \in Uids(b) : Rank(b, u) \in seq - Batch .. seq}

\* The window is only used if it ends at the cursor and the cursor has kept its
\* sequence number.
AnchorTrusted(b, cursor, seq) == Window(b, seq) # {}
AnchorUnnumbered(b, cursor, seq) == Window(b, seq) # {} /\ Max(Window(b, seq)) = cursor
AnchorHolds(b, cursor, seq) ==
    Window(b, seq) # {} /\ Max(Window(b, seq)) = cursor /\ Rank(b, cursor) = seq

\* The highest Batch UIDs are scanned; the one below them is the next cursor.
Candidates(us) == {u \in us : Cardinality({v \in us : v > u}) < Batch}
NextCursor(us) == LET rest == us \ Candidates(us)
                  IN  IF rest = {} THEN 0 ELSE Min(rest)

FetchWindow ==
    /\ pc = "window"
    /\ Source.box \in DOMAIN uidnext /\ AnchorHolds(Source.box, Source.cursor, work.seq)
    /\ LET us == Window(Source.box, work.seq)
       IN  work' = [seq |-> 0, left |-> Candidates(us), hits |-> {}, next |-> NextCursor(us)]
    /\ pc' = "scanning"
    /\ UNCHANGED <<mail, rows, draft, planned, faults>>

\* dump_message and matches_raw, newest first
ScanMessage ==
    /\ pc = "scanning" /\ work.left # {}
    /\ LET u == Max(work.left)
       IN  \E m \in In(Source.box) :
            /\ place[m].uid = u
            /\ work' = [work EXCEPT !.left = @ \ {u},
                                    !.hits = IF m \in Matching THEN @ \cup {u} ELSE @]
    /\ UNCHANGED <<mail, rows, pc, draft, planned, faults>>

\* move_messages by UID; UIDs that are gone meanwhile are passed over.
Selected == {m \in In(Source.box) : place[m].uid \in work.hits}

MoveMatched ==
    /\ pc = "scanning" /\ work.left = {}
    /\ IF work.hits = {} THEN UNCHANGED place
       ELSE {Source.box, Target} \subseteq DOMAIN uidnext /\ Depart(Selected)
    /\ pc' = "moved"
    /\ UNCHANGED <<uidnext, rows, draft, work, planned, replaced, renames, faults>>

StoreProgress ==
    /\ pc = "moved"
    /\ LET i == FirstOpen(run.sources, run.index)
           sources == [run.sources EXCEPT ![i].cursor = work.next]
           index == FirstOpen(sources, i)
       IN  UpdateMailRuleRun(IF index > Len(sources) THEN "completed" ELSE "running", sources, index)
    /\ pc' = "idle" /\ work' = NoWork
    /\ UNCHANGED <<mail, draft, planned, faults>>

\* A command of the step finds the mailbox changed (StaleMessageCursor or any
\* other MaddyError) ...
Stale ==
    \/ /\ pc = "anchor"
       /\ \/ Source.box \notin DOMAIN uidnext
          \/ Source.cursor \notin Uids(Source.box)
    \/ /\ pc = "window"
       /\ \/ Source.box \notin DOMAIN uidnext
          \/ ~AnchorHolds(Source.box, Source.cursor, work.seq)
    \/ /\ pc = "scanning" /\ work.left # {}
       /\ Max(work.left) \notin Uids(Source.box)
    \/ /\ pc = "scanning" /\ work.left = {} /\ work.hits # {}
       /\ ~({Source.box, Target} \subseteq DOMAIN uidnext)

CommandFails ==
    /\ Stale
    /\ pc' = "failing"
    /\ UNCHANGED <<mail, rows, draft, work, planned, faults>>

\* ... or fails by itself; a failing move may have moved a part.
CommandBreaks ==
    /\ pc \in {"anchor", "window", "scanning"} /\ faults < MaxFaults
    /\ \/ UNCHANGED place
       \/ /\ pc = "scanning" /\ work.left = {} /\ Target \in DOMAIN uidnext
          /\ \E ms \in SUBSET Selected : Depart(ms)
    /\ pc' = "failing" /\ faults' = faults + 1
    /\ UNCHANGED <<uidnext, rows, draft, work, planned, replaced, renames>>

FailRunForgotten ==
    /\ pc = "failing"
    /\ UpdateMailRuleRun("running", run.sources, run.index)
    /\ pc' = "idle" /\ work' = NoWork
    /\ UNCHANGED <<mail, draft, planned, faults>>

FailRun ==
    /\ pc = "failing"
    /\ UpdateMailRuleRun("failed", run.sources, FirstOpen(run.sources, run.index))
    /\ pc' = "idle" /\ work' = NoWork
    /\ UNCHANGED <<mail, draft, planned, faults>>

RulesRunCancel ==
    /\ pc = "idle" /\ Active
    /\ UpdateMailRuleRun("cancelled", run.sources, run.index)
    /\ UNCHANGED <<mail, pc, draft, work, planned, faults>>

\* The helper dies, or a transaction fails: the request ends where it is.
Crash ==
    /\ pc # "idle" /\ faults < MaxFaults
    /\ pc' = "idle" /\ draft' = NoDraft /\ work' = NoWork
    /\ planned' = IF pc = "planning" THEN {} ELSE planned
    /\ faults' = faults + 1
    /\ UNCHANGED <<mail, rows>>

----------------------------------------------------------------------------
(* Behaviours *)

\* What a request does once it is being served
HelperStep ==
    \/ PlanMailbox \/ PlanFails
    \/ CreateMailRuleRun \/ CreateMailRuleWithRun
    \/ FinishRun
    \/ ResolveCursor \/ FetchWindow \/ ScanMessage \/ MoveMatched \/ StoreProgress
    \/ CommandFails \/ FailRun

Next ==
    \/ \E b \in DOMAIN uidnext, m \in Msgs : Arrive(m, b)
    \/ \E m \in Msgs : Leave(m)
    \/ \E b, c \in Names : MailboxesRename(b, c)
    \/ \E b \in Names : MailboxesRenameAway(b) \/ MailboxesCreate(b)
    \/ RulesRunCreate
    \/ RulesRunStep
    \/ RulesRunCancel
    \/ CommandBreaks
    \/ Crash
    \/ HelperStep

Spec == Init /\ [][Next]_vars

\* The helper finishes what it serves, and the Rules page, while it is open,
\* asks for the next step of an active run.
FairSpec ==
    /\ Spec
    /\ WF_vars(HelperStep)
    /\ WF_vars(RulesRunStep)

----------------------------------------------------------------------------
(* Properties *)

Place == [box : Names \ Excluded, uid : 1 .. MaxUid] \cup {Elsewhere}

TypeOK ==
    /\ place \in [Msgs -> Place]
    /\ DOMAIN uidnext \subseteq Names /\ uidnext \in [DOMAIN uidnext -> 1 .. MaxUid + 1]
    /\ run \in Rows \cup {None} /\ (run # None => run.index <= Len(run.sources) + 1)
    /\ ended \in Nat
    /\ pc \in {"idle", "planning", "finishing", "anchor", "window", "scanning", "moved", "failing"}
    /\ draft \in [todo : SUBSET (Names \ Excluded), sources : Sources]
    /\ work \in [seq : Nat, left : SUBSET (1 .. MaxUid), hits : SUBSET (1 .. MaxUid), next : 0 .. MaxUid]
    /\ planned \subseteq [msg : Msgs, at : Place]
    /\ replaced \subseteq Names
    /\ renames \in 0 .. MaxRenames /\ faults \in 0 .. MaxFaults

\* The rows of an account stay within _MAX_MAIL_RULE_RUNS_PER_ACCOUNT, the
\* active one included, over any number of runs.
HistoryBounded == ended + (IF Active THEN 1 ELSE 0) <= MaxRuns

\* The messages that move_messages takes out of their mailbox in this step
Filed == IF pc = "scanning" /\ pc' \in {"moved", "failing"}
         THEN {m \in Msgs : place'[m] # place[m]}
         ELSE {}

\* A message the rule matches that has been where it is since the planning
Eligible(m) == m \in Matching /\ [msg |-> m, at |-> place[m]] \in planned

\* A run moves only mail that the rule matches and that has been in its
\* mailbox, under the same UID, since the run was planned: not what arrived or
\* came back later, whatever else changed between the commands of a step and
\* whatever a crashed step did before.  Mail in a mailbox that took the name
\* of one renamed away is excepted.
FilesPlanned == \A m \in Filed : Eligible(m) \/ place[m].box \in replaced
MovesOnlyPlanned == [][FilesPlanned]_vars

\* A run reported as completed has left no message behind that matches and was
\* in its mailbox all the time: windows neither skip nor end early when the
\* mailbox shrinks under them.
NoneSkipped ==
    run # None /\ run.status = "completed" /\ pc = "idle" =>
        \A p \in planned : p.msg \in Matching => place[p.msg] # p.at

\* A run that the browser keeps stepping ends, so the account can start
\* another one: a cursor that has gone stale is never tried for ever.
RunEnds == Active ~> ~Active

\* The rows of an account tell the truth: a completed run has skipped nothing,
\* and there are not too many of them.
RunsSound == TypeOK /\ HistoryBounded /\ NoneSkipped
=============================================================================
