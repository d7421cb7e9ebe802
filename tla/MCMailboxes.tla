---------------------------- MODULE MCMailboxes -----------------------------
(* What the helper does to whole mailboxes, for TLC: runs of a rule over the   *)
(* mail that is already there (RuleRuns) and the deletion of a mailbox after   *)
(* its messages were moved (MailboxDelete).  A behaviour moves one part while  *)
(* the other rests, so that a run covers the sum of their states.              *)
EXTENDS Integers, TLC, Mailboxes

CONSTANT Parts  \* the parts that may move in this run

VARIABLE part

ASSUME DeleteAssumption

\* One source mailbox, windows of two messages, two runs, and a mailbox that is
\* renamed meanwhile.
WorkAndFiled == <<"work", "filed">>

\* The part that does not move rests in a first state.
RunRests == uidnext = [b \in {Target} |-> 1]
DeleteRests == arrived = 0 /\ q = CHOOSE name \in Quarantines : TRUE

PartInit ==
    /\ part \in Parts
    /\ Runs!Init /\ (part # "runs" => RunRests)
    /\ Init /\ (part # "delete" => DeleteRests)

PartNext ==
    /\ \/ part = "runs" /\ Runs!Next /\ UNCHANGED <<vars>>
       \/ part = "delete" /\ Next /\ UNCHANGED <<runVars>>
    /\ UNCHANGED part

PartSpec == PartInit /\ [][PartNext]_<<part, runVars, vars>>

Verdicts == Permutations(Matching) \cup Permutations(Msgs \ Matching)
=============================================================================
