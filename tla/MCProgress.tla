----------------------------- MODULE MCProgress -----------------------------
(* What the rules and the mail have to come to in the end, for TLC: one small  *)
(* instance, with the fairness that its module states, of each part that waits *)
(* for another.  A behaviour moves one part, and fairness is asked of that     *)
(* part only; the others stay in their first state.                            *)
EXTENDS Integers, TLC

CONSTANTS
    Parts,  \* the parts that may move in this run
    None, Missing, NL, Control, d1, d2

VARIABLES
    part,
    accounts, rules, files, mailboxes, pc, req, plan, issued, written, faults,
    client, source, transferred, response, out, up, upEnd, down, downEnd, thread,
    control, body, permits, lock,
    place, uidnext, run, ended, at, draft, work, planned, replaced, renames, failed,
    generation, inflight, quarantined, cache, flight, task, mut, caller, answer,
    queue, applied,
    attempt, uploads, mailfile, worker, outbox, job, maddy, sent, leaked

storeVars == <<accounts, rules, files, mailboxes, pc, req, plan, issued, written,
               faults>>
bridgeVars == <<client, source, transferred, response, out, up, upEnd, down,
                downEnd, thread, control, body, permits, lock>>
runVars == <<place, uidnext, run, ended, at, draft, work, planned, replaced,
             renames, failed>>
accountVars == <<generation, inflight, quarantined, cache, flight, task, mut,
                 caller, answer, queue, applied>>
submissionVars == <<attempt, uploads, mailfile, worker, outbox, job, maddy, sent,
                    leaked>>

\* Two generations of one address, two rules, two faults.
Store == INSTANCE MailRules WITH
    Emails <- {"e"}, AccountIds <- {"a1", "a2"}, RuleIds <- {"r1", "r2"}, Contents <- {"c"},
    MaxRules <- 2, MaxRevision <- 2, MaxFaults <- 2

\* Two deliveries that share one connection.
Account == d1 :> "a1" @@ d2 :> "a2"
Message == d1 :> <<"m", NL, "m">> @@ d2 :> <<"m", "m">>
Bridge == INSTANCE FilterBridge WITH
    Deliveries <- {d1, d2}, Trusted <- {d1, d2}, Connections <- 1,
    MaxLine <- 2, MaxMessage <- 3, MaxResponse <- 3

\* Two source mailboxes that may come and go; and one that is renamed.
Runs == INSTANCE RuleRuns WITH
    pc <- at, faults <- failed, Msgs <- {"m", "n"}, Matching <- {"m"},
    Listing <- <<"work1", "filed", "work2">>, Target <- "filed", Excluded <- {"filed"},
    Batch <- 1, MaxRuns <- 1, MaxUid <- 2, MaxRenames <- 0, MaxFaults <- 0
Rescan == INSTANCE RuleRuns WITH
    pc <- at, faults <- failed, Msgs <- {"m", "n"}, Matching <- {"m"},
    Listing <- <<"work1", "filed">>, Target <- "filed", Excluded <- {"filed"},
    Batch <- 1, MaxRuns <- 1, MaxUid <- 2, MaxRenames <- 1, MaxFaults <- 1

\* A caller that asks again and again while two changes are made.
Muts == {"m1", "m2"}
Tasks == {"t1", "t2"}
List == INSTANCE AccountCache WITH Readers <- {"r"}, Keys <- {"k"}

Attempts == {"r1", "r2"}
Submit == INSTANCE Submission WITH queue <- outbox, Transport <- "docker"

ASSUME
    /\ Store!MailRulesAssumption /\ Bridge!FilterBounds
    /\ Runs!RuleRunsAssumption /\ Rescan!RuleRunsAssumption
    /\ List!AccountCacheAssumption /\ Submit!SubmissionAssumption


Init ==
    /\ part \in Parts
    /\ Store!Init /\ Bridge!Init /\ List!Init /\ Submit!Init
    /\ IF part = "renamed" THEN Rescan!Init ELSE Runs!Init
    \* Of a part that does not move, one first state is enough.
    /\ part \notin {"runs", "renamed"} => DOMAIN uidnext = {"filed"}

Next ==
    /\ \/ part = "store" /\ Store!Next
       \/ part = "bridge" /\ Bridge!Next
       \/ part = "runs" /\ Runs!Next
       \/ part = "renamed" /\ Rescan!Next
       \/ part = "accounts" /\ List!Next
       \/ part = "submit" /\ Submit!Next
    /\ part # "store" => UNCHANGED storeVars
    /\ part # "bridge" => UNCHANGED bridgeVars
    /\ part \notin {"runs", "renamed"} => UNCHANGED runVars
    /\ part # "accounts" => UNCHANGED accountVars
    /\ part # "submit" => UNCHANGED submissionVars
    /\ UNCHANGED part

Spec == Init /\ [][Next]_<<part, storeVars, bridgeVars, runVars, accountVars, submissionVars>>

\* The fairness of each module, asked of the part that moves.
Fairness ==
    /\ WF_storeVars(part = "store" /\ Store!HelperStep)
    /\ WF_storeVars(part = "store" /\ Store!StartHelper)
    /\ SF_storeVars(part = "store" /\ Store!StopHelper)
    /\ \A d \in {d1, d2} : /\ WF_bridgeVars(part = "bridge" /\ Bridge!ClientStep(d))
                          /\ WF_bridgeVars(part = "bridge" /\ Bridge!ServerStep(d))
    /\ WF_runVars(part = "runs" /\ Runs!HelperStep)
    /\ WF_runVars(part = "runs" /\ Runs!RulesRunStep)
    /\ WF_runVars(part = "renamed" /\ Rescan!HelperStep)
    /\ WF_runVars(part = "renamed" /\ Rescan!RulesRunStep)
    /\ WF_accountVars(part = "accounts" /\ List!CallerStep("r"))
    /\ \A t \in Tasks : WF_accountVars(part = "accounts" /\ List!CallEnds(t))
    /\ \A m \in Muts : WF_accountVars(part = "accounts" /\ List!MutationEnds(m))
    /\ WF_accountVars(part = "accounts" /\ List!HelperStep)
    /\ \A r \in Attempts : WF_submissionVars(part = "submit" /\ Submit!WebStep(r))
    /\ WF_submissionVars(part = "submit" /\ Submit!HelperStep)

FairSpec == Spec /\ Fairness

-----------------------------------------------------------------------------
(* The properties of the parts; the modules say what each is about.            *)

\* Delivery always comes back to the stored rules.
DeliveryResumes == Store!DeliveryResumes
\* Every delivery goes on, filtered or not.
DeliveryGoesOn == part = "bridge" => Bridge!DeliveryGoesOn
\* A run that the browser keeps stepping ends.
RunEnds == IF part = "renamed" THEN Rescan!RunEnds ELSE Runs!RunEnds
\* Every call of list_accounts ends.
EveryCallEnds == List!EveryCallEnds
\* A request to send mail that is not cancelled is answered.
EveryAttemptAnswered == Submit!EveryAttemptAnswered
=============================================================================
