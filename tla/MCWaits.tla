------------------------------ MODULE MCWaits -------------------------------
(* What the helper and the web process owe each other and the browser, for     *)
(* TLC: one small instance, with the fairness that its module states, of each  *)
(* part that waits for another.  A behaviour moves one part, and fairness is   *)
(* asked of that part only; the others stay in their first state.              *)
EXTENDS Integers, TLC

CONSTANTS
    Parts,  \* the parts that may move in this run
    None, Folders

VARIABLES
    part,
    cache, inflight, quarantined, reader, change, queue, applied, newest, announced,
    answer,
    account, helper, backlog, conn, spools, told, records, effects, since, outside,
    kills,
    inbox, arrived, access, watch, st, tab, used,
    src, dep, served, timer, me, outcome, staged, faults, prior, litter, excused

messageVars == <<cache, inflight, quarantined, reader, change, queue, applied,
                 newest, announced, answer>>
dispatchVars == <<account, helper, backlog, conn, spools, told, records, effects,
                  since, outside, kills>>
eventVars == <<inbox, arrived, access, watch, st, tab, used>>
certVars == <<src, dep, served, timer, me, outcome, staged, faults, prior, litter,
              excused>>

\* A reader that asks again and again while two changes are made.
Changes == {"m1", "m2"}
Messages == INSTANCE MessageCache WITH
    Readers <- {"r"}, Boxes <- {"b"}, Kinds <- {"flags", "delete"},
    Polled <- {}, MaxUid <- 0

\* Two connections, one of them with a body, and a helper that is killed.
Dispatch == INSTANCE HelperDispatch WITH
    Accounts <- {"adm"}, Admins <- {"adm"}, Requests <- {"r1", "r2"},
    Ops <- {"messages.append", "messages.get"}, MaxServed <- 1, MaxOutside <- 1, MaxKills <- 1

Streams == {"s1", "s2"}
Events == INSTANCE MailEvents WITH
    Tabs <- {"t"}, MaxMail <- 2, MaxBreaks <- 1, MaxFaults <- 0, MaxSwitch <- 1

\* The helper alone, with faults of every kind; and beside the deploy hook.
Cert == INSTANCE CertificateDeploy WITH
    told <- outcome, Deployers <- {"helper"}, Docker <- TRUE,
    Faults <- {"command", "read", "crash"}, Renamed <- {}, MaxGen <- 2, MaxFaults <- 3
Hook == INSTANCE CertificateDeploy WITH
    told <- outcome, Deployers <- {"helper", "hook"}, Docker <- FALSE,
    Faults <- {}, Renamed <- {}, MaxGen <- 2, MaxFaults <- 0

ASSUME
    /\ Messages!MessageCacheAssumption /\ Dispatch!HelperDispatchAssumption
    /\ Events!EventsAssumption /\ Cert!CertAssumption /\ Hook!CertAssumption


Init ==
    /\ part \in Parts
    /\ Messages!Init /\ Dispatch!Init /\ Events!Init
    /\ IF part = "hook" THEN Hook!Init ELSE Cert!Init
    \* Of a part that does not move, one first state is enough.
    /\ part # "dispatch" => ~account["adm"].forced
    /\ part # "events" => arrived = 0
    /\ part \notin {"cert", "hook"} => served = 0

Next ==
    /\ \/ part = "messages" /\ Messages!Next
       \/ part = "dispatch" /\ Dispatch!Next
       \/ part = "events" /\ Events!Next
       \/ part = "cert" /\ Cert!Next
       \/ part = "hook" /\ Hook!Next
    /\ part # "messages" => UNCHANGED messageVars
    /\ part # "dispatch" => UNCHANGED dispatchVars
    /\ part # "events" => UNCHANGED eventVars
    /\ part \notin {"cert", "hook"} => UNCHANGED certVars
    /\ UNCHANGED part

Spec == Init /\ [][Next]_<<part, messageVars, dispatchVars, eventVars, certVars>>

\* The fairness of each module, asked of the part that moves.
Fairness ==
    /\ WF_messageVars(part = "messages" /\ Messages!ReaderStep("r"))
    /\ \A c \in Changes :
          /\ WF_messageVars(part = "messages" /\ Messages!ChangeConnects(c))
          /\ WF_messageVars(part = "messages" /\ (Messages!ChangeAnswered(c) \/ Messages!ChangeFails(c)))
    /\ WF_messageVars(part = "messages" /\ Messages!ServeRead)
    /\ WF_messageVars(part = "messages" /\ Messages!ServeChange)
    /\ WF_dispatchVars(part = "dispatch" /\ Dispatch!HelperStep /\ Dispatch!Observed)
    /\ WF_dispatchVars(part = "dispatch" /\ Dispatch!Activate /\ Dispatch!Observed)
    /\ WF_eventVars(part = "events" /\ Events!Probe)
    /\ WF_eventVars(part = "events" /\ Events!Apply)
    /\ \A s \in Streams : WF_eventVars(part = "events" /\ Events!Serve(s))
    /\ WF_eventVars(part = "events" /\ \E s \in Streams : Events!Connect("t", s))
    /\ WF_certVars(part = "cert" /\ Cert!Renew)
    /\ WF_certVars(part = "cert" /\ Cert!HelperStep)
    /\ WF_certVars(part = "cert" /\ Cert!TimerCert)
    /\ WF_certVars(part = "cert" /\ Cert!DeployStep("helper"))
    /\ WF_certVars(part = "hook" /\ Hook!Renew)
    /\ WF_certVars(part = "hook" /\ Hook!HelperStep)
    /\ WF_certVars(part = "hook" /\ Hook!TimerCert)
    /\ WF_certVars(part = "hook" /\ Hook!HookCheck)
    /\ \A p \in {"helper", "hook"} : WF_certVars(part = "hook" /\ Hook!DeployStep(p))

FairSpec == Spec /\ Fairness

-----------------------------------------------------------------------------
(* The properties of the parts; the modules say what each is about.            *)

\* Every read of a list of messages ends.
EveryReadEnds == Messages!EveryReadEnds
\* Every connection to the helper is answered or closed, across restarts.
EveryConnectionEnds == Dispatch!EveryConnectionEnds
\* Every message that a tab is owed a notice of is told, or gone.
EveryoneTold == Events!EveryoneTold
\* Source, deployed files and Maddy come together again after failures.
Heals == part \in {"cert", "hook"} => Cert!Heals
=============================================================================
