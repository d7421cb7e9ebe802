------------------------------ MODULE MCHelper ------------------------------
(* The helper and what its handlers do, for TLC: the parts of HelperProcess    *)
(* (the dispatcher, accounts over Maddy and the store, the deployment of       *)
(* certificates and the submission of mail), the limits on logins (LoginRate)  *)
(* and the bytes of a mail (SmtpData).  A behaviour moves one part while the   *)
(* others rest, so that a run covers the sum of their states.                  *)
EXTENDS Integers, HelperProcess

CONSTANTS
    Parts,  \* the parts that may move in this run
    Paired  \* the operations that two requests are made of

VARIABLES
    part,
    rows, admitted, delay,
    message, output, atLineStart, pendingCr, done

rateVars == <<rows, admitted, delay>>
dataVars == <<message, output, atLineStart, pendingCr, done>>

\* One request of every kind of operation, and two around a step-up with less
\* happening beside them: some of the steps of Next.
OneRequest == (ClientStep({"r1"}, Ops) \/ ServerStep) /\ Observed
TwoRequests ==
    /\ (ClientStep(Requests, Paired) \/ ServerStep) /\ Observed
    /\ outside' <= 1 /\ kills' = 0

\* Limits and windows keep the order of the code's (global > ip > account >
\* pair; the last two have longer windows).  Two accounts at one address; and a
\* table that fills up.
SmallLimit == [global |-> 3, ip |-> 2, account |-> 2, pair |-> 1]
TinyLimit == [global |-> 2, ip |-> 1, account |-> 1, pair |-> 1]
Window == [global |-> 2, ip |-> 2, account |-> 3, pair |-> 3]
Rate == INSTANCE LoginRate WITH
    told <- delay, Emails <- {"e1", "e2"}, Addrs <- {"a1"}, Limit <- SmallLimit,
    MaxRows <- 6, Watched <- {"account"}
FullTable == INSTANCE LoginRate WITH
    told <- delay, Emails <- {"e1", "e2"}, Addrs <- {"a1", "a2"}, Limit <- TinyLimit,
    MaxRows <- 5, Watched <- {}

\* Every request about one account; and a bootstrap of two, with less beside it.
OneAccount ==
    /\ Lifecycle!Next
    /\ op'.kind # "bootstrap" /\ (op'.kind # "none" => op'.u = "u1")
    /\ cred' \cup mbox' \subseteq {"u1"}
Bootstrap ==
    /\ Lifecycle!Next
    /\ op'.kind \in {"none", "bootstrap"} /\ faults' <= 3 /\ events' <= 1

\* Three generations in the container, where reads fail too; natively four, one of
\* them for other names.
InContainer == Certificates(TRUE)!Next /\ src'.key <= 3

Data == INSTANCE SmtpData WITH MaxLength <- 7

ASSUME
    /\ HelperDispatchAssumption /\ {"r1", "r2"} \subseteq Requests /\ Users = {"u1", "u2"}
    /\ Rate!RateAssumption /\ FullTable!RateAssumption
    /\ Data!MaxLengthAssumption

\* The variables of the parts that do not move.
DispatchRests == \A a \in Accounts : ~account[a].forced
RateRests ==
    /\ rows = None /\ admitted = None /\ delay = None
LifecycleRests == Lifecycle!Init /\ cred = {} /\ mbox = {}
CertRests == Certificates(FALSE)!Init /\ served = 0
DataRests ==
    /\ message = None /\ output = None /\ atLineStart = None /\ pendingCr = None
    /\ done = None

PartInit ==
    /\ part \in Parts
    /\ deploymentMode = IF part \in {"submitNative", "certNative"} THEN "native" ELSE "docker"
    /\ Init /\ (part \notin {"dispatch", "stepUp"} => DispatchRests)
    /\ CASE part = "rate" -> Rate!Init
         [] part = "fullTable" -> FullTable!Init
         [] OTHER -> RateRests
    /\ CASE part = "lifecycle" -> Lifecycle!Init /\ cred \cup mbox \subseteq {"u1"}
         [] part = "bootstrap" -> Lifecycle!Init
         [] OTHER -> LifecycleRests
    /\ Submit(deploymentMode)!Init
    /\ CASE part = "certNative" -> Certificates(FALSE)!Init
         [] part = "certDocker" -> Certificates(TRUE)!Init
         [] OTHER -> CertRests
    /\ IF part = "data" THEN Data!Init ELSE DataRests

PartNext ==
    /\ \/ part = "dispatch" /\ OneRequest /\ UNCHANGED <<rateVars, lifecycleVars, submissionVars, certVars, dataVars>>
       \/ part = "stepUp" /\ TwoRequests /\ UNCHANGED <<rateVars, lifecycleVars, submissionVars, certVars, dataVars>>
       \/ part = "rate" /\ Rate!Next /\ UNCHANGED <<vars, lifecycleVars, submissionVars, certVars, dataVars>>
       \/ part = "fullTable" /\ FullTable!Next /\ UNCHANGED <<vars, lifecycleVars, submissionVars, certVars, dataVars>>
       \/ part = "lifecycle" /\ OneAccount /\ UNCHANGED <<vars, rateVars, submissionVars, certVars, dataVars>>
       \/ part = "bootstrap" /\ Bootstrap /\ UNCHANGED <<vars, rateVars, submissionVars, certVars, dataVars>>
       \/ part = "submitDocker" /\ Submit("docker")!Next /\ UNCHANGED <<vars, rateVars, lifecycleVars, certVars, dataVars>>
       \/ part = "submitNative" /\ Submit("native")!Next /\ UNCHANGED <<vars, rateVars, lifecycleVars, certVars, dataVars>>
       \/ part = "certNative" /\ Certificates(FALSE)!Next /\ UNCHANGED <<vars, rateVars, lifecycleVars, submissionVars, dataVars>>
       \/ part = "certDocker" /\ InContainer /\ UNCHANGED <<vars, rateVars, lifecycleVars, submissionVars, dataVars>>
       \/ part = "data" /\ Data!Next /\ UNCHANGED <<vars, rateVars, lifecycleVars, submissionVars, certVars>>
    /\ UNCHANGED <<part, deploymentMode>>

PartSpec == PartInit /\ [][PartNext]_<<part, deploymentMode, vars, rateVars, lifecycleVars, submissionVars, certVars, dataVars>>

-----------------------------------------------------------------------------
(* The properties of the parts, those of HelperDispatch and HelperProcess      *)
(* beside these; the modules say what each is about.                           *)

\* No span as long as a window sees twice the limit of an identity, a refusal
\* tells its exact delay, and the longest window later logins are tried again.
LimitsExact ==
    /\ part = "rate" => Rate!LimitsExact
    /\ part = "fullTable" => FullTable!LimitsExact
\* A mail sent again only when its user was told so is accepted at most once,
\* when Maddy runs beside the helper and is reached by a socket.
NoDuplicateNative == deploymentMode = "native" => Submit("native")!NoDuplicate
\* The receiver of DATA has the message with its line ends normalised, and no
\* message ends DATA by itself.
DataExact == part = "data" => Data!DataExact
=============================================================================
