------------------------------ MODULE MCRules -------------------------------
(* Rules from the store to a delivery, for TLC: their storage and snapshots    *)
(* and the delivery filter (Filtering), and the evaluation of a list           *)
(* (RuleEval).  A behaviour moves one part while the others rest, so that a    *)
(* run covers the sum of their states.                                         *)
EXTENDS Integers, FiniteSets, TLC, Filtering, RuleSamples

CONSTANTS
    Parts,  \* the parts that may move in this run
    d1, d2, d3

VARIABLES
    part,
    list, raw, step, i, prepared, facts, target

evalVars == <<list, raw, step, i, prepared, facts, target>>

\* Two deliveries share one connection, one with a newline of its own in the
\* message and one at the limit.
Near ==
    [deliveries |-> {d1, d2}, account |-> d1 :> "a1" @@ d2 :> "a2",
     message |-> d1 :> <<"m", NL, "m">> @@ d2 :> <<"m", "m">>, trusted |-> {d1, d2},
     connections |-> 1, maxLine |-> 2, maxMessage |-> 3, maxResponse |-> 3]

\* One without the token beside one whose message is too long, when the control
\* line is too long for both.
Beyond ==
    [deliveries |-> {d2, d3}, account |-> d2 :> "a2" @@ d3 :> "a3",
     message |-> d2 :> <<"m", "m">> @@ d3 :> <<"m", "m", "m", "m">>, trusted |-> {d3},
     connections |-> 1, maxLine |-> 1, maxMessage |-> 3, maxResponse |-> 3]

FilterSettings == {Near, Beyond}

\* Trees of conditions, and lists of rules around the limits.
Trees == INSTANCE RuleEval WITH
    rules <- list, pc <- step, RuleLists <- TreeLists, RawMessages <- Messages,
    MaxRuleDepth <- 3, MaxRuleNodes <- 7, MaxParts <- 3, MaxMimeDepth <- 2,
    MaxHeaders <- 2, MaxPosition <- 3
Lists == INSTANCE RuleEval WITH
    rules <- list, pc <- step, RuleLists <- OrderLists, RawMessages <- AllMessages,
    MaxRuleDepth <- 3, MaxRuleNodes <- 4, MaxParts <- 3, MaxMimeDepth <- 1,
    MaxHeaders <- 2, MaxPosition <- 3

ASSUME
    /\ Trees!RuleBounds /\ Lists!RuleBounds

\* The variables of the parts that do not move.
EvalRests ==
    /\ list = None /\ raw = None /\ step = None /\ i = None /\ prepared = None
    /\ facts = None /\ target = None

PartInit ==
    /\ part \in Parts
    /\ FilteringInit /\ (part # "bridge" => setting = Near)
    /\ CASE part = "trees" -> Trees!Init
         [] part = "lists" -> Lists!Init
         [] OTHER -> EvalRests

PartNext ==
    /\ \/ part = "store" /\ Next /\ UNCHANGED <<setting, bridgeVars, evalVars>>
       \/ part = "bridge" /\ BridgeNext /\ UNCHANGED <<vars, evalVars>>
       \/ part = "trees" /\ Trees!Next /\ UNCHANGED <<vars, setting, bridgeVars>>
       \/ part = "lists" /\ Lists!Next /\ UNCHANGED <<vars, setting, bridgeVars>>
    /\ UNCHANGED part

PartSpec == PartInit /\ [][PartNext]_<<part, vars, setting, bridgeVars, evalVars>>

Pools ==
    Permutations(AccountIds) \cup Permutations(RuleIds) \cup Permutations(Contents)

-----------------------------------------------------------------------------
(* The property of the lists, SnapshotsSound of MailRules and FilterSound of   *)
(* Filtering beside it; the modules say what each is about.                    *)

\* Conditions and lists of rules are accepted, stored, matched and followed as
\* their reference definitions say.
EvaluatedAsWritten ==
    /\ part = "trees" => Trees!EvaluatedAsWritten
    /\ part = "lists" => Lists!EvaluatedAsWritten
=============================================================================
