----------------------------- MODULE MCGateway ------------------------------
(* The gateway, for TLC.  A behaviour moves one part while the others rest in  *)
(* a first state, so that a run covers the sum of their states.  The parts     *)
(* draw callers, changes, keys or mailboxes and tasks from the same pools,     *)
(* whose members none of them tells apart.                                     *)
EXTENDS Integers, TLC, Gateway

CONSTANTS
    Parts,      \* the parts that may move in this run
    r1, m1, k1  \* one of the readers, of the changes and of the keys

VARIABLE part

ASSUME r1 \in Readers /\ m1 \in Muts /\ k1 \in Keys

\* Two mailboxes and one change of every kind.
Mixed ==
    [boxes |-> Keys, readers |-> Readers, changes |-> {m1},
     kinds |-> {"flags", "move", "special", "delete", "step", "create", "rename", "remove",
                "discard", "sent"},
     polled |-> {}, maxUid |-> 0]

\* Two changes of one mailbox at a time, permanent deletes among them.
Deleting ==
    [boxes |-> {k1}, readers |-> {r1}, changes |-> Muts, kinds |-> {"flags", "delete"},
     polled |-> {}, maxUid |-> 0]

\* A mailbox that is polled for mail.
Polling ==
    [boxes |-> {k1}, readers |-> Readers, changes |-> {m1}, kinds |-> {"flags"},
     polled |-> {k1}, maxUid |-> 1]

\* An account that is not looked at, while the list of accounts moves.
Quiet ==
    [boxes |-> {}, readers |-> {}, changes |-> {}, kinds |-> {}, polled |-> {}, maxUid |-> 0]

ListSettings == {Mixed, Deleting, Polling, Quiet}

PartInit ==
    /\ part \in Parts
    /\ GatewayInit /\ (part = "messages" <=> setting # Quiet)

PartNext ==
    /\ \/ part = "accounts" /\ Next /\ UNCHANGED <<setting, messageVars>>
       \/ part = "messages" /\ MessagesNext /\ UNCHANGED vars
    /\ UNCHANGED part

PartSpec == PartInit /\ [][PartNext]_<<part, vars, setting, messageVars>>

Pools ==
    Permutations(Readers) \cup Permutations(Muts) \cup Permutations(Keys)
        \cup Permutations(Tasks)
=============================================================================
