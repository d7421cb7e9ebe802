------------------------------- MODULE MCWeb --------------------------------
(* The web process and its browsers, for TLC.  A behaviour moves one part      *)
(* while the others rest in a first state, so that a run covers the sum of     *)
(* their states.  The parts draw tabs, requests, tasks and streams from the    *)
(* same two pools, whose members none of them tells apart.                     *)
EXTENDS Integers, TLC, WebProcess

CONSTANT Parts  \* the parts that may move in this run

VARIABLE part

\* Two tabs of one browser and every kind of write.
Browser ==
    [tabs |-> Requests, sessions |-> {"s"}, kinds |-> {"json", "upload", "login", "logout"},
     capacity |-> 2, flows |-> 1, ttl |-> 1, slots |-> 2, strangers |-> {},
     maxNonce |-> 5, maxTime |-> 0, maxBoot |-> 1]

\* One tab that shares the registry with other clients while time passes and
\* the server restarts.
Shared ==
    [tabs |-> {"tab"}, sessions |-> {"s"}, kinds |-> {"json", "login"},
     capacity |-> 3, flows |-> 2, ttl |-> 1, slots |-> 1, strangers |-> {"client", "elsewhere"},
     maxNonce |-> 5, maxTime |-> 2, maxBoot |-> 2]

\* A tab signs in again while another one waits for a token.
Switching ==
    [tabs |-> Requests, sessions |-> {"s", "r"}, kinds |-> {"upload", "login"},
     capacity |-> 2, flows |-> 1, ttl |-> 1, slots |-> 2, strangers |-> {},
     maxNonce |-> 5, maxTime |-> 0, maxBoot |-> 1]

WebSettings == {Browser, Shared, Switching}

\* The parts that do not move.
CsrfRests == setting = Browser /\ jar.session = None
EventRests == arrived = 0

\* A call fails or the access changes, but not both.
MailComes == Events!Next /\ used'.faults + used'.switch <= 1

PartInit ==
    /\ part \in Parts
    /\ CsrfInit /\ (part # "tokens" => CsrfRests)
    /\ Init
    /\ Events!Init /\ (part # "events" => EventRests)

PartNext ==
    /\ \/ part = "tokens" /\ CsrfNext /\ UNCHANGED <<vars, eventVars>>
       \/ part = "session" /\ Next /\ UNCHANGED <<setting, csrfVars, eventVars>>
       \/ part = "events" /\ MailComes /\ UNCHANGED <<setting, csrfVars, vars>>
    /\ UNCHANGED part

PartSpec == PartInit /\ [][PartNext]_<<part, setting, csrfVars, vars, eventVars>>

Alike == Permutations(Requests) \cup Permutations(Tasks)
=============================================================================
