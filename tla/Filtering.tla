----------------------------- MODULE Filtering ------------------------------
(***************************************************************************)
(* Filing rules from their storage to a delivery: the rules, their         *)
(* snapshots and what the helper and the root commands do to them          *)
(* (MailRules), and the filter that Maddy asks for the mailbox of a        *)
(* message (FilterBridge).  The bridge only reads the snapshots; what an   *)
(* answer says is a function of the account and the bytes it was given, so *)
(* the two share no state here.  The deliveries, their messages and the    *)
(* limits of the protocol make a setting; a behaviour is under one of      *)
(* them.                                                                   *)
(***************************************************************************)
EXTENDS MailRules

CONSTANTS
    Settings,   \* the settings of FilterBridge, each a record of its constants
    NL, Control

VARIABLES
    setting,
    client, source, transferred, response, out, up, upEnd, down, downEnd, thread,
    control, body, permits, lock

bridgeVars == <<client, source, transferred, response, out, up, upEnd, down,
                downEnd, thread, control, body, permits, lock>>

\* The filter under one setting.
Bridge(c) == INSTANCE FilterBridge WITH
    Deliveries <- c.deliveries, Account <- c.account, Message <- c.message,
    Trusted <- c.trusted, Connections <- c.connections, MaxLine <- c.maxLine,
    MaxMessage <- c.maxMessage, MaxResponse <- c.maxResponse

ASSUME FilteringBounds ==
    MailRulesAssumption /\ \A c \in Settings : Bridge(c)!FilterBounds

\* Deliveries under one of the settings.
BridgeInit == \E c \in Settings : setting = c /\ Bridge(c)!Init
BridgeNext == \E c \in Settings : setting = c /\ Bridge(c)!Next /\ UNCHANGED setting

FilteringInit == Init /\ BridgeInit
FilteringNext ==
    \/ Next /\ UNCHANGED <<setting, bridgeVars>>
    \/ BridgeNext /\ UNCHANGED vars
FilteringSpec == FilteringInit /\ [][FilteringNext]_<<vars, setting, bridgeVars>>

-----------------------------------------------------------------------------
(* The property of the filter, SnapshotsSound of MailRules beside it; the      *)
(* module says what it is about.                                               *)

\* Maddy is given the whole answer to its own message or nothing, and permits
\* and the evaluation lock of the filter bridge come back.
FilterSound == \A c \in Settings : setting = c => Bridge(c)!FilterSound
=============================================================================
