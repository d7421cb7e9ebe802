------------------------------ MODULE Gateway -------------------------------
(***************************************************************************)
(* The gateway between the web process and the helper (gateway.py): the    *)
(* list of accounts (AccountCache) and the lists of messages and folders   *)
(* (MessageCache).  Their caches, generations and locks are apart in       *)
(* HelperGateway, and so are they here; they share nothing but the helper, *)
(* whose answers to the one do not depend on the calls of the other.  The  *)
(* mailboxes, readers and changes of an account make a setting; a          *)
(* behaviour is under one of them.                                         *)
(***************************************************************************)
EXTENDS AccountCache

CONSTANTS
    Settings,  \* the settings of MessageCache, each a record of its constants
    Folders

VARIABLES
    setting,
    lists, active, doubtful, reader, change, line, done, newest, announced, shown

messageVars == <<lists, active, doubtful, reader, change, line, done, newest,
                 announced, shown>>

\* The lists of messages and folders under one setting.
Messages(c) == INSTANCE MessageCache WITH
    cache <- lists, inflight <- active, quarantined <- doubtful, queue <- line,
    applied <- done, answer <- shown,
    Boxes <- c.boxes, Readers <- c.readers, Changes <- c.changes, Kinds <- c.kinds,
    Polled <- c.polled, MaxUid <- c.maxUid

ASSUME GatewayBounds ==
    AccountCacheAssumption /\ \A c \in Settings : Messages(c)!MessageCacheAssumption

\* The readers and changes of the lists under one of the settings.
MessagesInit == \E c \in Settings : setting = c /\ Messages(c)!Init
MessagesNext == \E c \in Settings : setting = c /\ Messages(c)!Next /\ UNCHANGED setting

GatewayInit == Init /\ MessagesInit
GatewayNext ==
    \/ Next /\ UNCHANGED <<setting, messageVars>>
    \/ MessagesNext /\ UNCHANGED vars
GatewaySpec == GatewayInit /\ [][GatewayNext]_<<vars, setting, messageVars>>

-----------------------------------------------------------------------------
(* The properties of the parts, ImplementsRegister of AccountCache beside      *)
(* these; the modules say what each is about.                                  *)

\* The cached list of accounts is the helper's, with no change on its way.  A
\* list of messages shows every change that had settled and every message that
\* was announced before it was asked for, and none is cached while a permanent
\* delete may still come.
CachesCurrent == CacheSound /\ \A c \in Settings : setting = c => Messages(c)!ListsCurrent
=============================================================================
