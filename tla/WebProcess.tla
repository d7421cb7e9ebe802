----------------------------- MODULE WebProcess -----------------------------
(***************************************************************************)
(* The web process and its browsers: the session check (WebSession), the   *)
(* write tokens (WebCsrf) and the notices of new mail (MailEvents).  They  *)
(* meet only in the session cookie, whose end each of them models for      *)
(* itself; so they are checked and proved side by side, each with          *)
(* variables of its own.  The limits of the token registry and the clients *)
(* that share it make a setting; a behaviour is under one of them.         *)
(***************************************************************************)
EXTENDS WebSession

CONSTANTS
    Settings,  \* the settings of WebCsrf, each a record of its constants
    MaxMail, MaxBreaks, MaxFaults, MaxSwitch  \* bounds of MailEvents

VARIABLES
    setting,
    entries, boot, now, nonces, live, jar, tab, net, handling, runs, spent,
    disturbed,
    inbox, arrived, access, watch, st, source, used

csrfVars == <<entries, boot, now, nonces, live, jar, tab, net, handling, runs,
              spent, disturbed>>
eventVars == <<inbox, arrived, access, watch, st, source, used>>

\* The write tokens under one setting.
Tokens(c) == INSTANCE WebCsrf WITH
    Tabs <- c.tabs, Sessions <- c.sessions, Kinds <- c.kinds,
    Capacity <- c.capacity, FlowsPerIdentity <- c.flows, TTL <- c.ttl,
    Slots <- c.slots, Strangers <- c.strangers,
    MaxNonce <- c.maxNonce, MaxTime <- c.maxTime, MaxBoot <- c.maxBoot

\* The event sources of the tabs, and the streams of the server.
Events == INSTANCE MailEvents WITH
    tab <- source, Tabs <- Requests, Streams <- Tasks

ASSUME WebBounds ==
    WebSessionAssumption /\ Events!EventsAssumption /\ \A c \in Settings : Tokens(c)!CsrfBounds

\* The clients of the web process under one of the settings.
CsrfInit == \E c \in Settings : setting = c /\ Tokens(c)!Init
CsrfNext == \E c \in Settings : setting = c /\ Tokens(c)!Next /\ UNCHANGED setting
CsrfSpec == CsrfInit /\ [][CsrfNext]_<<setting, csrfVars>>

-----------------------------------------------------------------------------
(* The properties of the parts, SessionSound of WebSession beside these; the *)
(* modules say what each is about.                                           *)

\* One write of the user runs its handler at most once (executeMutation).
WriteRunsOnce == \A c \in Settings : setting = c => Tokens(c)!WriteRunsOnce

\* A nonce that granted its attempt is never current again, and the registry of
\* write tokens keeps within both of its limits (CurrentCsrfStore).
TokensCurrent == \A c \in Settings : setting = c => Tokens(c)!TokensCurrent

\* The token of a rejection is good for the next try unless something intervenes.
Recoverable == \A c \in Settings : setting = c => Tokens(c)!Recoverable
RecoverableOnce == [][Recoverable]_csrfVars

\* A message that a tab is owed a notice of is on its way to it, across streams
\* that break and resume (_MailEventHub).
ArrivalsReach == Events!ArrivalsReach
=============================================================================
