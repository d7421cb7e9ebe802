----------------------------- MODULE MailEvents -----------------------------
(***************************************************************************)
(* New-mail notices (web.py _MailEventHub and mail_events, app.js          *)
(* startMailEvents): the event streams of the tabs of one session share    *)
(* one watcher that asks the helper for the newest UID of the Inbox again  *)
(* and again.  A stream whose connection broke is left by its browser,     *)
(* which reconnects with the identifier of the last event it received,     *)
(* while the server notices the break only when a write fails.             *)
(*                                                                         *)
(* UIDs only grow; a message is its UID.  Reading the newest UID and       *)
(* acting on it are two steps, and the hub's lock is held only within one. *)
(***************************************************************************)
EXTENDS Integers, FiniteSets, FiniteSetsExt

CONSTANTS
    Tabs, Streams,
    MaxMail,    \* bound: messages that arrive
    MaxBreaks,  \* bound: connections that break
    MaxFaults,  \* bound: calls of the helper that fail for the moment
    MaxSwitch   \* bound: times access to the account is lost or regained

\* What every instance has to give; the MC modules assume it of theirs.
EventsAssumption ==
    /\ MaxMail \in Nat \ {0} /\ {MaxBreaks, MaxFaults, MaxSwitch} \subseteq Nat
    /\ {"closed", "waiting"} \cap Streams = {}

VARIABLES
    inbox, arrived, \* the messages in the Inbox, and how many have arrived
    access,         \* the session may read the account
    watch,          \* the watcher of the session and account
    st,             \* the streams of the server
    tab,            \* the event sources of the browser
    used            \* how much of each bound is used up

vars == <<inbox, arrived, access, watch, st, tab, used>>
outside == <<inbox, arrived, access>>

NoId == -1
Nothing == [kind |-> "nothing", uid |-> 0]
NoWatch == [on |-> FALSE, run |-> FALSE, latest |-> 0, subs |-> {}, pc |-> "sleep", got |-> 0]
Free == [pc |-> "free", q |-> Nothing, base |-> 0, resume |-> NoId]
Closed == [src |-> "closed", cursor |-> NoId, owed |-> {}]

Newest == Max({0} \cup inbox)
Joined(s) == st[s].pc \in {"ready", "catchup", "live"}
Heard(s) == {t \in Tabs : tab[t].src = s}
Spend(b, max) == used[b] < max /\ used' = [used EXCEPT ![b] = @ + 1]
Server == UNCHANGED <<outside, used>>

Init ==
    /\ \E n \in 0 .. 1 : inbox = 1 .. n /\ arrived = n
    /\ access = TRUE
    /\ watch = NoWatch
    /\ st = [s \in Streams |-> Free]
    /\ tab = [t \in Tabs |-> Closed]
    /\ used = [breaks |-> 0, faults |-> 0, switch |-> 0]

-----------------------------------------------------------------------------
(* The mailbox and the account.                                            *)

(* A tab that knows where it stands is owed a notice of what arrives. *)
Deliver ==
    /\ arrived < MaxMail /\ arrived' = arrived + 1
    /\ inbox' = inbox \cup {arrived + 1}
    /\ tab' = [t \in Tabs |-> IF tab[t].cursor = NoId THEN tab[t]
                              ELSE [tab[t] EXCEPT !.owed = @ \cup {arrived + 1}]]
    /\ UNCHANGED <<access, watch, st, used>>

Expunge ==
    /\ \E m \in inbox :
          /\ inbox' = inbox \ {m}
          /\ tab' = [t \in Tabs |-> [tab[t] EXCEPT !.owed = @ \ {m}]]
    /\ UNCHANGED <<arrived, access, watch, st, used>>

SwitchAccess ==
    /\ Spend("switch", MaxSwitch) /\ access' = ~access
    /\ UNCHANGED <<inbox, arrived, watch, st, tab>>

-----------------------------------------------------------------------------
(* The watcher.                                                            *)

(* _publish: a queue holds one event, the newest. *)
Publish(event, subs) ==
    st' = [s \in Streams |-> IF s \in subs THEN [st[s] EXCEPT !.q = event] ELSE st[s]]

(* The helper reads the newest UID, or refuses, or the call fails. *)
Probe ==
    /\ watch.on /\ watch.run /\ watch.pc = "sleep"
    /\ \/ /\ access /\ UNCHANGED <<st, used>>
          /\ watch' = [watch EXCEPT !.pc = "apply", !.got = Newest]
       \/ /\ ~access /\ UNCHANGED used
          /\ Publish([kind |-> "session_expired", uid |-> watch.latest], watch.subs)
          /\ watch' = [watch EXCEPT !.run = FALSE]
    /\ UNCHANGED <<outside, tab>>

ProbeFails ==
    /\ watch.on /\ watch.run /\ watch.pc = "sleep"
    /\ Spend("faults", MaxFaults) /\ UNCHANGED <<outside, watch, st, tab>>

Apply ==
    /\ watch.on /\ watch.run /\ watch.pc = "apply"
    /\ IF watch.got > watch.latest
       THEN Publish([kind |-> "new_mail", uid |-> watch.got], watch.subs)
       ELSE UNCHANGED st
    /\ watch' = [watch EXCEPT !.pc = "sleep", !.latest = watch.got, !.got = 0]
    /\ UNCHANGED tab /\ Server

-----------------------------------------------------------------------------
(* subscribe and unsubscribe.                                              *)

Alive == watch.on /\ watch.run
Added(w, s) == [w EXCEPT !.subs = @ \cup {s}]

(* A request for events: it joins the watcher that is running, or has to read
   the newest UID first. *)
Connect(t, s) ==
    /\ tab[t].src = "waiting" /\ st[s].pc = "free"
    /\ tab' = [tab EXCEPT ![t].src = s]
    /\ IF Alive
       THEN /\ watch' = Added(watch, s)
            /\ st' = [st EXCEPT ![s] = [Free EXCEPT !.pc = "ready", !.base = watch.latest,
                                                    !.resume = tab[t].cursor]]
       ELSE /\ st' = [st EXCEPT ![s] = [Free EXCEPT !.pc = "read", !.resume = tab[t].cursor]]
            /\ UNCHANGED watch
    /\ Server

InitialRead(s) ==
    /\ st[s].pc = "read" /\ access
    /\ st' = [st EXCEPT ![s].pc = "join", ![s].base = Newest]
    /\ UNCHANGED <<watch, tab>> /\ Server

(* The stream is refused; a browser does not retry what was refused. *)
Refused(s) ==
    /\ st[s].pc = "read"
    /\ \/ ~access /\ UNCHANGED used
       \/ Spend("faults", MaxFaults)
    /\ st' = [st EXCEPT ![s] = Free]
    /\ tab' = [t \in Tabs |-> IF t \in Heard(s) THEN Closed ELSE tab[t]]
    /\ UNCHANGED <<outside, watch>>

(* Mutant: the watcher that another tab started meanwhile is replaced. *)
MutJoin(s) ==
    /\ st[s].pc = "join"
    /\ watch' = [NoWatch EXCEPT !.on = TRUE, !.run = TRUE, !.latest = st[s].base, !.subs = {s}]
    /\ st' = [st EXCEPT ![s].pc = "ready", ![s].base = watch'.latest]
    /\ UNCHANGED tab /\ Server

Join(s) ==
    /\ st[s].pc = "join"
    /\ watch' = IF Alive THEN Added(watch, s)
                ELSE [NoWatch EXCEPT !.on = TRUE, !.run = TRUE, !.latest = st[s].base, !.subs = {s}]
    /\ st' = [st EXCEPT ![s].pc = "ready", ![s].base = watch'.latest]
    /\ UNCHANGED tab /\ Server

(* The watcher found under the key, perhaps not the one that was joined, goes
   when no subscriber is left. *)
Leave(s) ==
    /\ st[s].pc = "leave"
    /\ st' = [st EXCEPT ![s] = Free]
    /\ watch' = IF watch.subs \subseteq {s} THEN NoWatch ELSE [watch EXCEPT !.subs = @ \ {s}]
    /\ UNCHANGED tab /\ Server

-----------------------------------------------------------------------------
(* A stream writes; nobody may be listening any more, and the write then is *)
(* lost or fails.                                                          *)

Received(s, id, notified) ==
    tab' = [t \in Tabs |->
        IF t \notin Heard(s) THEN tab[t]
        ELSE [tab[t] EXCEPT
                !.cursor = IF id = NoId THEN @ ELSE id,
                !.owed = IF notified THEN {m \in @ : m > id}
                         ELSE IF tab[t].cursor = NoId /\ id # NoId THEN {m \in inbox : m > id}
                         ELSE @]]

Write(s, id, notified, next) ==
    /\ Received(s, id, notified)
    /\ \E pc \in IF Heard(s) = {} THEN {next, "leave"} ELSE {next} :
          st' = [st EXCEPT ![s] =
                    CASE pc = "catchup" -> [st[s] EXCEPT !.pc = pc]
                      [] pc = "live" -> [Free EXCEPT !.pc = pc, !.q = IF st[s].pc = "live" THEN Nothing ELSE st[s].q]
                      [] pc = "leave" -> [Free EXCEPT !.pc = pc]]
    /\ UNCHANGED watch /\ Server

Behind(s) == st[s].resume # NoId /\ st[s].base > st[s].resume

(* Mutant: the ready event always carries the newest identifier. *)
MutReady(s) ==
    /\ st[s].pc = "ready"
    /\ Write(s, st[s].base, FALSE, IF Behind(s) THEN "catchup" ELSE "live")

(* ready: it carries an identifier only if no notice is still to be written. *)
Ready(s) ==
    /\ st[s].pc = "ready"
    /\ Write(s, IF Behind(s) THEN NoId ELSE st[s].base, FALSE, IF Behind(s) THEN "catchup" ELSE "live")

Catchup(s) == st[s].pc = "catchup" /\ Write(s, st[s].base, TRUE, "live")

SendNewMail(s) ==
    st[s].pc = "live" /\ st[s].q.kind = "new_mail" /\ Write(s, st[s].q.uid, TRUE, "live")

(* The browser goes to the login page. *)
SendExpired(s) ==
    /\ st[s].pc = "live" /\ st[s].q.kind = "session_expired"
    /\ tab' = [t \in Tabs |-> IF t \in Heard(s) THEN Closed ELSE tab[t]]
    /\ st' = [st EXCEPT ![s] = [Free EXCEPT !.pc = "leave"]]
    /\ UNCHANGED watch /\ Server

(* A keepalive fails. *)
NoticeBreak(s) ==
    /\ st[s].pc = "live" /\ Heard(s) = {}
    /\ st' = [st EXCEPT ![s] = [Free EXCEPT !.pc = "leave"]]
    /\ UNCHANGED <<watch, tab>> /\ Server

-----------------------------------------------------------------------------
(* The browser.                                                            *)

(* startMailEvents with no source, or with one that is closed *)
Open(t) ==
    /\ tab[t].src = "closed"
    /\ tab' = [tab EXCEPT ![t].src = "waiting"]
    /\ UNCHANGED <<watch, st>> /\ Server

(* closeMailEvents *)
Close(t) ==
    /\ tab[t].src # "closed" /\ Spend("breaks", MaxBreaks)
    /\ tab' = [tab EXCEPT ![t] = Closed]
    /\ UNCHANGED <<outside, watch, st>>

(* The connection breaks; the source will reconnect. *)
Break(t) ==
    /\ tab[t].src \in Streams /\ Spend("breaks", MaxBreaks)
    /\ tab' = [tab EXCEPT ![t].src = "waiting"]
    /\ UNCHANGED <<outside, watch, st>>

Serve(s) ==
    \/ InitialRead(s) \/ Refused(s) \/ Join(s) \/ Ready(s) \/ Catchup(s)
    \/ SendNewMail(s) \/ SendExpired(s) \/ NoticeBreak(s) \/ Leave(s)

Next ==
    \/ Deliver \/ Expunge \/ SwitchAccess
    \/ Probe \/ ProbeFails \/ Apply
    \/ \E s \in Streams : Serve(s) \/ \E t \in Tabs : Connect(t, s)
    \/ \E t \in Tabs : Open(t) \/ Close(t) \/ Break(t)

(* The watcher polls, streams are served and sources reconnect; nothing makes
   anyone open a page. *)
Fairness ==
    /\ WF_vars(Probe) /\ WF_vars(Apply)
    /\ \A s \in Streams : WF_vars(Serve(s))
    /\ \A t \in Tabs : WF_vars(\E s \in Streams : Connect(t, s))

Spec == Init /\ [][Next]_vars
FairSpec == Spec /\ Fairness

-----------------------------------------------------------------------------
(* The variables have their types. *)
TypeOK ==
    /\ inbox \subseteq 1 .. MaxMail
    /\ watch.subs \subseteq Streams /\ watch.latest \in 0 .. MaxMail
    /\ watch.on <=> watch.subs # {}
    /\ \A s \in Streams : st[s].base \in 0 .. MaxMail /\ st[s].resume \in NoId .. MaxMail
    /\ \A t \in Tabs : tab[t].src \in Streams \cup {"closed", "waiting"}

(* The identifier that a browser would resume from never passes a message it
   was not told of, wherever a connection breaks: between ready and the notice
   that catches up, or with an event in the queue. *)
NeverPastUnnoticed == \A t \in Tabs : \A m \in tab[t].owed : m > tab[t].cursor

(* A message that a connected tab is still owed a notice of is on its way: the
   watcher that its stream subscribes to has yet to see it, or an event that
   covers it is queued or about to be written, or the stream is ending. *)
OnItsWay ==
    \A t \in Tabs : \A m \in tab[t].owed :
        LET s == tab[t].src
        IN s \in Streams /\ Joined(s) =>
              \/ Alive /\ s \in watch.subs /\ m > watch.latest
              \/ st[s].q.kind = "new_mail" /\ st[s].q.uid >= m
              \/ st[s].pc \in {"ready", "catchup"} /\ st[s].base >= m /\ Behind(s)
              \/ st[s].q.kind = "session_expired"

(* A stream that nobody feeds does not stay: it subscribes to a watcher that
   runs, or the event that ends it is queued.  A watcher that nobody
   subscribes to is gone, so an abandoned session is not polled for. *)
StreamsFed ==
    \A s \in Streams : Joined(s) =>
        (Alive /\ s \in watch.subs) \/ st[s].q.kind = "session_expired"

(* Every message that a tab is owed a notice of is told, or removed, or the
   tab's source is closed. *)
EveryoneTold ==
    \A t \in Tabs, m \in 1 .. MaxMail : m \in tab[t].owed ~> m \notin tab[t].owed

(* Every message that arrived is announced to the tab or can still be. *)
ArrivalsReach == TypeOK /\ StreamsFed /\ NeverPastUnnoticed /\ OnItsWay
=============================================================================
