---------------------------- MODULE MessageCache ----------------------------
(***************************************************************************)
(* The mailbox and message list caches of the gateway (gateway.py,         *)
(* HelperGateway) for one account: list_messages, list_mailboxes,          *)
(* latest_message_uid, and every operation that changes messages or        *)
(* mailboxes.  What lies between two awaits is one step.  A helper call is *)
(* made by a thread that connects, sends and waits; the helper serves      *)
(* connections in the order they were made.                                *)
(*                                                                         *)
(* Permanent deletes and steps of a rule run are tasks that outlive their  *)
(* request.  All other changes are awaited directly: when the request is   *)
(* cancelled their caches are invalidated at once, while the thread may    *)
(* not even have connected.                                                *)
(*                                                                         *)
(* Abstractions.  A list is the set of the changes it shows and the newest *)
(* UID in it.  Generations are only ever compared with the value a read    *)
(* began with, so a read carries a mark instead: whether its scope was     *)
(* invalidated since.  Entries that expire or are pruned are dropped.      *)
(* Authorization keys partition the caches and do not interact.            *)
(*                                                                         *)
(* A definition just before another one with the same parameters is a      *)
(* wrong version of it; PROJECT.json lists which property catches which.   *)
(***************************************************************************)
EXTENDS Integers, Sequences

CONSTANTS
    Boxes,     \* mailboxes of the account
    Folders,   \* the scope of the list of mailboxes
    Readers,   \* HTTP requests that read
    Changes,   \* changes of messages or mailboxes, each requested once
    Kinds,     \* the kinds of change that are requested
    Polled,    \* mailboxes that an open event stream polls
    MaxUid,    \* newest UID that is delivered
    None

AllKinds == {"flags", "move", "special", "delete", "step", "create", "rename", "remove", "discard",
             "sent"}

\* What every instance has to give; the MC modules assume it of theirs.
MessageCacheAssumption ==
    /\ Kinds \subseteq AllKinds /\ Polled \subseteq Boxes /\ MaxUid \in Nat
    /\ Readers \cap Changes = {} /\ Folders \notin Boxes
    /\ None \notin Boxes \cup Readers \cup Changes \cup AllKinds
    /\ None \notin {"ok", "failed", "cancelled"}

Scopes == Boxes \cup {Folders}

VARIABLES
    cache,        \* _message_list_cache and _mailbox_cache
    inflight,     \* _message_mutations_inflight
    quarantined,  \* _message_cache_quarantined
    reader,       \* where each read is
    change,       \* where each change is
    queue,        \* connections the helper has to serve
    applied,      \* the changes that took effect
    newest,       \* newest UID of each mailbox
    announced,    \* history: newest UID that latest_message_uid returned
    answer        \* history: the last list that was returned

gateway == <<cache, inflight, quarantined>>
helper == <<queue, applied, newest>>
history == <<announced, answer>>
vars == <<gateway, reader, change, helper, history>>

Nothing == [shows |-> {}, newest |-> 0]
IdleReader == [at |-> "idle", op |-> "list", scope |-> None, value |-> Nothing,
               crossed |-> FALSE, since |-> Nothing]
NewChange == [at |-> "new", kind |-> None, src |-> None, dst |-> None, told |-> None]

Init ==
    /\ cache = [s \in Scopes |-> None]
    /\ inflight = [b \in Boxes |-> 0] /\ quarantined = {}
    /\ reader = [r \in Readers |-> IdleReader]
    /\ change = [c \in Changes |-> NewChange]
    /\ queue = <<>> /\ applied = {} /\ newest = [b \in Boxes |-> 0]
    /\ announced = [b \in Boxes |-> 0]
    /\ answer = None

----------------------------------------------------------------------------
(* What a change affects, and what the gateway invalidates for it *)

Affected(c) ==
    CASE change[c].kind \in {"flags", "delete", "sent"} -> {change[c].src}
      [] change[c].kind \in {"move", "special", "step"} -> {change[c].src, change[c].dst}
      [] change[c].kind = "create" -> {Folders}
      [] change[c].kind \in {"rename", "remove", "discard"} ->
            {change[c].src, change[c].dst, Folders}

\* Before the call: "special" does not know its target, "discard" (to the Trash
\* mailbox the helper will resolve, or the whole account) takes everything.
InvalidatedBefore(kind, src, dst) ==
    CASE kind \in {"flags", "delete", "special"} -> {src}
      [] kind = "move" -> {src, dst}
      [] kind \in {"step", "sent"} -> Boxes
      [] kind = "create" -> {Folders}
      [] kind \in {"rename", "remove"} -> {src, dst, Folders}
      [] kind = "discard" -> Scopes

\* When the call is over; ok says that the helper confirmed it.
InvalidatedAfterSourceOnly(kind, src, dst, ok) ==
    CASE kind \in {"flags", "delete", "move", "special"} -> {src}
      [] kind \in {"step", "sent"} -> Boxes
      [] kind \in {"create", "rename"} -> {Folders}
      [] kind = "remove" -> {src, dst, Folders}
      [] kind = "discard" -> Scopes

InvalidatedAfter(kind, src, dst, ok) ==
    CASE kind \in {"flags", "delete"} -> {src}
      [] kind = "move" -> {src, dst}
      [] kind = "special" -> {src} \cup (IF ok THEN {dst} ELSE {})
      [] kind \in {"step", "sent"} -> Boxes
      [] kind \in {"create", "rename"} -> {Folders}
      [] kind = "remove" -> {src, dst, Folders}
      [] kind = "discard" -> Scopes

\* _invalidate_message_lists, _invalidate_mailboxes
Invalidate(scopes) ==
    /\ cache' = [s \in Scopes |-> IF s \in scopes THEN None ELSE cache[s]]
    /\ reader' = [r \in Readers |->
                     [reader[r] EXCEPT !.crossed = @ \/ reader[r].scope \in scopes]]

----------------------------------------------------------------------------
(* list_messages and list_mailboxes *)

Queued(x) == \E i \in DOMAIN queue : queue[i] = x

\* What a list of s must show when it is asked for now: every change whose
\* caller was told its outcome, and the newest UID that was reported.  Not
\* promised: a change whose request was cancelled; the target of a special
\* move whose outcome is unknown; the messages of renamed mailboxes.
Promised(c, s) ==
    /\ c \in applied /\ s \in Affected(c)
    /\ change[c].told \in {"ok", "failed"}
    /\ ~(change[c].kind = "special" /\ change[c].told = "failed" /\ s = change[c].dst)
    /\ ~(change[c].kind = "rename" /\ s # Folders)

Ask(r, op, s) ==
    /\ reader[r].at = "idle" /\ ~Queued(r)
    /\ op = "latest" => s \in Polled
    /\ reader' = [reader EXCEPT ![r] =
                     [at |-> "top", op |-> op, scope |-> s, value |-> Nothing, crossed |-> FALSE,
                      since |-> [shows |-> {c \in Changes : change[c].at # "new" /\ Promised(c, s)},
                                 newest |-> IF s = Folders THEN 0 ELSE announced[s]]]]
    /\ answer' = None
    /\ UNCHANGED <<gateway, change, helper, announced>>

Returned(r, v) ==
    /\ answer' = [value |-> v, since |-> reader[r].since]
    /\ announced' = announced

\* A list of messages waits for the permanent deletes of its mailbox
\* (_wait_for_message_mutations).
MayGoOn(r) ==
    /\ reader[r].at = "top"
    /\ reader[r].op = "list" /\ reader[r].scope # Folders => inflight[reader[r].scope] = 0

UsableCache(r) ==
    /\ reader[r].op = "list" /\ reader[r].scope \notin quarantined
    /\ cache[reader[r].scope] # None

ReadCache(r) ==
    /\ MayGoOn(r) /\ UsableCache(r)
    /\ Returned(r, cache[reader[r].scope])
    /\ reader' = [reader EXCEPT ![r] = IdleReader]
    /\ UNCHANGED <<gateway, change, helper>>

StartRead(r) ==
    /\ MayGoOn(r) /\ ~UsableCache(r)
    /\ reader' = [reader EXCEPT ![r].at = "starting", ![r].crossed = FALSE]
    /\ UNCHANGED <<gateway, change, helper, history>>

ReadConnects(r) ==
    /\ reader[r].at = "starting"
    /\ reader' = [reader EXCEPT ![r].at = "queued"]
    /\ queue' = Append(queue, r)
    /\ UNCHANGED <<gateway, change, applied, newest, history>>

\* Messages: a list that an invalidation has crossed is thrown away and read
\* again.
CrossedRead(r) == reader[r].crossed \/ inflight[reader[r].scope] # 0

MessagesArrive(r) ==
    /\ reader[r].at = "served" /\ reader[r].op = "list" /\ reader[r].scope # Folders
    /\ IF CrossedRead(r)
       THEN /\ reader' = [reader EXCEPT ![r].at = "top"]
            /\ UNCHANGED <<gateway, history>>
       ELSE /\ quarantined' = quarantined \ {reader[r].scope}
            /\ cache' = [cache EXCEPT ![reader[r].scope] = reader[r].value]
            /\ Returned(r, reader[r].value)
            /\ reader' = [reader EXCEPT ![r] = IdleReader]
            /\ inflight' = inflight
    /\ UNCHANGED <<change, helper>>

\* Mailboxes: such a list is returned but not kept.
MailboxesArrive(r) ==
    /\ reader[r].at = "served" /\ reader[r].scope = Folders
    /\ cache' = IF reader[r].crossed THEN cache
                ELSE [cache EXCEPT ![Folders] = reader[r].value]
    /\ Returned(r, reader[r].value)
    /\ reader' = [reader EXCEPT ![r] = IdleReader]
    /\ UNCHANGED <<inflight, quarantined, change, helper>>

\* latest_message_uid: the cached lists of the mailbox go when the answer is in.
InvalidatedByLatest(s) == {s}

LatestArrives(r) ==
    /\ reader[r].at = "served" /\ reader[r].op = "latest"
    /\ LET scopes == InvalidatedByLatest(reader[r].scope)
       IN  /\ cache' = [s \in Scopes |-> IF s \in scopes THEN None ELSE cache[s]]
           /\ reader' = [q \in Readers |->
                            IF q = r THEN IdleReader
                            ELSE [reader[q] EXCEPT !.crossed = @ \/ reader[q].scope \in scopes]]
    /\ announced' = [announced EXCEPT ![reader[r].scope] =
                         IF @ < reader[r].value.newest THEN reader[r].value.newest ELSE @]
    /\ UNCHANGED <<inflight, quarantined, change, helper, answer>>

\* The call fails, or the request is cancelled.
ReadEnds(r) ==
    /\ reader[r].at # "idle"
    /\ reader' = [reader EXCEPT ![r] = IdleReader]
    /\ UNCHANGED <<gateway, change, helper, history>>

EntryDropped(s) ==
    /\ cache[s] # None
    /\ cache' = [cache EXCEPT ![s] = None]
    /\ UNCHANGED <<inflight, quarantined, reader, change, helper, history>>

----------------------------------------------------------------------------
(* Changes *)

Shielded(kind) == kind \in {"delete", "step"}

BeginChange(c, kind, src, dst) ==
    /\ change[c].at = "new"
    /\ (src = dst) = (kind \in {"flags", "delete", "create", "sent"})
    /\ change' = [change EXCEPT ![c] = [at |-> "starting", kind |-> kind, src |-> src, dst |-> dst,
                                        told |-> None]]
    /\ Invalidate(InvalidatedBefore(kind, src, dst))
    /\ inflight' = IF kind = "delete" THEN [inflight EXCEPT ![src] = @ + 1] ELSE inflight
    /\ UNCHANGED <<quarantined, helper, history>>

\* The thread connects; a cancelled request does not stop it.
ChangeConnects(c) ==
    /\ change[c].at \in {"starting", "loose"}
    /\ change' = [change EXCEPT ![c].at = IF @ = "loose" THEN "over" ELSE "queued"]
    /\ queue' = Append(queue, c)
    /\ UNCHANGED <<gateway, reader, applied, newest, history>>

\* The call is over, in one step with the finally clauses of its wrappers.
ChangeOver(c, at, ok, told) ==
    /\ change' = [change EXCEPT ![c].at = at, ![c].told = told]
    /\ Invalidate(InvalidatedAfter(change[c].kind, change[c].src, change[c].dst, ok))
    /\ inflight' = IF change[c].kind = "delete"
                   THEN [inflight EXCEPT ![change[c].src] = @ - 1] ELSE inflight
    /\ UNCHANGED <<helper, history>>

\* A permanent delete that ends without an answer of the helper.
Quarantine(c) ==
    quarantined' = IF change[c].kind = "delete" THEN quarantined \cup {change[c].src}
                   ELSE quarantined

ChangeAnswered(c) ==
    /\ change[c].at \in {"served", "refused"}
    /\ ChangeOver(c, "over", change[c].at = "served", "ok")
    /\ quarantined' = quarantined

\* A transport failure; what was sent stays with the helper.
ChangeFailsWaiting(c) ==
    /\ change[c].at \in {"starting", "queued", "served", "refused"}
    /\ change' = [change EXCEPT ![c].at = "over", ![c].told = "failed"]
    /\ Invalidate(InvalidatedAfter(change[c].kind, change[c].src, change[c].dst, FALSE))
    /\ UNCHANGED <<inflight, quarantined, helper, history>>

ChangeFails(c) ==
    /\ change[c].at \in {"starting", "queued", "served", "refused"}
    /\ ChangeOver(c, "over", FALSE, "failed")
    /\ Quarantine(c)

\* The HTTP request is cancelled; a shielded task does not notice.
ChangeCancelled(c) ==
    /\ change[c].at \in {"starting", "queued", "served", "refused"} /\ ~Shielded(change[c].kind)
    /\ ChangeOver(c, IF change[c].at = "starting" THEN "loose" ELSE "over", FALSE, "cancelled")
    /\ Quarantine(c)

----------------------------------------------------------------------------
(* The helper, and delivery beside it *)

Shown(s) == [shows |-> {c \in applied : s \in Affected(c)},
             newest |-> IF s = Folders THEN 0 ELSE newest[s]]

ServeRead ==
    /\ queue # <<>> /\ Head(queue) \in Readers
    /\ queue' = Tail(queue)
    /\ LET r == Head(queue)
       IN  reader' = IF reader[r].at = "queued"
                     THEN [reader EXCEPT ![r].at = "served", ![r].value = Shown(reader[r].scope)]
                     ELSE reader
    /\ UNCHANGED <<gateway, change, applied, newest, history>>

\* The change is made, or refused without effect, and the helper says so.
ServeChange ==
    /\ queue # <<>> /\ Head(queue) \in Changes
    /\ queue' = Tail(queue)
    /\ LET c == Head(queue)
       IN  \/ /\ applied' = applied \cup {c}
              /\ change' = IF change[c].at = "queued" THEN [change EXCEPT ![c].at = "served"]
                           ELSE change
           \/ /\ applied' = applied
              /\ change' = IF change[c].at = "queued" THEN [change EXCEPT ![c].at = "refused"]
                           ELSE change
    /\ UNCHANGED <<gateway, reader, newest, history>>

Deliver(b) ==
    /\ newest[b] < MaxUid
    /\ newest' = [newest EXCEPT ![b] = @ + 1]
    /\ UNCHANGED <<gateway, reader, change, queue, applied, history>>

----------------------------------------------------------------------------
(* Behaviours *)

ReaderStep(r) ==
    ReadCache(r) \/ StartRead(r) \/ ReadConnects(r) \/ MessagesArrive(r) \/ MailboxesArrive(r)
    \/ LatestArrives(r)

Next ==
    \/ \E r \in Readers :
        \/ \E op \in {"list", "latest"}, s \in Scopes : Ask(r, op, s)
        \/ ReaderStep(r) \/ ReadEnds(r)
    \/ \E s \in Scopes : EntryDropped(s)
    \/ \E c \in Changes :
        \/ \E kind \in Kinds, src \in Boxes, dst \in Boxes : BeginChange(c, kind, src, dst)
        \/ ChangeConnects(c) \/ ChangeAnswered(c) \/ ChangeFails(c) \/ ChangeCancelled(c)
    \/ ServeRead \/ ServeChange
    \/ \E b \in Boxes : Deliver(b)

Spec == Init /\ [][Next]_vars

\* The event loop runs what is ready, every call ends by its answer or by the
\* socket timeout, and the helper goes on to the next connection.
FairSpec ==
    /\ Spec
    /\ \A r \in Readers : WF_vars(ReaderStep(r))
    /\ \A c \in Changes : WF_vars(ChangeConnects(c)) /\ WF_vars(ChangeAnswered(c) \/ ChangeFails(c))
    /\ WF_vars(ServeRead) /\ WF_vars(ServeChange)

----------------------------------------------------------------------------
(* Properties *)

Lists == [shows : SUBSET Changes, newest : 0..MaxUid]

TypeOK ==
    /\ cache \in [Scopes -> Lists \cup {None}]
    /\ inflight \in [Boxes -> Nat] /\ quarantined \subseteq Boxes
    /\ reader \in [Readers -> [at : {"idle", "top", "starting", "queued", "served"},
                               op : {"list", "latest"}, scope : Scopes \cup {None}, value : Lists,
                               crossed : BOOLEAN, since : Lists]]
    /\ change \in [Changes -> [at : {"new", "starting", "queued", "served", "refused", "loose",
                                     "over"},
                               kind : AllKinds \cup {None}, src : Boxes \cup {None},
                               dst : Boxes \cup {None},
                               told : {None, "ok", "failed", "cancelled"}]]
    /\ queue \in Seq(Readers \cup Changes)
    /\ applied \subseteq Changes /\ newest \in [Boxes -> 0..MaxUid]
    /\ announced \in [Boxes -> 0..MaxUid]
    /\ answer \in [value : Lists, since : Lists] \cup {None}

\* A list shows every change that had been answered, or had failed in
\* transport and took effect before the call, wherever the list comes from:
\* the cache, a read that was under way, or a read of its own.
ReturnedShowsSettled ==
    answer # None => answer.since.shows \subseteq answer.value.shows

\* A message announced by latest_message_uid is in every list asked for later.
AnnouncedIsListed ==
    answer # None => answer.since.newest <= answer.value.newest

\* While a permanent delete is under way, also one whose request was cancelled
\* or whose call failed but may still take effect, no list of its mailbox is
\* cached.
NothingCachedAcrossDelete ==
    \A c \in Changes : change[c].kind = "delete" /\ (change[c].at # "over" \/ Queued(c)) =>
        cache[change[c].src] = None

\* Every read ends: nobody waits for ever for a delete that failed.
EveryReadEnds == \A r \in Readers : reader[r].at # "idle" ~> reader[r].at = "idle"

\* Lists are current: with what was settled or announced before they were asked
\* for, and with nothing that a permanent delete may still remove.
ListsCurrent ==
    TypeOK /\ ReturnedShowsSettled /\ AnnouncedIsListed /\ NothingCachedAcrossDelete
=============================================================================
