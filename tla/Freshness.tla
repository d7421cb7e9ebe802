------------------------------ MODULE Freshness ------------------------------
(***************************************************************************)
(* Confirmations of message actions (web.py _FreshnessStore,               *)
(* _ParsedMessageCache and the handlers that use them).  A page that shows *)
(* or selects messages is given a one-use token for each, bound to the     *)
(* session, the message's UID and a digest of its content.  A move or a    *)
(* deletion consumes its tokens, reads every message again, and calls the  *)
(* mail service only when all of them still are what was shown: other      *)
(* clients move messages meanwhile, and the UIDs of a mailbox that is      *)
(* deleted and created again name other messages.                          *)
(*                                                                         *)
(* One mailbox of one account; a content stands for its digest.  A handler *)
(* is cut where it awaits.                                                 *)
(***************************************************************************)
EXTENDS Integers, Sequences, SequencesExt, FiniteSetsExt

CONSTANTS
    Owners,         \* the sessions
    Uids,           \* naturals
    Contents, None,
    SizeOf,         \* the size of each content
    Requests,
    TTL,            \* lifetime of a token
    Capacity,       \* MESSAGE_FRESHNESS_CAPACITY
    PerOwner,       \* MESSAGE_FRESHNESS_PER_SESSION
    MaxBatch,       \* MAX_BULK_MESSAGE_UIDS
    Concurrency,    \* BULK_FRESHNESS_CONCURRENCY
    CacheTTL, CacheCapacity, CacheBytes,
    PreviewMax,     \* MAX_RAW_MESSAGE_BYTES
    MaxTokens,      \* bound: tokens issued
    MaxTime,        \* bound: the clock
    MaxChanges      \* bound: messages other clients deliver or take away

\* What every instance has to give; the MC modules assume it of theirs.
FreshnessAssumption ==
    /\ None \notin Contents /\ Uids \subseteq Nat
    /\ SizeOf \in [Contents -> Nat \ {0}]
    /\ {TTL, CacheTTL, CacheCapacity, CacheBytes, Concurrency} \subseteq Nat \ {0}
    /\ 0 < MaxBatch /\ MaxBatch <= PerOwner /\ PerOwner <= Capacity

VARIABLES
    box, changes,   \* the message under each UID, and how many changes others made
    now,
    store,          \* the tokens in order of issue, and in that order by session
    cache,          \* the previews, least recently used first, and their size
    req,            \* the requests being handled
    log             \* what each token was issued for, and how many calls it admitted

vars == <<box, changes, now, store, cache, req, log>>

Unread == "unread"
Idle == [st |-> "idle", kind |-> "none", owner |-> None, uids |-> <<>>, toks |-> <<>>, at |-> 0,
         got |-> <<>>, was |-> <<>>, judged |-> {}, ok |-> FALSE]

Selections == {s \in UNION {[1 .. n -> Uids] : n \in 1 .. MaxBatch} : IsInjective(s)}

Init ==
    /\ box \in [Uids -> Contents] /\ changes = 0
    /\ now = 0
    /\ store = [entries |-> <<>>, owners |-> <<>>]
    /\ cache = [list |-> <<>>, size |-> 0]
    /\ req = [r \in Requests |-> Idle]
    /\ log = <<>>

-----------------------------------------------------------------------------
(* _FreshnessStore.                                                        *)

Tokens(s) == {s.entries[i].tok : i \in DOMAIN s.entries}
Entry(s, t) == CHOOSE e \in ToSet(s.entries) : e.tok = t
Owned(s, o) == IF o \in DOMAIN s.owners THEN s.owners[o] ELSE <<>>

(* A session without tokens is forgotten. *)
Drop(s, t) ==
    IF t \notin Tokens(s) THEN s
    ELSE LET o == Entry(s, t).owner
             left == SelectSeq(s.owners[o], LAMBDA x : x # t)
             kept == IF left = <<>> THEN DOMAIN s.owners \ {o} ELSE DOMAIN s.owners
         IN [entries |-> SelectSeq(s.entries, LAMBDA e : e.tok # t),
             owners |-> [p \in kept |-> IF p = o THEN left ELSE s.owners[p]]]

RemoveAll(s, ts) == FoldLeft(Drop, s, ts)
Oldest(s, n) == [i \in 1 .. n |-> s.entries[i].tok]

(* _prune stops at the first token that is still valid. *)
Prune(s) ==
    RemoveAll(s, Oldest(s, Max({n \in 0 .. Len(s.entries) :
                                   \A i \in 1 .. n : s.entries[i].until <= now})))

MakeRoom(s, o) ==
    LET mine == Owned(s, o)
    IN RemoveAll(s, SubSeq(mine, 1, Len(mine) - PerOwner + 1))

Add(s, e) ==
    [entries |-> Append(s.entries, e),
     owners |-> [p \in DOMAIN s.owners \cup {e.owner} |->
                    IF p = e.owner THEN Append(Owned(s, p), e.tok) ELSE s.owners[p]]]

Trim(s) == RemoveAll(s, Oldest(s, Max({0, Len(s.entries) - Capacity})))

IssueOne(s, e) == Trim(Add(MakeRoom(Prune(s), e.owner), e))

(* issue, for each of a selection in order. *)
Issue(o, us, digest) ==
    LET new == [i \in DOMAIN us |-> [tok |-> Len(log) + i, owner |-> o, uid |-> us[i],
                                     digest |-> digest[us[i]], until |-> now + TTL]]
    IN /\ Len(log) + Len(us) <= MaxTokens
       /\ store' = FoldLeft(IssueOne, store, new)
       /\ log' = log \o [i \in DOMAIN us |-> [owner |-> o, uid |-> us[i], digest |-> digest[us[i]],
                                             until |-> now + TTL, uses |-> 0]]

(* consume: the token of another session is left alone. *)
Consume(s, t, o) ==
    LET p == Prune(s)
    IN IF t \in Tokens(p) /\ Entry(p, t).owner = o
       THEN [store |-> Drop(p, t), ok |-> TRUE]
       ELSE [store |-> p, ok |-> FALSE]

-----------------------------------------------------------------------------
(* _ParsedMessageCache.                                                    *)

Bytes(list) == FoldLeft(LAMBDA n, e : n + SizeOf[e.digest], 0, list)

Without(c, gone) ==
    [list |-> SelectSeq(c.list, LAMBDA e : e \notin gone),
     size |-> c.size - Bytes(SelectSeq(c.list, LAMBDA e : e \in gone))]

Fresh(c) == Without(c, {e \in ToSet(c.list) : e.until <= now})
Invalidate(c, us) == Without(c, {e \in ToSet(c.list) : e.uid \in us})
Cached(c) == {c.list[i].uid : i \in DOMAIN c.list}
Preview(c, u) == CHOOSE e \in ToSet(c.list) : e.uid = u

(* The least recently used previews leave until the new one fits. *)
Evict(c, size) ==
    LET left(n) == SubSeq(c.list, n + 1, Len(c.list))
        dropped(n) == Bytes(SubSeq(c.list, 1, n))
        fits(n) == Len(c.list) - n < CacheCapacity /\ c.size - dropped(n) + size <= CacheBytes
        n == Min({k \in 0 .. Len(c.list) : k = Len(c.list) \/ fits(k)})
    IN [list |-> left(n), size |-> c.size - dropped(n)]

Stored(c, u, d) ==
    [list |-> Append(c.list, [uid |-> u, digest |-> d, until |-> now + CacheTTL]),
     size |-> c.size + SizeOf[d]]

(* Mutant: the preview that another request stored meanwhile is replaced, its size is kept. *)
MutPut(c, u, d) ==
    IF SizeOf[d] > CacheBytes \div 2 THEN c
    ELSE LET p == Fresh(c)
         IN Stored(Evict([p EXCEPT !.list = SelectSeq(@, LAMBDA e : e.uid # u)], SizeOf[d]), u, d)

Put(c, u, d) ==
    IF SizeOf[d] > CacheBytes \div 2 THEN c
    ELSE Stored(Evict(Invalidate(Fresh(c), {u}), SizeOf[d]), u, d)

-----------------------------------------------------------------------------
(* Other clients, and time.                                                *)

World == UNCHANGED <<box, changes, now>>

(* A message is delivered, or the UID of a mailbox created anew names another. *)
Arrive(u, c) ==
    /\ changes < MaxChanges /\ changes' = changes + 1
    /\ box[u] # c /\ box' = [box EXCEPT ![u] = c]
    /\ UNCHANGED <<now, store, cache, req, log>>

Leave(u) ==
    /\ changes < MaxChanges /\ changes' = changes + 1
    /\ box[u] # None /\ box' = [box EXCEPT ![u] = None]
    /\ UNCHANGED <<now, store, cache, req, log>>

Tick ==
    /\ now < MaxTime /\ now' = now + 1
    /\ UNCHANGED <<box, changes, store, cache, req, log>>

-----------------------------------------------------------------------------
(* Reading messages: one of the first few that are still to be read, or its
   read fails. *)

Open(r, k, o, us, ts, s) ==
    LET all(x) == [u \in ToSet(us) |-> x]
    IN req' = [req EXCEPT ![r] = [Idle EXCEPT !.st = s, !.kind = k, !.owner = o, !.uids = us,
                                              !.toks = ts, !.at = now, !.got = all(Unread),
                                              !.was = all(None)]]

Remaining(r) == SelectSeq(req[r].uids, LAMBDA u : u \notin req[r].judged)
Turn(r) == LET q == Remaining(r) IN {q[i] : i \in 1 .. Min({Concurrency, Len(q)})}

Reading(u) == {box[u], None}

(* A page that cannot be read is refused, an action has its proofs judged first. *)
Read(r, u) ==
    /\ req[r].st \in {"reading", "verifying"} /\ u \in Turn(r) /\ req[r].got[u] = Unread
    /\ \E c \in Reading(u) :
          req' = IF c = None /\ req[r].st = "reading" THEN [req EXCEPT ![r] = Idle]
                 ELSE [req EXCEPT ![r].got[u] = c, ![r].was[u] = box[u],
                                  ![r].judged = IF req[r].st = "reading" THEN @ \cup {u} ELSE @]
    /\ UNCHANGED <<store, cache, log>> /\ World

AllRead(r) == req[r].judged = ToSet(req[r].uids)

-----------------------------------------------------------------------------
(* api_message_detail.                                                     *)

(* A preview in the cache is shown again, with a new token. *)
DetailHit(o, u) ==
    LET c == Fresh(cache)
    IN /\ u \in Cached(c)
       /\ Issue(o, <<u>>, [v \in {u} |-> Preview(c, u).digest])
       /\ cache' = [c EXCEPT !.list = Append(SelectSeq(@, LAMBDA e : e.uid # u), Preview(c, u))]
       /\ UNCHANGED req /\ World

DetailMiss(r, o, u) ==
    /\ req[r] = Idle
    /\ cache' = Fresh(cache) /\ u \notin Cached(cache')
    /\ Open(r, "detail", o, <<u>>, <<>>, "reading")
    /\ UNCHANGED <<store, log>> /\ World

(* A message too large for a preview is not kept, but may be acted on. *)
DetailParsed(r) ==
    LET u == req[r].uids[1]
        d == req[r].got[u]
    IN /\ req[r].kind = "detail" /\ req[r].st = "reading" /\ AllRead(r)
       /\ \/ /\ SizeOf[d] > PreviewMax /\ UNCHANGED cache
             /\ req' = [req EXCEPT ![r].st = "parsed"]
          \/ /\ SizeOf[d] <= PreviewMax /\ cache' = Put(cache, u, d)
             /\ req' = [req EXCEPT ![r].st = "parsed"]
          \/ req' = [req EXCEPT ![r] = Idle] /\ UNCHANGED cache    \* it cannot be parsed
       /\ UNCHANGED <<store, log>> /\ World

DetailAnswer(r) ==
    /\ req[r].st = "parsed"
    /\ Issue(req[r].owner, req[r].uids, req[r].got)
    /\ req' = [req EXCEPT ![r] = Idle]
    /\ UNCHANGED cache /\ World

-----------------------------------------------------------------------------
(* api_message_action_snapshot and api_message_action_snapshots.           *)

SnapshotOpen(r, o, us) ==
    /\ req[r] = Idle
    /\ Open(r, "snapshot", o, us, <<>>, "reading")
    /\ UNCHANGED <<store, cache, log>> /\ World

(* All tokens are issued together. *)
SnapshotAnswer(r) ==
    /\ req[r].kind = "snapshot" /\ AllRead(r)
    /\ Issue(req[r].owner, req[r].uids, req[r].got)
    /\ req' = [req EXCEPT ![r] = Idle]
    /\ UNCHANGED cache /\ World

-----------------------------------------------------------------------------
(* Moves and deletions.  A "delete" is the permanent deletion of a selection;
   the actions on one message and the moves of a selection are a "move". *)

Take(s, o, u, t) ==
    LET c == Consume(s, t, o) IN [c EXCEPT !.ok = @ /\ log[t].uid = u]

(* The tokens are consumed up to the first one that is refused. *)
TakeAll(o, us, ts) ==
    FoldLeft(LAMBDA c, i : IF c.ok THEN Take(c.store, o, us[i], ts[i]) ELSE c,
             [store |-> store, ok |-> TRUE], [i \in DOMAIN us |-> i])

Proofs(us) == {ts \in [DOMAIN us -> DOMAIN log] : IsInjective(ts)}

Begin(r, k, o, us) ==
    /\ req[r] = Idle
    /\ \E ts \in Proofs(us) :
          LET c == TakeAll(o, us, ts)
          IN /\ store' = c.store
             /\ IF c.ok THEN Open(r, k, o, us, ts, "verifying") ELSE UNCHANGED req
    /\ UNCHANGED <<cache, log>> /\ World

(* The actions on one message. *)
SingleOpen(r, o, u) == Begin(r, "move", o, <<u>>)

(* A permanent deletion takes its selection in order of UID. *)
ActOpen(r, k, o, us) ==
    /\ k = "delete" => \A i, j \in DOMAIN us : i < j => us[i] < us[j]
    /\ Begin(r, k, o, us)

TokenOf(r, u) == req[r].toks[CHOOSE i \in DOMAIN req[r].uids : req[r].uids[i] = u]

Unchanged(r, u) == req[r].got[u] = log[TokenOf(r, u)].digest

(* The rest of _verify_consumed_message_freshness, for one message. *)
Judge(r, u) ==
    /\ req[r].st = "verifying" /\ u \in Turn(r) /\ req[r].got[u] # Unread
    /\ cache' = IF Unchanged(r, u) THEN cache ELSE Invalidate(cache, {u})
    /\ req' = [req EXCEPT ![r].judged = @ \cup {u}]
    /\ UNCHANGED <<store, log>> /\ World

Deletes(r) == req[r].kind = "delete"

(* Mutant: the proofs that hold are acted on, the others are left out. *)
MutDecide(r) ==
    LET good == SelectSeq(req[r].uids, LAMBDA u : Unchanged(r, u))
    IN /\ req[r].st = "verifying" /\ AllRead(r)
       /\ IF good # <<>>
          THEN /\ cache' = IF Deletes(r) THEN Invalidate(cache, ToSet(req[r].uids)) ELSE cache
               /\ req' = [req EXCEPT ![r].st = "calling"]
               /\ log' = [t \in DOMAIN log |-> IF t \in ToSet(req[r].toks)
                                               THEN [log[t] EXCEPT !.uses = @ + 1] ELSE log[t]]
          ELSE req' = [req EXCEPT ![r] = Idle] /\ UNCHANGED <<cache, log>>
       /\ UNCHANGED store /\ World

(* One stale proof refuses the whole selection. *)
Decide(r) ==
    /\ req[r].st = "verifying" /\ AllRead(r)
    /\ IF \A u \in ToSet(req[r].uids) : Unchanged(r, u)
       THEN /\ cache' = IF Deletes(r) THEN Invalidate(cache, ToSet(req[r].uids)) ELSE cache
            /\ req' = [req EXCEPT ![r].st = "calling"]
            /\ log' = [t \in DOMAIN log |-> IF t \in ToSet(req[r].toks)
                                            THEN [log[t] EXCEPT !.uses = @ + 1] ELSE log[t]]
       ELSE req' = [req EXCEPT ![r] = Idle] /\ UNCHANGED <<cache, log>>
    /\ UNCHANGED store /\ World

(* move_message_to_folder looks for its target after the token was consumed. *)
NoTarget(r) ==
    /\ req[r].st = "calling" /\ req[r].kind = "move" /\ Len(req[r].uids) = 1
    /\ req' = [req EXCEPT ![r] = Idle]
    /\ UNCHANGED <<store, cache, log>> /\ World

(* The call takes the messages out of the mailbox, or fails before. *)
Effect(r) ==
    /\ box' = [u \in Uids |-> IF u \in ToSet(req[r].uids) THEN None ELSE box[u]]
    /\ UNCHANGED <<changes, now>>

Call(r) ==
    /\ req[r].st = "calling"
    /\ \/ /\ Effect(r)
          /\ \E answered \in BOOLEAN :
                req' = [req EXCEPT ![r].st = "called", ![r].ok = answered]
       \/ World /\ req' = [req EXCEPT ![r].st = "called"]
    /\ UNCHANGED <<store, cache, log>>

(* A move whose call failed keeps its previews. *)
ActAnswer(r) ==
    /\ req[r].st = "called"
    /\ cache' = IF req[r].ok \/ Deletes(r) THEN Invalidate(cache, ToSet(req[r].uids)) ELSE cache
    /\ req' = [req EXCEPT ![r] = Idle]
    /\ UNCHANGED <<box, changes, now, store, log>>

(* The client disconnects: tokens that were consumed stay so, and a call under
   way may still take effect. *)
Cancel(r) ==
    /\ req[r].st \in {"reading", "parsed", "verifying", "calling"}
    /\ IF req[r].st = "calling"
       THEN /\ req' = [req EXCEPT ![r].st = "orphaned"]
            /\ cache' = IF Deletes(r) THEN Invalidate(cache, ToSet(req[r].uids)) ELSE cache
       ELSE req' = [req EXCEPT ![r] = Idle] /\ UNCHANGED cache
    /\ UNCHANGED <<store, log>> /\ World

Orphan(r) ==
    /\ req[r].st = "orphaned"
    /\ Effect(r) \/ World
    /\ req' = [req EXCEPT ![r] = Idle]
    /\ UNCHANGED <<store, cache, log>>

Next ==
    \/ Tick
    \/ \E u \in Uids : Leave(u) \/ \E c \in Contents : Arrive(u, c)
    \/ \E o \in Owners, u \in Uids : DetailHit(o, u)
    \/ \E r \in Requests :
          \/ \E o \in Owners, u \in Uids : DetailMiss(r, o, u) \/ SingleOpen(r, o, u)
          \/ \E o \in Owners, us \in Selections :
                \/ SnapshotOpen(r, o, us)
                \/ \E k \in {"move", "delete"} : ActOpen(r, k, o, us)
          \/ \E u \in ToSet(req[r].uids) : Read(r, u) \/ Judge(r, u)
          \/ DetailParsed(r) \/ DetailAnswer(r) \/ SnapshotAnswer(r)
          \/ Decide(r) \/ NoTarget(r) \/ Call(r) \/ ActAnswer(r) \/ Cancel(r) \/ Orphan(r)

Spec == Init /\ [][Next]_vars

-----------------------------------------------------------------------------
(* Type invariant of the mailbox, the token store, the preview cache and the
   requests. *)
TypeOK ==
    /\ box \in [Uids -> Contents \cup {None}] /\ changes \in 0 .. MaxChanges /\ now \in 0 .. MaxTime
    /\ store.entries \in Seq([tok : DOMAIN log, owner : Owners, uid : Uids, digest : Contents,
                              until : Nat])
    /\ store.owners \in [DOMAIN store.owners -> Seq(DOMAIN log)] /\ DOMAIN store.owners \subseteq Owners
    /\ cache.list \in Seq([uid : Uids, digest : Contents, until : Nat]) /\ cache.size \in Nat
    /\ \A r \in Requests :
          /\ req[r].st \in {"idle", "reading", "parsed", "verifying", "calling", "called", "orphaned"}
          /\ req[r].kind \in {"none", "detail", "snapshot", "move", "delete"}
          /\ req[r].judged \subseteq ToSet(req[r].uids)
    /\ log \in Seq([owner : Owners, uid : Uids, digest : Contents, until : Nat, uses : Nat])

(* The tokens listed by session are exactly the tokens of the store, in order,
   within both limits; expiry never decreases along the store, so pruning may
   stop at the first valid token (_FreshnessStore._remove, _prune and issue). *)
StoreExact ==
    /\ DOMAIN store.owners = {store.entries[i].owner : i \in DOMAIN store.entries}
    /\ \A o \in DOMAIN store.owners :
          /\ Len(store.owners[o]) <= PerOwner
          /\ LET mine == SelectSeq(store.entries, LAMBDA e : e.owner = o)
             IN store.owners[o] = [i \in DOMAIN mine |-> mine[i].tok]
    /\ Len(store.entries) <= Capacity
    /\ \A i, j \in DOMAIN store.entries : i < j => store.entries[i].until <= store.entries[j].until

(* When a move or deletion calls the mail service, each of its messages has a
   token that this session was given for this UID, that was valid when it was
   handed in, and for a content the UID still had when the request read it
   (_verify_message_freshness and _verify_bulk_message_freshness). *)
ActsOnShown ==
    \A r \in Requests : req[r].st \in {"calling", "called"} =>
        \A i \in DOMAIN req[r].uids :
            LET shown == log[req[r].toks[i]]
            IN /\ shown.owner = req[r].owner /\ shown.uid = req[r].uids[i]
               /\ shown.until > req[r].at
               /\ shown.digest = req[r].was[req[r].uids[i]]

(* A token admits at most one call, however requests overlap and whatever
   becomes of them (_FreshnessStore.consume removes it before the first await). *)
AdmitsOne == \A t \in DOMAIN log : log[t].uses <= 1

(* The previews are within the limits of the cache, one per message, and the
   size that is kept is their size, whatever was stored by two requests that
   both missed (_ParsedMessageCache). *)
CacheExact ==
    /\ cache.size = Bytes(cache.list) /\ cache.size <= CacheBytes
    /\ Len(cache.list) <= CacheCapacity
    /\ IsInjective([i \in DOMAIN cache.list |-> cache.list[i].uid])

(* A token stands for one action on what its page showed. *)
ActsOnceOnShown == ActsOnShown /\ AdmitsOne

(* Both stores agree with their own indexes and limits. *)
StoresExact == TypeOK /\ StoreExact /\ CacheExact
=============================================================================
