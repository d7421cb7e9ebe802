---------------------------- MODULE AccountCache ----------------------------
(***************************************************************************)
(* The account list of the gateway (gateway.py, HelperGateway): a short    *)
(* cache, one shared read at a time, and account changes that outlive the  *)
(* HTTP request that asked for them.  All of it runs on one event loop:    *)
(* what lies between two awaits is one step.  Every helper call is made by *)
(* a thread that connects, sends and waits; the helper accepts connections *)
(* in the order they were made and serves them one after the other.  A     *)
(* call may fail at the client while its request still waits there.        *)
(*                                                                         *)
(* Abstractions.  A list of accounts is the set of the changes it shows.   *)
(* An authorization key stands for its token.  A cache entry that expires  *)
(* is dropped.  Changes made beside the gateway (Maddy's command line) are *)
(* not in the set: against those only the two seconds of the cache help.   *)
(*                                                                         *)
(* A definition just before another one with the same parameters is a      *)
(* wrong version of it; PROJECT.json lists which property catches which.   *)
(***************************************************************************)
EXTENDS Integers, Sequences

CONSTANTS
    Readers,  \* HTTP requests that call list_accounts
    Keys,     \* authorization cache keys
    Muts,     \* account changes, each requested once
    Tasks,    \* pool of shared read tasks
    None

\* What every instance has to give; the MC modules assume it of theirs.
AccountCacheAssumption ==
    /\ Muts \cap Tasks = {}
    /\ None \notin Readers \cup Keys \cup Muts \cup Tasks
    /\ \A S \in SUBSET Muts : S # None

VARIABLES
    generation,   \* _account_generation
    inflight,     \* _account_mutations_inflight
    quarantined,  \* _account_cache_quarantined
    cache,        \* _account_cache
    flight,       \* _account_flight
    task,         \* the read tasks
    mut,          \* the mutation tasks
    caller,       \* where each call of list_accounts is
    answer,       \* what it returned
    queue,        \* connections the helper has to serve
    applied       \* the changes that took effect

state == <<generation, inflight, quarantined, cache, flight>>
vars == <<state, task, mut, caller, answer, queue, applied>>

Resting == [at |-> "idle", key |-> None, task |-> None]
NoTask == [at |-> "done", gen |-> 0, key |-> None, value |-> None]

Init ==
    /\ generation = 0 /\ inflight = 0 /\ quarantined = FALSE
    /\ cache = None /\ flight = None
    /\ task = [t \in Tasks |-> NoTask]
    /\ mut = [m \in Muts |-> "new"]
    /\ caller = [r \in Readers |-> Resting]
    /\ answer = [r \in Readers |-> None]
    /\ queue = <<>> /\ applied = {}

----------------------------------------------------------------------------
(* list_accounts *)

ListAccounts(r, k) ==
    /\ caller[r].at = "idle"
    /\ caller' = [caller EXCEPT ![r] = [at |-> "top", key |-> k, task |-> None]]
    /\ answer' = [answer EXCEPT ![r] = None]
    /\ UNCHANGED <<state, task, mut, queue, applied>>

Waiters(t) == {r \in Readers : caller[r].task = t}

\* A task that is over and that nobody waits for any more is forgotten.
Release(r) ==
    task' = [t \in Tasks |-> IF task[t].at = "done" /\ Waiters(t) \subseteq {r}
                             THEN NoTask ELSE task[t]]

\* The caller returns the list v, fetched under key k.
Returned(r, v, k) ==
    /\ caller' = [caller EXCEPT ![r] = Resting]
    /\ answer' = [answer EXCEPT ![r] = [value |-> v, key |-> k]]

\* The cache may be used: it was filled with the same authority and no change
\* is in doubt.
Usable(k) == ~quarantined /\ cache # None /\ cache.key = k

\* Everyone waits for the changes in flight (_wait_for_account_mutations).
AtTop(r) == caller[r].at = "top" /\ inflight = 0

ReadCache(r) ==
    /\ AtTop(r) /\ Usable(caller[r].key)
    /\ Returned(r, cache.value, cache.key)
    /\ UNCHANGED <<state, task, mut, queue, applied>>

\* A flight can be shared if it began after the last change and with the same
\* authority.
Shareable(k) == flight # None /\ task[flight].gen = generation /\ task[flight].key = k

WaitsFor(r, t) ==
    caller' = [caller EXCEPT ![r] = [at |-> "waiting", key |-> caller[r].key, task |-> t]]

JoinFlight(r) ==
    /\ AtTop(r) /\ ~Usable(caller[r].key) /\ Shareable(caller[r].key)
    /\ WaitsFor(r, flight)
    /\ UNCHANGED <<state, task, mut, answer, queue, applied>>

Queued(x) == \E i \in DOMAIN queue : queue[i] = x
Unused(t) == task[t] = NoTask /\ ~Queued(t)

\* _start_account_read; an older flight is detached, not cancelled.
StartAccountRead(r) ==
    /\ AtTop(r) /\ ~Usable(caller[r].key) /\ ~Shareable(caller[r].key)
    /\ \E t \in Tasks :
        /\ Unused(t)
        /\ task' = [task EXCEPT ![t] = [at |-> "starting", gen |-> generation,
                                        key |-> caller[r].key, value |-> None]]
        /\ flight' = t
        /\ WaitsFor(r, t)
    /\ UNCHANGED <<generation, inflight, quarantined, cache, mut, answer, queue, applied>>

\* The flight a caller waits for is over: its error is raised, its list is
\* returned, or, if a change began meanwhile, the caller starts again.
CrossedUnchecked(t) == FALSE
Crossed(t) == task[t].gen # generation \/ inflight # 0

FlightOver(r) ==
    LET t == caller[r].task
    IN  /\ caller[r].at = "waiting" /\ task[t].at = "done"
        /\ \/ /\ task[t].value = None
              /\ caller' = [caller EXCEPT ![r] = Resting] /\ answer' = answer
           \/ /\ task[t].value # None /\ Crossed(t)
              /\ caller' = [caller EXCEPT
                               ![r] = [at |-> "top", key |-> caller[r].key, task |-> None]]
              /\ answer' = answer
           \/ /\ task[t].value # None /\ ~Crossed(t)
              /\ Returned(r, task[t].value, task[t].key)
        /\ Release(r)
        /\ UNCHANGED <<state, mut, queue, applied>>

\* The HTTP request is cancelled; shield keeps the flight alive.
CallerCancelled(r) ==
    /\ caller[r].at # "idle"
    /\ caller' = [caller EXCEPT ![r] = Resting]
    /\ Release(r)
    /\ UNCHANGED <<state, mut, answer, queue, applied>>

----------------------------------------------------------------------------
(* _run_account_read *)

ReadConnects(t) ==
    /\ task[t].at = "starting"
    /\ task' = [task EXCEPT ![t] = [at |-> "queued", gen |-> task[t].gen, key |-> task[t].key,
                                    value |-> None]]
    /\ queue' = Append(queue, t)
    /\ UNCHANGED <<state, mut, caller, answer, applied>>

\* The task ends with a list or with an error.
EndTask(t, v) ==
    task' = [task EXCEPT ![t] = IF Waiters(t) = {} THEN NoTask
                                ELSE [at |-> "done", gen |-> task[t].gen, key |-> task[t].key,
                                      value |-> v]]

\* finally: the task leaves the flight before anyone sees it done.
LeaveFlight(t) == flight' = IF flight = t THEN None ELSE flight

\* The answer arrives; only one that no change has crossed fills the cache.
Refills(t) == task[t].gen = generation /\ inflight = 0

ReadArrives(t) ==
    /\ task[t].at = "served"
    /\ EndTask(t, task[t].value)
    /\ IF Refills(t)
       THEN quarantined' = FALSE /\ cache' = [value |-> task[t].value, key |-> task[t].key]
       ELSE UNCHANGED <<quarantined, cache>>
    /\ LeaveFlight(t)
    /\ UNCHANGED <<generation, inflight, mut, caller, answer, queue, applied>>

\* The call fails: no connection, a timeout, an error of the helper.
ReadFails(t) ==
    /\ task[t].at \in {"starting", "queued", "served"}
    /\ EndTask(t, None)
    /\ LeaveFlight(t)
    /\ UNCHANGED <<generation, inflight, quarantined, cache, mut, caller, answer, queue, applied>>

CacheExpires ==
    /\ cache # None /\ cache' = None
    /\ UNCHANGED <<generation, inflight, quarantined, flight, task, mut, caller, answer, queue,
                   applied>>

----------------------------------------------------------------------------
(* Account changes: create, password, append limit, disable, delete *)

\* _invalidate_accounts
InvalidateAccounts == generation' = generation + 1 /\ cache' = None /\ flight' = None

AccountMutation(m) ==
    /\ mut[m] = "new"
    /\ mut' = [mut EXCEPT ![m] = "starting"]
    /\ InvalidateAccounts /\ inflight' = inflight + 1
    /\ UNCHANGED <<quarantined, task, caller, answer, queue, applied>>

MutationConnects(m) ==
    /\ mut[m] = "starting"
    /\ mut' = [mut EXCEPT ![m] = "queued"]
    /\ queue' = Append(queue, m)
    /\ UNCHANGED <<state, task, caller, answer, applied>>

\* _run_account_mutation: the helper's answer, a result or an error
MutationArrives(m) ==
    /\ mut[m] = "served"
    /\ mut' = [mut EXCEPT ![m] = "settled"]
    /\ InvalidateAccounts /\ inflight' = inflight - 1
    /\ UNCHANGED <<quarantined, task, caller, answer, queue, applied>>

\* A transport failure; what was sent stays with the helper.
MutationFailsWaiting(m) ==
    /\ mut[m] \in {"starting", "queued", "served"}
    /\ mut' = [mut EXCEPT ![m] = "settled"]
    /\ InvalidateAccounts /\ inflight' = inflight
    /\ quarantined' = TRUE
    /\ UNCHANGED <<task, caller, answer, queue, applied>>

MutationFails(m) ==
    /\ mut[m] \in {"starting", "queued", "served"}
    /\ mut' = [mut EXCEPT ![m] = "settled"]
    /\ InvalidateAccounts /\ inflight' = inflight - 1
    /\ quarantined' = TRUE
    /\ UNCHANGED <<task, caller, answer, queue, applied>>

----------------------------------------------------------------------------
(* The helper *)

\* The next connection; its client may have gone.
ServeRead ==
    /\ queue # <<>> /\ Head(queue) \in Tasks
    /\ queue' = Tail(queue)
    /\ LET t == Head(queue)
       IN  task' = IF task[t].at = "queued"
                   THEN [task EXCEPT ![t] = [at |-> "served", gen |-> task[t].gen,
                                             key |-> task[t].key, value |-> applied]]
                   ELSE task
    /\ UNCHANGED <<state, mut, caller, answer, applied>>

Answered(m) == mut' = IF mut[m] = "queued" THEN [mut EXCEPT ![m] = "served"] ELSE mut

ServeMutation ==
    /\ queue # <<>> /\ Head(queue) \in Muts
    /\ queue' = Tail(queue)
    /\ applied' = applied \cup {Head(queue)}
    /\ Answered(Head(queue))
    /\ UNCHANGED <<state, task, caller, answer>>

\* The change is refused or fails without effect, and the helper says so.
RefuseMutation ==
    /\ queue # <<>> /\ Head(queue) \in Muts
    /\ queue' = Tail(queue)
    /\ Answered(Head(queue))
    /\ UNCHANGED <<state, task, caller, answer, applied>>

\* The helper dies over a request, before or after its effect; the sockets
\* that wait are kept for the next activation.
HelperDies ==
    /\ queue # <<>>
    /\ queue' = Tail(queue)
    /\ applied' \in {applied, applied \cup ({Head(queue)} \cap Muts)}
    /\ UNCHANGED <<state, task, mut, caller, answer>>

----------------------------------------------------------------------------
(* Behaviours *)

CallerStep(r) == ReadCache(r) \/ JoinFlight(r) \/ StartAccountRead(r) \/ FlightOver(r)
CallEnds(t) == ReadArrives(t) \/ ReadFails(t)
MutationEnds(m) == MutationArrives(m) \/ MutationFails(m)
HelperStep == ServeRead \/ ServeMutation \/ RefuseMutation \/ HelperDies

Next ==
    \/ \E r \in Readers :
        CallerStep(r) \/ CallerCancelled(r) \/ \E k \in Keys : ListAccounts(r, k)
    \/ \E t \in Tasks : ReadConnects(t) \/ CallEnds(t)
    \/ \E m \in Muts : AccountMutation(m) \/ MutationConnects(m) \/ MutationEnds(m)
    \/ CacheExpires
    \/ HelperStep

Spec == Init /\ [][Next]_vars

\* The event loop runs what is ready, a call ends by an answer or by the socket
\* timeout, and the helper goes on to the next connection.
FairSpec ==
    /\ Spec
    /\ \A r \in Readers : WF_vars(CallerStep(r))
    /\ \A t \in Tasks : WF_vars(CallEnds(t))
    /\ \A m \in Muts : WF_vars(MutationEnds(m))
    /\ WF_vars(HelperStep)

----------------------------------------------------------------------------
(* Properties *)

Lists == SUBSET Muts

TypeOK ==
    /\ generation \in Nat /\ inflight \in Nat /\ quarantined \in BOOLEAN
    /\ cache \in [value : Lists, key : Keys] \cup {None}
    /\ flight \in Tasks \cup {None}
    /\ task \in [Tasks -> [at : {"starting", "queued", "served", "done"}, gen : Nat,
                           key : Keys \cup {None}, value : Lists \cup {None}]]
    /\ mut \in [Muts -> {"new", "starting", "queued", "served", "settled"}]
    /\ caller \in [Readers -> [at : {"idle", "top", "waiting"}, key : Keys \cup {None},
                               task : Tasks \cup {None}]]
    /\ answer \in [Readers -> [value : Lists, key : Keys] \cup {None}]
    /\ queue \in Seq(Tasks \cup Muts)
    /\ applied \in Lists

\* Whatever the cache holds is the list the helper has now, and no change is on
\* its way there, not even one whose call was given up.
CacheIsExact ==
    cache # None =>
        /\ cache.value = applied
        /\ \A m \in Muts : mut[m] \in {"new", "settled"} /\ ~Queued(m)

\* The gateway implements the register: every list that list_accounts returns,
\* from the cache, from a shared flight or from its own, is the helper's list
\* at the moment of return, fetched with the caller's own authority.
Register ==
    INSTANCE AccountRegister WITH reading <- [r \in Readers |-> caller[r].key]

ImplementsRegister == Register!Spec

\* Every call of list_accounts ends: no caller waits for ever for a change
\* whose call failed, or for a flight that was detached.
EveryCallEnds == \A r \in Readers : caller[r].at # "idle" ~> caller[r].at = "idle"

\* The cache is exact in every state it can be in.
CacheSound == TypeOK /\ CacheIsExact
=============================================================================
