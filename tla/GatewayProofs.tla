--------------------------- MODULE GatewayProofs ----------------------------
(***************************************************************************)
(* Proofs about the gateway, for any number of requests, keys, changes and *)
(* read tasks, and for any mailboxes, readers and changes of an account:   *)
(* the list of accounts is exact, and implements AccountRegister; lists of *)
(* messages and folders are current.                                       *)
(***************************************************************************)
EXTENDS Gateway, FiniteSets, FiniteSetTheorems, TLAPS

----------------------------------------------------------------------------
(* The list of accounts: its inductive invariant. *)

\* The changes whose call is under way.
Active == {m \in Muts : mut[m] \in {"starting", "queued", "served"}}

\* No change waits at the helper.
NoneQueued == \A m \in Muts : ~Queued(m)

\* The counter of changes in flight is exact.
Counted == IsFiniteSet(Active) /\ inflight = Cardinality(Active)

\* What the cache holds is the helper's list, and no change can follow.
CacheCurrent ==
    cache # None => inflight = 0 /\ cache.value = applied /\ NoneQueued

\* A read of the present generation began after the last change settled: the
\* changes that still wait at the helper are ahead of it, and what it was given
\* is the helper's list.
ReadsCurrent ==
    \A t \in Tasks :
        /\ task[t].gen <= generation
        /\ task[t].at \in {"starting", "queued"} => task[t].value = None
        /\ task[t].at = "served" => task[t].value # None
        /\ task[t].at # "done" => task[t].key # None
        /\ task[t].at = "starting" => ~Queued(t)
        /\ task[t].gen = generation =>
            /\ inflight = 0
            /\ task[t].at = "queued" =>
                \A i, j \in DOMAIN queue : queue[i] = t /\ queue[j] \in Muts => j < i
            /\ task[t].value # None => task[t].value = applied /\ NoneQueued

\* A caller waits for a task that was started with its own key, and keeps the
\* task from being used again.
CallersPaired ==
    \A r \in Readers :
        /\ (caller[r].at = "idle") = (caller[r].key = None)
        /\ caller[r].at = "waiting" =>
            caller[r].task \in Tasks /\ task[caller[r].task].key = caller[r].key
        /\ caller[r].at # "waiting" => caller[r].task = None

IInv == TypeOK /\ Counted /\ CacheCurrent /\ ReadsCurrent /\ CallersPaired

----------------------------------------------------------------------------
(* The queue and the counter *)

\* A connection is queued behind the others.
LEMMA AppendAt ==
    ASSUME NEW S, NEW q \in Seq(S), NEW x \in S
    PROVE  /\ Append(q, x) \in Seq(S)
           /\ Len(q) \in Nat /\ DOMAIN q = 1..Len(q)
           /\ DOMAIN Append(q, x) = DOMAIN q \cup {Len(q) + 1}
           /\ \A i \in DOMAIN q : Append(q, x)[i] = q[i]
           /\ Append(q, x)[Len(q) + 1] = x
  OBVIOUS

\* The connection at the head is taken off; the others keep their order.
LEMMA TailAt ==
    ASSUME NEW S, NEW q \in Seq(S), q # <<>>
    PROVE  /\ Tail(q) \in Seq(S)
           /\ Head(q) \in S /\ 1 \in DOMAIN q /\ Head(q) = q[1]
           /\ \A i \in DOMAIN Tail(q) : /\ i \in Nat \ {0} /\ i + 1 \in DOMAIN q
                                        /\ Tail(q)[i] = q[i + 1]
  OBVIOUS

\* No change is under way when the counter is zero.
LEMMA NoneActive ==
    ASSUME Counted, inflight = 0, NEW m \in Muts
    PROVE  mut[m] \notin {"starting", "queued", "served"}
<1>1. Active = {}
  BY FS_EmptySet DEF Counted
<1> QED
  BY <1>1 DEF Active

----------------------------------------------------------------------------
(* Each part of the invariant is kept by every step. *)

\* The gateway starts with an empty cache and nothing under way.
LEMMA InitIInv == ASSUME AccountCacheAssumption, Init PROVE IInv
<1>1. /\ task \in [Tasks -> [at : {"starting", "queued", "served", "done"}, gen : Nat,
                             key : Keys \cup {None}, value : Lists \cup {None}]]
      /\ caller \in [Readers -> [at : {"idle", "top", "waiting"}, key : Keys \cup {None},
                                 task : Tasks \cup {None}]]
  BY DEF Init, NoTask, Resting
<1>2. TypeOK
  <2>1. queue \in Seq(Tasks \cup Muts) /\ applied \in Lists
    BY DEF Init, Lists
  <2>2. /\ mut \in [Muts -> {"new", "starting", "queued", "served", "settled"}]
        /\ answer \in [Readers -> [value : Lists, key : Keys] \cup {None}]
    BY DEF Init
  <2> QED
    BY <1>1, <2>1, <2>2 DEF Init, TypeOK
<1>3. Active = {} /\ Counted
  BY FS_EmptySet DEF Init, Counted, Active
<1>4. CacheCurrent /\ ReadsCurrent /\ CallersPaired
  BY DEF Init, CacheCurrent, ReadsCurrent, CallersPaired, NoneQueued, Queued, NoTask, Resting
<1> QED
  BY <1>2, <1>3, <1>4 DEF IInv

\* Every step keeps the types: the counter never falls below zero, and only a
\* list that was read is cached or returned.
LEMMA TypeStep ==
    ASSUME AccountCacheAssumption, IInv, [Next]_vars
    PROVE  TypeOK'
<1> USE DEF IInv, TypeOK, state, Lists
<1>1. ASSUME NEW r \in Readers, ReadCache(r) PROVE TypeOK'
  BY <1>1 DEF ReadCache, AtTop, Usable, Returned, Resting
<1>2. ASSUME NEW r \in Readers, JoinFlight(r) PROVE TypeOK'
  BY <1>2 DEF JoinFlight, WaitsFor, AtTop, Shareable
<1>3. ASSUME NEW r \in Readers, StartAccountRead(r) PROVE TypeOK'
  BY <1>3 DEF StartAccountRead, WaitsFor, AtTop, Unused, NoTask
<1>4. ASSUME NEW r \in Readers, FlightOver(r) PROVE TypeOK'
  <2> DEFINE t == caller[r].task
  <2>1. t \in Tasks /\ task[t].key \in Keys
    BY <1>4 DEF FlightOver, CallersPaired
  <2>2. task' \in [Tasks -> [at : {"starting", "queued", "served", "done"}, gen : Nat,
                             key : Keys \cup {None}, value : Lists \cup {None}]]
    BY <1>4 DEF FlightOver, Release, NoTask
  <2>3. CASE task[t].value = None /\ caller' = [caller EXCEPT ![r] = Resting] /\ answer' = answer
    BY <1>4, <2>2, <2>3 DEF FlightOver, Resting
  <2>4. CASE /\ caller' = [caller EXCEPT
                              ![r] = [at |-> "top", key |-> caller[r].key, task |-> None]]
             /\ answer' = answer
    BY <1>4, <2>2, <2>4 DEF FlightOver
  <2>5. CASE task[t].value # None /\ Returned(r, task[t].value, task[t].key)
    <3>1. [value |-> task[t].value, key |-> task[t].key] \in [value : Lists, key : Keys]
      BY <2>1, <2>5
    <3> QED
      BY <1>4, <2>2, <2>5, <3>1 DEF FlightOver, Returned, Resting
  <2> QED
    BY <1>4, <2>3, <2>4, <2>5 DEF FlightOver
<1>5. ASSUME NEW r \in Readers, CallerCancelled(r) PROVE TypeOK'
  BY <1>5 DEF CallerCancelled, Release, Resting, NoTask
<1>6. ASSUME NEW r \in Readers, NEW k \in Keys, ListAccounts(r, k) PROVE TypeOK'
  BY <1>6 DEF ListAccounts
<1>7. ASSUME NEW t \in Tasks, ReadConnects(t) PROVE TypeOK'
  BY <1>7 DEF ReadConnects
<1>8. ASSUME NEW t \in Tasks, ReadArrives(t) PROVE TypeOK'
  <2>1. task[t].value \in Lists /\ task[t].key \in Keys
    BY <1>8 DEF ReadArrives, ReadsCurrent
  <2>2. /\ task' \in [Tasks -> [at : {"starting", "queued", "served", "done"}, gen : Nat,
                                key : Keys \cup {None}, value : Lists \cup {None}]]
        /\ flight' \in Tasks \cup {None}
    BY <1>8 DEF ReadArrives, EndTask, LeaveFlight, NoTask
  <2>3. cache' \in [value : Lists, key : Keys] \cup {None} /\ quarantined' \in BOOLEAN
    <3>1. CASE Refills(t)
      <4>1. [value |-> task[t].value, key |-> task[t].key] \in [value : Lists, key : Keys]
        BY <2>1
      <4> QED
        BY <1>8, <3>1, <4>1 DEF ReadArrives
    <3>2. CASE ~Refills(t)
      BY <1>8, <3>2 DEF ReadArrives
    <3> QED
      BY <3>1, <3>2
  <2> QED
    BY <1>8, <2>2, <2>3 DEF ReadArrives
<1>9. ASSUME NEW t \in Tasks, ReadFails(t) PROVE TypeOK'
  BY <1>9 DEF ReadFails, EndTask, LeaveFlight, NoTask
<1>10. ASSUME NEW m \in Muts, AccountMutation(m) PROVE TypeOK'
  BY <1>10 DEF AccountMutation, InvalidateAccounts
<1>11. ASSUME NEW m \in Muts, MutationConnects(m) PROVE TypeOK'
  BY <1>11 DEF MutationConnects
<1>12. ASSUME NEW m \in Muts, MutationArrives(m) PROVE TypeOK'
  BY <1>12, NoneActive DEF MutationArrives, InvalidateAccounts
<1>13. ASSUME NEW m \in Muts, MutationFails(m) PROVE TypeOK'
  BY <1>13, NoneActive DEF MutationFails, InvalidateAccounts
<1>14. CASE CacheExpires
  BY <1>14 DEF CacheExpires
<1>15. CASE ServeRead
  BY <1>15 DEF ServeRead
<1>16. CASE ServeMutation
  BY <1>16 DEF ServeMutation, Answered
<1>17. CASE RefuseMutation
  BY <1>17 DEF RefuseMutation, Answered
<1>18. CASE HelperDies
  BY <1>18 DEF HelperDies
<1>19. CASE UNCHANGED vars
  BY <1>19 DEF vars
<1> QED
  BY <1>1, <1>2, <1>3, <1>4, <1>5, <1>6, <1>7, <1>8, <1>9, <1>10, <1>11, <1>12, <1>13,
     <1>14, <1>15, <1>16, <1>17, <1>18, <1>19
  DEF Next, CallerStep, CallEnds, MutationEnds, HelperStep

\* Every step keeps the counter of changes exact, the failed calls included.
LEMMA CountedStep ==
    ASSUME AccountCacheAssumption, IInv, [Next]_vars
    PROVE  Counted'
<1> USE DEF IInv, TypeOK, state
<1>a. ASSUME UNCHANGED <<mut, inflight>> PROVE Counted'
  BY <1>a DEF Counted, Active
<1>b. ASSUME NEW m \in Muts, mut[m] \in {"starting", "queued", "served"},
             mut' = [mut EXCEPT ![m] = "settled"], inflight' = inflight - 1
      PROVE  Counted'
  <2>1. Active' = Active \ {m} /\ m \in Active
    BY <1>b DEF Active
  <2> QED
    BY <1>b, <2>1, FS_RemoveElement DEF Counted
<1>c. ASSUME NEW m \in Muts, NEW v \in {"queued", "served"}, UNCHANGED inflight,
             mut[m] \in {"starting", "queued"}, mut' = [mut EXCEPT ![m] = v]
      PROVE  Counted'
  <2>1. Active' = Active
    BY <1>c DEF Active
  <2> QED
    BY <1>c, <2>1 DEF Counted
<1>1. ASSUME NEW r \in Readers, ReadCache(r) PROVE Counted'
  BY <1>1, <1>a DEF ReadCache
<1>2. ASSUME NEW r \in Readers, JoinFlight(r) PROVE Counted'
  BY <1>2, <1>a DEF JoinFlight
<1>3. ASSUME NEW r \in Readers, StartAccountRead(r) PROVE Counted'
  BY <1>3, <1>a DEF StartAccountRead
<1>4. ASSUME NEW r \in Readers, FlightOver(r) PROVE Counted'
  BY <1>4, <1>a DEF FlightOver
<1>5. ASSUME NEW r \in Readers, CallerCancelled(r) PROVE Counted'
  BY <1>5, <1>a DEF CallerCancelled
<1>6. ASSUME NEW r \in Readers, NEW k \in Keys, ListAccounts(r, k) PROVE Counted'
  BY <1>6, <1>a DEF ListAccounts
<1>7. ASSUME NEW t \in Tasks, ReadConnects(t) PROVE Counted'
  BY <1>7, <1>a DEF ReadConnects
<1>8. ASSUME NEW t \in Tasks, ReadArrives(t) PROVE Counted'
  BY <1>8, <1>a DEF ReadArrives
<1>9. ASSUME NEW t \in Tasks, ReadFails(t) PROVE Counted'
  BY <1>9, <1>a DEF ReadFails
<1>10. ASSUME NEW m \in Muts, AccountMutation(m) PROVE Counted'
  <2>1. Active' = Active \cup {m} /\ m \notin Active
    BY <1>10 DEF AccountMutation, Active
  <2> QED
    BY <1>10, <2>1, FS_AddElement DEF AccountMutation, Counted
<1>11. ASSUME NEW m \in Muts, MutationConnects(m) PROVE Counted'
  BY <1>11, <1>c DEF MutationConnects
<1>12. ASSUME NEW m \in Muts, MutationArrives(m) PROVE Counted'
  BY <1>12, <1>b DEF MutationArrives
<1>13. ASSUME NEW m \in Muts, MutationFails(m) PROVE Counted'
  BY <1>13, <1>b DEF MutationFails
<1>14. CASE CacheExpires
  BY <1>14, <1>a DEF CacheExpires
<1>15. CASE ServeRead
  BY <1>15, <1>a DEF ServeRead
<1>16. CASE ServeMutation
  BY <1>16, <1>a, <1>c DEF ServeMutation, Answered
<1>17. CASE RefuseMutation
  BY <1>17, <1>a, <1>c DEF RefuseMutation, Answered
<1>18. CASE HelperDies
  BY <1>18, <1>a DEF HelperDies
<1>19. CASE UNCHANGED vars
  BY <1>19, <1>a DEF vars
<1> QED
  BY <1>1, <1>2, <1>3, <1>4, <1>5, <1>6, <1>7, <1>8, <1>9, <1>10, <1>11, <1>12, <1>13,
     <1>14, <1>15, <1>16, <1>17, <1>18, <1>19
  DEF Next, CallerStep, CallEnds, MutationEnds, HelperStep

\* No step leaves a list in the cache that the helper no longer has, or that a
\* change on its way will make old.
LEMMA CacheStep ==
    ASSUME AccountCacheAssumption, IInv, [Next]_vars
    PROVE  CacheCurrent'
<1> USE DEF IInv, TypeOK, state
<1>a. ASSUME UNCHANGED <<cache, inflight, applied, queue>> PROVE CacheCurrent'
  BY <1>a DEF CacheCurrent, NoneQueued, Queued
<1>b. ASSUME cache' = None PROVE CacheCurrent'
  BY <1>b DEF CacheCurrent
<1>c. ASSUME queue # <<>>, queue' = Tail(queue), UNCHANGED <<cache, inflight>>,
             Head(queue) \notin Muts => UNCHANGED applied
      PROVE  CacheCurrent'
  BY <1>c, TailAt DEF CacheCurrent, NoneQueued, Queued
<1>1. ASSUME NEW r \in Readers, ReadCache(r) PROVE CacheCurrent'
  BY <1>1, <1>a DEF ReadCache
<1>2. ASSUME NEW r \in Readers, JoinFlight(r) PROVE CacheCurrent'
  BY <1>2, <1>a DEF JoinFlight
<1>3. ASSUME NEW r \in Readers, StartAccountRead(r) PROVE CacheCurrent'
  BY <1>3, <1>a DEF StartAccountRead
<1>4. ASSUME NEW r \in Readers, FlightOver(r) PROVE CacheCurrent'
  BY <1>4, <1>a DEF FlightOver
<1>5. ASSUME NEW r \in Readers, CallerCancelled(r) PROVE CacheCurrent'
  BY <1>5, <1>a DEF CallerCancelled
<1>6. ASSUME NEW r \in Readers, NEW k \in Keys, ListAccounts(r, k) PROVE CacheCurrent'
  BY <1>6, <1>a DEF ListAccounts
<1>7. ASSUME NEW t \in Tasks, ReadConnects(t) PROVE CacheCurrent'
  BY <1>7, AppendAt DEF ReadConnects, CacheCurrent, NoneQueued, Queued, AccountCacheAssumption
<1>8. ASSUME NEW t \in Tasks, ReadArrives(t) PROVE CacheCurrent'
  <2>1. CASE Refills(t)
    BY <1>8, <2>1 DEF ReadArrives, Refills, ReadsCurrent, CacheCurrent, NoneQueued, Queued
  <2>2. CASE ~Refills(t)
    BY <1>8, <2>2, <1>a DEF ReadArrives
  <2> QED
    BY <2>1, <2>2
<1>9. ASSUME NEW t \in Tasks, ReadFails(t) PROVE CacheCurrent'
  BY <1>9, <1>a DEF ReadFails
<1>10. ASSUME NEW m \in Muts, AccountMutation(m) PROVE CacheCurrent'
  BY <1>10, <1>b DEF AccountMutation, InvalidateAccounts
<1>11. ASSUME NEW m \in Muts, MutationConnects(m) PROVE CacheCurrent'
  BY <1>11, NoneActive DEF MutationConnects, CacheCurrent
<1>12. ASSUME NEW m \in Muts, MutationArrives(m) PROVE CacheCurrent'
  BY <1>12, <1>b DEF MutationArrives, InvalidateAccounts
<1>13. ASSUME NEW m \in Muts, MutationFails(m) PROVE CacheCurrent'
  BY <1>13, <1>b DEF MutationFails, InvalidateAccounts
<1>14. CASE CacheExpires
  BY <1>14, <1>b DEF CacheExpires
<1>15. CASE ServeRead
  BY <1>15, <1>c DEF ServeRead
<1>16. CASE ServeMutation
  BY <1>16, <1>c DEF ServeMutation
<1>17. CASE RefuseMutation
  BY <1>17, <1>c DEF RefuseMutation
<1>18. CASE HelperDies
  BY <1>18, <1>c DEF HelperDies
<1>19. CASE UNCHANGED vars
  BY <1>19, <1>a DEF vars
<1> QED
  BY <1>1, <1>2, <1>3, <1>4, <1>5, <1>6, <1>7, <1>8, <1>9, <1>10, <1>11, <1>12, <1>13,
     <1>14, <1>15, <1>16, <1>17, <1>18, <1>19
  DEF Next, CallerStep, CallEnds, MutationEnds, HelperStep

\* No step leaves a read of the present generation with a list that is not the
\* helper's, or with a change behind it in the queue.
LEMMA ReadsStep ==
    ASSUME AccountCacheAssumption, IInv, [Next]_vars
    PROVE  ReadsCurrent'
<1> USE DEF IInv, TypeOK, state
<1> DEFINE
      Fits(t) ==
        /\ task[t].gen <= generation
        /\ task[t].at \in {"starting", "queued"} => task[t].value = None
        /\ task[t].at = "served" => task[t].value # None
        /\ task[t].at # "done" => task[t].key # None
        /\ task[t].at = "starting" => ~Queued(t)
      Current(t) ==
        task[t].gen = generation =>
            /\ inflight = 0
            /\ task[t].at = "queued" =>
                \A i, j \in DOMAIN queue : queue[i] = t /\ queue[j] \in Muts => j < i
            /\ task[t].value # None => task[t].value = applied /\ NoneQueued
<1>r. ReadsCurrent <=> \A t \in Tasks : Fits(t) /\ Current(t)
  BY DEF ReadsCurrent
<1>p. ReadsCurrent' <=> \A t \in Tasks : Fits(t)' /\ Current(t)'
  BY DEF ReadsCurrent
<1>a. ASSUME UNCHANGED <<task, generation, inflight, applied, queue>> PROVE ReadsCurrent'
  BY <1>a DEF ReadsCurrent, NoneQueued, Queued
<1>1. ASSUME NEW r \in Readers, ReadCache(r) PROVE ReadsCurrent'
  BY <1>1, <1>a DEF ReadCache
<1>2. ASSUME NEW r \in Readers, JoinFlight(r) PROVE ReadsCurrent'
  BY <1>2, <1>a DEF JoinFlight
<1>3. ASSUME NEW r \in Readers, StartAccountRead(r) PROVE ReadsCurrent'
  <2>1. PICK t \in Tasks :
          /\ ~Queued(t) /\ inflight = 0 /\ caller[r].key # None
          /\ task' = [task EXCEPT ![t] = [at |-> "starting", gen |-> generation,
                                          key |-> caller[r].key, value |-> None]]
          /\ UNCHANGED <<generation, inflight, applied, queue>>
    BY <1>3 DEF StartAccountRead, AtTop, Unused, CallersPaired
  <2>2. \A q : Queued(q)' <=> Queued(q)
    BY <2>1 DEF Queued
  <2>3. NoneQueued' <=> NoneQueued
    BY <2>2 DEF NoneQueued
  <2>4. ASSUME NEW q \in Tasks PROVE Fits(q)' /\ Current(q)'
    <3>1. CASE q = t
      <4>1. /\ task'[q].at = "starting" /\ task'[q].gen = generation
            /\ task'[q].key # None /\ task'[q].value = None
        BY <2>1, <3>1
      <4> QED
        BY <2>1, <2>2, <3>1, <4>1
    <3>2. CASE q # t
      <4>1. task'[q] = task[q]
        BY <2>1, <3>2
      <4>2. Fits(q) /\ Current(q)
        BY <1>r
      <4> QED
        BY <2>1, <2>2, <2>3, <4>1, <4>2
    <3> QED
      BY <3>1, <3>2
  <2> QED
    BY <1>p, <2>4
<1>4. ASSUME NEW r \in Readers, FlightOver(r) PROVE ReadsCurrent'
  BY <1>4 DEF FlightOver, Release, ReadsCurrent, NoneQueued, Queued, NoTask
<1>5. ASSUME NEW r \in Readers, CallerCancelled(r) PROVE ReadsCurrent'
  BY <1>5 DEF CallerCancelled, Release, ReadsCurrent, NoneQueued, Queued, NoTask
<1>6. ASSUME NEW r \in Readers, NEW k \in Keys, ListAccounts(r, k) PROVE ReadsCurrent'
  BY <1>6, <1>a DEF ListAccounts
<1>7. ASSUME NEW t \in Tasks, ReadConnects(t) PROVE ReadsCurrent'
  BY <1>7, AppendAt DEF ReadConnects, ReadsCurrent, NoneQueued, Queued, AccountCacheAssumption
<1>8. ASSUME NEW t \in Tasks, ReadArrives(t) PROVE ReadsCurrent'
  BY <1>8 DEF ReadArrives, EndTask, ReadsCurrent, NoneQueued, Queued, NoTask
<1>9. ASSUME NEW t \in Tasks, ReadFails(t) PROVE ReadsCurrent'
  BY <1>9 DEF ReadFails, EndTask, ReadsCurrent, NoneQueued, Queued, NoTask
<1>10. ASSUME NEW m \in Muts, AccountMutation(m) PROVE ReadsCurrent'
  BY <1>10 DEF AccountMutation, InvalidateAccounts, ReadsCurrent, Queued
<1>11. ASSUME NEW m \in Muts, MutationConnects(m) PROVE ReadsCurrent'
  BY <1>11, NoneActive, AppendAt DEF MutationConnects, ReadsCurrent, Queued, AccountCacheAssumption
<1>12. ASSUME NEW m \in Muts, MutationArrives(m) PROVE ReadsCurrent'
  BY <1>12 DEF MutationArrives, InvalidateAccounts, ReadsCurrent, Queued
<1>13. ASSUME NEW m \in Muts, MutationFails(m) PROVE ReadsCurrent'
  BY <1>13 DEF MutationFails, InvalidateAccounts, ReadsCurrent, Queued
<1>14. CASE CacheExpires
  BY <1>14, <1>a DEF CacheExpires
<1>15. CASE ServeRead
  <2>0. PICK h \in Tasks : h = Head(queue)
    BY <1>15 DEF ServeRead
  <2>1. /\ 1 \in DOMAIN queue /\ queue[1] = h
        /\ \A i \in DOMAIN queue' : /\ i \in Nat \ {0} /\ i + 1 \in DOMAIN queue
                                    /\ queue'[i] = queue[i + 1]
    BY <1>15, <2>0, TailAt DEF ServeRead
  <2>2. UNCHANGED <<generation, inflight, applied>>
    BY <1>15 DEF ServeRead
  <2>3. ASSUME NEW t \in Tasks, UNCHANGED task[t] PROVE Fits(t)' /\ Current(t)'
    BY <2>1, <2>2, <2>3, <1>r DEF NoneQueued, Queued
  <2>4. ASSUME task[h].at = "queued" PROVE Fits(h)' /\ Current(h)'
    <3>1. task'[h] = [at |-> "served", gen |-> task[h].gen, key |-> task[h].key,
                      value |-> applied]
      BY <1>15, <2>0, <2>4 DEF ServeRead
    <3>2. task[h].gen = generation => NoneQueued
      BY <2>1, <2>4, <1>r DEF NoneQueued, Queued
    <3>3. applied # None
      BY DEF Lists, AccountCacheAssumption
    <3> QED
      <4>1. Fits(h)'
        BY <2>1, <2>2, <3>1, <3>3, <2>4, <1>r
      <4>2. NoneQueued => NoneQueued'
        BY <2>1 DEF NoneQueued, Queued
      <4> QED
        BY <2>1, <2>2, <2>4, <3>1, <3>2, <4>1, <4>2, <1>r
  <2>5. \A t \in Tasks : t # h \/ task[h].at # "queued" => UNCHANGED task[t]
    BY <1>15, <2>0 DEF ServeRead
  <2>6. ASSUME NEW t \in Tasks PROVE Fits(t)' /\ Current(t)'
    <3>1. CASE t = h /\ task[h].at = "queued"
      BY <2>4, <3>1
    <3>2. CASE t # h \/ task[h].at # "queued"
      BY <2>3, <2>5, <3>2
    <3> QED
      BY <3>1, <3>2
  <2> QED
    BY <2>6, <1>p
<1>16. CASE ServeMutation
  BY <1>16, TailAt DEF ServeMutation, ReadsCurrent, NoneQueued, Queued
<1>17. CASE RefuseMutation
  BY <1>17, TailAt DEF RefuseMutation, ReadsCurrent, NoneQueued, Queued
<1>18. CASE HelperDies
  <2> DEFINE h == Head(queue)
  <2>1. /\ 1 \in DOMAIN queue /\ queue[1] = h
        /\ \A i \in DOMAIN queue' : /\ i \in Nat \ {0} /\ i + 1 \in DOMAIN queue
                                    /\ queue'[i] = queue[i + 1]
    BY <1>18, TailAt DEF HelperDies
  <2>2. UNCHANGED <<task, generation, inflight>>
    BY <1>18 DEF HelperDies
  <2>3. h \notin Muts => UNCHANGED applied
    BY <1>18 DEF HelperDies
  <2>4. ASSUME NEW t \in Tasks PROVE Fits(t)' /\ Current(t)'
    BY <2>1, <2>2, <2>3, <1>r DEF NoneQueued, Queued
  <2> QED
    BY <2>4, <1>p
<1>19. CASE UNCHANGED vars
  BY <1>19, <1>a DEF vars
<1> QED
  BY <1>1, <1>2, <1>3, <1>4, <1>5, <1>6, <1>7, <1>8, <1>9, <1>10, <1>11, <1>12, <1>13,
     <1>14, <1>15, <1>16, <1>17, <1>18, <1>19
  DEF Next, CallerStep, CallEnds, MutationEnds, HelperStep

\* No step hands a task that somebody waits for to another caller's key.
LEMMA CallersStep ==
    ASSUME AccountCacheAssumption, IInv, [Next]_vars
    PROVE  CallersPaired'
<1> USE DEF IInv, TypeOK, state
<1>a. ASSUME UNCHANGED caller, \A t \in Tasks : task'[t].key = task[t].key PROVE CallersPaired'
  BY <1>a DEF CallersPaired
<1>1. ASSUME NEW r \in Readers, ReadCache(r) PROVE CallersPaired'
  BY <1>1 DEF ReadCache, Returned, CallersPaired, Resting
<1>2. ASSUME NEW r \in Readers, JoinFlight(r) PROVE CallersPaired'
  BY <1>2 DEF JoinFlight, WaitsFor, AtTop, Shareable, CallersPaired, AccountCacheAssumption
<1>3. ASSUME NEW r \in Readers, StartAccountRead(r) PROVE CallersPaired'
  BY <1>3 DEF StartAccountRead, WaitsFor, AtTop, Unused, NoTask, CallersPaired, AccountCacheAssumption
<1>4. ASSUME NEW r \in Readers, FlightOver(r) PROVE CallersPaired'
  <2>1. ASSUME NEW q \in Readers, q # r, caller[q].at = "waiting"
        PROVE  task'[caller[q].task] = task[caller[q].task]
    BY <1>4, <2>1 DEF FlightOver, Release, Waiters, CallersPaired
  <2>2. \A q \in Readers : q # r => caller'[q] = caller[q]
    BY <1>4 DEF FlightOver, Returned
  <2>3. \/ caller'[r] = Resting
        \/ caller'[r] = [at |-> "top", key |-> caller[r].key, task |-> None]
           /\ caller[r].at = "waiting"
    BY <1>4 DEF FlightOver, Returned
  <2> QED
    BY <2>1, <2>2, <2>3 DEF CallersPaired, Resting
<1>5. ASSUME NEW r \in Readers, CallerCancelled(r) PROVE CallersPaired'
  BY <1>5 DEF CallerCancelled, Release, Waiters, NoTask, CallersPaired, Resting
<1>6. ASSUME NEW r \in Readers, NEW k \in Keys, ListAccounts(r, k) PROVE CallersPaired'
  BY <1>6 DEF ListAccounts, CallersPaired, AccountCacheAssumption
<1>7. ASSUME NEW t \in Tasks, ReadConnects(t) PROVE CallersPaired'
  BY <1>7, <1>a DEF ReadConnects
<1>8. ASSUME NEW t \in Tasks, ReadArrives(t) PROVE CallersPaired'
  BY <1>8 DEF ReadArrives, EndTask, Waiters, NoTask, CallersPaired
<1>9. ASSUME NEW t \in Tasks, ReadFails(t) PROVE CallersPaired'
  BY <1>9 DEF ReadFails, EndTask, Waiters, NoTask, CallersPaired
<1>10. ASSUME NEW m \in Muts, AccountMutation(m) PROVE CallersPaired'
  BY <1>10, <1>a DEF AccountMutation
<1>11. ASSUME NEW m \in Muts, MutationConnects(m) PROVE CallersPaired'
  BY <1>11, <1>a DEF MutationConnects
<1>12. ASSUME NEW m \in Muts, MutationArrives(m) PROVE CallersPaired'
  BY <1>12, <1>a DEF MutationArrives
<1>13. ASSUME NEW m \in Muts, MutationFails(m) PROVE CallersPaired'
  BY <1>13, <1>a DEF MutationFails
<1>14. CASE CacheExpires
  BY <1>14, <1>a DEF CacheExpires
<1>15. CASE ServeRead
  BY <1>15, <1>a DEF ServeRead
<1>16. CASE ServeMutation
  BY <1>16, <1>a DEF ServeMutation
<1>17. CASE RefuseMutation
  BY <1>17, <1>a DEF RefuseMutation
<1>18. CASE HelperDies
  BY <1>18, <1>a DEF HelperDies
<1>19. CASE UNCHANGED vars
  BY <1>19, <1>a DEF vars
<1> QED
  BY <1>1, <1>2, <1>3, <1>4, <1>5, <1>6, <1>7, <1>8, <1>9, <1>10, <1>11, <1>12, <1>13,
     <1>14, <1>15, <1>16, <1>17, <1>18, <1>19
  DEF Next, CallerStep, CallEnds, MutationEnds, HelperStep

\* Every step keeps the inductive invariant.
LEMMA IInvStep ==
    ASSUME AccountCacheAssumption, IInv, [Next]_vars
    PROVE  IInv'
  BY TypeStep, CountedStep, CacheStep, ReadsStep, CallersStep DEF IInv

\* The invariant says what the cache promises.
LEMMA ExactlyCached == ASSUME IInv PROVE CacheSound
BY NoneActive DEF IInv, TypeOK, CacheSound, CacheCurrent, CacheIsExact, NoneQueued

\* In every state the cached list is the helper's list, and no account change
\* can still alter it.
THEOREM CacheAlwaysSound == ASSUME AccountCacheAssumption PROVE Spec => []CacheSound
<1>1. Init => IInv
  BY InitIInv
<1>2. IInv /\ [Next]_vars => IInv'
  BY IInvStep
<1>3. IInv => CacheSound
  BY ExactlyCached
<1> QED
  BY <1>1, <1>2, <1>3, PTL DEF Spec

----------------------------------------------------------------------------
(* The gateway implements AccountRegister. *)

\* A caller that is under way asked for the list and has no answer yet.
LEMMA AskedOnly ==
    ASSUME IInv, NEW r \in Readers
    PROVE  /\ caller[r].at # "idle" => [q \in Readers |-> caller[q].key][r] # None
           /\ caller[r].at = "idle" => [q \in Readers |-> caller[q].key][r] = None
  BY DEF IInv, TypeOK, CallersPaired

\* A step that returns a list to a caller, ends its call or only moves it on is
\* a step of the register, if what it returns is the helper's list, read under
\* the caller's key.
LEMMA CallerRefines ==
    ASSUME IInv, NEW r \in Readers, caller[r].at # "idle", UNCHANGED applied,
           \/ Returned(r, applied, caller[r].key)
           \/ caller' = [caller EXCEPT ![r] = Resting] /\ UNCHANGED answer
           \/ UNCHANGED answer /\ \E c : /\ c.key = caller[r].key
                                         /\ caller' = [caller EXCEPT ![r] = c]
    PROVE  [Register!Next]_(Register!vars)
<1> DEFINE reading == [q \in Readers |-> caller[q].key]
<1>1. CASE Returned(r, applied, caller[r].key)
  <2>1. Register!Return(r)
    <3>1. reading' = [reading EXCEPT ![r] = None]
      BY <1>1 DEF Returned, Resting, IInv, TypeOK
    <3>2. reading[r] # None /\ reading[r] = caller[r].key
      BY AskedOnly
    <3> QED
      BY <1>1, <3>1, <3>2 DEF Returned, Register!Return
  <2> QED
    BY <2>1 DEF Register!Next
<1>2. CASE caller' = [caller EXCEPT ![r] = Resting] /\ UNCHANGED answer
  <2>1. Register!GiveUp(r)
    <3>1. reading' = [reading EXCEPT ![r] = None]
      BY <1>2 DEF Resting, IInv, TypeOK
    <3>2. reading[r] # None
      BY AskedOnly
    <3> QED
      BY <1>2, <3>1, <3>2 DEF Register!GiveUp
  <2> QED
    BY <2>1 DEF Register!Next
<1>3. ASSUME UNCHANGED answer, NEW c, c.key = caller[r].key, caller' = [caller EXCEPT ![r] = c]
      PROVE  UNCHANGED Register!vars
  BY <1>3 DEF Register!vars, IInv, TypeOK
<1> QED
  BY <1>1, <1>2, <1>3

\* The helper applies a change, or repeats none.
LEMMA HelperRefines ==
    ASSUME IInv, UNCHANGED <<caller, answer>>, NEW m \in Muts, applied' = applied \cup {m}
    PROVE  [Register!Next]_(Register!vars)
<1>1. CASE m \in applied
  BY <1>1 DEF Register!vars
<1>2. CASE m \notin applied
  <2>1. Register!Apply(m)
    BY <1>2 DEF Register!Apply
  <2> QED
    BY <2>1 DEF Register!Next
<1> QED
  BY <1>1, <1>2

\* Every step of the gateway is a step of the register or leaves it unchanged.
LEMMA RegisterStep ==
    ASSUME AccountCacheAssumption, IInv, [Next]_vars
    PROVE  [Register!Next]_(Register!vars)
<1> USE DEF state
<1>a. ASSUME UNCHANGED <<caller, answer, applied>> PROVE [Register!Next]_(Register!vars)
  BY <1>a DEF Register!vars
<1>1. ASSUME NEW r \in Readers, ReadCache(r) PROVE [Register!Next]_(Register!vars)
  <2>1. cache.value = applied /\ cache.key = caller[r].key
    BY <1>1 DEF ReadCache, Usable, IInv, CacheCurrent
  <2> QED
    BY <1>1, <2>1, CallerRefines DEF ReadCache, AtTop
<1>2. ASSUME NEW r \in Readers, JoinFlight(r) PROVE [Register!Next]_(Register!vars)
  <2> DEFINE c == [at |-> "waiting", key |-> caller[r].key, task |-> flight]
  <2>1. c.key = caller[r].key /\ caller' = [caller EXCEPT ![r] = c]
    BY <1>2 DEF JoinFlight, WaitsFor
  <2> QED
    BY <1>2, <2>1, CallerRefines DEF JoinFlight, AtTop
<1>3. ASSUME NEW r \in Readers, StartAccountRead(r) PROVE [Register!Next]_(Register!vars)
  <2>1. PICK t \in Tasks : WaitsFor(r, t)
    BY <1>3 DEF StartAccountRead
  <2> DEFINE c == [at |-> "waiting", key |-> caller[r].key, task |-> t]
  <2>2. c.key = caller[r].key /\ caller' = [caller EXCEPT ![r] = c]
    BY <2>1 DEF WaitsFor
  <2> QED
    BY <1>3, <2>2, CallerRefines DEF StartAccountRead, AtTop
<1>4. ASSUME NEW r \in Readers, FlightOver(r) PROVE [Register!Next]_(Register!vars)
  <2> DEFINE t == caller[r].task
             c == [at |-> "top", key |-> caller[r].key, task |-> None]
  <2>1. CASE caller' = [caller EXCEPT ![r] = Resting] /\ UNCHANGED answer
    BY <1>4, <2>1, CallerRefines DEF FlightOver
  <2>2. CASE caller' = [caller EXCEPT ![r] = c] /\ UNCHANGED answer
    <3>1. c.key = caller[r].key
      OBVIOUS
    <3> QED
      BY <1>4, <2>2, <3>1, CallerRefines DEF FlightOver
  <2>3. CASE task[t].value # None /\ ~Crossed(t) /\ Returned(r, task[t].value, task[t].key)
    <3>1. task[t].value = applied /\ task[t].key = caller[r].key
      BY <1>4, <2>3 DEF FlightOver, Crossed, IInv, ReadsCurrent, CallersPaired
    <3> QED
      BY <1>4, <2>3, <3>1, CallerRefines DEF FlightOver
  <2> QED
    BY <1>4, <2>1, <2>2, <2>3 DEF FlightOver
<1>5. ASSUME NEW r \in Readers, CallerCancelled(r) PROVE [Register!Next]_(Register!vars)
  BY <1>5, CallerRefines DEF CallerCancelled
<1>6. ASSUME NEW r \in Readers, NEW k \in Keys, ListAccounts(r, k) PROVE [Register!Next]_(Register!vars)
  <2>1. Register!Ask(r, k)
    <3> DEFINE reading == [q \in Readers |-> caller[q].key]
    <3>1. reading' = [reading EXCEPT ![r] = k]
      BY <1>6 DEF ListAccounts, IInv, TypeOK
    <3>2. reading[r] = None
      BY <1>6, AskedOnly DEF ListAccounts
    <3> QED
      BY <1>6, <3>1, <3>2 DEF ListAccounts, Register!Ask
  <2> QED
    BY <2>1 DEF Register!Next
<1>7. ASSUME NEW t \in Tasks, ReadConnects(t) PROVE [Register!Next]_(Register!vars)
  BY <1>7, <1>a DEF ReadConnects
<1>8. ASSUME NEW t \in Tasks, ReadArrives(t) PROVE [Register!Next]_(Register!vars)
  BY <1>8, <1>a DEF ReadArrives
<1>9. ASSUME NEW t \in Tasks, ReadFails(t) PROVE [Register!Next]_(Register!vars)
  BY <1>9, <1>a DEF ReadFails
<1>10. ASSUME NEW m \in Muts, AccountMutation(m) PROVE [Register!Next]_(Register!vars)
  BY <1>10, <1>a DEF AccountMutation
<1>11. ASSUME NEW m \in Muts, MutationConnects(m) PROVE [Register!Next]_(Register!vars)
  BY <1>11, <1>a DEF MutationConnects
<1>12. ASSUME NEW m \in Muts, MutationArrives(m) PROVE [Register!Next]_(Register!vars)
  BY <1>12, <1>a DEF MutationArrives
<1>13. ASSUME NEW m \in Muts, MutationFails(m) PROVE [Register!Next]_(Register!vars)
  BY <1>13, <1>a DEF MutationFails
<1>14. CASE CacheExpires
  BY <1>14, <1>a DEF CacheExpires
<1>15. CASE ServeRead
  BY <1>15, <1>a DEF ServeRead
<1>16. CASE ServeMutation
  BY <1>16, HelperRefines DEF ServeMutation
<1>17. CASE RefuseMutation
  BY <1>17, <1>a DEF RefuseMutation
<1>18. CASE HelperDies
  <2>1. CASE UNCHANGED applied
    BY <1>18, <2>1, <1>a DEF HelperDies
  <2>2. CASE Head(queue) \in Muts /\ applied' = applied \cup {Head(queue)}
    BY <1>18, <2>2, HelperRefines DEF HelperDies
  <2> QED
    BY <1>18, <2>1, <2>2 DEF HelperDies
<1>19. CASE UNCHANGED vars
  BY <1>19, <1>a DEF vars
<1> QED
  BY <1>1, <1>2, <1>3, <1>4, <1>5, <1>6, <1>7, <1>8, <1>9, <1>10, <1>11, <1>12, <1>13,
     <1>14, <1>15, <1>16, <1>17, <1>18, <1>19
  DEF Next, CallerStep, CallEnds, MutationEnds, HelperStep
\* The gateway implements AccountRegister: whatever is cached, shared, crossed
\* or given up, a list that list_accounts returns is the list the helper has at
\* that moment, read under the caller's own key.
THEOREM GatewayImplementsRegister ==
    ASSUME AccountCacheAssumption PROVE Spec => ImplementsRegister
<1>1. Init => IInv
  BY InitIInv
<1>2. IInv /\ [Next]_vars => IInv'
  BY IInvStep
<1>3. Init => Register!Init
  BY DEF Init, Resting, Register!Init
<1>4. IInv /\ [Next]_vars => [Register!Next]_(Register!vars)
  BY RegisterStep
<1> QED
  BY <1>1, <1>2, <1>3, <1>4, PTL DEF Spec, ImplementsRegister, Register!Spec

----------------------------------------------------------------------------
(* Lists of messages and folders: their inductive invariant. *)

\* The outcome of a change was reported, and a list of s has to show it then.
Told(x) == change[x].told \in {"ok", "failed"}
Reaches(c, x, s) ==
    /\ s \in Messages(c)!Affected(x)
    /\ ~(change[x].kind = "special" /\ change[x].told = "failed" /\ s = change[x].dst)
    /\ ~(change[x].kind = "rename" /\ s # Folders)
InLine(x) == \E i \in DOMAIN line : line[i] = x

\* The permanent deletes of a mailbox that are under way.
DeletesOf(c, b) ==
    {x \in c.changes : /\ change[x].kind = "delete" /\ change[x].src = b
                       /\ change[x].at \in {"starting", "queued", "served", "refused"}}

\* A change has its scopes from when it begins, and one outcome once it is over;
\* it waits in line only while it may take effect.
ChangeSound(c, x) ==
    /\ change[x].at # "new" =>
          /\ change[x].kind \in Messages(c)!AllKinds
          /\ change[x].src \in c.boxes /\ change[x].dst \in c.boxes
    /\ change[x].at = "new" => change[x].kind = None
    /\ change[x].kind = "delete" => change[x].at # "loose" /\ change[x].told # "cancelled"
    /\ change[x].told = None <=> change[x].at \notin {"loose", "over"}
    /\ change[x].at = "loose" => change[x].told = "cancelled"
    /\ change[x].at \in {"new", "starting", "refused", "loose"} => ~InLine(x)
    /\ change[x].at \in {"new", "starting", "refused", "queued"} => x \notin done

\* The counters of permanent deletes are exact.
DeletesCounted(c) ==
    \A b \in c.boxes : IsFiniteSet(DeletesOf(c, b)) /\ active[b] = Cardinality(DeletesOf(c, b))

\* Nothing settled is missing from v, and nothing that is settled can still take
\* effect.
Current(c, s, v) ==
    /\ \A x \in c.changes : Told(x) /\ Reaches(c, x, s) =>
          ~InLine(x) /\ (x \in done => x \in v.shows)
    /\ s # Folders => announced[s] <= v.newest

\* The reader stands in line behind whatever has settled.
Behind(c, r, s) ==
    \A x \in c.changes : Told(x) /\ Reaches(c, x, s) =>
        \A i, j \in DOMAIN line : line[i] = r /\ line[j] = x => j < i

\* What a reader asked for has settled, or was announced.
Asked(c, y) ==
    /\ \A x \in y.since.shows : x \in done /\ Told(x) /\ Reaches(c, x, y.scope)
    /\ IF y.scope = Folders THEN y.since.newest = 0 ELSE y.since.newest <= announced[y.scope]

\* What a reader was given shows what it asked for.
Given(y) ==
    /\ y.since.shows \subseteq y.value.shows /\ y.since.newest <= y.value.newest
    /\ y.scope # Folders => y.value.newest <= newest[y.scope]

\* A read that nothing crossed is behind whatever has settled, and so is what it
\* was given.
ReadSound(c, r, y) ==
    y.at # "idle" =>
        /\ y.scope \in c.boxes \cup {Folders}
        /\ y.op = "latest" => y.scope \in c.boxes
        /\ Asked(c, y)
        /\ y.at # "queued" => ~InLine(r)
        /\ y.at = "queued" /\ ~y.crossed => Behind(c, r, y.scope)
        /\ y.at = "served" => Given(y) /\ (~y.crossed => Current(c, y.scope, y.value))

ReadsSound(c) == \A r \in c.readers : ReadSound(c, r, reader[r])

LineOnce == \A i, j \in DOMAIN line : line[i] = line[j] => i = j

\* What is cached is current, and no permanent delete is under way beside it.
ListsSound(c) ==
    /\ \A s \in c.boxes \cup {Folders} : lists[s] # None =>
          Current(c, s, lists[s]) /\ (s # Folders => active[s] = 0)
    /\ \A b \in c.boxes : announced[b] <= newest[b]

AnswerSound(c) == Messages(c)!ReturnedShowsSettled /\ Messages(c)!AnnouncedIsListed

MessagesInv(c) ==
    /\ Messages(c)!TypeOK /\ \A x \in c.changes : ChangeSound(c, x)
    /\ DeletesCounted(c) /\ ReadsSound(c) /\ LineOnce /\ ListsSound(c) /\ AnswerSound(c)
----------------------------------------------------------------------------
(* Facts about settings, changes and the line of connections. *)

\* What the bounds say of a setting.
LEMMA SettingIs ==
    ASSUME NEW c \in Settings
    PROVE  /\ c.maxUid \in Nat /\ c.readers \cap c.changes = {} /\ Folders \notin c.boxes
           /\ c.kinds \subseteq Messages(c)!AllKinds /\ c.polled \subseteq c.boxes
           /\ None \notin c.boxes /\ None \notin Messages(c)!AllKinds
           /\ None \notin {"ok", "failed", "cancelled"}
<1>1. Messages(c)!MessageCacheAssumption
  BY GatewayBounds
<1> QED
  BY <1>1 DEF Messages!MessageCacheAssumption

\* A connection that is made is the last in line.
LEMMA Joined ==
    ASSUME NEW S, line \in Seq(S), NEW z \in S, line' = Append(line, z)
    PROVE  /\ line' \in Seq(S) /\ Len(line) \in Nat /\ Len(line') = Len(line) + 1
           /\ DOMAIN line = 1 .. Len(line) /\ DOMAIN line' = 1 .. Len(line) + 1
           /\ \A i \in DOMAIN line : line'[i] = line[i]
           /\ line'[Len(line) + 1] = z
           /\ \A x : InLine(x)' <=> InLine(x) \/ x = z
           /\ LineOnce /\ ~InLine(z) => LineOnce'
<1>1. /\ line' \in Seq(S) /\ Len(line) \in Nat /\ Len(line') = Len(line) + 1
      /\ DOMAIN line = 1 .. Len(line) /\ DOMAIN line' = 1 .. Len(line) + 1
      /\ \A i \in DOMAIN line : line'[i] = line[i]
      /\ line'[Len(line) + 1] = z
  OBVIOUS
<1>2. \A i \in DOMAIN line' : i \in DOMAIN line \/ i = Len(line) + 1
  BY <1>1
<1>3. \A i \in DOMAIN line : i \in DOMAIN line' /\ i # Len(line) + 1
  BY <1>1
<1>4. Len(line) + 1 \in DOMAIN line'
  BY <1>1
<1>5. \A x : InLine(x)' <=> InLine(x) \/ x = z
  BY <1>1, <1>2, <1>3, <1>4 DEF InLine
<1>6. LineOnce /\ ~InLine(z) => LineOnce'
  BY <1>1, <1>2, <1>3 DEF LineOnce, InLine
<1> QED
  BY <1>1, <1>5, <1>6

\* The first in line is served, and all others move up.
LEMMA Served ==
    ASSUME NEW S, line \in Seq(S), line # <<>>, line' = Tail(line), LineOnce
    PROVE  /\ Head(line) \in S /\ 1 \in DOMAIN line /\ Head(line) = line[1]
           /\ line' \in Seq(S) /\ LineOnce'
           /\ DOMAIN line \subseteq Int
           /\ \A i \in DOMAIN line' : i + 1 \in DOMAIN line /\ line'[i] = line[i + 1] /\ i \in Int
           /\ \A x : InLine(x)' <=> InLine(x) /\ x # Head(line)
<1>1. /\ Head(line) \in S /\ 1 \in DOMAIN line /\ Head(line) = line[1]
      /\ Len(line) \in Nat /\ DOMAIN line = 1 .. Len(line) /\ line' \in Seq(S)
      /\ DOMAIN line' = 1 .. Len(line) - 1
  OBVIOUS
<1>2. \A i \in DOMAIN line' : i + 1 \in DOMAIN line /\ line'[i] = line[i + 1] /\ i \in Int /\ i # 0
  BY <1>1
<1>3. \A i \in DOMAIN line : i # 1 => i - 1 \in DOMAIN line' /\ line'[i - 1] = line[i]
  BY <1>1, <1>2
<1>4. LineOnce'
  BY <1>1, <1>2 DEF LineOnce
<1>5. ASSUME NEW x PROVE InLine(x)' <=> InLine(x) /\ x # Head(line)
  <2>1. ASSUME InLine(x)' PROVE InLine(x) /\ x # Head(line)
    <3>1. PICK i \in DOMAIN line' : line'[i] = x
      BY <2>1 DEF InLine
    <3>2. i + 1 \in DOMAIN line /\ line[i + 1] = x /\ i + 1 # 1
      BY <1>2, <3>1
    <3> QED
      BY <1>1, <3>2 DEF InLine, LineOnce
  <2>2. ASSUME InLine(x), x # Head(line) PROVE InLine(x)'
    <3>1. PICK i \in DOMAIN line : line[i] = x
      BY <2>2 DEF InLine
    <3>2. i # 1
      BY <1>1, <2>2, <3>1
    <3> QED
      BY <1>3, <3>1, <3>2 DEF InLine
  <2> QED
    BY <2>1, <2>2
<1>6. DOMAIN line \subseteq Int
  BY <1>1
<1> QED
  BY <1>1, <1>2, <1>4, <1>5, <1>6

\* The scopes of a change, once it has begun.
LEMMA AffectedIs ==
    ASSUME NEW c \in Settings, NEW x, change[x].kind \in Messages(c)!AllKinds
    PROVE  \A s : s \in Messages(c)!Affected(x) <=>
              \/ change[x].kind \in {"flags", "delete", "sent"} /\ s = change[x].src
              \/ /\ change[x].kind \in {"move", "special", "step"}
                 /\ s \in {change[x].src, change[x].dst}
              \/ change[x].kind = "create" /\ s = Folders
              \/ /\ change[x].kind \in {"rename", "remove", "discard"}
                 /\ s \in {change[x].src, change[x].dst, Folders}
BY DEF Messages!Affected, Messages!AllKinds

\* A step that settles nothing a list of s has to show, and announces nothing.
Steady(c, s) ==
    /\ \A x \in c.changes : Told(x)' /\ Reaches(c, x, s)' =>
          \/ /\ Told(x) /\ Reaches(c, x, s) /\ (InLine(x)' => InLine(x))
             /\ x \in done' => x \in done \/ InLine(x)
          \/ ~InLine(x)' /\ x \notin done'
    /\ s # Folders => announced'[s] = announced[s]

\* A step that keeps what has settled before r behind it in line.
InOrder(c, r) ==
    \A x \in c.changes, i, j \in DOMAIN line' :
        line'[i] = r /\ line'[j] = x /\ Told(x) =>
            \/ i \in DOMAIN line /\ j \in DOMAIN line /\ line[i] = r /\ line[j] = x
            \/ /\ i + 1 \in DOMAIN line /\ j + 1 \in DOMAIN line
               /\ line[i + 1] = r /\ line[j + 1] = x

\* A step that takes back nothing that was settled, announced or delivered.
Onward(c) ==
    /\ done \subseteq done'
    /\ \A x \in c.changes, s \in c.boxes \cup {Folders} :
          Told(x) /\ Reaches(c, x, s) => Told(x)' /\ Reaches(c, x, s)'
    /\ \A b \in c.boxes : announced[b] <= announced'[b] /\ newest[b] <= newest'[b]

\* The same read, crossed or not.
SameRead(y, z) ==
    /\ z.at = y.at /\ z.op = y.op /\ z.scope = y.scope /\ z.value = y.value
    /\ z.since = y.since
    /\ y.crossed => z.crossed

\* What is current for s stays so in a step that settles nothing for it.
LEMMA CurrentKept ==
    ASSUME NEW c \in Settings, NEW s, NEW v, Current(c, s, v), Steady(c, s)
    PROVE  Current(c, s, v)'
BY DEF Current, Steady

\* Who was behind what has settled stays behind it.
LEMMA BehindKept ==
    ASSUME NEW c \in Settings, NEW r, NEW s, Behind(c, r, s), Steady(c, s), InOrder(c, r),
           DOMAIN line' \subseteq Int
    PROVE  Behind(c, r, s)'
<1> SUFFICES ASSUME NEW x \in c.changes, Told(x)', Reaches(c, x, s)',
                    NEW i \in DOMAIN line', NEW j \in DOMAIN line',
                    line'[i] = r, line'[j] = x
             PROVE  j < i
  BY DEF Behind
<1>1. i \in Int /\ j \in Int
  OBVIOUS
<1>2. InLine(x)'
  BY DEF InLine
<1>3. Told(x) /\ Reaches(c, x, s)
  BY <1>2 DEF Steady
<1>4. CASE i \in DOMAIN line /\ j \in DOMAIN line /\ line[i] = r /\ line[j] = x
  BY <1>3, <1>4 DEF Behind
<1>5. CASE /\ i + 1 \in DOMAIN line /\ j + 1 \in DOMAIN line
           /\ line[i + 1] = r /\ line[j + 1] = x
  <2>1. j + 1 < i + 1
    BY <1>3, <1>5 DEF Behind
  <2> QED
    BY <1>1, <2>1
<1> QED
  BY <1>3, <1>4, <1>5 DEF InOrder

\* What was asked for stays settled.
LEMMA AskedKept ==
    ASSUME NEW c \in Settings, NEW y, Asked(c, y), y.scope \in c.boxes \cup {Folders},
           y.since.shows \subseteq c.changes, y.since.newest \in Int, Onward(c),
           announced \in [c.boxes -> Int], announced' \in [c.boxes -> Int]
    PROVE  Asked(c, y)'
<1>1. \A x \in y.since.shows : x \in done' /\ Told(x)' /\ Reaches(c, x, y.scope)'
  BY DEF Asked, Onward
<1>2. ASSUME y.scope # Folders PROVE y.since.newest <= announced'[y.scope]
  <2>1. PICK b \in c.boxes : b = y.scope
    BY <1>2
  <2>2. /\ announced[b] \in Int /\ announced'[b] \in Int
        /\ announced[b] <= announced'[b] /\ y.since.newest <= announced[b]
    BY <1>2, <2>1 DEF Asked, Onward
  <2> QED
    BY <2>1, <2>2
<1>3. y.scope = Folders => y.since.newest = 0
  BY DEF Asked
<1> QED
  BY <1>1, <1>2, <1>3 DEF Asked

----------------------------------------------------------------------------
(* Readers, while the changes and the helper rest. *)

\* What a reader is.
Reading(c) ==
    [at : {"idle", "top", "starting", "queued", "served"}, op : {"list", "latest"},
     scope : c.boxes \cup {Folders, None}, value : Messages(c)!Lists, crossed : BOOLEAN,
     since : Messages(c)!Lists]

\* What a change is.
Changing(c) ==
    [at : {"new", "starting", "queued", "served", "refused", "loose", "over"},
     kind : Messages(c)!AllKinds \cup {None}, src : c.boxes \cup {None},
     dst : c.boxes \cup {None}, told : {None, "ok", "failed", "cancelled"}]

\* The types, variable by variable.
LEMMA TypesAre ==
    ASSUME NEW c \in Settings, Messages(c)!TypeOK
    PROVE  /\ lists \in [c.boxes \cup {Folders} -> Messages(c)!Lists \cup {None}]
           /\ active \in [c.boxes -> Nat] /\ doubtful \subseteq c.boxes
           /\ reader \in [c.readers -> Reading(c)]
           /\ change \in [c.changes -> Changing(c)]
           /\ line \in Seq(c.readers \cup c.changes)
           /\ done \subseteq c.changes /\ newest \in [c.boxes -> 0 .. c.maxUid]
           /\ announced \in [c.boxes -> 0 .. c.maxUid]
           /\ shown \in [value : Messages(c)!Lists, since : Messages(c)!Lists] \cup {None}
<1>1. /\ Messages(c)!Scopes = c.boxes \cup {Folders}
      /\ Messages(c)!Scopes \cup {None} = c.boxes \cup {Folders, None}
  BY DEF Messages!Scopes
<1> QED
  BY <1>1 DEF Messages!TypeOK, Reading, Changing

\* The types after a step.
LEMMA TypesNext ==
    ASSUME NEW c \in Settings,
           lists' \in [c.boxes \cup {Folders} -> Messages(c)!Lists \cup {None}],
           active' \in [c.boxes -> Nat], doubtful' \subseteq c.boxes,
           reader' \in [c.readers -> Reading(c)],
           change' \in [c.changes -> Changing(c)],
           line' \in Seq(c.readers \cup c.changes),
           done' \subseteq c.changes, newest' \in [c.boxes -> 0 .. c.maxUid],
           announced' \in [c.boxes -> 0 .. c.maxUid],
           shown' \in [value : Messages(c)!Lists, since : Messages(c)!Lists] \cup {None}
    PROVE  Messages(c)!TypeOK'
<1>1. /\ Messages(c)!Scopes = c.boxes \cup {Folders}
      /\ Messages(c)!Scopes \cup {None} = c.boxes \cup {Folders, None}
  BY DEF Messages!Scopes
<1> QED
  BY <1>1 DEF Messages!TypeOK, Reading, Changing

\* A reader moves and a list may be kept, while nothing settles and nothing
\* arrives.
LEMMA ReadersMove ==
    ASSUME NEW c \in Settings, MessagesInv(c),
           UNCHANGED <<change, line, done, newest, announced, active>>,
           reader' \in [c.readers -> Reading(c)],
           \A r \in c.readers : ReadSound(c, r, reader'[r]),
           lists' \in [c.boxes \cup {Folders} -> Messages(c)!Lists \cup {None}],
           \A s \in c.boxes \cup {Folders} : lists'[s] # None =>
              \/ lists'[s] = lists[s]
              \/ Current(c, s, lists'[s]) /\ (s # Folders => active[s] = 0),
           doubtful' \subseteq c.boxes,
           shown' \in [value : Messages(c)!Lists, since : Messages(c)!Lists] \cup {None},
           shown' # None => /\ shown'.since.shows \subseteq shown'.value.shows
                            /\ shown'.since.newest <= shown'.value.newest
    PROVE  MessagesInv(c)'
<1>1. Messages(c)!TypeOK'
  <2>1. Messages(c)!TypeOK
    BY DEF MessagesInv
  <2> QED
    BY <2>1, TypesAre, TypesNext
<1>2. \A x \in c.changes : ChangeSound(c, x)'
  BY DEF MessagesInv, ChangeSound, InLine
<1>3. DeletesCounted(c)'
  BY DEF MessagesInv, DeletesCounted, DeletesOf
<1>4. ASSUME NEW x, NEW s PROVE Reaches(c, x, s)' <=> Reaches(c, x, s)
  BY DEF Reaches, Messages!Affected
<1>5. ASSUME NEW s, NEW v PROVE Current(c, s, v)' <=> Current(c, s, v)
  BY <1>4 DEF Current, Told, InLine
<1>6. ASSUME NEW r, NEW y PROVE ReadSound(c, r, y)' <=> ReadSound(c, r, y)
  BY <1>4, <1>5 DEF ReadSound, Asked, Given, Behind, Told, InLine
<1>7. ReadsSound(c)'
  <2> SUFFICES ASSUME NEW r \in c.readers PROVE ReadSound(c, r, reader[r])'
    BY DEF ReadsSound
  <2>1. PICK y : y = reader'[r]
    OBVIOUS
  <2>2. ReadSound(c, r, y)'
    BY <1>6, <2>1
  <2> QED
    BY <2>1, <2>2
<1>8. LineOnce'
  BY DEF MessagesInv, LineOnce
<1>9. ListsSound(c)'
  <2> SUFFICES ASSUME NEW s \in c.boxes \cup {Folders}, lists'[s] # None
               PROVE  Current(c, s, lists[s])' /\ (s # Folders => active[s] = 0)
    BY DEF MessagesInv, ListsSound
  <2>1. PICK v : v = lists'[s]
    OBVIOUS
  <2>2. Current(c, s, v) /\ (s # Folders => active[s] = 0)
    BY <2>1 DEF MessagesInv, ListsSound
  <2>3. Current(c, s, v)'
    BY <1>5, <2>2
  <2> QED
    BY <2>1, <2>2, <2>3
<1>10. AnswerSound(c)'
  BY DEF AnswerSound, Messages!ReturnedShowsSettled, Messages!AnnouncedIsListed
<1> QED
  BY <1>1, <1>2, <1>3, <1>7, <1>8, <1>9, <1>10 DEF MessagesInv

----------------------------------------------------------------------------
(* Readers and lists, while changes and the helper go on. *)

\* A read goes on: if something settles for it, the read was crossed.
LEMMA ReadKept ==
    ASSUME NEW c \in Settings, NEW r, NEW y \in Reading(c), NEW z \in Reading(c),
           ReadSound(c, r, y), SameRead(y, z), z.crossed \/ Steady(c, y.scope),
           InOrder(c, r), InLine(r)' => InLine(r), Onward(c), DOMAIN line' \subseteq Int,
           announced \in [c.boxes -> 0 .. c.maxUid], announced' \in [c.boxes -> 0 .. c.maxUid],
           newest \in [c.boxes -> 0 .. c.maxUid], newest' \in [c.boxes -> 0 .. c.maxUid]
    PROVE  ReadSound(c, r, z)'
<1> SUFFICES ASSUME z.at # "idle"
             PROVE  /\ z.scope \in c.boxes \cup {Folders}
                    /\ z.op = "latest" => z.scope \in c.boxes
                    /\ Asked(c, z)'
                    /\ z.at # "queued" => ~InLine(r)'
                    /\ z.at = "queued" /\ ~z.crossed => Behind(c, r, z.scope)'
                    /\ z.at = "served" => /\ Given(z)'
                                          /\ ~z.crossed => Current(c, z.scope, z.value)'
  BY DEF ReadSound
<1>1. /\ z.scope \in c.boxes \cup {Folders}
      /\ z.op = "latest" => z.scope \in c.boxes
      /\ Asked(c, y)
      /\ z.at # "queued" => ~InLine(r)
      /\ z.at = "queued" /\ ~y.crossed => Behind(c, r, z.scope)
      /\ z.at = "served" => Given(y) /\ (~y.crossed => Current(c, z.scope, z.value))
  BY DEF ReadSound, SameRead
<1>2. c.maxUid \in Nat /\ 0 .. c.maxUid \subseteq Int
  BY SettingIs
<1>3. Asked(c, z)'
  <2>1. y.since.shows \subseteq c.changes /\ y.since.newest \in Int
    BY <1>2 DEF Reading, Messages!Lists
  <2>2. announced \in [c.boxes -> Int] /\ announced' \in [c.boxes -> Int]
    BY <1>2
  <2>3. y.scope \in c.boxes \cup {Folders}
    BY <1>1 DEF SameRead
  <2>4. Asked(c, y)'
    BY <1>1, <2>1, <2>2, <2>3, AskedKept
  <2> QED
    BY <2>4 DEF Asked, SameRead
<1>4. ASSUME z.at = "queued", ~z.crossed PROVE Behind(c, r, z.scope)'
  BY <1>1, <1>4, BehindKept DEF SameRead
<1>5. ASSUME z.at = "served" PROVE Given(z)'
  <2>1. /\ z.since.shows \subseteq z.value.shows /\ z.since.newest <= z.value.newest
        /\ z.scope # Folders => z.value.newest <= newest[z.scope]
    BY <1>1, <1>5 DEF Given, SameRead
  <2>2. ASSUME z.scope # Folders PROVE z.value.newest <= newest'[z.scope]
    <3>1. PICK b \in c.boxes : b = z.scope
      BY <1>1, <2>2
    <3>2. /\ z.value.newest \in Int /\ newest[b] \in Int /\ newest'[b] \in Int
          /\ z.value.newest <= newest[b] /\ newest[b] <= newest'[b]
      BY <1>2, <2>1, <2>2, <3>1 DEF Onward, Reading, Messages!Lists
    <3> QED
      BY <3>1, <3>2
  <2> QED
    BY <2>1, <2>2 DEF Given
<1>6. ASSUME z.at = "served", ~z.crossed PROVE Current(c, z.scope, z.value)'
  BY <1>1, <1>6, CurrentKept DEF SameRead
<1> QED
  BY <1>1, <1>3, <1>4, <1>5, <1>6

\* All reads go on, if each that something settles for is crossed.
LEMMA ReadsKept ==
    ASSUME NEW c \in Settings, MessagesInv(c), Onward(c),
           reader' \in [c.readers -> Reading(c)],
           line' \in Seq(c.readers \cup c.changes),
           announced' \in [c.boxes -> 0 .. c.maxUid], newest' \in [c.boxes -> 0 .. c.maxUid],
           \A r \in c.readers :
              /\ SameRead(reader[r], reader'[r])
              /\ reader[r].at = "idle" \/ reader'[r].crossed \/ Steady(c, reader[r].scope)
              /\ InOrder(c, r)
              /\ InLine(r)' => InLine(r)
    PROVE  ReadsSound(c)'
<1>1. Messages(c)!TypeOK /\ ReadsSound(c)
  BY DEF MessagesInv
<1> SUFFICES ASSUME NEW r \in c.readers PROVE ReadSound(c, r, reader[r])'
  BY DEF ReadsSound
<1>2. PICK y, z : y = reader[r] /\ z = reader'[r]
  OBVIOUS
<1>3. /\ y \in Reading(c) /\ z \in Reading(c) /\ ReadSound(c, r, y) /\ SameRead(y, z)
      /\ y.at = "idle" \/ z.crossed \/ Steady(c, y.scope)
      /\ InOrder(c, r)
      /\ InLine(r)' => InLine(r)
  BY <1>1, <1>2, TypesAre DEF ReadsSound
<1>4. DOMAIN line' \subseteq Int
  <2>1. Len(line') \in Nat /\ DOMAIN line' = 1 .. Len(line')
    OBVIOUS
  <2> QED
    BY <2>1
<1>5. CASE y.at = "idle"
  <2>1. ReadSound(c, r, z)'
    BY <1>3, <1>5 DEF ReadSound, SameRead
  <2> QED
    BY <1>2, <2>1
<1>6. CASE z.crossed \/ Steady(c, y.scope)
  <2>1. announced \in [c.boxes -> 0 .. c.maxUid] /\ newest \in [c.boxes -> 0 .. c.maxUid]
    BY <1>1, TypesAre
  <2>2. ReadSound(c, r, z)'
    BY <1>3, <1>4, <1>6, <2>1, ReadKept
  <2> QED
    BY <1>2, <2>2
<1> QED
  BY <1>3, <1>5, <1>6

\* A list that is still cached was not touched, and nothing settled for it.
LEMMA WorldMoves ==
    ASSUME NEW c \in Settings, MessagesInv(c), Messages(c)!TypeOK',
           \A x \in c.changes : ChangeSound(c, x)', DeletesCounted(c)', ReadsSound(c)',
           LineOnce',
           \A s \in c.boxes \cup {Folders} : lists'[s] # None =>
              lists'[s] = lists[s] /\ Steady(c, s) /\ (s # Folders => active'[s] = active[s]),
           \A b \in c.boxes : announced'[b] <= newest'[b], shown' = shown
    PROVE  MessagesInv(c)'
<1>1. ListsSound(c)'
  <2> SUFFICES ASSUME NEW s \in c.boxes \cup {Folders}, lists'[s] # None
               PROVE  Current(c, s, lists[s])' /\ (s # Folders => active'[s] = 0)
    BY DEF ListsSound
  <2>1. PICK v : v = lists'[s]
    OBVIOUS
  <2>2. v = lists[s] /\ v # None /\ Steady(c, s) /\ (s # Folders => active'[s] = active[s])
    BY <2>1
  <2>3. Current(c, s, v) /\ (s # Folders => active[s] = 0)
    BY <2>2 DEF MessagesInv, ListsSound
  <2>4. Current(c, s, v)'
    BY <2>2, <2>3, CurrentKept
  <2> QED
    BY <2>1, <2>2, <2>3, <2>4
<1>2. AnswerSound(c)'
  BY DEF MessagesInv, AnswerSound, Messages!ReturnedShowsSettled, Messages!AnnouncedIsListed
<1> QED
  BY <1>1, <1>2 DEF MessagesInv

\* Nobody joins or leaves the line.
LEMMA LineRests ==
    ASSUME NEW c \in Settings, line' = line
    PROVE  /\ \A x : InLine(x)' <=> InLine(x)
           /\ \A r : InOrder(c, r)
           /\ LineOnce => LineOnce'
BY DEF InLine, InOrder, LineOnce

\* Nobody moves in line when z joins it.
LEMMA LineGrows ==
    ASSUME NEW c \in Settings, line \in Seq(c.readers \cup c.changes),
           NEW z \in c.readers \cup c.changes, z \in c.changes => ~Told(z),
           line' = Append(line, z)
    PROVE  \A r : r # z => InOrder(c, r)
<1>1. /\ DOMAIN line = 1 .. Len(line) /\ DOMAIN line' = 1 .. Len(line) + 1 /\ Len(line) \in Nat
      /\ \A i \in DOMAIN line : line'[i] = line[i]
      /\ line'[Len(line) + 1] = z
  BY Joined
<1>2. \A i \in DOMAIN line' : i \in DOMAIN line \/ i = Len(line) + 1
  BY <1>1
<1> QED
  BY <1>1, <1>2 DEF InOrder

\* The order in line stays when it moves up.
LEMMA LineMoves ==
    ASSUME NEW c \in Settings, line \in Seq(c.readers \cup c.changes), LineOnce,
           line # <<>>, line' = Tail(line)
    PROVE  \A r : InOrder(c, r)
<1>1. \A i \in DOMAIN line' : i + 1 \in DOMAIN line /\ line'[i] = line[i + 1]
  BY Served
<1> QED
  BY <1>1 DEF InOrder

----------------------------------------------------------------------------
(* The steps of the readers. *)

\* One reader moves on.
LEMMA OneReader ==
    ASSUME NEW c \in Settings, MessagesInv(c),
           UNCHANGED <<change, line, done, newest, announced, active>>,
           NEW r \in c.readers, NEW z \in Reading(c), ReadSound(c, r, z),
           reader' = [reader EXCEPT ![r] = z],
           lists' \in [c.boxes \cup {Folders} -> Messages(c)!Lists \cup {None}],
           \A s \in c.boxes \cup {Folders} : lists'[s] # None =>
              \/ lists'[s] = lists[s]
              \/ Current(c, s, lists'[s]) /\ (s # Folders => active[s] = 0),
           doubtful' \subseteq c.boxes,
           shown' \in [value : Messages(c)!Lists, since : Messages(c)!Lists] \cup {None},
           shown' # None => /\ shown'.since.shows \subseteq shown'.value.shows
                            /\ shown'.since.newest <= shown'.value.newest
    PROVE  MessagesInv(c)'
<1>1. reader \in [c.readers -> Reading(c)]
  BY TypesAre DEF MessagesInv
<1>2. reader' \in [c.readers -> Reading(c)]
  BY <1>1
<1>3. \A q \in c.readers : ReadSound(c, q, reader'[q])
  <2> SUFFICES ASSUME NEW q \in c.readers PROVE ReadSound(c, q, reader'[q])
    OBVIOUS
  <2>1. CASE q = r
    <3>1. reader'[q] = z
      BY <1>1, <2>1
    <3> QED
      BY <2>1, <3>1
  <2>2. CASE q # r
    <3>1. reader'[q] = reader[q]
      BY <1>1, <2>2
    <3>2. ReadSound(c, q, reader[q])
      BY DEF MessagesInv, ReadsSound
    <3> QED
      BY <3>1, <3>2
  <2> QED
    BY <2>1, <2>2
<1> QED
  BY <1>2, <1>3, ReadersMove

\* What is current shows what was asked for.
LEMMA CurrentGives ==
    ASSUME NEW c \in Settings, Messages(c)!TypeOK, NEW y \in Reading(c),
           y.scope \in c.boxes \cup {Folders}, NEW v \in Messages(c)!Lists,
           Asked(c, y), Current(c, y.scope, v)
    PROVE  y.since.shows \subseteq v.shows /\ y.since.newest <= v.newest
<1>1. c.maxUid \in Nat /\ 0 .. c.maxUid \subseteq Nat
  BY SettingIs
<1>2. /\ y.since.newest \in Nat /\ v.newest \in Nat /\ y.since.shows \subseteq c.changes
      /\ announced \in [c.boxes -> 0 .. c.maxUid]
  BY <1>1, TypesAre DEF Reading, Messages!Lists
<1>3. y.since.shows \subseteq v.shows
  BY <1>2 DEF Asked, Current
<1>4. CASE y.scope = Folders
  BY <1>2, <1>3, <1>4 DEF Asked
<1>5. CASE y.scope # Folders
  <2>1. PICK b \in c.boxes : b = y.scope
    BY <1>5
  <2>2. announced[b] \in Nat /\ y.since.newest <= announced[b] /\ announced[b] <= v.newest
    BY <1>1, <1>2, <1>5, <2>1 DEF Asked, Current
  <2> QED
    BY <1>2, <1>3, <2>2
<1> QED
  BY <1>4, <1>5

\* What is announced and delivered are numbers.
LEMMA NumbersAre ==
    ASSUME NEW c \in Settings, Messages(c)!TypeOK
    PROVE  \A b \in c.boxes : announced[b] \in Nat /\ newest[b] \in Nat
<1>1. c.maxUid \in Nat /\ 0 .. c.maxUid \subseteq Nat
  BY SettingIs
<1>2. announced \in [c.boxes -> 0 .. c.maxUid] /\ newest \in [c.boxes -> 0 .. c.maxUid]
  BY TypesAre
<1> QED
  BY <1>1, <1>2

\* The idle reader is a reader, and promises nothing.
LEMMA IdleIs ==
    ASSUME NEW c \in Settings
    PROVE  /\ Messages(c)!IdleReader \in Reading(c)
           /\ Messages(c)!IdleReader.at = "idle" /\ Messages(c)!IdleReader.scope = None
           /\ Messages(c)!Nothing \in Messages(c)!Lists
           /\ \A r : ReadSound(c, r, Messages(c)!IdleReader)
<1>1. c.maxUid \in Nat
  BY SettingIs
<1>2. Messages(c)!Nothing \in Messages(c)!Lists
  BY <1>1 DEF Messages!Nothing, Messages!Lists
<1>3. /\ Messages(c)!IdleReader \in Reading(c)
      /\ Messages(c)!IdleReader.at = "idle" /\ Messages(c)!IdleReader.scope = None
  BY <1>2 DEF Messages!IdleReader, Reading
<1> QED
  BY <1>2, <1>3 DEF ReadSound

\* What a reader asks for has settled.
LEMMA AskStep ==
    ASSUME NEW c \in Settings, MessagesInv(c), NEW r \in c.readers,
           NEW op \in {"list", "latest"}, NEW s \in Messages(c)!Scopes,
           Messages(c)!Ask(r, op, s)
    PROVE  MessagesInv(c)'
<1> DEFINE since == [shows |-> {x \in c.changes : change[x].at # "new" /\ Messages(c)!Promised(x, s)},
                     newest |-> IF s = Folders THEN 0 ELSE announced[s]]
           z == [at |-> "top", op |-> op, scope |-> s, value |-> Messages(c)!Nothing,
                 crossed |-> FALSE, since |-> since]
<1>1. /\ reader' = [reader EXCEPT ![r] = z] /\ shown' = None
      /\ ~InLine(r) /\ (op = "latest" => s \in c.polled)
      /\ UNCHANGED <<change, line, done, newest, announced, active, lists, doubtful>>
  BY DEF Messages!Ask, Messages!Queued, InLine, Messages!gateway, Messages!helper
<1>2. s \in c.boxes \cup {Folders} /\ (op = "latest" => s \in c.boxes)
  BY <1>1, SettingIs DEF Messages!Scopes
<1>3. c.maxUid \in Nat /\ announced \in [c.boxes -> 0 .. c.maxUid]
  BY SettingIs, TypesAre DEF MessagesInv
<1>4. since \in Messages(c)!Lists
  BY <1>2, <1>3 DEF Messages!Lists
<1>5. z \in Reading(c)
  BY <1>2, <1>4, IdleIs DEF Reading
<1>6. ReadSound(c, r, z)
  <2>1. \A x \in since.shows : x \in done /\ Told(x) /\ Reaches(c, x, s)
    BY DEF Messages!Promised, Told, Reaches
  <2>2. IF s = Folders THEN since.newest = 0 ELSE since.newest <= announced[s]
    BY <1>2, <1>3
  <2>3. Asked(c, z)
    BY <2>1, <2>2 DEF Asked
  <2> QED
    BY <1>1, <1>2, <2>3 DEF ReadSound
<1> HIDE DEF z
<1>7. /\ lists \in [c.boxes \cup {Folders} -> Messages(c)!Lists \cup {None}]
      /\ doubtful \subseteq c.boxes
  BY TypesAre DEF MessagesInv
<1> QED
  BY <1>1, <1>5, <1>6, <1>7, OneReader

\* What a reader that is not idle is.
LEMMA ReaderIs ==
    ASSUME NEW c \in Settings, MessagesInv(c), NEW r \in c.readers, reader[r].at # "idle"
    PROVE  /\ reader[r] \in Reading(c) /\ ReadSound(c, r, reader[r])
           /\ reader[r].scope \in c.boxes \cup {Folders}
           /\ reader[r].scope \in Messages(c)!Scopes
           /\ Asked(c, reader[r])
           /\ reader[r].at # "queued" => ~InLine(r)
           /\ reader[r].at = "served" =>
                 /\ Given(reader[r])
                 /\ ~reader[r].crossed => Current(c, reader[r].scope, reader[r].value)
<1>1. Messages(c)!TypeOK /\ ReadSound(c, r, reader[r])
  BY DEF MessagesInv, ReadsSound
<1>2. reader[r] \in Reading(c)
  BY <1>1, TypesAre
<1> QED
  BY <1>1, <1>2 DEF ReadSound, Messages!Scopes

\* A list from the cache shows what was asked for.
LEMMA ReadCacheStep ==
    ASSUME NEW c \in Settings, MessagesInv(c), NEW r \in c.readers, Messages(c)!ReadCache(r)
    PROVE  MessagesInv(c)'
<1>1. PICK y, v : y = reader[r] /\ v = lists[reader[r].scope]
  OBVIOUS
<1>2. /\ reader' = [reader EXCEPT ![r] = Messages(c)!IdleReader]
      /\ shown' = [value |-> v, since |-> y.since] /\ y.at = "top" /\ v # None
      /\ UNCHANGED <<change, line, done, newest, announced, active, lists, doubtful>>
  BY <1>1 DEF Messages!ReadCache, Messages!MayGoOn, Messages!UsableCache, Messages!Returned,
     Messages!gateway, Messages!helper
<1>3. y.at # "idle"
  BY <1>2
<1>4. Messages(c)!TypeOK
  BY DEF MessagesInv
<1>5. y \in Reading(c) /\ y.scope \in c.boxes \cup {Folders} /\ Asked(c, y)
  BY <1>1, <1>3, ReaderIs
<1>6. /\ lists \in [c.boxes \cup {Folders} -> Messages(c)!Lists \cup {None}]
      /\ doubtful \subseteq c.boxes
  BY <1>4, TypesAre
<1>7. v \in Messages(c)!Lists /\ Current(c, y.scope, v)
  BY <1>1, <1>2, <1>5, <1>6 DEF MessagesInv, ListsSound
<1>8. y.since.shows \subseteq v.shows /\ y.since.newest <= v.newest
  BY <1>4, <1>5, <1>7, CurrentGives
<1>9. /\ shown' \in [value : Messages(c)!Lists, since : Messages(c)!Lists]
      /\ shown'.since.shows \subseteq shown'.value.shows
      /\ shown'.since.newest <= shown'.value.newest
  BY <1>2, <1>5, <1>7, <1>8 DEF Reading
<1> QED
  BY <1>2, <1>6, <1>9, IdleIs, OneReader

\* A reader asks the helper.
LEMMA StartReadStep ==
    ASSUME NEW c \in Settings, MessagesInv(c), NEW r \in c.readers, Messages(c)!StartRead(r)
    PROVE  MessagesInv(c)'
<1>1. PICK y, z : y = reader[r] /\ z = [y EXCEPT !.at = "starting", !.crossed = FALSE]
  OBVIOUS
<1>2. Messages(c)!TypeOK /\ reader \in [c.readers -> Reading(c)]
  BY TypesAre DEF MessagesInv
<1>3. /\ reader' = [reader EXCEPT ![r] = z] /\ y.at = "top"
      /\ UNCHANGED <<change, line, done, newest, announced, active, lists, doubtful, shown>>
  BY <1>1, <1>2 DEF Messages!StartRead, Messages!MayGoOn, Messages!gateway, Messages!helper,
     Messages!history
<1>4. y \in Reading(c) /\ ReadSound(c, r, y)
  BY <1>1, <1>3, ReaderIs
<1>5. z \in Reading(c) /\ z.at = "starting"
  BY <1>1, <1>4 DEF Reading
<1>6. z.scope = y.scope /\ z.op = y.op /\ z.since = y.since /\ z.value = y.value
  BY <1>1, <1>4 DEF Reading
<1>7. ReadSound(c, r, z)
  BY <1>3, <1>4, <1>5, <1>6 DEF ReadSound, Asked
<1>8. /\ lists \in [c.boxes \cup {Folders} -> Messages(c)!Lists \cup {None}]
      /\ doubtful \subseteq c.boxes
      /\ shown \in [value : Messages(c)!Lists, since : Messages(c)!Lists] \cup {None}
      /\ shown # None => /\ shown.since.shows \subseteq shown.value.shows
                         /\ shown.since.newest <= shown.value.newest
  BY <1>2, TypesAre DEF MessagesInv, AnswerSound, Messages!ReturnedShowsSettled,
     Messages!AnnouncedIsListed
<1> QED
  BY <1>3, <1>5, <1>7, <1>8, OneReader

\* The last list that was returned, and the lists, while a reader moves.
LEMMA ShownIs ==
    ASSUME NEW c \in Settings, MessagesInv(c)
    PROVE  /\ lists \in [c.boxes \cup {Folders} -> Messages(c)!Lists \cup {None}]
           /\ doubtful \subseteq c.boxes
           /\ reader \in [c.readers -> Reading(c)]
           /\ shown \in [value : Messages(c)!Lists, since : Messages(c)!Lists] \cup {None}
           /\ shown # None => /\ shown.since.shows \subseteq shown.value.shows
                              /\ shown.since.newest <= shown.value.newest
<1>1. Messages(c)!TypeOK
  BY DEF MessagesInv
<1> QED
  BY <1>1, TypesAre DEF MessagesInv, AnswerSound, Messages!ReturnedShowsSettled,
     Messages!AnnouncedIsListed

\* A read fails or is given up.
LEMMA ReadEndsStep ==
    ASSUME NEW c \in Settings, MessagesInv(c), NEW r \in c.readers, Messages(c)!ReadEnds(r)
    PROVE  MessagesInv(c)'
<1>1. /\ reader' = [reader EXCEPT ![r] = Messages(c)!IdleReader]
      /\ UNCHANGED <<change, line, done, newest, announced, active, lists, doubtful, shown>>
  BY DEF Messages!ReadEnds, Messages!gateway, Messages!helper, Messages!history
<1>2. /\ lists' \in [c.boxes \cup {Folders} -> Messages(c)!Lists \cup {None}]
      /\ doubtful' \subseteq c.boxes
      /\ shown' \in [value : Messages(c)!Lists, since : Messages(c)!Lists] \cup {None}
      /\ shown' # None => /\ shown'.since.shows \subseteq shown'.value.shows
                          /\ shown'.since.newest <= shown'.value.newest
  BY <1>1, ShownIs
<1>3. \A s \in c.boxes \cup {Folders} : lists'[s] # None =>
          \/ lists'[s] = lists[s]
          \/ Current(c, s, lists'[s]) /\ (s # Folders => active[s] = 0)
  BY <1>1
<1> QED
  BY <1>1, <1>2, <1>3, IdleIs, OneReader

\* An entry is dropped.
LEMMA EntryDroppedStep ==
    ASSUME NEW c \in Settings, MessagesInv(c), NEW s \in Messages(c)!Scopes,
           Messages(c)!EntryDropped(s)
    PROVE  MessagesInv(c)'
<1>1. /\ lists' = [lists EXCEPT ![s] = None]
      /\ UNCHANGED <<change, line, done, newest, announced, active, reader, doubtful, shown>>
  BY DEF Messages!EntryDropped, Messages!helper, Messages!history
<1>2. /\ doubtful' \subseteq c.boxes
      /\ reader' \in [c.readers -> Reading(c)]
      /\ shown' \in [value : Messages(c)!Lists, since : Messages(c)!Lists] \cup {None}
      /\ shown' # None => /\ shown'.since.shows \subseteq shown'.value.shows
                          /\ shown'.since.newest <= shown'.value.newest
  BY <1>1, ShownIs
<1>3. lists' \in [c.boxes \cup {Folders} -> Messages(c)!Lists \cup {None}]
  BY <1>1, ShownIs
<1>4. \A t \in c.boxes \cup {Folders} : lists'[t] # None => lists'[t] = lists[t]
  BY <1>1, ShownIs
<1>5. \A r \in c.readers : ReadSound(c, r, reader'[r])
  BY <1>1 DEF MessagesInv, ReadsSound
<1>6. UNCHANGED <<change, line, done, newest, announced, active>>
  BY <1>1
<1>7. \A t \in c.boxes \cup {Folders} : lists'[t] # None =>
          \/ lists'[t] = lists[t]
          \/ Current(c, t, lists'[t]) /\ (t # Folders => active[t] = 0)
  BY <1>4
<1> QED
  BY <1>2, <1>3, <1>5, <1>6, <1>7, ReadersMove

\* A list of messages arrives, and is kept unless something crossed it.
LEMMA MessagesArriveStep ==
    ASSUME NEW c \in Settings, MessagesInv(c), NEW r \in c.readers,
           Messages(c)!MessagesArrive(r)
    PROVE  MessagesInv(c)'
<1>1. PICK y : y = reader[r]
  OBVIOUS
<1>2. /\ y.at = "served" /\ y.op = "list" /\ y.scope # Folders
      /\ UNCHANGED <<change, line, done, newest, announced, active>>
  BY <1>1 DEF Messages!MessagesArrive, Messages!Returned, Messages!gateway, Messages!helper,
     Messages!history
<1>3. /\ y \in Reading(c) /\ ReadSound(c, r, y) /\ y.scope \in c.boxes \cup {Folders}
      /\ ~InLine(r) /\ Given(y)
      /\ ~y.crossed => Current(c, y.scope, y.value)
  BY <1>1, <1>2, ReaderIs
<1>4. CASE y.crossed \/ active[y.scope] # 0
  <2>1. PICK z : z = [y EXCEPT !.at = "top"]
    OBVIOUS
  <2>2. /\ reader' = [reader EXCEPT ![r] = z]
        /\ UNCHANGED <<lists, doubtful, shown>>
    BY <1>1, <1>4, <2>1, ShownIs DEF Messages!MessagesArrive, Messages!CrossedRead,
       Messages!gateway, Messages!history
  <2>3. /\ z \in Reading(c) /\ z.at = "top" /\ z.scope = y.scope /\ z.op = y.op
        /\ z.since = y.since
    BY <1>3, <2>1 DEF Reading
  <2>4. ReadSound(c, r, z)
    BY <1>2, <1>3, <2>3 DEF ReadSound, Asked
  <2>5. /\ lists' \in [c.boxes \cup {Folders} -> Messages(c)!Lists \cup {None}]
        /\ doubtful' \subseteq c.boxes
        /\ shown' \in [value : Messages(c)!Lists, since : Messages(c)!Lists] \cup {None}
        /\ shown' # None => /\ shown'.since.shows \subseteq shown'.value.shows
                            /\ shown'.since.newest <= shown'.value.newest
    BY <2>2, ShownIs
  <2>6. \A s \in c.boxes \cup {Folders} : lists'[s] # None =>
            \/ lists'[s] = lists[s]
            \/ Current(c, s, lists'[s]) /\ (s # Folders => active[s] = 0)
    BY <2>2
  <2> QED
    BY <1>2, <2>2, <2>3, <2>4, <2>5, <2>6, OneReader
<1>5. CASE ~(y.crossed \/ active[y.scope] # 0)
  <2>1. /\ reader' = [reader EXCEPT ![r] = Messages(c)!IdleReader]
        /\ lists' = [lists EXCEPT ![y.scope] = y.value]
        /\ doubtful' = doubtful \ {y.scope}
        /\ shown' = [value |-> y.value, since |-> y.since]
    BY <1>1, <1>5 DEF Messages!MessagesArrive, Messages!CrossedRead, Messages!Returned
  <2>2. /\ lists' \in [c.boxes \cup {Folders} -> Messages(c)!Lists \cup {None}]
        /\ doubtful' \subseteq c.boxes
        /\ shown' \in [value : Messages(c)!Lists, since : Messages(c)!Lists] \cup {None}
        /\ shown' # None => /\ shown'.since.shows \subseteq shown'.value.shows
                            /\ shown'.since.newest <= shown'.value.newest
    BY <1>3, <2>1, ShownIs DEF Reading, Given
  <2>3. ASSUME NEW s \in c.boxes \cup {Folders}
        PROVE  \/ lists'[s] = lists[s]
               \/ Current(c, s, lists'[s]) /\ (s # Folders => active[s] = 0)
    <3>1. CASE s = y.scope
      <4>1. lists'[s] = y.value
        BY <2>1, <3>1, ShownIs
      <4>2. Current(c, s, y.value) /\ active[s] = 0
        BY <1>3, <1>5, <3>1
      <4> QED
        BY <4>1, <4>2
    <3>2. CASE s # y.scope
      BY <2>1, <3>2, ShownIs
    <3> QED
      BY <3>1, <3>2
  <2> QED
    BY <1>2, <2>1, <2>2, <2>3, IdleIs, OneReader
<1> QED
  BY <1>4, <1>5

\* A list of folders arrives.
LEMMA MailboxesArriveStep ==
    ASSUME NEW c \in Settings, MessagesInv(c), NEW r \in c.readers,
           Messages(c)!MailboxesArrive(r)
    PROVE  MessagesInv(c)'
<1>1. PICK y : y = reader[r]
  OBVIOUS
<1>2. /\ y.at = "served" /\ y.scope = Folders
      /\ UNCHANGED <<change, line, done, newest, announced, active, doubtful>>
      /\ reader' = [reader EXCEPT ![r] = Messages(c)!IdleReader]
      /\ lists' = IF y.crossed THEN lists ELSE [lists EXCEPT ![Folders] = y.value]
      /\ shown' = [value |-> y.value, since |-> y.since]
  BY <1>1 DEF Messages!MailboxesArrive, Messages!Returned, Messages!helper
<1>3. /\ y \in Reading(c) /\ Given(y)
      /\ ~y.crossed => Current(c, Folders, y.value)
  BY <1>1, <1>2, ReaderIs
<1>4. /\ lists' \in [c.boxes \cup {Folders} -> Messages(c)!Lists \cup {None}]
      /\ doubtful' \subseteq c.boxes
      /\ shown' \in [value : Messages(c)!Lists, since : Messages(c)!Lists] \cup {None}
      /\ shown' # None => /\ shown'.since.shows \subseteq shown'.value.shows
                          /\ shown'.since.newest <= shown'.value.newest
  BY <1>2, <1>3, ShownIs DEF Reading, Given
<1>5. ASSUME NEW s \in c.boxes \cup {Folders}
      PROVE  \/ lists'[s] = lists[s]
             \/ Current(c, s, lists'[s]) /\ (s # Folders => active[s] = 0)
  <2>1. CASE s = Folders /\ ~y.crossed
    <3>1. lists'[s] = y.value
      BY <1>2, <2>1, ShownIs
    <3> QED
      BY <1>3, <2>1, <3>1
  <2>2. CASE s # Folders \/ y.crossed
    BY <1>2, <2>2, ShownIs
  <2> QED
    BY <2>1, <2>2
<1> QED
  BY <1>2, <1>4, <1>5, IdleIs, OneReader

\* A reader joins the line, behind whatever has settled.
LEMMA ReadConnectsStep ==
    ASSUME NEW c \in Settings, MessagesInv(c), NEW r \in c.readers,
           Messages(c)!ReadConnects(r)
    PROVE  MessagesInv(c)'
<1>1. PICK y, z : y = reader[r] /\ z = [y EXCEPT !.at = "queued"]
  OBVIOUS
<1>2. Messages(c)!TypeOK /\ ListsSound(c) /\ LineOnce
  BY DEF MessagesInv
<1>3. /\ y.at = "starting" /\ reader' = [reader EXCEPT ![r] = z]
      /\ line' = Append(line, r)
      /\ UNCHANGED <<change, done, newest, announced, active, lists, doubtful, shown>>
  BY <1>1, ShownIs DEF Messages!ReadConnects, Messages!gateway, Messages!history
<1>4. y \in Reading(c) /\ ReadSound(c, r, y) /\ ~InLine(r)
  BY <1>1, <1>3, ReaderIs
<1>5. z \in Reading(c) /\ z.at = "queued"
  BY <1>1, <1>4 DEF Reading
<1>6. z.scope = y.scope /\ z.op = y.op /\ z.since = y.since /\ z.value = y.value
  BY <1>1, <1>4 DEF Reading
<1>7. line \in Seq(c.readers \cup c.changes)
  BY <1>2, TypesAre
<1>8. /\ line' \in Seq(c.readers \cup c.changes) /\ Len(line) \in Nat
      /\ DOMAIN line = 1 .. Len(line) /\ DOMAIN line' = 1 .. Len(line) + 1
      /\ \A i \in DOMAIN line : line'[i] = line[i]
      /\ line'[Len(line) + 1] = r
      /\ \A x : InLine(x)' <=> InLine(x) \/ x = r
      /\ LineOnce'
  BY <1>2, <1>3, <1>4, <1>7, Joined
<1>9. r \notin c.changes
  BY SettingIs
<1>10. \A x \in c.changes : InLine(x)' <=> InLine(x)
  BY <1>8, <1>9
<1>11. /\ \A x, s : Reaches(c, x, s)' <=> Reaches(c, x, s)
       /\ \A x : Told(x)' <=> Told(x)
  BY <1>3 DEF Reaches, Told, Messages!Affected
<1>12. \A s : Steady(c, s)
  BY <1>3, <1>10, <1>11 DEF Steady
<1>13. Messages(c)!TypeOK'
  BY <1>2, <1>3, <1>5, <1>8, TypesAre, TypesNext
<1>14. \A x \in c.changes : ChangeSound(c, x)'
  BY <1>3, <1>10 DEF MessagesInv, ChangeSound
<1>15. DeletesCounted(c)'
  BY <1>3 DEF MessagesInv, DeletesCounted, DeletesOf
<1>16. Onward(c)
  BY <1>2, <1>3, <1>11, NumbersAre DEF Onward
<1>17. ReadsSound(c)'
  <2> SUFFICES ASSUME NEW q \in c.readers PROVE ReadSound(c, q, reader[q])'
    BY DEF ReadsSound
  <2>1. DOMAIN line' \subseteq Int
    BY <1>8
  <2>2. CASE q # r
    <3>1. PICK w : w = reader[q] /\ w = reader'[q]
      BY <1>3, <2>2, ShownIs
    <3>2. w \in Reading(c) /\ ReadSound(c, q, w)
      <4>1. reader[q] \in Reading(c)
        BY ShownIs
      <4>2. ReadSound(c, q, reader[q])
        BY DEF MessagesInv, ReadsSound
      <4> QED
        BY <3>1, <4>1, <4>2
    <3>3. InOrder(c, q)
      BY <1>3, <1>7, <1>9, <2>2, LineGrows
    <3>4. InLine(q)' => InLine(q)
      BY <1>8, <2>2
    <3>5. SameRead(w, w)
      BY DEF SameRead
    <3>6. /\ announced \in [c.boxes -> 0 .. c.maxUid] /\ newest \in [c.boxes -> 0 .. c.maxUid]
          /\ announced' \in [c.boxes -> 0 .. c.maxUid] /\ newest' \in [c.boxes -> 0 .. c.maxUid]
      BY <1>2, <1>3, TypesAre
    <3>7. ReadSound(c, q, w)'
      BY <1>12, <1>16, <2>1, <3>2, <3>3, <3>4, <3>5, <3>6, ReadKept
    <3> QED
      BY <3>1, <3>7
  <2>3. CASE q = r
    <3>1. /\ y.scope \in c.boxes \cup {Folders}
          /\ y.op = "latest" => y.scope \in c.boxes
          /\ Asked(c, y)
      BY <1>3, <1>4 DEF ReadSound
    <3>2. Asked(c, z)'
      BY <1>3, <1>6, <1>11, <3>1 DEF Asked
    <3>3. Behind(c, r, z.scope)'
      <4>1. \A i \in DOMAIN line' : line'[i] = r => i = Len(line) + 1
        BY <1>4, <1>8 DEF InLine
      <4>2. \A x \in c.changes, j \in DOMAIN line' : line'[j] = x => j < Len(line) + 1
        BY <1>8, <1>9
      <4> QED
        BY <4>1, <4>2 DEF Behind
    <3>4. ReadSound(c, r, z)'
      BY <1>5, <1>6, <3>1, <3>2, <3>3 DEF ReadSound
    <3>5. z = reader'[r]
      BY <1>3, ShownIs
    <3> QED
      BY <2>3, <3>4, <3>5
  <2> QED
    BY <2>2, <2>3
<1>18. \A b \in c.boxes : announced'[b] <= newest'[b]
  BY <1>2, <1>3 DEF ListsSound
<1> QED
  BY <1>3, <1>8, <1>12, <1>13, <1>14, <1>15, <1>17, <1>18, WorldMoves

----------------------------------------------------------------------------
(* The steps of the helper, and of delivery. *)

\* A change that only goes on has the outcome and the scopes it had.
LEMMA SameOutcome ==
    ASSUME NEW c \in Settings, NEW x,
           change'[x].kind = change[x].kind, change'[x].src = change[x].src,
           change'[x].dst = change[x].dst, change'[x].told = change[x].told
    PROVE  (Told(x)' <=> Told(x)) /\ \A s : Reaches(c, x, s)' <=> Reaches(c, x, s)
BY DEF Told, Reaches, Messages!Affected

\* A message is delivered.
LEMMA DeliverStep ==
    ASSUME NEW c \in Settings, MessagesInv(c), NEW b \in c.boxes, Messages(c)!Deliver(b)
    PROVE  MessagesInv(c)'
<1>1. Messages(c)!TypeOK /\ ListsSound(c) /\ LineOnce
  BY DEF MessagesInv
<1>2. /\ newest' = [newest EXCEPT ![b] = newest[b] + 1] /\ newest[b] < c.maxUid
      /\ UNCHANGED <<change, line, done, announced, active, lists, doubtful, shown, reader>>
  BY <1>1, TypesAre DEF Messages!Deliver, Messages!gateway, Messages!history
<1>3. newest' \in [c.boxes -> 0 .. c.maxUid]
  <2>1. newest \in [c.boxes -> 0 .. c.maxUid] /\ c.maxUid \in Nat
    BY <1>1, SettingIs, TypesAre
  <2>2. newest[b] + 1 \in 0 .. c.maxUid
    BY <1>2, <2>1
  <2> QED
    BY <1>2, <2>1, <2>2
<1>4. \A a \in c.boxes : newest'[a] \in Nat /\ newest[a] <= newest'[a]
  <2>1. newest \in [c.boxes -> 0 .. c.maxUid] /\ \A a \in c.boxes : newest[a] \in Nat
    BY <1>1, NumbersAre, TypesAre
  <2> QED
    BY <1>2, <2>1
<1>5. /\ \A x, s : Reaches(c, x, s)' <=> Reaches(c, x, s)
      /\ \A x : Told(x)' <=> Told(x)
  BY <1>2 DEF Reaches, Told, Messages!Affected
<1>6. /\ \A x : InLine(x)' <=> InLine(x)
      /\ \A r : InOrder(c, r)
      /\ LineOnce'
  BY <1>1, <1>2, LineRests
<1>7. \A s : Steady(c, s)
  BY <1>2, <1>5, <1>6 DEF Steady
<1>8. Messages(c)!TypeOK'
  BY <1>1, <1>2, <1>3, TypesAre, TypesNext
<1>9. \A x \in c.changes : ChangeSound(c, x)'
  BY <1>2, <1>6 DEF MessagesInv, ChangeSound
<1>10. DeletesCounted(c)'
  BY <1>2 DEF MessagesInv, DeletesCounted, DeletesOf
<1>11. Onward(c)
  BY <1>1, <1>2, <1>4, <1>5, NumbersAre DEF Onward
<1>12. ReadsSound(c)'
  <2>1. \A r \in c.readers : SameRead(reader[r], reader'[r])
    BY <1>2 DEF SameRead
  <2>2. /\ reader' \in [c.readers -> Reading(c)] /\ line' \in Seq(c.readers \cup c.changes)
        /\ announced' \in [c.boxes -> 0 .. c.maxUid]
    BY <1>1, <1>2, TypesAre
  <2> QED
    BY <1>3, <1>6, <1>7, <1>11, <2>1, <2>2, ReadsKept
<1>13. \A a \in c.boxes : announced'[a] <= newest'[a]
  BY <1>1, <1>2, <1>4, NumbersAre DEF ListsSound
<1> QED
  BY <1>2, <1>6, <1>7, <1>8, <1>9, <1>10, <1>12, <1>13, WorldMoves

\* A reader is served: whatever settled before it was asked for came before it in
\* line, and is shown.
LEMMA ServeReadStep ==
    ASSUME NEW c \in Settings, MessagesInv(c), Messages(c)!ServeRead
    PROVE  MessagesInv(c)'
<1>1. Messages(c)!TypeOK /\ ListsSound(c) /\ LineOnce
  BY DEF MessagesInv
<1>2. PICK r \in c.readers : r = Head(line)
  BY DEF Messages!ServeRead
<1>3. PICK y, v, z : /\ y = reader[r] /\ v = Messages(c)!Shown(y.scope)
                     /\ z = IF y.at = "queued" THEN [y EXCEPT !.at = "served", !.value = v]
                            ELSE y
  OBVIOUS
<1>4. /\ line # <<>> /\ line' = Tail(line)
      /\ reader' = [reader EXCEPT ![r] = z]
      /\ UNCHANGED <<change, done, newest, announced, active, lists, doubtful, shown>>
  BY <1>2, <1>3, ShownIs DEF Messages!ServeRead, Messages!gateway, Messages!history
<1>5. line \in Seq(c.readers \cup c.changes)
  BY <1>1, TypesAre
<1>6. /\ line' \in Seq(c.readers \cup c.changes) /\ LineOnce'
      /\ 1 \in DOMAIN line /\ r = line[1] /\ DOMAIN line \subseteq Int
      /\ \A x : InLine(x)' <=> InLine(x) /\ x # r
  BY <1>1, <1>2, <1>4, <1>5, Served
<1>7. DOMAIN line' \subseteq Int
  <2>1. Len(line') \in Nat /\ DOMAIN line' = 1 .. Len(line')
    BY <1>6
  <2> QED
    BY <2>1
<1>8. \A q : InOrder(c, q)
  BY <1>1, <1>4, <1>5, LineMoves
<1>9. r \notin c.changes
  BY SettingIs
<1>10. \A x \in c.changes : InLine(x)' <=> InLine(x)
  BY <1>6, <1>9
<1>11. /\ \A x, s : Reaches(c, x, s)' <=> Reaches(c, x, s)
       /\ \A x : Told(x)' <=> Told(x)
  BY <1>4 DEF Reaches, Told, Messages!Affected
<1>12. \A s : Steady(c, s)
  BY <1>4, <1>10, <1>11 DEF Steady
<1>13. y \in Reading(c) /\ ReadSound(c, r, y)
  <2>1. reader[r] \in Reading(c)
    BY ShownIs
  <2>2. ReadSound(c, r, reader[r])
    BY DEF MessagesInv, ReadsSound
  <2> QED
    BY <1>3, <2>1, <2>2
<1>14. Onward(c)
  BY <1>1, <1>4, <1>11, NumbersAre DEF Onward
<1>15. /\ announced \in [c.boxes -> 0 .. c.maxUid] /\ newest \in [c.boxes -> 0 .. c.maxUid]
       /\ announced' \in [c.boxes -> 0 .. c.maxUid] /\ newest' \in [c.boxes -> 0 .. c.maxUid]
  BY <1>1, <1>4, TypesAre
<1>16. z \in Reading(c) /\ ReadSound(c, r, z)'
  <2>1. CASE y.at # "queued"
    <3>1. z = y /\ SameRead(y, z) /\ (InLine(r)' => InLine(r))
      BY <1>3, <1>6, <2>1 DEF SameRead
    <3> QED
      BY <1>7, <1>8, <1>12, <1>13, <1>14, <1>15, <3>1, ReadKept
  <2>2. CASE y.at = "queued"
    <3>1. /\ y.scope \in c.boxes \cup {Folders}
          /\ y.op = "latest" => y.scope \in c.boxes
          /\ Asked(c, y)
          /\ ~y.crossed => Behind(c, r, y.scope)
      BY <1>13, <2>2 DEF ReadSound
    <3>2. /\ v.shows = {x \in done : y.scope \in Messages(c)!Affected(x)}
          /\ v.newest = IF y.scope = Folders THEN 0 ELSE newest[y.scope]
          /\ v = [shows |-> v.shows, newest |-> v.newest]
      BY <1>3 DEF Messages!Shown
    <3>3. v \in Messages(c)!Lists
      <4>1. done \subseteq c.changes /\ c.maxUid \in Nat
        BY <1>1, SettingIs, TypesAre
      <4>2. v.shows \in SUBSET c.changes /\ v.newest \in 0 .. c.maxUid
        BY <1>15, <3>1, <3>2, <4>1
      <4> QED
        BY <3>2, <4>2 DEF Messages!Lists
    <3>4. z \in Reading(c) /\ z.at = "served"
      BY <1>3, <1>13, <2>2, <3>3 DEF Reading
    <3>5. /\ z.scope = y.scope /\ z.op = y.op /\ z.since = y.since /\ z.value = v
          /\ z.crossed = y.crossed
      BY <1>3, <1>13, <2>2 DEF Reading
    <3>6. Asked(c, z)'
      BY <1>4, <1>11, <3>1, <3>5 DEF Asked
    <3>7. Given(z)'
      <4>1. y.since.shows \subseteq v.shows
        BY <3>1, <3>2 DEF Asked, Reaches
      <4>2. y.since.newest <= v.newest
        <5>1. CASE y.scope = Folders
          BY <3>1, <3>2, <5>1 DEF Asked
        <5>2. CASE y.scope # Folders
          <6>1. PICK b \in c.boxes : b = y.scope
            BY <3>1, <5>2
          <6>2. /\ announced[b] \in Nat /\ newest[b] \in Nat /\ announced[b] <= newest[b]
                /\ y.since.newest <= announced[b] /\ v.newest = newest[b]
            BY <1>1, <3>1, <3>2, <5>2, <6>1, NumbersAre DEF Asked, ListsSound
          <6>3. c.maxUid \in Nat
            BY SettingIs
          <6>4. y.since.newest \in Nat
            BY <1>13, <6>3 DEF Reading, Messages!Lists
          <6> QED
            BY <6>2, <6>4
        <5> QED
          BY <5>1, <5>2
      <4>3. y.scope # Folders => v.newest <= newest[y.scope]
        BY <1>1, <3>1, <3>2, NumbersAre
      <4> QED
        BY <1>4, <3>5, <4>1, <4>2, <4>3 DEF Given
    <3>8. ASSUME ~y.crossed PROVE Current(c, y.scope, v)
      <4>1. ASSUME NEW x \in c.changes, Told(x), Reaches(c, x, y.scope)
            PROVE  ~InLine(x) /\ (x \in done => x \in v.shows)
        <5>1. \A j \in DOMAIN line : line[j] = x => j < 1
          BY <1>6, <3>1, <3>8, <4>1 DEF Behind
        <5>2. \A j \in DOMAIN line : ~(j < 1)
          <6>1. Len(line) \in Nat /\ DOMAIN line = 1 .. Len(line)
            BY <1>5
          <6> QED
            BY <6>1
        <5> QED
          BY <3>2, <4>1, <5>1, <5>2 DEF InLine, Reaches
      <4>2. y.scope # Folders => announced[y.scope] <= v.newest
        BY <1>1, <3>1, <3>2 DEF ListsSound
      <4> QED
        BY <4>1, <4>2 DEF Current
    <3>9. ASSUME ~z.crossed PROVE Current(c, z.scope, z.value)'
      BY <1>12, <3>5, <3>8, <3>9, CurrentKept
    <3>10. ~InLine(r)'
      BY <1>6
    <3>11. ReadSound(c, r, z)'
      BY <3>1, <3>4, <3>5, <3>6, <3>7, <3>9, <3>10 DEF ReadSound
    <3> QED
      BY <3>4, <3>11
  <2> QED
    BY <2>1, <2>2
<1>17. Messages(c)!TypeOK'
  <2>1. reader' \in [c.readers -> Reading(c)]
    BY <1>4, <1>16, ShownIs
  <2> QED
    BY <1>1, <1>4, <1>6, <2>1, TypesAre, TypesNext
<1>18. \A x \in c.changes : ChangeSound(c, x)'
  BY <1>4, <1>10 DEF MessagesInv, ChangeSound
<1>19. DeletesCounted(c)'
  BY <1>4 DEF MessagesInv, DeletesCounted, DeletesOf
<1>20. ReadsSound(c)'
  <2> SUFFICES ASSUME NEW q \in c.readers PROVE ReadSound(c, q, reader[q])'
    BY DEF ReadsSound
  <2>1. CASE q = r
    <3>1. z = reader'[q]
      BY <1>4, <2>1, ShownIs
    <3> QED
      BY <1>16, <2>1, <3>1
  <2>2. CASE q # r
    <3>1. PICK w : w = reader[q] /\ w = reader'[q]
      BY <1>4, <2>2, ShownIs
    <3>2. w \in Reading(c) /\ ReadSound(c, q, w)
      <4>1. reader[q] \in Reading(c)
        BY ShownIs
      <4>2. ReadSound(c, q, reader[q])
        BY DEF MessagesInv, ReadsSound
      <4> QED
        BY <3>1, <4>1, <4>2
    <3>3. SameRead(w, w) /\ (InLine(q)' => InLine(q))
      BY <1>6 DEF SameRead
    <3>4. ReadSound(c, q, w)'
      BY <1>7, <1>8, <1>12, <1>14, <1>15, <3>2, <3>3, ReadKept
    <3> QED
      BY <3>1, <3>4
  <2> QED
    BY <2>1, <2>2
<1>21. \A b \in c.boxes : announced'[b] <= newest'[b]
  BY <1>1, <1>4 DEF ListsSound
<1> QED
  BY <1>4, <1>6, <1>12, <1>17, <1>18, <1>19, <1>20, <1>21, WorldMoves

----------------------------------------------------------------------------
(* The steps of the changes. *)

\* What a change is.
LEMMA ChangeIs ==
    ASSUME NEW c \in Settings, MessagesInv(c), NEW x \in c.changes
    PROVE  /\ change \in [c.changes -> Changing(c)] /\ change[x] \in Changing(c)
           /\ ChangeSound(c, x)
           /\ x \notin c.readers
<1>1. Messages(c)!TypeOK /\ ChangeSound(c, x)
  BY DEF MessagesInv
<1>2. change \in [c.changes -> Changing(c)]
  BY <1>1, TypesAre
<1>3. x \notin c.readers
  BY SettingIs
<1> QED
  BY <1>1, <1>2, <1>3

\* A change that is under way goes on: who had settled has settled, and as many
\* deletes are under way.
LEMMA ChangeGoesOn ==
    ASSUME NEW c \in Settings, MessagesInv(c), NEW x \in c.changes, NEW at,
           change' = [change EXCEPT ![x].at = at],
           at \in {"queued", "served", "refused", "over"},
           at = "over" <=> change[x].at = "loose", change[x].at \notin {"new", "over"}
    PROVE  /\ change' \in [c.changes -> Changing(c)]
           /\ \A y \in c.changes : /\ Told(y)' <=> Told(y)
                                   /\ \A s : Reaches(c, y, s)' <=> Reaches(c, y, s)
           /\ \A b : DeletesOf(c, b)' = DeletesOf(c, b)
           /\ \A y \in c.changes : y # x => change'[y] = change[y]
           /\ change'[x].at = at /\ change'[x].kind = change[x].kind
           /\ change'[x].src = change[x].src /\ change'[x].dst = change[x].dst
           /\ change'[x].told = change[x].told
<1>1. PICK w, v : w = change[x] /\ v = [w EXCEPT !.at = at]
  OBVIOUS
<1>2. w \in Changing(c) /\ ChangeSound(c, x) /\ change \in [c.changes -> Changing(c)]
  BY <1>1, ChangeIs
<1>3. /\ v \in Changing(c) /\ v.at = at /\ v.kind = w.kind /\ v.src = w.src /\ v.dst = w.dst
      /\ v.told = w.told
  BY <1>1, <1>2 DEF Changing
<1>4. change' = [change EXCEPT ![x] = v]
  BY <1>1, <1>2
<1>5. change' \in [c.changes -> Changing(c)]
  BY <1>2, <1>3, <1>4
<1>6. \A y \in c.changes : y # x => change'[y] = change[y]
  BY <1>2, <1>4
<1>7. change'[x] = v
  BY <1>2, <1>4
<1>8. ASSUME NEW y \in c.changes
      PROVE  /\ Told(y)' <=> Told(y)
             /\ \A s : Reaches(c, y, s)' <=> Reaches(c, y, s)
  <2>1. /\ change'[y].kind = change[y].kind /\ change'[y].src = change[y].src
        /\ change'[y].dst = change[y].dst /\ change'[y].told = change[y].told
    BY <1>1, <1>3, <1>6, <1>7
  <2> QED
    BY <2>1, SameOutcome
<1>9. ASSUME NEW b PROVE DeletesOf(c, b)' = DeletesOf(c, b)
  <2>1. ASSUME NEW y \in c.changes PROVE y \in DeletesOf(c, b)' <=> y \in DeletesOf(c, b)
    <3>1. CASE y # x
      BY <1>6, <3>1 DEF DeletesOf
    <3>2. CASE y = x
      <4>1. w.kind = "delete" => w.at # "loose"
        BY <1>1, <1>2 DEF ChangeSound
      <4>2. w.kind = "delete" => /\ w.at \in {"starting", "queued", "served", "refused"}
                                 /\ v.at \in {"starting", "queued", "served", "refused"}
        BY <1>1, <1>2, <1>3, <4>1 DEF Changing
      <4> QED
        BY <1>1, <1>3, <1>7, <3>2, <4>2 DEF DeletesOf
    <3> QED
      BY <3>1, <3>2
  <2> QED
    BY <2>1 DEF DeletesOf
<1> QED
  BY <1>1, <1>3, <1>5, <1>6, <1>7, <1>8, <1>9

\* Reads, lists and counters, while a change goes on.
LEMMA WorldGoesOn ==
    ASSUME NEW c \in Settings, MessagesInv(c), \A s : Steady(c, s),
           UNCHANGED <<reader, announced, newest, active, lists, doubtful, shown>>,
           done \subseteq done', done' \subseteq c.changes,
           change' \in [c.changes -> Changing(c)],
           line' \in Seq(c.readers \cup c.changes), LineOnce',
           \A r \in c.readers : InOrder(c, r) /\ (InLine(r)' => InLine(r)),
           \A y \in c.changes : /\ Told(y)' <=> Told(y)
                                /\ \A s : Reaches(c, y, s)' <=> Reaches(c, y, s),
           \A b : DeletesOf(c, b)' = DeletesOf(c, b),
           \A y \in c.changes : ChangeSound(c, y)'
    PROVE  MessagesInv(c)'
<1>1. Messages(c)!TypeOK /\ ListsSound(c) /\ DeletesCounted(c)
  BY DEF MessagesInv
<1>2. Messages(c)!TypeOK'
  BY <1>1, TypesAre, TypesNext
<1>3. DeletesCounted(c)'
  BY <1>1 DEF DeletesCounted
<1>4. Onward(c)
  BY <1>1, NumbersAre DEF Onward
<1>5. ReadsSound(c)'
  <2>1. \A r \in c.readers : SameRead(reader[r], reader'[r])
    BY DEF SameRead
  <2>2. /\ reader' \in [c.readers -> Reading(c)]
        /\ announced' \in [c.boxes -> 0 .. c.maxUid] /\ newest' \in [c.boxes -> 0 .. c.maxUid]
    BY <1>1, TypesAre
  <2> QED
    BY <1>4, <2>1, <2>2, ReadsKept
<1>6. \A b \in c.boxes : announced'[b] <= newest'[b]
  BY <1>1 DEF ListsSound
<1> QED
  BY <1>2, <1>3, <1>5, <1>6, WorldMoves

\* A change joins the line; its outcome was not reported.
LEMMA ChangeConnectsStep ==
    ASSUME NEW c \in Settings, MessagesInv(c), NEW x \in c.changes,
           Messages(c)!ChangeConnects(x)
    PROVE  MessagesInv(c)'
<1>1. Messages(c)!TypeOK /\ LineOnce /\ ReadsSound(c)
  BY DEF MessagesInv
<1>2. PICK at : at = IF change[x].at = "loose" THEN "over" ELSE "queued"
  OBVIOUS
<1>3. /\ change[x].at \in {"starting", "loose"}
      /\ change' = [change EXCEPT ![x].at = at]
      /\ line' = Append(line, x)
      /\ UNCHANGED <<reader, announced, newest, active, lists, doubtful, shown, done>>
  BY <1>2, ChangeIs DEF Messages!ChangeConnects, Messages!gateway, Messages!history
<1>4. ChangeSound(c, x) /\ x \notin c.readers
  BY ChangeIs
<1>5. ~Told(x) /\ ~InLine(x)
  BY <1>3, <1>4, SettingIs DEF ChangeSound, Told
<1>6. /\ at \in {"queued", "served", "refused", "over"} /\ (at = "over" <=> change[x].at = "loose")
      /\ change[x].at \notin {"new", "over"}
  BY <1>2, <1>3
<1>7. /\ change' \in [c.changes -> Changing(c)]
      /\ \A y \in c.changes : /\ Told(y)' <=> Told(y)
                              /\ \A s : Reaches(c, y, s)' <=> Reaches(c, y, s)
      /\ \A b : DeletesOf(c, b)' = DeletesOf(c, b)
      /\ \A y \in c.changes : y # x => change'[y] = change[y]
      /\ change'[x].at = at /\ change'[x].kind = change[x].kind
      /\ change'[x].src = change[x].src /\ change'[x].dst = change[x].dst
      /\ change'[x].told = change[x].told
  BY <1>3, <1>6, ChangeGoesOn
<1>8. line \in Seq(c.readers \cup c.changes)
  BY <1>1, TypesAre
<1>9. /\ line' \in Seq(c.readers \cup c.changes)
      /\ \A y : InLine(y)' <=> InLine(y) \/ y = x
      /\ LineOnce'
  BY <1>1, <1>3, <1>5, <1>8, Joined
<1>10. \A r \in c.readers : InOrder(c, r) /\ (InLine(r)' => InLine(r))
  BY <1>3, <1>4, <1>5, <1>8, <1>9, LineGrows
<1>11. \A s : Steady(c, s)
  BY <1>3, <1>5, <1>7, <1>9 DEF Steady
<1>12. \A y \in c.changes : ChangeSound(c, y)'
  <2> SUFFICES ASSUME NEW y \in c.changes PROVE ChangeSound(c, y)'
    OBVIOUS
  <2>1. CASE y # x
    <3>1. ChangeSound(c, y)
      BY ChangeIs
    <3> QED
      BY <1>3, <1>7, <1>9, <2>1, <3>1 DEF ChangeSound
  <2>2. CASE y = x
    BY <1>2, <1>3, <1>4, <1>6, <1>7, <2>2 DEF ChangeSound
  <2> QED
    BY <2>1, <2>2
<1>13. done \subseteq done' /\ done' \subseteq c.changes
  BY <1>1, <1>3, TypesAre
<1> QED
  BY <1>3, <1>7, <1>9, <1>10, <1>11, <1>12, <1>13, WorldGoesOn

\* A change is made or refused; nobody was told its outcome for a list that is
\* current, since it waited in line.
LEMMA ServeChangeStep ==
    ASSUME NEW c \in Settings, MessagesInv(c), Messages(c)!ServeChange
    PROVE  MessagesInv(c)'
<1>1. Messages(c)!TypeOK /\ LineOnce /\ ReadsSound(c)
  BY DEF MessagesInv
<1>2. PICK x \in c.changes : x = Head(line)
  BY DEF Messages!ServeChange
<1>3. PICK at \in {"served", "refused"} :
        /\ change' = IF change[x].at = "queued" THEN [change EXCEPT ![x].at = at] ELSE change
        /\ at = "served" => done' = done \cup {x}
        /\ at = "refused" => done' = done
  BY <1>2 DEF Messages!ServeChange
<1>4. /\ line # <<>> /\ line' = Tail(line)
      /\ UNCHANGED <<reader, announced, newest, active, lists, doubtful, shown>>
  BY DEF Messages!ServeChange, Messages!gateway, Messages!history
<1>5. ChangeSound(c, x) /\ x \notin c.readers /\ change \in [c.changes -> Changing(c)]
  BY ChangeIs
<1>6. line \in Seq(c.readers \cup c.changes)
  BY <1>1, TypesAre
<1>7. /\ line' \in Seq(c.readers \cup c.changes) /\ LineOnce'
      /\ 1 \in DOMAIN line /\ x = line[1]
      /\ \A y : InLine(y)' <=> InLine(y) /\ y # x
  BY <1>1, <1>2, <1>4, <1>6, Served
<1>8. InLine(x)
  BY <1>7 DEF InLine
<1>9. /\ change' \in [c.changes -> Changing(c)]
      /\ \A y \in c.changes : /\ Told(y)' <=> Told(y)
                              /\ \A s : Reaches(c, y, s)' <=> Reaches(c, y, s)
      /\ \A b : DeletesOf(c, b)' = DeletesOf(c, b)
      /\ \A y \in c.changes : y # x => change'[y] = change[y]
  <2>1. CASE change[x].at = "queued"
    <3>1. /\ change' = [change EXCEPT ![x].at = at]
          /\ at \in {"queued", "served", "refused", "over"}
          /\ at = "over" <=> change[x].at = "loose"
          /\ change[x].at \notin {"new", "over"}
      BY <1>3, <2>1
    <3> QED
      BY <3>1, ChangeGoesOn
  <2>2. CASE change[x].at # "queued"
    <3>1. change' = change
      BY <1>3, <2>2
    <3> QED
      BY <1>5, <3>1 DEF Told, Reaches, Messages!Affected, DeletesOf
  <2> QED
    BY <2>1, <2>2
<1>10. /\ \A r \in c.readers : InOrder(c, r) /\ (InLine(r)' => InLine(r))
  BY <1>1, <1>4, <1>6, <1>7, LineMoves
<1>11. \A y : y \in done' => y \in done \/ y = x
  BY <1>3
<1>12. \A s : Steady(c, s)
  BY <1>4, <1>7, <1>8, <1>9, <1>11 DEF Steady
<1>13. \A y \in c.changes : ChangeSound(c, y)'
  <2> SUFFICES ASSUME NEW y \in c.changes PROVE ChangeSound(c, y)'
    OBVIOUS
  <2>1. CASE y # x
    <3>1. ChangeSound(c, y)
      BY ChangeIs
    <3> QED
      BY <1>7, <1>9, <1>11, <2>1, <3>1 DEF ChangeSound
  <2>2. CASE y = x /\ change[x].at = "queued"
    <3>1. /\ change' = [change EXCEPT ![x].at = at]
          /\ at \in {"queued", "served", "refused", "over"}
          /\ at = "over" <=> change[x].at = "loose"
          /\ change[x].at \notin {"new", "over"}
      BY <1>3, <2>2
    <3>2. /\ change'[x].at = at /\ change'[x].kind = change[x].kind
          /\ change'[x].src = change[x].src /\ change'[x].dst = change[x].dst
          /\ change'[x].told = change[x].told
      BY <3>1, ChangeGoesOn
    <3>3. at \in {"served", "refused"} /\ (at = "refused" => done' = done) /\ ~InLine(x)'
      BY <1>3, <1>7
    <3> QED
      BY <1>5, <2>2, <3>2, <3>3 DEF ChangeSound
  <2>3. CASE y = x /\ change[x].at # "queued"
    <3>1. change' = change /\ change[x].at \notin {"new", "starting", "refused", "loose", "queued"}
      BY <1>3, <1>5, <1>8, <2>3 DEF ChangeSound
    <3> QED
      BY <1>5, <2>3, <3>1 DEF ChangeSound
  <2> QED
    BY <2>1, <2>2, <2>3
<1>14. done \subseteq done' /\ done' \subseteq c.changes
  BY <1>1, <1>3, TypesAre
<1> QED
  BY <1>4, <1>7, <1>9, <1>10, <1>12, <1>13, <1>14, WorldGoesOn

\* Lists that are invalidated are dropped, and their reads are crossed.
LEMMA Invalidated ==
    ASSUME NEW c \in Settings, MessagesInv(c), NEW S, Messages(c)!Invalidate(S)
    PROVE  /\ lists' \in [c.boxes \cup {Folders} -> Messages(c)!Lists \cup {None}]
           /\ \A s \in c.boxes \cup {Folders} :
                 lists'[s] # None => lists'[s] = lists[s] /\ s \notin S
           /\ reader' \in [c.readers -> Reading(c)]
           /\ \A r \in c.readers : /\ SameRead(reader[r], reader'[r])
                                   /\ reader[r].scope \in S => reader'[r].crossed
<1>1. /\ lists' = [s \in c.boxes \cup {Folders} |-> IF s \in S THEN None ELSE lists[s]]
      /\ reader' = [r \in c.readers |->
                       [reader[r] EXCEPT !.crossed = @ \/ reader[r].scope \in S]]
  BY DEF Messages!Invalidate, Messages!Scopes
<1>2. /\ lists \in [c.boxes \cup {Folders} -> Messages(c)!Lists \cup {None}]
      /\ reader \in [c.readers -> Reading(c)]
  BY ShownIs
<1>3. ASSUME NEW r \in c.readers
      PROVE  /\ reader'[r] \in Reading(c) /\ SameRead(reader[r], reader'[r])
             /\ reader[r].scope \in S => reader'[r].crossed
  <2>1. PICK y, b : y = reader[r] /\ b = (y.crossed \/ y.scope \in S)
    OBVIOUS
  <2>2. y \in Reading(c) /\ b \in BOOLEAN
    BY <1>2, <2>1 DEF Reading
  <2>3. reader'[r] = [y EXCEPT !.crossed = b]
    BY <1>1, <2>1
  <2> QED
    BY <2>1, <2>2, <2>3 DEF Reading, SameRead
<1>4. lists' \in [c.boxes \cup {Folders} -> Messages(c)!Lists \cup {None}]
  BY <1>1, <1>2
<1>5. \A s \in c.boxes \cup {Folders} : lists'[s] # None => lists'[s] = lists[s] /\ s \notin S
  BY <1>1
<1>6. reader' \in [c.readers -> Reading(c)]
  BY <1>1, <1>3
<1> QED
  BY <1>3, <1>4, <1>5, <1>6

\* What settles in the step is invalidated in the step.
LEMMA InvalidatingKeeps ==
    ASSUME NEW c \in Settings, MessagesInv(c), NEW S, Messages(c)!Invalidate(S),
           UNCHANGED <<line, done, newest, announced, shown>>, doubtful' \subseteq c.boxes,
           active' \in [c.boxes -> Nat], change' \in [c.changes -> Changing(c)],
           \A x \in c.changes : ChangeSound(c, x)', DeletesCounted(c)',
           \A s \in c.boxes \cup {Folders} : s \notin S =>
              Steady(c, s) /\ (s # Folders => active'[s] = active[s]),
           \A x \in c.changes, s \in c.boxes \cup {Folders} :
              Told(x) /\ Reaches(c, x, s) => Told(x)' /\ Reaches(c, x, s)'
    PROVE  MessagesInv(c)'
<1>1. Messages(c)!TypeOK /\ ListsSound(c) /\ LineOnce /\ ReadsSound(c)
  BY DEF MessagesInv
<1>2. /\ lists' \in [c.boxes \cup {Folders} -> Messages(c)!Lists \cup {None}]
      /\ \A s \in c.boxes \cup {Folders} :
            lists'[s] # None => lists'[s] = lists[s] /\ s \notin S
      /\ reader' \in [c.readers -> Reading(c)]
      /\ \A r \in c.readers : /\ SameRead(reader[r], reader'[r])
                              /\ reader[r].scope \in S => reader'[r].crossed
  BY Invalidated
<1>3. Messages(c)!TypeOK'
  BY <1>1, <1>2, TypesAre, TypesNext
<1>4. /\ \A x : InLine(x)' <=> InLine(x)
      /\ \A r : InOrder(c, r)
      /\ LineOnce'
  BY <1>1, LineRests
<1>5. Onward(c)
  BY <1>1, NumbersAre DEF Onward
<1>6. ASSUME NEW r \in c.readers
      PROVE  reader[r].at = "idle" \/ reader'[r].crossed \/ Steady(c, reader[r].scope)
  <2>1. reader[r].at # "idle" => reader[r].scope \in c.boxes \cup {Folders}
    BY ReaderIs
  <2> QED
    BY <1>2, <2>1
<1>7. ReadsSound(c)'
  <2>1. /\ announced' \in [c.boxes -> 0 .. c.maxUid] /\ newest' \in [c.boxes -> 0 .. c.maxUid]
        /\ line' \in Seq(c.readers \cup c.changes)
    BY <1>1, TypesAre
  <2> QED
    BY <1>2, <1>4, <1>5, <1>6, <2>1, ReadsKept
<1>8. \A b \in c.boxes : announced'[b] <= newest'[b]
  BY <1>1 DEF ListsSound
<1> QED
  BY <1>2, <1>3, <1>4, <1>7, <1>8, WorldMoves

\* One delete more is under way.
LEMMA DeleteCounted ==
    ASSUME NEW c \in Settings, DeletesCounted(c), active \in [c.boxes -> Nat],
           NEW x, NEW src \in c.boxes, x \notin DeletesOf(c, src),
           DeletesOf(c, src)' = DeletesOf(c, src) \cup {x},
           \A b \in c.boxes : b # src => DeletesOf(c, b)' = DeletesOf(c, b),
           active' = [active EXCEPT ![src] = @ + 1]
    PROVE  DeletesCounted(c)' /\ active' \in [c.boxes -> Nat]
<1>1. active' \in [c.boxes -> Nat]
  OBVIOUS
<1>2. ASSUME NEW b \in c.boxes
      PROVE  /\ IsFiniteSet(DeletesOf(c, b)')
             /\ active'[b] = Cardinality(DeletesOf(c, b)')
  <2>1. IsFiniteSet(DeletesOf(c, b)) /\ active[b] = Cardinality(DeletesOf(c, b))
    BY DEF DeletesCounted
  <2>2. CASE b # src
    BY <2>1, <2>2
  <2>3. CASE b = src
    <3>1. /\ IsFiniteSet(DeletesOf(c, b) \cup {x})
          /\ Cardinality(DeletesOf(c, b) \cup {x}) = Cardinality(DeletesOf(c, b)) + 1
      BY <2>1, <2>3, FS_AddElement
    <3> QED
      BY <2>1, <2>3, <3>1
  <2> QED
    BY <2>2, <2>3
<1> QED
  BY <1>1, <1>2 DEF DeletesCounted

\* One delete less is under way.
LEMMA DeleteUncounted ==
    ASSUME NEW c \in Settings, DeletesCounted(c), active \in [c.boxes -> Nat],
           NEW x, NEW src \in c.boxes, x \in DeletesOf(c, src),
           DeletesOf(c, src)' = DeletesOf(c, src) \ {x},
           \A b \in c.boxes : b # src => DeletesOf(c, b)' = DeletesOf(c, b),
           active' = [active EXCEPT ![src] = @ - 1]
    PROVE  DeletesCounted(c)' /\ active' \in [c.boxes -> Nat]
<1>1. /\ IsFiniteSet(DeletesOf(c, src)) /\ active[src] = Cardinality(DeletesOf(c, src))
      /\ active[src] \in Nat
  BY DEF DeletesCounted
<1>2. /\ IsFiniteSet(DeletesOf(c, src) \ {x})
      /\ Cardinality(DeletesOf(c, src) \ {x}) = active[src] - 1
  BY <1>1, FS_RemoveElement
<1>3. active[src] - 1 \in Nat
  BY <1>2, FS_CardinalityType
<1>4. active' \in [c.boxes -> Nat]
  BY <1>3
<1>5. ASSUME NEW b \in c.boxes
      PROVE  /\ IsFiniteSet(DeletesOf(c, b)')
             /\ active'[b] = Cardinality(DeletesOf(c, b)')
  <2>1. CASE b # src
    BY <2>1 DEF DeletesCounted
  <2>2. CASE b = src
    BY <1>2, <2>2
  <2> QED
    BY <2>1, <2>2
<1> QED
  BY <1>4, <1>5 DEF DeletesCounted

\* A change begins.
LEMMA BeginChangeStep ==
    ASSUME NEW c \in Settings, MessagesInv(c), NEW x \in c.changes, NEW kind \in c.kinds,
           NEW src \in c.boxes, NEW dst \in c.boxes, Messages(c)!BeginChange(x, kind, src, dst)
    PROVE  MessagesInv(c)'
<1> DEFINE v == [at |-> "starting", kind |-> kind, src |-> src, dst |-> dst, told |-> None]
           S == Messages(c)!InvalidatedBefore(kind, src, dst)
<1>1. Messages(c)!TypeOK /\ DeletesCounted(c)
  BY DEF MessagesInv
<1>2. /\ change[x].at = "new" /\ Messages(c)!Invalidate(S)
      /\ change' = [change EXCEPT ![x] = v]
      /\ active' = IF kind = "delete" THEN [active EXCEPT ![src] = @ + 1] ELSE active
      /\ UNCHANGED <<doubtful, line, done, newest, announced, shown>>
  BY DEF Messages!BeginChange, Messages!helper, Messages!history
<1>3. kind \in Messages(c)!AllKinds /\ kind # None
  BY SettingIs
<1>4. /\ change \in [c.changes -> Changing(c)] /\ ChangeSound(c, x)
      /\ active \in [c.boxes -> Nat] /\ doubtful \subseteq c.boxes
  BY <1>1, ChangeIs, TypesAre
<1>5. v \in Changing(c)
  BY <1>3 DEF Changing
<1>6. /\ v.at = "starting" /\ v.kind = kind /\ v.src = src /\ v.dst = dst /\ v.told = None
  OBVIOUS
<1>7. kind = "delete" => src \in S
  BY DEF Messages!InvalidatedBefore
<1> HIDE DEF v, S
<1>8. /\ change' \in [c.changes -> Changing(c)] /\ change'[x] = v
      /\ \A y \in c.changes : y # x => change'[y] = change[y]
  BY <1>2, <1>4, <1>5
<1>9. ~Told(x) /\ ~Told(x)' /\ ~InLine(x) /\ x \notin done
  BY <1>2, <1>4, <1>6, <1>8, SettingIs DEF ChangeSound, Told
<1>10. ASSUME NEW y \in c.changes, y # x
       PROVE  (Told(y)' <=> Told(y)) /\ \A s : Reaches(c, y, s)' <=> Reaches(c, y, s)
  <2>1. change'[y] = change[y]
    BY <1>8, <1>10
  <2> QED
    BY <2>1, SameOutcome
<1>11. /\ \A y : InLine(y)' <=> InLine(y)
  BY <1>2, LineRests
<1>12. \A s : Steady(c, s)
  BY <1>2, <1>9, <1>10, <1>11 DEF Steady
<1>13. \A y \in c.changes : ChangeSound(c, y)'
  <2> SUFFICES ASSUME NEW y \in c.changes PROVE ChangeSound(c, y)'
    OBVIOUS
  <2>1. CASE y # x
    <3>1. ChangeSound(c, y) /\ change'[y] = change[y]
      BY <1>8, <2>1, ChangeIs
    <3> QED
      BY <1>2, <1>11, <3>1 DEF ChangeSound
  <2>2. CASE y = x
    BY <1>2, <1>3, <1>6, <1>8, <1>9, <1>11, <2>2, SettingIs DEF ChangeSound
  <2> QED
    BY <2>1, <2>2
<1>14. DeletesCounted(c)' /\ active' \in [c.boxes -> Nat]
  <2>1. ASSUME NEW b, NEW y \in c.changes, y # x
        PROVE  y \in DeletesOf(c, b)' <=> y \in DeletesOf(c, b)
    BY <1>8, <2>1 DEF DeletesOf
  <2>2. ASSUME NEW b PROVE /\ x \notin DeletesOf(c, b)
                           /\ x \in DeletesOf(c, b)' <=> kind = "delete" /\ src = b
    BY <1>2, <1>6, <1>8 DEF DeletesOf
  <2>3. ASSUME NEW b PROVE DeletesOf(c, b) \subseteq c.changes /\ DeletesOf(c, b)' \subseteq c.changes
    BY DEF DeletesOf
  <2>4. CASE kind = "delete"
    <3>1. DeletesOf(c, src)' = DeletesOf(c, src) \cup {x}
      BY <2>1, <2>2, <2>3, <2>4
    <3>2. \A b \in c.boxes : b # src => DeletesOf(c, b)' = DeletesOf(c, b)
      BY <2>1, <2>2, <2>3
    <3>3. active' = [active EXCEPT ![src] = @ + 1] /\ x \notin DeletesOf(c, src)
      BY <1>2, <2>2, <2>4
    <3> QED
      BY <1>1, <1>4, <3>1, <3>2, <3>3, DeleteCounted
  <2>5. CASE kind # "delete"
    <3>1. \A b : DeletesOf(c, b)' = DeletesOf(c, b)
      BY <2>1, <2>2, <2>3, <2>5
    <3>2. active' = active
      BY <1>2, <2>5
    <3> QED
      BY <1>1, <1>4, <3>1, <3>2 DEF DeletesCounted
  <2> QED
    BY <2>4, <2>5
<1>15. ASSUME NEW s \in c.boxes \cup {Folders}, s \notin S, s # Folders
       PROVE  active'[s] = active[s]
  BY <1>2, <1>4, <1>7, <1>15
<1>16. \A y \in c.changes, s \in c.boxes \cup {Folders} :
          Told(y) /\ Reaches(c, y, s) => Told(y)' /\ Reaches(c, y, s)'
  BY <1>9, <1>10
<1>17. doubtful' \subseteq c.boxes
  BY <1>2, <1>4
<1> QED
  BY <1>2, <1>8, <1>12, <1>13, <1>14, <1>15, <1>16, <1>17, InvalidatingKeeps

\* A change is over: the lists that have to show its outcome are invalidated in the
\* same step, unless the helper has refused it.
LEMMA ChangeOverStep ==
    ASSUME NEW c \in Settings, MessagesInv(c), NEW x \in c.changes,
           NEW at, NEW ok \in BOOLEAN, NEW told,
           change[x].at \in {"starting", "queued", "served", "refused"},
           at \in {"over", "loose"}, told \in {"ok", "failed", "cancelled"},
           at = "loose" => change[x].at = "starting",
           told = "cancelled" => change[x].kind # "delete",
           at = "loose" => told = "cancelled",
           told = "ok" => ok = (change[x].at = "served") /\ change[x].at \in {"served", "refused"},
           Messages(c)!ChangeOver(x, at, ok, told), doubtful' \subseteq c.boxes
    PROVE  MessagesInv(c)'
<1>0. PICK w : w = change[x]
  OBVIOUS
<1> DEFINE v == [w EXCEPT !.at = at, !.told = told]
           S == Messages(c)!InvalidatedAfter(w.kind, w.src, w.dst, ok)
<1>1. Messages(c)!TypeOK /\ DeletesCounted(c)
  BY DEF MessagesInv
<1>2. /\ Messages(c)!Invalidate(S)
      /\ active' = IF w.kind = "delete" THEN [active EXCEPT ![w.src] = @ - 1] ELSE active
      /\ UNCHANGED <<line, done, newest, announced, shown>>
  BY <1>0 DEF Messages!ChangeOver, Messages!helper, Messages!history
<1>3. /\ change \in [c.changes -> Changing(c)] /\ ChangeSound(c, x)
      /\ w \in Changing(c) /\ active \in [c.boxes -> Nat]
  BY <1>0, <1>1, ChangeIs, TypesAre
<1>4. /\ v \in Changing(c) /\ v.at = at /\ v.told = told /\ v.kind = w.kind
      /\ v.src = w.src /\ v.dst = w.dst
  BY <1>3 DEF Changing
<1>5. change' = [change EXCEPT ![x] = v]
  BY <1>0, <1>3 DEF Messages!ChangeOver
<1>6. w.kind \in Messages(c)!AllKinds /\ w.src \in c.boxes /\ w.dst \in c.boxes
  BY <1>0, <1>3 DEF ChangeSound
<1>7. ~Told(x) /\ w.told = None
  BY <1>0, <1>3, SettingIs DEF ChangeSound, Told
<1>8. w.at = "refused" => ~InLine(x) /\ x \notin done
  BY <1>0, <1>3 DEF ChangeSound
<1>9. w.kind = "delete" => w.src \in S
  BY DEF Messages!InvalidatedAfter
<1>10. /\ change' \in [c.changes -> Changing(c)] /\ change'[x] = v
       /\ \A y \in c.changes : y # x => change'[y] = change[y]
  BY <1>3, <1>4, <1>5
<1>11. ASSUME NEW s \in c.boxes \cup {Folders}, s \notin S, Told(x)', Reaches(c, x, s)'
       PROVE  ~InLine(x) /\ x \notin done
  <2>1. told \in {"ok", "failed"}
    BY <1>4, <1>10, <1>11 DEF Told
  <2>2. /\ s \in Messages(c)!Affected(x)'
        /\ ~(w.kind = "special" /\ told = "failed" /\ s = w.dst)
        /\ ~(w.kind = "rename" /\ s # Folders)
    BY <1>4, <1>10, <1>11 DEF Reaches
  <2>3. \/ w.kind \in {"flags", "delete", "sent"} /\ s = w.src
        \/ w.kind \in {"move", "special", "step"} /\ s \in {w.src, w.dst}
        \/ w.kind = "create" /\ s = Folders
        \/ w.kind \in {"rename", "remove", "discard"} /\ s \in {w.src, w.dst, Folders}
    BY <1>4, <1>6, <1>10, <2>2 DEF Messages!Affected, Messages!AllKinds
  <2>4. w.kind = "special" /\ s = w.dst /\ ~ok
    BY <1>6, <1>11, <2>2, <2>3, SettingIs DEF Messages!InvalidatedAfter, Messages!Scopes
  <2>5. w.at = "refused"
    BY <1>0, <2>1, <2>2, <2>4
  <2> QED
    BY <1>8, <2>5
<1> HIDE DEF v, S
<1>12. ASSUME NEW y \in c.changes, y # x
       PROVE  (Told(y)' <=> Told(y)) /\ \A s : Reaches(c, y, s)' <=> Reaches(c, y, s)
  <2>1. change'[y] = change[y]
    BY <1>10, <1>12
  <2> QED
    BY <2>1, SameOutcome
<1>13. \A y : InLine(y)' <=> InLine(y)
  BY <1>2, LineRests
<1>14. ASSUME NEW s \in c.boxes \cup {Folders}, s \notin S PROVE Steady(c, s)
  <2>1. ASSUME NEW y \in c.changes, Told(y)', Reaches(c, y, s)'
        PROVE  \/ /\ Told(y) /\ Reaches(c, y, s) /\ (InLine(y)' => InLine(y))
                  /\ y \in done' => y \in done \/ InLine(y)
               \/ ~InLine(y)' /\ y \notin done'
    <3>1. CASE y = x
      BY <1>2, <1>11, <1>13, <1>14, <2>1, <3>1
    <3>2. CASE y # x
      BY <1>2, <1>12, <1>13, <2>1, <3>2
    <3> QED
      BY <3>1, <3>2
  <2> QED
    BY <1>2, <2>1 DEF Steady
<1>15. \A y \in c.changes : ChangeSound(c, y)'
  <2> SUFFICES ASSUME NEW y \in c.changes PROVE ChangeSound(c, y)'
    OBVIOUS
  <2>1. CASE y # x
    <3>1. ChangeSound(c, y) /\ change'[y] = change[y]
      BY <1>10, <2>1, ChangeIs
    <3> QED
      BY <1>2, <1>13, <3>1 DEF ChangeSound
  <2>2. CASE y = x
    <3>1. /\ w.at = "starting" => ~InLine(x)
          /\ w.kind = "delete" => told # "cancelled"
          /\ at = "loose" => w.at = "starting"
          /\ told # None
      BY <1>0, <1>3, SettingIs DEF ChangeSound
    <3> QED
      BY <1>4, <1>6, <1>10, <1>13, <2>2, <3>1 DEF ChangeSound
  <2> QED
    BY <2>1, <2>2
<1>16. DeletesCounted(c)' /\ active' \in [c.boxes -> Nat]
  <2>1. ASSUME NEW b, NEW y \in c.changes, y # x
        PROVE  y \in DeletesOf(c, b)' <=> y \in DeletesOf(c, b)
    BY <1>10, <2>1 DEF DeletesOf
  <2>2. ASSUME NEW b PROVE /\ x \in DeletesOf(c, b) <=> w.kind = "delete" /\ w.src = b
                           /\ x \notin DeletesOf(c, b)'
    BY <1>0, <1>4, <1>10 DEF DeletesOf
  <2>3. ASSUME NEW b PROVE DeletesOf(c, b) \subseteq c.changes /\ DeletesOf(c, b)' \subseteq c.changes
    BY DEF DeletesOf
  <2>4. CASE w.kind = "delete"
    <3>1. DeletesOf(c, w.src)' = DeletesOf(c, w.src) \ {x}
      BY <2>1, <2>2, <2>3
    <3>2. \A b \in c.boxes : b # w.src => DeletesOf(c, b)' = DeletesOf(c, b)
      BY <2>1, <2>2, <2>3
    <3>3. active' = [active EXCEPT ![w.src] = @ - 1] /\ x \in DeletesOf(c, w.src)
      BY <1>2, <2>2, <2>4
    <3> QED
      BY <1>1, <1>3, <1>6, <3>1, <3>2, <3>3, DeleteUncounted
  <2>5. CASE w.kind # "delete"
    <3>1. \A b : DeletesOf(c, b)' = DeletesOf(c, b)
      BY <2>1, <2>2, <2>3, <2>5
    <3>2. active' = active
      BY <1>2, <2>5
    <3> QED
      BY <1>1, <1>3, <3>1, <3>2 DEF DeletesCounted
  <2> QED
    BY <2>4, <2>5
<1>17. ASSUME NEW s \in c.boxes \cup {Folders}, s \notin S, s # Folders
       PROVE  active'[s] = active[s]
  BY <1>2, <1>3, <1>9, <1>17
<1>18. \A y \in c.changes, s \in c.boxes \cup {Folders} :
          Told(y) /\ Reaches(c, y, s) => Told(y)' /\ Reaches(c, y, s)'
  BY <1>7, <1>12
<1> QED
  BY <1>2, <1>10, <1>14, <1>15, <1>16, <1>17, <1>18, InvalidatingKeeps

\* A change ends: with an answer, in transport, or because its request was
\* cancelled.
LEMMA ChangeEndsStep ==
    ASSUME NEW c \in Settings, MessagesInv(c), NEW x \in c.changes,
           \/ Messages(c)!ChangeAnswered(x)
           \/ Messages(c)!ChangeFails(x)
           \/ Messages(c)!ChangeCancelled(x)
    PROVE  MessagesInv(c)'
<1>1. Messages(c)!TypeOK /\ doubtful \subseteq c.boxes
  BY ShownIs DEF MessagesInv
<1>2. ChangeSound(c, x)
  BY ChangeIs
<1>3. \E at, ok, told :
         /\ ok \in BOOLEAN /\ at \in {"over", "loose"} /\ told \in {"ok", "failed", "cancelled"}
         /\ change[x].at \in {"starting", "queued", "served", "refused"}
         /\ at = "loose" => change[x].at = "starting"
         /\ told = "cancelled" => change[x].kind # "delete"
         /\ at = "loose" => told = "cancelled"
         /\ told = "ok" =>
               ok = (change[x].at = "served") /\ change[x].at \in {"served", "refused"}
         /\ Messages(c)!ChangeOver(x, at, ok, told)
  <2>1. CASE Messages(c)!ChangeAnswered(x)
    <3>1. /\ change[x].at \in {"served", "refused"}
          /\ Messages(c)!ChangeOver(x, "over", change[x].at = "served", "ok")
      BY <2>1 DEF Messages!ChangeAnswered
    <3>2. PICK ok \in BOOLEAN : ok = (change[x].at = "served")
      OBVIOUS
    <3>3. Messages(c)!ChangeOver(x, "over", ok, "ok")
      BY <3>1, <3>2
    <3> QED
      BY <3>1, <3>2, <3>3
  <2>2. CASE Messages(c)!ChangeFails(x)
    <3>1. /\ change[x].at \in {"starting", "queued", "served", "refused"}
          /\ Messages(c)!ChangeOver(x, "over", FALSE, "failed")
      BY <2>2 DEF Messages!ChangeFails
    <3> QED
      BY <3>1
  <2>3. CASE Messages(c)!ChangeCancelled(x)
    <3>1. PICK at : at = IF change[x].at = "starting" THEN "loose" ELSE "over"
      OBVIOUS
    <3>2. /\ change[x].at \in {"starting", "queued", "served", "refused"}
          /\ change[x].kind # "delete"
          /\ Messages(c)!ChangeOver(x, at, FALSE, "cancelled")
      BY <2>3, <3>1 DEF Messages!ChangeCancelled, Messages!Shielded
    <3>3. at \in {"over", "loose"} /\ (at = "loose" => change[x].at = "starting")
      BY <3>1
    <3> QED
      BY <3>2, <3>3
  <2> QED
    BY <2>1, <2>2, <2>3
<1>4. doubtful' \subseteq c.boxes
  <2>1. change[x].at # "new"
    BY <1>3
  <2> QED
    BY <1>1, <1>2, <2>1 DEF Messages!ChangeAnswered, Messages!ChangeFails,
       Messages!ChangeCancelled, Messages!Quarantine, ChangeSound
<1>5. PICK at, ok, told :
         /\ ok \in BOOLEAN /\ at \in {"over", "loose"} /\ told \in {"ok", "failed", "cancelled"}
         /\ change[x].at \in {"starting", "queued", "served", "refused"}
         /\ at = "loose" => change[x].at = "starting"
         /\ told = "cancelled" => change[x].kind # "delete"
         /\ at = "loose" => told = "cancelled"
         /\ told = "ok" =>
               ok = (change[x].at = "served") /\ change[x].at \in {"served", "refused"}
         /\ Messages(c)!ChangeOver(x, at, ok, told)
  BY <1>3
<1> QED
  BY <1>4, <1>5, ChangeOverStep

\* A message is announced, and the lists of its mailbox are dropped in the same
\* step.
LEMMA LatestArrivesStep ==
    ASSUME NEW c \in Settings, MessagesInv(c), NEW r \in c.readers,
           Messages(c)!LatestArrives(r)
    PROVE  MessagesInv(c)'
<1>1. Messages(c)!TypeOK /\ ListsSound(c) /\ LineOnce
  BY DEF MessagesInv
<1>2. PICK y, s : y = reader[r] /\ s = reader[r].scope
  OBVIOUS
<1>3. /\ y.at = "served" /\ y.op = "latest"
      /\ lists' = [t \in c.boxes \cup {Folders} |-> IF t = s THEN None ELSE lists[t]]
      /\ reader' = [q \in c.readers |->
                       IF q = r THEN Messages(c)!IdleReader
                       ELSE [reader[q] EXCEPT !.crossed = @ \/ reader[q].scope = s]]
      /\ announced' = [announced EXCEPT ![s] = IF @ < y.value.newest THEN y.value.newest ELSE @]
      /\ UNCHANGED <<change, line, done, newest, active, doubtful, shown>>
  BY <1>2 DEF Messages!LatestArrives, Messages!InvalidatedByLatest, Messages!Scopes,
     Messages!helper
<1>4. /\ y \in Reading(c) /\ s \in c.boxes /\ Given(y)
  <2>1. reader[r].at # "idle"
    BY <1>2, <1>3
  <2>2. y \in Reading(c) /\ ReadSound(c, r, y) /\ Given(y)
    BY <1>2, <1>3, <2>1, ReaderIs
  <2> QED
    BY <1>2, <1>3, <2>2 DEF ReadSound
<1>5. s # Folders /\ c.maxUid \in Nat
  BY <1>4, SettingIs
<1>6. PICK n : n = y.value.newest
  OBVIOUS
<1>7. n \in 0 .. c.maxUid /\ n <= newest[s]
  BY <1>2, <1>4, <1>5, <1>6 DEF Given, Reading, Messages!Lists
<1>8. /\ announced \in [c.boxes -> 0 .. c.maxUid] /\ newest \in [c.boxes -> 0 .. c.maxUid]
      /\ line \in Seq(c.readers \cup c.changes)
      /\ lists \in [c.boxes \cup {Folders} -> Messages(c)!Lists \cup {None}]
      /\ reader \in [c.readers -> Reading(c)]
  BY <1>1, TypesAre
<1>9. /\ announced' \in [c.boxes -> 0 .. c.maxUid]
      /\ announced[s] <= announced'[s] /\ announced'[s] <= newest[s]
      /\ \A b \in c.boxes : b # s => announced'[b] = announced[b]
  <2>1. announced[s] \in Nat /\ newest[s] \in Nat /\ announced[s] <= newest[s] /\ n \in Nat
    BY <1>1, <1>4, <1>5, <1>7, NumbersAre DEF ListsSound
  <2>2. PICK m : m = IF announced[s] < n THEN n ELSE announced[s]
    OBVIOUS
  <2>3. m \in 0 .. c.maxUid /\ announced[s] <= m /\ m <= newest[s]
    BY <1>4, <1>7, <1>8, <2>1, <2>2
  <2>4. announced' = [announced EXCEPT ![s] = m]
    BY <1>3, <1>4, <1>6, <1>8, <2>2
  <2> QED
    BY <1>4, <1>8, <2>3, <2>4
<1>10. /\ \A x : InLine(x)' <=> InLine(x)
       /\ \A q : InOrder(c, q)
       /\ LineOnce'
  BY <1>1, <1>3, LineRests
<1>11. /\ \A x, t : Reaches(c, x, t)' <=> Reaches(c, x, t)
       /\ \A x : Told(x)' <=> Told(x)
  BY <1>3 DEF Reaches, Told, Messages!Affected
<1>12. \A t \in c.boxes \cup {Folders} : t # s => Steady(c, t)
  BY <1>3, <1>9, <1>10, <1>11 DEF Steady
<1>13. Onward(c)
  <2>1. \A b \in c.boxes : announced[b] <= announced'[b] /\ newest[b] <= newest'[b]
    BY <1>1, <1>3, <1>9, NumbersAre
  <2> QED
    BY <1>3, <1>11, <2>1 DEF Onward
<1>14. ASSUME NEW q \in c.readers
       PROVE  reader'[q] \in Reading(c) /\ ReadSound(c, q, reader[q])'
  <2>1. CASE q = r
    <3>1. PICK z : z = Messages(c)!IdleReader
      OBVIOUS
    <3>2. reader'[q] = z /\ z \in Reading(c) /\ z.at = "idle"
      BY <1>3, <2>1, <3>1, IdleIs
    <3>3. ReadSound(c, q, z)'
      BY <3>2 DEF ReadSound
    <3> QED
      BY <3>2, <3>3
  <2>2. CASE q # r
    <3>1. PICK w, b : w = reader[q] /\ b = (w.crossed \/ w.scope = s)
      OBVIOUS
    <3>2. w \in Reading(c) /\ b \in BOOLEAN /\ ReadSound(c, q, w)
      <4>1. reader[q] \in Reading(c)
        BY <1>8
      <4>2. ReadSound(c, q, reader[q])
        BY DEF MessagesInv, ReadsSound
      <4> QED
        BY <3>1, <4>1, <4>2 DEF Reading
    <3>3. PICK z : z = [w EXCEPT !.crossed = b]
      OBVIOUS
    <3>4. reader'[q] = z
      BY <1>3, <2>2, <3>1, <3>3
    <3>5. z \in Reading(c) /\ SameRead(w, z) /\ z.crossed = b /\ z.at = w.at
      BY <3>1, <3>2, <3>3 DEF Reading, SameRead
    <3>6. CASE z.at = "idle"
      <4>1. ReadSound(c, q, z)'
        BY <3>6 DEF ReadSound
      <4> QED
        BY <3>4, <3>5, <4>1
    <3>7. CASE z.at # "idle"
      <4>1. w.scope \in c.boxes \cup {Folders}
        BY <3>2, <3>5, <3>7 DEF ReadSound
      <4>2. z.crossed \/ Steady(c, w.scope)
        BY <1>12, <3>1, <3>5, <4>1
      <4>3. DOMAIN line' \subseteq Int
        <5>1. Len(line) \in Nat /\ DOMAIN line = 1 .. Len(line)
          BY <1>8
        <5> QED
          BY <1>3, <5>1
      <4>4. newest' \in [c.boxes -> 0 .. c.maxUid]
        BY <1>3, <1>8
      <4>5. ReadSound(c, q, z)'
        BY <1>8, <1>9, <1>10, <1>13, <3>2, <3>5, <4>2, <4>3, <4>4, ReadKept
      <4> QED
        BY <3>4, <3>5, <4>5
    <3> QED
      BY <3>6, <3>7
  <2> QED
    BY <2>1, <2>2
<1>15. ReadsSound(c)'
  BY <1>14 DEF ReadsSound
<1>16. /\ lists' \in [c.boxes \cup {Folders} -> Messages(c)!Lists \cup {None}]
       /\ \A t \in c.boxes \cup {Folders} : lists'[t] # None => lists'[t] = lists[t] /\ t # s
  BY <1>3, <1>8
<1>17. reader' \in [c.readers -> Reading(c)]
  BY <1>3, <1>14
<1>18. Messages(c)!TypeOK'
  BY <1>1, <1>3, <1>9, <1>16, <1>17, TypesAre, TypesNext
<1>19. \A x \in c.changes : ChangeSound(c, x)'
  BY <1>3, <1>10 DEF MessagesInv, ChangeSound
<1>20. DeletesCounted(c)'
  BY <1>3 DEF MessagesInv, DeletesCounted, DeletesOf
<1>21. \A b \in c.boxes : announced'[b] <= newest'[b]
  BY <1>1, <1>3, <1>9 DEF ListsSound
<1> QED
  BY <1>3, <1>10, <1>12, <1>15, <1>16, <1>18, <1>19, <1>20, <1>21, WorldMoves

----------------------------------------------------------------------------
(* Lists of messages and folders are always current. *)

\* Every step of the lists keeps their invariant.
LEMMA MessagesStep ==
    ASSUME NEW c \in Settings, MessagesInv(c), Messages(c)!Next
    PROVE  MessagesInv(c)'
<1>1. ASSUME NEW r \in c.readers, NEW op \in {"list", "latest"}, NEW s \in Messages(c)!Scopes,
             Messages(c)!Ask(r, op, s)
      PROVE  MessagesInv(c)'
  BY <1>1, AskStep
<1>2. ASSUME NEW r \in c.readers, Messages(c)!ReaderStep(r) \/ Messages(c)!ReadEnds(r)
      PROVE  MessagesInv(c)'
  BY <1>2, ReadCacheStep, StartReadStep, ReadConnectsStep, MessagesArriveStep,
     MailboxesArriveStep, LatestArrivesStep, ReadEndsStep DEF Messages!ReaderStep
<1>3. ASSUME NEW s \in Messages(c)!Scopes, Messages(c)!EntryDropped(s)
      PROVE  MessagesInv(c)'
  BY <1>3, EntryDroppedStep
<1>4. ASSUME NEW x \in c.changes, NEW kind \in c.kinds, NEW src \in c.boxes,
             NEW dst \in c.boxes, Messages(c)!BeginChange(x, kind, src, dst)
      PROVE  MessagesInv(c)'
  BY <1>4, BeginChangeStep
<1>5. ASSUME NEW x \in c.changes,
             \/ Messages(c)!ChangeConnects(x) \/ Messages(c)!ChangeAnswered(x)
             \/ Messages(c)!ChangeFails(x) \/ Messages(c)!ChangeCancelled(x)
      PROVE  MessagesInv(c)'
  BY <1>5, ChangeConnectsStep, ChangeEndsStep
<1>6. ASSUME Messages(c)!ServeRead \/ Messages(c)!ServeChange
      PROVE  MessagesInv(c)'
  BY <1>6, ServeReadStep, ServeChangeStep
<1>7. ASSUME NEW b \in c.boxes, Messages(c)!Deliver(b)
      PROVE  MessagesInv(c)'
  BY <1>7, DeliverStep
<1> QED
  BY <1>1, <1>2, <1>3, <1>4, <1>5, <1>6, <1>7 DEF Messages!Next

\* The invariant of the lists holds at the start of every setting.
LEMMA MessagesStart ==
    ASSUME NEW c \in Settings, Messages(c)!Init
    PROVE  MessagesInv(c)
<1>1. /\ lists = [s \in c.boxes \cup {Folders} |-> None]
      /\ active = [b \in c.boxes |-> 0] /\ doubtful = {}
      /\ reader = [r \in c.readers |-> Messages(c)!IdleReader]
      /\ change = [x \in c.changes |-> Messages(c)!NewChange]
      /\ line = <<>> /\ done = {} /\ newest = [b \in c.boxes |-> 0]
      /\ announced = [b \in c.boxes |-> 0] /\ shown = None
  BY DEF Messages!Init, Messages!Scopes
<1>2. c.maxUid \in Nat
  BY SettingIs
<1>3. Messages(c)!NewChange \in Changing(c)
  BY DEF Messages!NewChange, Changing
<1>4. Messages(c)!TypeOK
  <2>1. /\ Messages(c)!Scopes = c.boxes \cup {Folders}
        /\ Messages(c)!Scopes \cup {None} = c.boxes \cup {Folders, None}
    BY DEF Messages!Scopes
  <2> QED
    BY <1>1, <1>2, <1>3, <2>1, IdleIs DEF Messages!TypeOK, Reading, Changing
<1>5. ASSUME NEW x \in c.changes PROVE ChangeSound(c, x) /\ change[x].at = "new" /\ ~Told(x)
  <2>1. change[x].at = "new" /\ change[x].kind = None /\ change[x].told = None /\ ~InLine(x)
    BY <1>1 DEF Messages!NewChange, InLine
  <2>2. None # "delete"
    BY SettingIs DEF Messages!AllKinds
  <2> QED
    BY <1>1, <2>1, <2>2, SettingIs DEF ChangeSound, Told
<1>6. DeletesCounted(c)
  <2>1. ASSUME NEW b \in c.boxes PROVE DeletesOf(c, b) = {}
    BY <1>5 DEF DeletesOf
  <2> QED
    BY <1>1, <2>1, FS_EmptySet DEF DeletesCounted
<1>7. ReadsSound(c)
  BY <1>1, IdleIs DEF ReadsSound
<1>8. LineOnce /\ ListsSound(c) /\ AnswerSound(c)
  BY <1>1 DEF LineOnce, ListsSound, AnswerSound, Messages!ReturnedShowsSettled,
     Messages!AnnouncedIsListed
<1> QED
  BY <1>4, <1>5, <1>6, <1>7, <1>8 DEF MessagesInv

\* A list is not cached beside a permanent delete, and not while one that ended
\* without an answer still waits in line.
LEMMA MessagesCurrent ==
    ASSUME NEW c \in Settings, MessagesInv(c)
    PROVE  Messages(c)!ListsCurrent
<1>1. Messages(c)!TypeOK /\ ListsSound(c) /\ DeletesCounted(c)
  BY DEF MessagesInv
<1>2. ASSUME NEW x \in c.changes, change[x].kind = "delete",
             change[x].at # "over" \/ InLine(x), lists[change[x].src] # None
      PROVE  FALSE
  <2>1. ChangeSound(c, x) /\ change[x] \in Changing(c)
    BY ChangeIs
  <2>2. PICK b : b = change[x].src
    OBVIOUS
  <2>3. change[x].at # "new"
    BY <1>2, <2>1, SettingIs DEF ChangeSound, Messages!AllKinds
  <2>4. b \in c.boxes /\ b # Folders
    BY <2>1, <2>2, <2>3, SettingIs DEF ChangeSound
  <2>5. Current(c, b, lists[b]) /\ active[b] = 0
    BY <1>1, <1>2, <2>2, <2>4 DEF ListsSound
  <2>6. CASE change[x].at # "over"
    <3>1. x \in DeletesOf(c, b)
      BY <1>2, <2>1, <2>2, <2>3, <2>6 DEF DeletesOf, ChangeSound, Changing
    <3>2. IsFiniteSet(DeletesOf(c, b)) /\ Cardinality(DeletesOf(c, b)) = 0
      BY <1>1, <2>4, <2>5 DEF DeletesCounted
    <3> QED
      BY <3>1, <3>2, FS_EmptySet
  <2>7. CASE change[x].at = "over" /\ InLine(x)
    <3>1. Told(x)
      BY <1>2, <2>1, <2>7 DEF Told, ChangeSound, Changing
    <3>2. Reaches(c, x, b)
      <4>1. b \in Messages(c)!Affected(x)
        BY <1>2, <2>2 DEF Messages!Affected
      <4> QED
        BY <1>2, <4>1 DEF Reaches
    <3> QED
      BY <2>5, <2>7, <3>1, <3>2 DEF Current
  <2> QED
    BY <1>2, <2>6, <2>7
<1>3. Messages(c)!NothingCachedAcrossDelete
  BY <1>2 DEF Messages!NothingCachedAcrossDelete, Messages!Queued, InLine
<1> QED
  BY <1>1, <1>3 DEF MessagesInv, AnswerSound, Messages!ListsCurrent

\* The lists stay as they are while the list of accounts moves.
LEMMA MessagesRest ==
    ASSUME NEW c \in Settings, MessagesInv(c), UNCHANGED messageVars
    PROVE  MessagesInv(c)'
<1>1. UNCHANGED <<change, line, done, newest, announced, active, lists, doubtful, reader, shown>>
  BY DEF messageVars
<1>2. /\ lists' \in [c.boxes \cup {Folders} -> Messages(c)!Lists \cup {None}]
      /\ doubtful' \subseteq c.boxes
      /\ reader' \in [c.readers -> Reading(c)]
      /\ shown' \in [value : Messages(c)!Lists, since : Messages(c)!Lists] \cup {None}
      /\ shown' # None => /\ shown'.since.shows \subseteq shown'.value.shows
                          /\ shown'.since.newest <= shown'.value.newest
  BY <1>1, ShownIs
<1>3. \A r \in c.readers : ReadSound(c, r, reader'[r])
  BY <1>1 DEF MessagesInv, ReadsSound
<1>4. \A s \in c.boxes \cup {Folders} : lists'[s] # None =>
          \/ lists'[s] = lists[s]
          \/ Current(c, s, lists'[s]) /\ (s # Folders => active[s] = 0)
  BY <1>1
<1> QED
  BY <1>1, <1>2, <1>3, <1>4, ReadersMove

\* The list of accounts, and the lists under the setting of the behaviour.
GatewayInv == IInv /\ \E c \in Settings : setting = c /\ MessagesInv(c)

\* The invariants of both parts hold while either moves.
LEMMA GatewayKept ==
    GatewayInv /\ [GatewayNext]_<<vars, setting, messageVars>> => GatewayInv'
<1> SUFFICES ASSUME GatewayInv, [GatewayNext]_<<vars, setting, messageVars>>
             PROVE  GatewayInv'
  OBVIOUS
<1>1. PICK c \in Settings : setting = c /\ MessagesInv(c)
  BY DEF GatewayInv
<1>2. AccountCacheAssumption
  BY GatewayBounds
<1>3. [Next]_vars
  BY DEF GatewayNext
<1>4. IInv'
  BY <1>2, <1>3, IInvStep DEF GatewayInv
<1>5. CASE MessagesNext
  <2>1. Messages(c)!Next /\ setting' = c
    BY <1>1, <1>5 DEF MessagesNext
  <2>2. MessagesInv(c)'
    BY <1>1, <2>1, MessagesStep
  <2> QED
    BY <1>4, <2>1, <2>2 DEF GatewayInv
<1>6. CASE UNCHANGED <<setting, messageVars>>
  <2>1. MessagesInv(c)' /\ setting' = c
    BY <1>1, <1>6, MessagesRest
  <2> QED
    BY <1>4, <2>1 DEF GatewayInv
<1> QED
  BY <1>5, <1>6 DEF GatewayNext

\* The invariants of both parts hold at the start.
LEMMA GatewayStart == GatewayInit => GatewayInv
<1>1. AccountCacheAssumption
  BY GatewayBounds
<1> QED
  BY <1>1, InitIInv, MessagesStart DEF GatewayInit, MessagesInit, GatewayInv

\* The cached list of accounts is the helper's, with no change on its way; a list
\* of messages or folders, from the cache, from a read that was under way or from a
\* read of its own, shows every change that had settled and every message that was
\* announced before it was asked for, and none is cached while a permanent delete
\* may still take effect (the caches of HelperGateway), at any time and under every
\* setting.
THEOREM CachesAlwaysCurrent == GatewaySpec => []CachesCurrent
<1>1. GatewayInv => CachesCurrent
  <2>1. GatewayInv => CacheSound
    BY ExactlyCached DEF GatewayInv
  <2> QED
    BY <2>1, MessagesCurrent DEF GatewayInv, CachesCurrent
<1> QED
  BY <1>1, GatewayStart, GatewayKept, PTL DEF GatewaySpec
=============================================================================
