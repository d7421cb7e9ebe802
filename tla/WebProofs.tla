------------------------------ MODULE WebProofs ------------------------------
(***************************************************************************)
(* Proofs about the parts of the web process (WebProcess), each with an    *)
(* invariant of its own, since they share no variable: the session check,  *)
(* the write tokens under any setting, and the notices of new mail.        *)
(*                                                                         *)
(* Session check: a read that is under way is no older than the call, and  *)
(* one that is over and has waiters is taken by them before time passes;   *)
(* so what a handler is given from a read is at most a call old, and a     *)
(* cache entry ages as its lifetime runs down.  A session that is gone at  *)
(* the helper stays so, and one that was elevated is never plain again,    *)
(* until a sign-in that starts with an empty cache and no read: so what a  *)
(* read shows, and what an answer promised, remain true.  What clears the  *)
(* cookie is the answer to a request that found its session gone, or that  *)
(* ended it; a request that outlives its session in the browser can say    *)
(* so of the older one only, which is when another one loses its cookie.   *)
(*                                                                         *)
(* Write tokens: a nonce is drawn once, so one that is spent can be        *)
(* current only through an entry that was there before, and every rotation *)
(* takes the place of that entry.  A write makes room for its scope before *)
(* it adds an entry, in the identity and then in the registry; what is     *)
(* left of a registry keeps its limits.  Each tab has one request at a     *)
(* time, and what may lead to another try of a write is an answer that     *)
(* says that the write did not run.                                        *)
(*                                                                         *)
(* New mail: a stream announces everything beyond the UID that it read or  *)
(* was given when it joined, and the tab that hears it stands where the    *)
(* stream resumes, until the stream is live.  A message that a tab is owed *)
(* lies beyond where it stands: so either the watcher is yet to see it, or *)
(* the stream has yet to write the notice that covers it.                  *)
(***************************************************************************)
EXTENDS WebProcess, SequenceTheorems, FiniteSetTheorems, WellFoundedInduction, TLAPS

----------------------------------------------------------------------------
(* The session check: its inductive invariant. *)

\* A read under way is no older than its call; one that is over has a request
\* to resume, or was left behind.
FlightYoung ==
    flight # None =>
        /\ flight.at # "done" => flight.age <= flight.elapsed /\ ~flight.orphan
        /\ flight.at = "done" /\ ~flight.orphan =>
              /\ flight.age <= CallTicks
              /\ \E r \in Requests : req[r].at = "resuming" /\ req[r].task = flight.id

\* What a request resumes with is no older than a call.
ChecksYoung ==
    \A r \in Requests :
        req[r].at = "resuming" /\ ~req[r].orphan => req[r].age <= CallTicks

\* A cache entry ages as its lifetime runs down.
CacheYoung == cache # None /\ ~cache.orphan => cache.age + cache.left <= Recent

\* A read that found no session is right until the next login, for a sign-in
\* that goes on with it too.
ReadsTrue ==
    /\ flight # None /\ flight.value = "gone" => store = "gone"
    /\ \A r \in Requests :
          req[r].at \in {"resuming", "signing"} /\ req[r].value = "gone" => store = "gone"

\* Only operations that change the session call the helper, and an answer that
\* is underway to its handler is still true.
CallsChange ==
    \A r \in Requests :
        /\ req[r].at \in {"calling", "answered"} => req[r].op \notin {"read", "login"}
        /\ req[r].at = "answered" /\ req[r].value = "ok" =>
              IF req[r].op \in {"logout", "end"} THEN store = "gone" ELSE store # "plain"

\* What was answered in a quiet moment is so at the helper, and no request is
\* about to cache anything else.
SettledSeen ==
    /\ settled = "gone" =>
          /\ store = "gone"
          /\ \A r \in Requests : req[r].at = "resuming" => req[r].value \notin Live
    /\ settled = "elevated" =>
          /\ store # "plain"
          /\ \A r \in Requests : req[r].at = "resuming" => req[r].value # "plain"

SessionInv ==
    /\ SessionSound
    /\ FlightYoung /\ ChecksYoung /\ CacheYoung /\ ReadsTrue /\ CallsChange /\ SettledSeen

----------------------------------------------------------------------------
\* The bounds are numbers and None is none of the values.
LEMMA Bounds ==
  ASSUME WebSessionAssumption
  PROVE  /\ CacheTicks \in Nat /\ CacheTicks > 0 /\ CallTicks \in Nat /\ CallTicks > 0
         /\ Recent \in Nat /\ Recent = CacheTicks + CallTicks /\ AgeCap = Recent + 1
         /\ None # "plain" /\ None # "elevated" /\ None # "gone" /\ None # "failed"
BY DEF WebSessionAssumption, Recent, AgeCap

\* A request at the start of a stage is well formed.
LEMMA RowsWellFormed ==
  ASSUME WebSessionAssumption, NEW op \in Operations, NEW t \in Tasks \cup {None}
  PROVE  Idle \in Progress /\ Stage("calling", op, None) \in Progress
         /\ Stage("waiting", op, t) \in Progress /\ Stage("signing", op, None) \in Progress
         /\ Stage("behind", op, None) \in Progress /\ Dead \in Progress /\ Goes(op) \in Progress
<1>1. Recent \in Nat /\ AgeCap = Recent + 1
  BY Bounds
<1>2. Idle \in Progress /\ \A at \in {"calling", "waiting", "signing", "behind"} :
                                Stage(at, op, t) \in Progress /\ Stage(at, op, None) \in Progress
  BY <1>1 DEF Idle, Stage, Progress, Operations
<1>3. Dead \in Progress
  <2> DEFINE row == Stage("signing", "login", None)
  <2>1. row \in Progress
    BY <1>1 DEF Stage, Progress, Operations
  <2>2. Dead = [row EXCEPT !.value = "gone"]
    BY DEF Dead
  <2> HIDE DEF row
  <2>3. "gone" \in Outcomes
    BY DEF Outcomes
  <2> QED
    BY <2>1, <2>2, <2>3 DEF Progress
<1>4. Goes(op) \in Progress
  BY <1>1, <1>2 DEF Goes, Stage, Progress, Operations
<1> QED
  BY <1>2, <1>3, <1>4

\* In a step in which no handler is given a session there is nothing to be old.
LEMMA NobodyGiven ==
  ASSUME WebSessionAssumption, NoneGiven
  PROVE  given' \in [age : 0..AgeCap, orphan : BOOLEAN] /\ RecentUnlessAbandoned'
<1>1. Recent \in Nat /\ AgeCap = Recent + 1
  BY Bounds
<1> QED
  BY <1>1 DEF NoneGiven, RecentUnlessAbandoned

\* The invariant holds at the start.
LEMMA SessionInit ==
  ASSUME WebSessionAssumption, Init
  PROVE  SessionInv
<1>1. /\ CacheTicks \in Nat /\ CallTicks \in Nat /\ Recent \in Nat /\ AgeCap = Recent + 1
      /\ None # "plain" /\ None # "elevated" /\ None # "gone" /\ None # "failed"
  BY Bounds
<1>2. TypeOK
  <2>1. Idle \in Progress
    BY RowsWellFormed DEF Operations
  <2>2. req \in [Requests -> Progress]
    BY <2>1 DEF Init
  <2>3. given \in [age : 0..AgeCap, orphan : BOOLEAN]
    BY <1>1 DEF Init
  <2> QED
    BY <2>2, <2>3 DEF Init, TypeOK, Live
<1> QED
  BY <1>1, <1>2
  DEF Init, Idle, Stage, SessionInv, SessionSound, RecentUnlessAbandoned, AnsweredIsSeen,
      LostOnlyToOthers, FlightYoung, ChecksYoung, CacheYoung, ReadsTrue, CallsChange,
      SettledSeen

\* A cached session is within its lifetime.
LEMMA FromCacheStep ==
  ASSUME WebSessionAssumption, SessionInv, NEW r \in Requests, NEW op \in Operations,
         CheckFromCache(r, op)
  PROVE  SessionInv'
<1> USE DEF SessionInv, SessionSound
<1>1. /\ CacheTicks \in Nat /\ CacheTicks > 0 /\ CallTicks \in Nat /\ CallTicks > 0
      /\ Recent \in Nat /\ Recent = CacheTicks + CallTicks /\ AgeCap = Recent + 1
      /\ None # "plain" /\ None # "elevated" /\ None # "gone" /\ None # "failed"
  BY Bounds
<1>2. TypeOK'
  <2>1. given' \in [age : 0..AgeCap, orphan : BOOLEAN]
    BY <1>1 DEF TypeOK, CheckFromCache, Proceed, CacheEntry
  <2>2. Goes(op) \in Progress
    BY RowsWellFormed, <2>1
  <2>3. req' \in [Requests -> Progress]
    BY <1>1, <2>1, <2>2 DEF TypeOK, CheckFromCache, Proceed
  <2> QED
    BY <2>1, <2>2, <2>3 DEF TypeOK, CheckFromCache, CacheBeforeCall
<1>3. RecentUnlessAbandoned'
  BY <1>1 DEF TypeOK, RecentUnlessAbandoned, CacheYoung, CheckFromCache, Proceed, Goes,
     CacheBeforeCall, Idle, Stage, Live, Outcomes, Operations, CacheEntry, SessionRead, Progress
<1>4. AnsweredIsSeen'
  BY <1>1 DEF TypeOK, AnsweredIsSeen, CheckFromCache, Proceed, Goes, CacheBeforeCall, Idle, Stage,
     Live, Outcomes, Operations, CacheEntry, SessionRead, Progress
<1>5. LostOnlyToOthers'
  BY <1>1 DEF TypeOK, LostOnlyToOthers, CheckFromCache, Proceed, Goes, CacheBeforeCall, Idle,
     Stage, Live, Outcomes, Operations, CacheEntry, SessionRead, Progress
<1>6. FlightYoung'
  BY <1>1 DEF TypeOK, FlightYoung, CheckFromCache, Proceed, Goes, CacheBeforeCall, Idle, Stage,
     Live, Outcomes, Operations, CacheEntry, SessionRead, Progress
<1>7. ChecksYoung'
  BY <1>1 DEF TypeOK, ChecksYoung, CheckFromCache, Proceed, Goes, CacheBeforeCall, Idle, Stage,
     Live, Outcomes, Operations, CacheEntry, SessionRead, Progress
<1>8. CacheYoung'
  BY <1>1 DEF TypeOK, CacheYoung, CheckFromCache, Proceed, Goes, CacheBeforeCall, Idle, Stage,
     Live, Outcomes, Operations, CacheEntry, SessionRead, Progress
<1>9. ReadsTrue'
  BY <1>1 DEF TypeOK, ReadsTrue, CheckFromCache, Proceed, Goes, CacheBeforeCall, Idle, Stage,
     Live, Outcomes, Operations, CacheEntry, SessionRead, Progress
<1>10. CallsChange'
  BY <1>1 DEF TypeOK, CallsChange, CheckFromCache, Proceed, Goes, CacheBeforeCall, Idle, Stage,
     Live, Outcomes, Operations, CacheEntry, SessionRead, Progress
<1>11. SettledSeen'
  BY <1>1 DEF TypeOK, SettledSeen, CheckFromCache, Proceed, Goes, CacheBeforeCall, Idle, Stage,
     Live, Outcomes, Operations, CacheEntry, SessionRead, Progress
<1> QED
  BY <1>2, <1>3, <1>4, <1>5, <1>6, <1>7, <1>8, <1>9, <1>10, <1>11

\* A request that joins a read takes what the read has.
LEMMA JoinStep ==
  ASSUME WebSessionAssumption, SessionInv, NEW r \in Requests, NEW op \in Operations, JoinFlight(r, op)
  PROVE  SessionInv'
<1> USE DEF SessionInv, SessionSound
<1>1. /\ CacheTicks \in Nat /\ CacheTicks > 0 /\ CallTicks \in Nat /\ CallTicks > 0
      /\ Recent \in Nat /\ Recent = CacheTicks + CallTicks /\ AgeCap = Recent + 1
      /\ None # "plain" /\ None # "elevated" /\ None # "gone" /\ None # "failed"
  BY Bounds
<1>2. TypeOK'
  BY NobodyGiven, <1>1 DEF TypeOK, JoinFlight, Live, Outcomes, Operations, CacheEntry,
     SessionRead, Progress
<1>3. RecentUnlessAbandoned'
  BY NobodyGiven DEF JoinFlight
<1>4. AnsweredIsSeen'
  BY <1>1 DEF TypeOK, AnsweredIsSeen, JoinFlight, Live, Outcomes, Operations, CacheEntry,
     SessionRead, Progress
<1>5. LostOnlyToOthers'
  BY <1>1 DEF TypeOK, LostOnlyToOthers, JoinFlight, Live, Outcomes, Operations, CacheEntry,
     SessionRead, Progress
<1>6. FlightYoung'
  BY <1>1 DEF TypeOK, FlightYoung, JoinFlight, Live, Outcomes, Operations, CacheEntry,
     SessionRead, Progress
<1>7. ChecksYoung'
  BY <1>1 DEF TypeOK, ChecksYoung, FlightYoung, JoinFlight, Live, Outcomes, Operations,
     CacheEntry, SessionRead, Progress
<1>8. CacheYoung'
  BY <1>1 DEF TypeOK, CacheYoung, JoinFlight, Live, Outcomes, Operations, CacheEntry, SessionRead,
     Progress
<1>9. ReadsTrue'
  BY <1>1 DEF TypeOK, ReadsTrue, JoinFlight, Live, Outcomes, Operations, CacheEntry, SessionRead,
     Progress
<1>10. CallsChange'
  BY <1>1 DEF TypeOK, CallsChange, JoinFlight, Live, Outcomes, Operations, CacheEntry,
     SessionRead, Progress
<1>11. SettledSeen'
  BY <1>1 DEF TypeOK, SettledSeen, AnsweredIsSeen, JoinFlight, Live, Outcomes, Operations,
     CacheEntry, SessionRead, Progress
<1> QED
  BY <1>2, <1>3, <1>4, <1>5, <1>6, <1>7, <1>8, <1>9, <1>10, <1>11

\* A read starts without a value.
LEMMA StartStep ==
  ASSUME WebSessionAssumption, SessionInv, NEW r \in Requests, NEW op \in Operations, StartFlight(r, op)
  PROVE  SessionInv'
<1> USE DEF SessionInv, SessionSound
<1>1. /\ CacheTicks \in Nat /\ CacheTicks > 0 /\ CallTicks \in Nat /\ CallTicks > 0
      /\ Recent \in Nat /\ Recent = CacheTicks + CallTicks /\ AgeCap = Recent + 1
      /\ None # "plain" /\ None # "elevated" /\ None # "gone" /\ None # "failed"
  BY Bounds
<1>2. TypeOK'
  <2>1. flight' \in SessionRead \cup {None}
    BY <1>1 DEF TypeOK, StartFlight, SessionRead
  <2>2. \A t \in Tasks : Stage("waiting", op, t) \in Progress
    BY RowsWellFormed, <2>1
  <2>3. req' \in [Requests -> Progress]
    BY <1>1, <2>1, <2>2 DEF TypeOK, StartFlight
  <2> QED
    BY NobodyGiven, <2>1, <2>2, <2>3 DEF TypeOK, StartFlight
<1>3. RecentUnlessAbandoned'
  BY NobodyGiven DEF StartFlight
<1>4. AnsweredIsSeen'
  BY <1>1 DEF TypeOK, AnsweredIsSeen, StartFlight, Idle, Stage, Live, Outcomes, Operations,
     CacheEntry, SessionRead, Progress
<1>5. LostOnlyToOthers'
  BY <1>1 DEF TypeOK, LostOnlyToOthers, StartFlight, Idle, Stage, Live, Outcomes, Operations,
     CacheEntry, SessionRead, Progress
<1>6. FlightYoung'
  BY <1>1 DEF TypeOK, FlightYoung, StartFlight, Idle, Stage, Live, Outcomes, Operations,
     CacheEntry, SessionRead, Progress
<1>7. ChecksYoung'
  BY <1>1 DEF TypeOK, ChecksYoung, StartFlight, Idle, Stage, Live, Outcomes, Operations,
     CacheEntry, SessionRead, Progress
<1>8. CacheYoung'
  BY <1>1 DEF TypeOK, CacheYoung, StartFlight, Idle, Stage, Live, Outcomes, Operations,
     CacheEntry, SessionRead, Progress
<1>9. ReadsTrue'
  BY <1>1 DEF TypeOK, ReadsTrue, StartFlight, Idle, Stage, Live, Outcomes, Operations, CacheEntry,
     SessionRead, Progress
<1>10. CallsChange'
  BY <1>1 DEF TypeOK, CallsChange, StartFlight, Idle, Stage, Live, Outcomes, Operations,
     CacheEntry, SessionRead, Progress
<1>11. SettledSeen'
  BY <1>1 DEF TypeOK, SettledSeen, StartFlight, Idle, Stage, Live, Outcomes, Operations,
     CacheEntry, SessionRead, Progress
<1> QED
  BY <1>2, <1>3, <1>4, <1>5, <1>6, <1>7, <1>8, <1>9, <1>10, <1>11

\* The session is cached for its lifetime.
LEMMA CheckedStep ==
  ASSUME WebSessionAssumption, SessionInv, NEW r \in Requests, SessionChecked(r)
  PROVE  SessionInv'
<1> USE DEF SessionInv, SessionSound
<1>1. /\ CacheTicks \in Nat /\ CacheTicks > 0 /\ CallTicks \in Nat /\ CallTicks > 0
      /\ Recent \in Nat /\ Recent = CacheTicks + CallTicks /\ AgeCap = Recent + 1
      /\ None # "plain" /\ None # "elevated" /\ None # "gone" /\ None # "failed"
  BY Bounds
<1>2. TypeOK'
  <2>1. cache' \in CacheEntry \cup {None}
    BY <1>1 DEF TypeOK, SessionChecked, CacheBeforeCall, CacheEntry, Progress
  <2>2. flight' \in SessionRead \cup {None}
    BY <1>1, <2>1 DEF TypeOK, SessionChecked, ForgetFlight
  <2>3. given' \in [age : 0..AgeCap, orphan : BOOLEAN]
    BY <1>1, <2>1, <2>2 DEF TypeOK, SessionChecked, Proceed, Progress
  <2>4. req[r].op \in Operations
    BY <1>1, <2>1, <2>2, <2>3 DEF TypeOK, Progress
  <2>5. Goes(req[r].op) \in Progress
    BY RowsWellFormed, <2>1, <2>2, <2>3, <2>4
  <2>6. req' \in [Requests -> Progress]
    BY <1>1, <2>1, <2>2, <2>3, <2>4, <2>5 DEF TypeOK, SessionChecked, Proceed
  <2> QED
    BY <2>1, <2>2, <2>3, <2>4, <2>5, <2>6 DEF TypeOK, SessionChecked
<1>3. RecentUnlessAbandoned'
  BY <1>1 DEF TypeOK, RecentUnlessAbandoned, ChecksYoung, SessionChecked, ForgetFlight, Proceed,
     Goes, CacheBeforeCall, Idle, Stage, Live, Outcomes, Operations, CacheEntry, SessionRead,
     Progress
<1>4. AnsweredIsSeen'
  BY <1>1 DEF TypeOK, AnsweredIsSeen, SettledSeen, SessionChecked, ForgetFlight, Proceed, Goes,
     CacheBeforeCall, Idle, Stage, Live, Outcomes, Operations, CacheEntry, SessionRead, Progress
<1>5. LostOnlyToOthers'
  BY <1>1 DEF TypeOK, LostOnlyToOthers, SessionChecked, ForgetFlight, Proceed, Goes,
     CacheBeforeCall, Idle, Stage, Live, Outcomes, Operations, CacheEntry, SessionRead, Progress
<1>6. FlightYoung'
  BY <1>1 DEF TypeOK, FlightYoung, SessionChecked, ForgetFlight, Proceed, Goes, CacheBeforeCall,
     Idle, Stage, Live, Outcomes, Operations, CacheEntry, SessionRead, Progress
<1>7. ChecksYoung'
  BY <1>1 DEF TypeOK, ChecksYoung, SessionChecked, ForgetFlight, Proceed, Goes, CacheBeforeCall,
     Idle, Stage, Live, Outcomes, Operations, CacheEntry, SessionRead, Progress
<1>8. CacheYoung'
  BY <1>1 DEF TypeOK, CacheYoung, ChecksYoung, SessionChecked, ForgetFlight, Proceed, Goes,
     CacheBeforeCall, Idle, Stage, Live, Outcomes, Operations, CacheEntry, SessionRead, Progress
<1>9. ReadsTrue'
  BY <1>1 DEF TypeOK, ReadsTrue, SessionChecked, ForgetFlight, Proceed, Goes, CacheBeforeCall,
     Idle, Stage, Live, Outcomes, Operations, CacheEntry, SessionRead, Progress
<1>10. CallsChange'
  BY <1>1 DEF TypeOK, CallsChange, SessionChecked, ForgetFlight, Proceed, Goes, CacheBeforeCall,
     Idle, Stage, Live, Outcomes, Operations, CacheEntry, SessionRead, Progress
<1>11. SettledSeen'
  BY <1>1 DEF TypeOK, SettledSeen, SessionChecked, ForgetFlight, Proceed, Goes, CacheBeforeCall,
     Idle, Stage, Live, Outcomes, Operations, CacheEntry, SessionRead, Progress
<1> QED
  BY <1>2, <1>3, <1>4, <1>5, <1>6, <1>7, <1>8, <1>9, <1>10, <1>11

\* Only a session that is gone costs the cookie.
LEMMA CheckFailedStep ==
  ASSUME WebSessionAssumption, SessionInv, NEW r \in Requests, CheckFailed(r)
  PROVE  SessionInv'
<1> USE DEF SessionInv, SessionSound
<1>1. /\ CacheTicks \in Nat /\ CacheTicks > 0 /\ CallTicks \in Nat /\ CallTicks > 0
      /\ Recent \in Nat /\ Recent = CacheTicks + CallTicks /\ AgeCap = Recent + 1
      /\ None # "plain" /\ None # "elevated" /\ None # "gone" /\ None # "failed"
  BY Bounds
<1>2. TypeOK'
  <2>1. Idle \in Progress /\ Dead \in Progress
    BY RowsWellFormed DEF Operations
  <2>2. req' \in [Requests -> Progress]
    BY <2>1 DEF TypeOK, CheckFailed
  <2>3. flight' \in SessionRead \cup {None} /\ cookie' \in BOOLEAN
    BY DEF TypeOK, CheckFailed, ForgetFlight
  <2> QED
    BY NobodyGiven, <2>2, <2>3 DEF TypeOK, CheckFailed
<1>3. RecentUnlessAbandoned'
  BY NobodyGiven DEF CheckFailed
<1>4. AnsweredIsSeen'
  BY <1>1 DEF TypeOK, AnsweredIsSeen, CheckFailed, ForgetFlight, ClearsCookie, Dead, Idle, Stage,
     Live, Outcomes, Operations, CacheEntry, SessionRead, Progress
<1>5. LostOnlyToOthers'
  BY <1>1 DEF TypeOK, LostOnlyToOthers, ReadsTrue, CheckFailed, ForgetFlight, ClearsCookie, Dead,
     Idle, Stage, Live, Outcomes, Operations, CacheEntry, SessionRead, Progress
<1>6. FlightYoung'
  BY <1>1 DEF TypeOK, FlightYoung, CheckFailed, ForgetFlight, ClearsCookie, Dead, Idle, Stage,
     Live, Outcomes, Operations, CacheEntry, SessionRead, Progress
<1>7. ChecksYoung'
  BY <1>1 DEF TypeOK, ChecksYoung, CheckFailed, ForgetFlight, ClearsCookie, Dead, Idle, Stage,
     Live, Outcomes, Operations, CacheEntry, SessionRead, Progress
<1>8. CacheYoung'
  BY <1>1 DEF TypeOK, CacheYoung, CheckFailed, ForgetFlight, ClearsCookie, Dead, Idle, Stage,
     Live, Outcomes, Operations, CacheEntry, SessionRead, Progress
<1>9. ReadsTrue'
  BY <1>1 DEF TypeOK, ReadsTrue, CheckFailed, ForgetFlight, ClearsCookie, Dead, Idle, Stage, Live,
     Outcomes, Operations, CacheEntry, SessionRead, Progress
<1>10. CallsChange'
  BY <1>1 DEF TypeOK, CallsChange, CheckFailed, ForgetFlight, ClearsCookie, Dead, Idle, Stage,
     Live, Outcomes, Operations, CacheEntry, SessionRead, Progress
<1>11. SettledSeen'
  BY <1>1 DEF TypeOK, SettledSeen, CheckFailed, ForgetFlight, ClearsCookie, Dead, Idle, Stage,
     Live, Outcomes, Operations, CacheEntry, SessionRead, Progress
<1> QED
  BY <1>2, <1>3, <1>4, <1>5, <1>6, <1>7, <1>8, <1>9, <1>10, <1>11

\* The last waiter of a read forgets it, cancelled or not.
LEMMA CancelledStep ==
  ASSUME WebSessionAssumption, SessionInv, NEW r \in Requests, CheckCancelled(r)
  PROVE  SessionInv'
<1> USE DEF SessionInv, SessionSound
<1>1. /\ CacheTicks \in Nat /\ CacheTicks > 0 /\ CallTicks \in Nat /\ CallTicks > 0
      /\ Recent \in Nat /\ Recent = CacheTicks + CallTicks /\ AgeCap = Recent + 1
      /\ None # "plain" /\ None # "elevated" /\ None # "gone" /\ None # "failed"
  BY Bounds
<1>2. TypeOK'
  BY NobodyGiven, <1>1 DEF TypeOK, CheckCancelled, ForgetFlight, Idle, Stage, Live, Outcomes,
     Operations,
     CacheEntry, SessionRead, Progress
<1>3. RecentUnlessAbandoned'
  BY NobodyGiven DEF CheckCancelled
<1>4. AnsweredIsSeen'
  BY <1>1 DEF TypeOK, AnsweredIsSeen, CheckCancelled, ForgetFlight, Idle, Stage, Live, Outcomes,
     Operations, CacheEntry, SessionRead, Progress
<1>5. LostOnlyToOthers'
  BY <1>1 DEF TypeOK, LostOnlyToOthers, CheckCancelled, ForgetFlight, Idle, Stage, Live,
     Outcomes, Operations, CacheEntry, SessionRead, Progress
<1>6. FlightYoung'
  BY <1>1 DEF TypeOK, FlightYoung, CheckCancelled, ForgetFlight, Idle, Stage, Live, Outcomes,
     Operations, CacheEntry, SessionRead, Progress
<1>7. ChecksYoung'
  BY <1>1 DEF TypeOK, ChecksYoung, CheckCancelled, ForgetFlight, Idle, Stage, Live, Outcomes,
     Operations, CacheEntry, SessionRead, Progress
<1>8. CacheYoung'
  BY <1>1 DEF TypeOK, CacheYoung, CheckCancelled, ForgetFlight, Idle, Stage, Live, Outcomes,
     Operations, CacheEntry, SessionRead, Progress
<1>9. ReadsTrue'
  BY <1>1 DEF TypeOK, ReadsTrue, CheckCancelled, ForgetFlight, Idle, Stage, Live, Outcomes,
     Operations, CacheEntry, SessionRead, Progress
<1>10. CallsChange'
  BY <1>1 DEF TypeOK, CallsChange, CheckCancelled, ForgetFlight, Idle, Stage, Live, Outcomes,
     Operations, CacheEntry, SessionRead, Progress
<1>11. SettledSeen'
  BY <1>1 DEF TypeOK, SettledSeen, CheckCancelled, ForgetFlight, Idle, Stage, Live, Outcomes,
     Operations, CacheEntry, SessionRead, Progress
<1> QED
  BY <1>2, <1>3, <1>4, <1>5, <1>6, <1>7, <1>8, <1>9, <1>10, <1>11

\* The session only goes from plain to elevated to gone.
LEMMA ServedStep ==
  ASSUME WebSessionAssumption, SessionInv, NEW r \in Requests, OperationServed(r)
  PROVE  SessionInv'
<1> USE DEF SessionInv, SessionSound
<1>1. /\ CacheTicks \in Nat /\ CacheTicks > 0 /\ CallTicks \in Nat /\ CallTicks > 0
      /\ Recent \in Nat /\ Recent = CacheTicks + CallTicks /\ AgeCap = Recent + 1
      /\ None # "plain" /\ None # "elevated" /\ None # "gone" /\ None # "failed"
  BY Bounds
<1>2. TypeOK'
  <2>1. store' \in Live \cup {"gone"}
    BY <1>1 DEF TypeOK, OperationServed, CallsChange, Effect, Live, Progress, Operations
  <2>2. req' \in [Requests -> Progress]
    BY <1>1, <2>1 DEF TypeOK, OperationServed, Progress
  <2> QED
    BY NobodyGiven, <2>1, <2>2 DEF TypeOK, OperationServed
<1>3. RecentUnlessAbandoned'
  BY NobodyGiven DEF OperationServed
<1>4. AnsweredIsSeen'
  BY <1>1 DEF TypeOK, AnsweredIsSeen, OperationServed, Effect, Live, Outcomes, Operations,
     CacheEntry, SessionRead, Progress
<1>5. LostOnlyToOthers'
  BY <1>1 DEF TypeOK, LostOnlyToOthers, OperationServed, Effect, Live, Outcomes, Operations,
     CacheEntry, SessionRead, Progress
<1>6. FlightYoung'
  BY <1>1 DEF TypeOK, FlightYoung, OperationServed, Effect, Live, Outcomes, Operations,
     CacheEntry, SessionRead, Progress
<1>7. ChecksYoung'
  BY <1>1 DEF TypeOK, ChecksYoung, OperationServed, Effect, Live, Outcomes, Operations,
     CacheEntry, SessionRead, Progress
<1>8. CacheYoung'
  BY <1>1 DEF TypeOK, CacheYoung, OperationServed, Effect, Live, Outcomes, Operations, CacheEntry,
     SessionRead, Progress
<1>9. ReadsTrue'
  BY <1>1 DEF TypeOK, ReadsTrue, OperationServed, Effect, Live, Outcomes, Operations, CacheEntry,
     SessionRead, Progress
<1>10. CallsChange'
  BY <1>1 DEF TypeOK, CallsChange, OperationServed, Effect, Live, Outcomes, Operations,
     CacheEntry, SessionRead, Progress
<1>11. SettledSeen'
  BY <1>1 DEF TypeOK, SettledSeen, CallsChange, OperationServed, Effect, Live, Outcomes,
     Operations, CacheEntry, SessionRead, Progress
<1> QED
  BY <1>2, <1>3, <1>4, <1>5, <1>6, <1>7, <1>8, <1>9, <1>10, <1>11

\* An answer in a quiet moment finds nothing cached and no read.
LEMMA AnsweredStep ==
  ASSUME WebSessionAssumption, SessionInv, NEW r \in Requests, OperationAnswered(r)
  PROVE  SessionInv'
<1> USE DEF SessionInv, SessionSound
<1>1. /\ CacheTicks \in Nat /\ CacheTicks > 0 /\ CallTicks \in Nat /\ CallTicks > 0
      /\ Recent \in Nat /\ Recent = CacheTicks + CallTicks /\ AgeCap = Recent + 1
      /\ None # "plain" /\ None # "elevated" /\ None # "gone" /\ None # "failed"
  BY Bounds
<1>2. TypeOK'
  <2>1. cookie' \in BOOLEAN
    BY <1>1 DEF TypeOK, OperationAnswered
  <2>2. req' \in [Requests -> Progress]
    BY <1>1, <2>1 DEF TypeOK, OperationAnswered, Idle, Stage, Progress, Operations
  <2>3. settled' \in Live \cup {"gone", None}
    BY <1>1, <2>1, <2>2 DEF TypeOK, OperationAnswered, CallsChange, Effect, Live, Progress,
       Operations
  <2> QED
    BY NobodyGiven, <2>1, <2>2, <2>3 DEF TypeOK, OperationAnswered, CacheAfterCall
<1>3. RecentUnlessAbandoned'
  BY NobodyGiven DEF OperationAnswered
<1>4. AnsweredIsSeen'
  BY <1>1 DEF TypeOK, AnsweredIsSeen, OperationAnswered, CacheAfterCall, Effect, Quiet, Idle,
     Stage, Live, Outcomes, Operations, CacheEntry, SessionRead, Progress
<1>5. LostOnlyToOthers'
  BY <1>1 DEF TypeOK, LostOnlyToOthers, CallsChange, OperationAnswered, CacheAfterCall, Effect,
     Quiet, Idle, Stage, Live, Outcomes, Operations, CacheEntry, SessionRead, Progress
<1>6. FlightYoung'
  BY <1>1 DEF TypeOK, FlightYoung, OperationAnswered, CacheAfterCall, Effect, Quiet, Idle, Stage,
     Live, Outcomes, Operations, CacheEntry, SessionRead, Progress
<1>7. ChecksYoung'
  BY <1>1 DEF TypeOK, ChecksYoung, OperationAnswered, CacheAfterCall, Effect, Quiet, Idle, Stage,
     Live, Outcomes, Operations, CacheEntry, SessionRead, Progress
<1>8. CacheYoung'
  BY <1>1 DEF TypeOK, CacheYoung, OperationAnswered, CacheAfterCall, Effect, Quiet, Idle, Stage,
     Live, Outcomes, Operations, CacheEntry, SessionRead, Progress
<1>9. ReadsTrue'
  BY <1>1 DEF TypeOK, ReadsTrue, OperationAnswered, CacheAfterCall, Effect, Quiet, Idle, Stage,
     Live, Outcomes, Operations, CacheEntry, SessionRead, Progress
<1>10. CallsChange'
  BY <1>1 DEF TypeOK, CallsChange, OperationAnswered, CacheAfterCall, Effect, Quiet, Idle, Stage,
     Live, Outcomes, Operations, CacheEntry, SessionRead, Progress
<1>11. SettledSeen'
  BY <1>1 DEF TypeOK, SettledSeen, CallsChange, OperationAnswered, CacheAfterCall, Effect, Quiet,
     Idle, Stage, Live, Outcomes, Operations, CacheEntry, SessionRead, Progress
<1> QED
  BY <1>2, <1>3, <1>4, <1>5, <1>6, <1>7, <1>8, <1>9, <1>10, <1>11

\* An operation without a caller keeps its effect for later.
LEMMA GivenUpStep ==
  ASSUME WebSessionAssumption, SessionInv, NEW r \in Requests, OperationGivenUp(r)
  PROVE  SessionInv'
<1> USE DEF SessionInv, SessionSound
<1>1. /\ CacheTicks \in Nat /\ CacheTicks > 0 /\ CallTicks \in Nat /\ CallTicks > 0
      /\ Recent \in Nat /\ Recent = CacheTicks + CallTicks /\ AgeCap = Recent + 1
      /\ None # "plain" /\ None # "elevated" /\ None # "gone" /\ None # "failed"
  BY Bounds
<1>2. TypeOK'
  <2>1. late' \subseteq {"gone", "elevated"}
    BY <1>1 DEF TypeOK, OperationGivenUp, CallsChange, Effect, Progress, Operations
  <2>2. req' \in [Requests -> Progress]
    BY <1>1, <2>1 DEF TypeOK, OperationGivenUp, Idle, Stage, Progress, Operations
  <2> QED
    BY NobodyGiven, <2>1, <2>2 DEF TypeOK, OperationGivenUp, CacheAfterCall
<1>3. RecentUnlessAbandoned'
  BY NobodyGiven DEF OperationGivenUp
<1>4. AnsweredIsSeen'
  BY <1>1 DEF TypeOK, AnsweredIsSeen, OperationGivenUp, CacheAfterCall, Effect, Idle, Stage, Live,
     Outcomes, Operations, CacheEntry, SessionRead, Progress
<1>5. LostOnlyToOthers'
  BY <1>1 DEF TypeOK, LostOnlyToOthers, OperationGivenUp, CacheAfterCall, Effect, Idle, Stage,
     Live, Outcomes, Operations, CacheEntry, SessionRead, Progress
<1>6. FlightYoung'
  BY <1>1 DEF TypeOK, FlightYoung, OperationGivenUp, CacheAfterCall, Effect, Idle, Stage, Live,
     Outcomes, Operations, CacheEntry, SessionRead, Progress
<1>7. ChecksYoung'
  BY <1>1 DEF TypeOK, ChecksYoung, OperationGivenUp, CacheAfterCall, Effect, Idle, Stage, Live,
     Outcomes, Operations, CacheEntry, SessionRead, Progress
<1>8. CacheYoung'
  BY <1>1 DEF TypeOK, CacheYoung, OperationGivenUp, CacheAfterCall, Effect, Idle, Stage, Live,
     Outcomes, Operations, CacheEntry, SessionRead, Progress
<1>9. ReadsTrue'
  BY <1>1 DEF TypeOK, ReadsTrue, OperationGivenUp, CacheAfterCall, Effect, Idle, Stage, Live,
     Outcomes, Operations, CacheEntry, SessionRead, Progress
<1>10. CallsChange'
  BY <1>1 DEF TypeOK, CallsChange, OperationGivenUp, CacheAfterCall, Effect, Idle, Stage, Live,
     Outcomes, Operations, CacheEntry, SessionRead, Progress
<1>11. SettledSeen'
  BY <1>1 DEF TypeOK, SettledSeen, OperationGivenUp, CacheAfterCall, Effect, Idle, Stage, Live,
     Outcomes, Operations, CacheEntry, SessionRead, Progress
<1> QED
  BY <1>2, <1>3, <1>4, <1>5, <1>6, <1>7, <1>8, <1>9, <1>10, <1>11

\* The helper reads the session as it is.
LEMMA FlightServedStep ==
  ASSUME WebSessionAssumption, SessionInv, FlightServed
  PROVE  SessionInv'
<1> USE DEF SessionInv, SessionSound
<1>1. /\ CacheTicks \in Nat /\ CacheTicks > 0 /\ CallTicks \in Nat /\ CallTicks > 0
      /\ Recent \in Nat /\ Recent = CacheTicks + CallTicks /\ AgeCap = Recent + 1
      /\ None # "plain" /\ None # "elevated" /\ None # "gone" /\ None # "failed"
  BY Bounds
<1>2. TypeOK'
  <2>1. /\ flight.id \in Tasks /\ flight.elapsed \in 0..CallTicks /\ flight.orphan \in BOOLEAN
        /\ flight' = [id |-> flight.id, at |-> "served", value |-> store, age |-> 0,
                      elapsed |-> flight.elapsed, orphan |-> flight.orphan]
    BY <1>1 DEF TypeOK, FlightServed, SessionRead
  <2>2. flight' \in SessionRead \cup {None}
    BY <1>1, <2>1 DEF TypeOK, SessionRead, Outcomes
  <2> QED
    BY NobodyGiven, <2>1, <2>2 DEF TypeOK, FlightServed
<1>3. RecentUnlessAbandoned'
  BY NobodyGiven DEF FlightServed
<1>4. AnsweredIsSeen'
  BY <1>1 DEF TypeOK, AnsweredIsSeen, SettledSeen, FlightServed, Live, Outcomes, Operations,
     CacheEntry, SessionRead, Progress
<1>5. LostOnlyToOthers'
  BY <1>1 DEF TypeOK, LostOnlyToOthers, FlightServed, Live, Outcomes, Operations, CacheEntry,
     SessionRead, Progress
<1>6. FlightYoung'
  BY <1>1 DEF TypeOK, FlightYoung, FlightServed, Live, Outcomes, Operations, CacheEntry,
     SessionRead, Progress
<1>7. ChecksYoung'
  BY <1>1 DEF TypeOK, ChecksYoung, FlightServed, Live, Outcomes, Operations, CacheEntry,
     SessionRead, Progress
<1>8. CacheYoung'
  BY <1>1 DEF TypeOK, CacheYoung, FlightServed, Live, Outcomes, Operations, CacheEntry,
     SessionRead, Progress
<1>9. ReadsTrue'
  BY <1>1 DEF TypeOK, ReadsTrue, FlightServed, Live, Outcomes, Operations, CacheEntry,
     SessionRead, Progress
<1>10. CallsChange'
  BY <1>1 DEF TypeOK, CallsChange, FlightServed, Live, Outcomes, Operations, CacheEntry,
     SessionRead, Progress
<1>11. SettledSeen'
  BY <1>1 DEF TypeOK, SettledSeen, FlightServed, Live, Outcomes, Operations, CacheEntry,
     SessionRead, Progress
<1> QED
  BY <1>2, <1>3, <1>4, <1>5, <1>6, <1>7, <1>8, <1>9, <1>10, <1>11

\* The read is over for everyone who waits.
LEMMA FlightOverStep ==
  ASSUME WebSessionAssumption, SessionInv, NEW value \in Outcomes \cup {None},
         flight # None, flight.at # "done", FlightOver(value),
         value = "gone" => flight.value = "gone",
         value \in Live => flight.value = value
  PROVE  SessionInv'
<1> USE DEF SessionInv, SessionSound
<1>1. /\ CacheTicks \in Nat /\ CacheTicks > 0 /\ CallTicks \in Nat /\ CallTicks > 0
      /\ Recent \in Nat /\ Recent = CacheTicks + CallTicks /\ AgeCap = Recent + 1
      /\ None # "plain" /\ None # "elevated" /\ None # "gone" /\ None # "failed"
  BY Bounds
<1>2. /\ flight.id \in Tasks /\ flight.age \in 0..AgeCap /\ flight.elapsed \in 0..CallTicks
      /\ flight.value \in Outcomes \cup {None} /\ flight.age <= flight.elapsed
  BY DEF TypeOK, SessionRead, FlightYoung
<1>3. PICK W \in SUBSET Requests :
        /\ W = {x \in Requests : req[x].at = "waiting" /\ req[x].task = flight.id}
        /\ flight' = [flight EXCEPT !.at = "done", !.value = value, !.orphan = (W = {})]
        /\ req' = [x \in Requests |->
                     IF x \in W
                     THEN [req[x] EXCEPT !.at = "resuming", !.value = value, !.age = flight.age]
                     ELSE req[x]]
        /\ NoneGiven /\ UNCHANGED <<store, cookie, cache, late, settled, crossed>>
  BY DEF FlightOver
<1>4. flight' = [id |-> flight.id, at |-> "done", value |-> value, age |-> flight.age,
                 elapsed |-> flight.elapsed, orphan |-> (W = {})]
  BY <1>3 DEF TypeOK, SessionRead
<1>5. ASSUME NEW x \in W
      PROVE  /\ req'[x] \in Progress
             /\ req'[x].at = "resuming" /\ req'[x].value = value /\ req'[x].age = flight.age
             /\ req'[x].task = flight.id
  <2>1. req[x] \in Progress /\ req[x].task = flight.id
    BY <1>3 DEF TypeOK
  <2>2. req'[x] = [req[x] EXCEPT !.at = "resuming", !.value = value, !.age = flight.age]
    BY <1>3
  <2>3. req'[x] = [at |-> "resuming", op |-> req[x].op, task |-> req[x].task, value |-> value,
                   age |-> flight.age, orphan |-> req[x].orphan]
    BY <2>1, <2>2 DEF Progress
  <2> QED
    BY <1>2, <2>1, <2>3 DEF Progress
<1>6. \A x \in Requests : x \notin W => req'[x] = req[x]
  BY <1>3
<1>7. TypeOK'
  <2>1. (W = {}) \in BOOLEAN
    OBVIOUS
  <2>2. flight' \in SessionRead
    BY <1>2, <1>4, <2>1 DEF SessionRead
  <2>3. \A x \in Requests : req'[x] \in Progress
    BY <1>5, <1>6 DEF TypeOK
  <2>4. req' \in [Requests -> Progress]
    BY <1>3, <2>3
  <2> QED
    BY NobodyGiven, <1>3, <2>2, <2>4 DEF TypeOK
<1>8. RecentUnlessAbandoned'
  BY NobodyGiven, <1>3
<1>9. AnsweredIsSeen'
  <2>1. (settled = "gone" => value \notin Live) /\ (settled = "elevated" => value # "plain")
    BY <1>1 DEF AnsweredIsSeen, Live
  <2>2. flight'.value = value
    BY <1>4
  <2> QED
    BY <1>3, <2>1, <2>2 DEF AnsweredIsSeen
<1>10. LostOnlyToOthers'
  BY <1>1, <1>2, <1>3, <1>4, <1>5, <1>6 DEF TypeOK, LostOnlyToOthers, Live, Outcomes,
     Operations, CacheEntry, SessionRead, Progress
<1>11. FlightYoung'
  <2>1. flight'.at = "done" /\ flight'.age <= CallTicks /\ flight'.id = flight.id
    BY <1>1, <1>2, <1>4
  <2>2. flight'.orphan = (W = {})
    BY <1>4
  <2>3. W # {} => \E r \in Requests : req'[r].at = "resuming" /\ req'[r].task = flight.id
    BY <1>3, <1>5
  <2> QED
    BY <2>1, <2>2, <2>3 DEF FlightYoung
<1>12. ChecksYoung'
  <2>1. flight.age <= CallTicks
    BY <1>1, <1>2
  <2> QED
    BY <1>5, <1>6, <2>1 DEF ChecksYoung
<1>13. CacheYoung'
  BY <1>1, <1>2, <1>3, <1>4, <1>5, <1>6 DEF TypeOK, CacheYoung, Live, Outcomes, Operations,
     CacheEntry, SessionRead, Progress
<1>14. ReadsTrue'
  BY <1>1, <1>2, <1>3, <1>4, <1>5, <1>6 DEF ReadsTrue
<1>15. CallsChange'
  BY <1>1, <1>2, <1>3, <1>4, <1>5, <1>6 DEF CallsChange
<1>16. SettledSeen'
  <2>1. (settled = "gone" => value \notin Live) /\ (settled = "elevated" => value # "plain")
    BY <1>1 DEF AnsweredIsSeen, Live
  <2> QED
    BY <1>3, <1>5, <1>6, <2>1 DEF SettledSeen
<1> QED
  BY <1>7, <1>8, <1>9, <1>10, <1>11, <1>12, <1>13, <1>14, <1>15, <1>16

\* A late operation ends or elevates the session.
LEMMA LateStep ==
  ASSUME WebSessionAssumption, SessionInv, NEW effect \in late, LateOperation(effect)
  PROVE  SessionInv'
<1> USE DEF SessionInv, SessionSound
<1>1. /\ CacheTicks \in Nat /\ CacheTicks > 0 /\ CallTicks \in Nat /\ CallTicks > 0
      /\ Recent \in Nat /\ Recent = CacheTicks + CallTicks /\ AgeCap = Recent + 1
      /\ None # "plain" /\ None # "elevated" /\ None # "gone" /\ None # "failed"
  BY Bounds
<1>2. TypeOK'
  <2>1. store' \in Live \cup {"gone"}
    BY DEF TypeOK, LateOperation, Live
  <2> QED
    BY NobodyGiven, <2>1 DEF TypeOK, LateOperation
<1>3. RecentUnlessAbandoned'
  BY NobodyGiven DEF LateOperation
<1>4. AnsweredIsSeen'
  BY <1>1 DEF TypeOK, AnsweredIsSeen, LateOperation, Live, Outcomes, Operations, CacheEntry,
     SessionRead, Progress
<1>5. LostOnlyToOthers'
  BY <1>1 DEF TypeOK, LostOnlyToOthers, LateOperation, Live, Outcomes, Operations, CacheEntry,
     SessionRead, Progress
<1>6. FlightYoung'
  BY <1>1 DEF TypeOK, FlightYoung, LateOperation, Live, Outcomes, Operations, CacheEntry,
     SessionRead, Progress
<1>7. ChecksYoung'
  BY <1>1 DEF TypeOK, ChecksYoung, LateOperation, Live, Outcomes, Operations, CacheEntry,
     SessionRead, Progress
<1>8. CacheYoung'
  BY <1>1 DEF TypeOK, CacheYoung, LateOperation, Live, Outcomes, Operations, CacheEntry,
     SessionRead, Progress
<1>9. ReadsTrue'
  BY <1>1 DEF TypeOK, ReadsTrue, LateOperation, Live, Outcomes, Operations, CacheEntry,
     SessionRead, Progress
<1>10. CallsChange'
  BY <1>1 DEF TypeOK, CallsChange, LateOperation, Live, Outcomes, Operations, CacheEntry,
     SessionRead, Progress
<1>11. SettledSeen'
  BY <1>1 DEF TypeOK, SettledSeen, LateOperation, Live, Outcomes, Operations, CacheEntry,
     SessionRead, Progress
<1> QED
  BY <1>2, <1>3, <1>4, <1>5, <1>6, <1>7, <1>8, <1>9, <1>10, <1>11

\* Nothing that was read of a session contradicts its end.
LEMMA EndedElsewhereStep ==
  ASSUME WebSessionAssumption, SessionInv, EndedElsewhere
  PROVE  SessionInv'
<1> USE DEF SessionInv, SessionSound
<1>1. /\ CacheTicks \in Nat /\ CacheTicks > 0 /\ CallTicks \in Nat /\ CallTicks > 0
      /\ Recent \in Nat /\ Recent = CacheTicks + CallTicks /\ AgeCap = Recent + 1
      /\ None # "plain" /\ None # "elevated" /\ None # "gone" /\ None # "failed"
  BY Bounds
<1>2. TypeOK'
  BY NobodyGiven, <1>1 DEF TypeOK, EndedElsewhere, Live, Outcomes, Operations, CacheEntry,
     SessionRead,
     Progress
<1>3. RecentUnlessAbandoned'
  BY NobodyGiven DEF EndedElsewhere
<1>4. AnsweredIsSeen'
  BY <1>1 DEF TypeOK, AnsweredIsSeen, EndedElsewhere, Live, Outcomes, Operations, CacheEntry,
     SessionRead, Progress
<1>5. LostOnlyToOthers'
  BY <1>1 DEF TypeOK, LostOnlyToOthers, EndedElsewhere, Live, Outcomes, Operations, CacheEntry,
     SessionRead, Progress
<1>6. FlightYoung'
  BY <1>1 DEF TypeOK, FlightYoung, EndedElsewhere, Live, Outcomes, Operations, CacheEntry,
     SessionRead, Progress
<1>7. ChecksYoung'
  BY <1>1 DEF TypeOK, ChecksYoung, EndedElsewhere, Live, Outcomes, Operations, CacheEntry,
     SessionRead, Progress
<1>8. CacheYoung'
  BY <1>1 DEF TypeOK, CacheYoung, EndedElsewhere, Live, Outcomes, Operations, CacheEntry,
     SessionRead, Progress
<1>9. ReadsTrue'
  BY <1>1 DEF TypeOK, ReadsTrue, EndedElsewhere, Live, Outcomes, Operations, CacheEntry,
     SessionRead, Progress
<1>10. CallsChange'
  BY <1>1 DEF TypeOK, CallsChange, EndedElsewhere, Live, Outcomes, Operations, CacheEntry,
     SessionRead, Progress
<1>11. SettledSeen'
  BY <1>1 DEF TypeOK, SettledSeen, EndedElsewhere, Live, Outcomes, Operations, CacheEntry,
     SessionRead, Progress
<1> QED
  BY <1>2, <1>3, <1>4, <1>5, <1>6, <1>7, <1>8, <1>9, <1>10, <1>11

\* What is left of a request neither checks a session nor was refused one.
LEMMA LeftRows ==
  ASSUME WebSessionAssumption, NEW row \in Progress
  PROVE  /\ Left(row) \in Progress /\ Left(row).at \in {"idle", "signing", "behind"}
         /\ Left(row).value = None
<1>1. "login" \in Operations /\ "read" \in Operations
  BY DEF Operations
<1>2. /\ Idle \in Progress /\ Stage("signing", "login", None) \in Progress
      /\ Stage("behind", "login", None) \in Progress /\ Stage("behind", "read", None) \in Progress
  BY <1>1, RowsWellFormed
<1>3. Left(row) \in {Idle, Stage("signing", "login", None), Stage("behind", "login", None),
                    Stage("behind", "read", None)}
  BY DEF Left
<1>4. \A x \in {Idle, Stage("signing", "login", None), Stage("behind", "login", None),
               Stage("behind", "read", None)} :
        x.at \in {"idle", "signing", "behind"} /\ x.value = None
  BY DEF Idle, Stage
<1> QED
  BY <1>2, <1>3, <1>4

\* A sign-in without a cookie checks nothing.
LEMMA SigningStartedStep ==
  ASSUME WebSessionAssumption, SessionInv, NEW r \in Requests, SigningStarted(r)
  PROVE  SessionInv'
<1> USE DEF SessionInv, SessionSound
<1>1. /\ CacheTicks \in Nat /\ CacheTicks > 0 /\ CallTicks \in Nat /\ CallTicks > 0
      /\ Recent \in Nat /\ Recent = CacheTicks + CallTicks /\ AgeCap = Recent + 1
      /\ None # "plain" /\ None # "elevated" /\ None # "gone" /\ None # "failed"
  BY Bounds
<1>2. TypeOK'
  <2>1. Idle \in Progress /\ Stage("signing", "login", None) \in Progress
    BY RowsWellFormed DEF Operations
  <2>2. req' \in [Requests -> Progress]
    BY <2>1 DEF TypeOK, SigningStarted
  <2> QED
    BY NobodyGiven, <2>2 DEF TypeOK, SigningStarted
<1>3. RecentUnlessAbandoned'
  BY NobodyGiven DEF SigningStarted
<1>4. AnsweredIsSeen'
  BY <1>1 DEF TypeOK, AnsweredIsSeen, SigningStarted, Idle, Stage, Live, Outcomes, Operations,
     CacheEntry, SessionRead, Progress
<1>5. LostOnlyToOthers'
  BY <1>1 DEF TypeOK, LostOnlyToOthers, SigningStarted, Idle, Stage, Live, Outcomes,
     Operations, CacheEntry, SessionRead, Progress
<1>6. FlightYoung'
  BY <1>1 DEF TypeOK, FlightYoung, SigningStarted, Idle, Stage, Live, Outcomes, Operations,
     CacheEntry, SessionRead, Progress
<1>7. ChecksYoung'
  BY <1>1 DEF TypeOK, ChecksYoung, SigningStarted, Idle, Stage, Live, Outcomes, Operations,
     CacheEntry, SessionRead, Progress
<1>8. CacheYoung'
  BY <1>1 DEF TypeOK, CacheYoung, SigningStarted, Idle, Stage, Live, Outcomes, Operations,
     CacheEntry, SessionRead, Progress
<1>9. ReadsTrue'
  BY <1>1 DEF TypeOK, ReadsTrue, SigningStarted, Idle, Stage, Live, Outcomes, Operations,
     CacheEntry, SessionRead, Progress
<1>10. CallsChange'
  BY <1>1 DEF TypeOK, CallsChange, SigningStarted, Idle, Stage, Live, Outcomes, Operations,
     CacheEntry, SessionRead, Progress
<1>11. SettledSeen'
  BY <1>1 DEF TypeOK, SettledSeen, SigningStarted, Idle, Stage, Live, Outcomes, Operations,
     CacheEntry, SessionRead, Progress
<1> QED
  BY <1>2, <1>3, <1>4, <1>5, <1>6, <1>7, <1>8, <1>9, <1>10, <1>11

\* A new session starts with nothing cached and no check under way.
LEMMA SignedInStep ==
  ASSUME WebSessionAssumption, SessionInv, NEW r \in Requests, NEW dead \in BOOLEAN, SignedIn(r, dead)
  PROVE  SessionInv'
<1> USE DEF SessionInv, SessionSound
<1>1. /\ CacheTicks \in Nat /\ CacheTicks > 0 /\ CallTicks \in Nat /\ CallTicks > 0
      /\ Recent \in Nat /\ Recent = CacheTicks + CallTicks /\ AgeCap = Recent + 1
      /\ None # "plain" /\ None # "elevated" /\ None # "gone" /\ None # "failed"
  BY Bounds
<1>2. \A q \in Requests : req'[q].at \in {"idle", "signing", "behind"} /\ req'[q].value = None
  <2>1. ASSUME NEW q \in Requests
        PROVE  req'[q].at \in {"idle", "signing", "behind"} /\ req'[q].value = None
    <3>1. req[q] \in Progress /\ req'[q] = IF q = r THEN Idle ELSE Left(req[q])
      BY DEF TypeOK, SignedIn
    <3> QED
      BY <3>1, LeftRows DEF Idle, Stage
  <2> QED
    BY <2>1
<1>3. TypeOK'
  <2>1. Idle \in Progress
    BY RowsWellFormed DEF Operations
  <2>2. \A q \in Requests : (IF q = r THEN Idle ELSE Left(req[q])) \in Progress
    BY <2>1, LeftRows DEF TypeOK
  <2>3. req' \in [Requests -> Progress]
    BY <2>2 DEF SignedIn
  <2> QED
    BY NobodyGiven, <2>3 DEF TypeOK, SignedIn, Live
<1>4. RecentUnlessAbandoned'
  BY NobodyGiven DEF SignedIn
<1>5. AnsweredIsSeen'
  BY <1>1, <1>2 DEF TypeOK, AnsweredIsSeen, SignedIn, Live, Outcomes, Operations, CacheEntry,
     SessionRead, Progress
<1>6. LostOnlyToOthers'
  BY <1>1, <1>2 DEF TypeOK, LostOnlyToOthers, SignedIn, Live, Outcomes, Operations,
     CacheEntry, SessionRead, Progress
<1>7. FlightYoung'
  BY <1>1, <1>2 DEF TypeOK, FlightYoung, SignedIn, Live, Outcomes, Operations, CacheEntry,
     SessionRead, Progress
<1>8. ChecksYoung'
  BY <1>1, <1>2 DEF TypeOK, ChecksYoung, SignedIn, Live, Outcomes, Operations, CacheEntry,
     SessionRead, Progress
<1>9. CacheYoung'
  BY <1>1, <1>2 DEF TypeOK, CacheYoung, SignedIn, Live, Outcomes, Operations, CacheEntry,
     SessionRead, Progress
<1>10. ReadsTrue'
  BY <1>1, <1>2 DEF TypeOK, ReadsTrue, SignedIn, Live, Outcomes, Operations, CacheEntry,
     SessionRead, Progress
<1>11. CallsChange'
  BY <1>1, <1>2 DEF TypeOK, CallsChange, SignedIn, Live, Outcomes, Operations, CacheEntry,
     SessionRead, Progress
<1>12. SettledSeen'
  BY <1>1, <1>2 DEF TypeOK, SettledSeen, SignedIn, Live, Outcomes, Operations, CacheEntry,
     SessionRead, Progress
<1> QED
  BY <1>3, <1>4, <1>5, <1>6, <1>7, <1>8, <1>9, <1>10, <1>11, <1>12

\* A sign-in that is over costs the cookie only of a session that is gone.
LEMMA SignInOverStep ==
  ASSUME WebSessionAssumption, SessionInv, NEW r \in Requests, SignInOver(r)
  PROVE  SessionInv'
<1> USE DEF SessionInv, SessionSound
<1>1. /\ CacheTicks \in Nat /\ CacheTicks > 0 /\ CallTicks \in Nat /\ CallTicks > 0
      /\ Recent \in Nat /\ Recent = CacheTicks + CallTicks /\ AgeCap = Recent + 1
      /\ None # "plain" /\ None # "elevated" /\ None # "gone" /\ None # "failed"
  BY Bounds
<1>2. TypeOK'
  <2>1. Idle \in Progress /\ Stage("signing", "login", None) \in Progress
    BY RowsWellFormed DEF Operations
  <2>2. req' \in [Requests -> Progress]
    BY <2>1 DEF TypeOK, SignInOver
  <2> QED
    BY NobodyGiven, <2>2 DEF TypeOK, SignInOver
<1>3. RecentUnlessAbandoned'
  BY NobodyGiven DEF SignInOver
<1>4. AnsweredIsSeen'
  BY <1>1 DEF TypeOK, AnsweredIsSeen, SignInOver, ClearsCookie, Idle, Stage, Live, Outcomes,
     Operations, CacheEntry, SessionRead, Progress
<1>5. LostOnlyToOthers'
  BY <1>1 DEF TypeOK, LostOnlyToOthers, ReadsTrue, SignInOver, ClearsCookie, Idle, Stage,
     Live, Outcomes, Operations, CacheEntry, SessionRead, Progress
<1>6. FlightYoung'
  BY <1>1 DEF TypeOK, FlightYoung, SignInOver, ClearsCookie, Idle, Stage, Live, Outcomes,
     Operations, CacheEntry, SessionRead, Progress
<1>7. ChecksYoung'
  BY <1>1 DEF TypeOK, ChecksYoung, SignInOver, ClearsCookie, Idle, Stage, Live, Outcomes,
     Operations, CacheEntry, SessionRead, Progress
<1>8. CacheYoung'
  BY <1>1 DEF TypeOK, CacheYoung, SignInOver, ClearsCookie, Idle, Stage, Live, Outcomes,
     Operations, CacheEntry, SessionRead, Progress
<1>9. ReadsTrue'
  BY <1>1 DEF TypeOK, ReadsTrue, SignInOver, ClearsCookie, Idle, Stage, Live, Outcomes,
     Operations, CacheEntry, SessionRead, Progress
<1>10. CallsChange'
  BY <1>1 DEF TypeOK, CallsChange, SignInOver, ClearsCookie, Idle, Stage, Live, Outcomes,
     Operations, CacheEntry, SessionRead, Progress
<1>11. SettledSeen'
  BY <1>1 DEF TypeOK, SettledSeen, SignInOver, ClearsCookie, Idle, Stage, Live, Outcomes,
     Operations, CacheEntry, SessionRead, Progress
<1> QED
  BY <1>2, <1>3, <1>4, <1>5, <1>6, <1>7, <1>8, <1>9, <1>10, <1>11

\* A cookie that an earlier session takes is recorded.
LEMMA BehindOverStep ==
  ASSUME WebSessionAssumption, SessionInv, NEW r \in Requests, BehindOver(r)
  PROVE  SessionInv'
<1> USE DEF SessionInv, SessionSound
<1>1. /\ CacheTicks \in Nat /\ CacheTicks > 0 /\ CallTicks \in Nat /\ CallTicks > 0
      /\ Recent \in Nat /\ Recent = CacheTicks + CallTicks /\ AgeCap = Recent + 1
      /\ None # "plain" /\ None # "elevated" /\ None # "gone" /\ None # "failed"
  BY Bounds
<1>2. TypeOK'
  <2>1. Idle \in Progress /\ Stage("signing", "login", None) \in Progress
    BY RowsWellFormed DEF Operations
  <2>2. req' \in [Requests -> Progress]
    BY <2>1 DEF TypeOK, BehindOver
  <2> QED
    BY NobodyGiven, <2>2 DEF TypeOK, BehindOver
<1>3. RecentUnlessAbandoned'
  BY NobodyGiven DEF BehindOver
<1>4. AnsweredIsSeen'
  BY <1>1 DEF TypeOK, AnsweredIsSeen, BehindOver, Idle, Stage, Live, Outcomes, Operations,
     CacheEntry, SessionRead, Progress
<1>5. LostOnlyToOthers'
  BY <1>1 DEF TypeOK, LostOnlyToOthers, BehindOver, Idle, Stage, Live, Outcomes, Operations,
     CacheEntry, SessionRead, Progress
<1>6. FlightYoung'
  BY <1>1 DEF TypeOK, FlightYoung, BehindOver, Idle, Stage, Live, Outcomes, Operations,
     CacheEntry, SessionRead, Progress
<1>7. ChecksYoung'
  BY <1>1 DEF TypeOK, ChecksYoung, BehindOver, Idle, Stage, Live, Outcomes, Operations,
     CacheEntry, SessionRead, Progress
<1>8. CacheYoung'
  BY <1>1 DEF TypeOK, CacheYoung, BehindOver, Idle, Stage, Live, Outcomes, Operations,
     CacheEntry, SessionRead, Progress
<1>9. ReadsTrue'
  BY <1>1 DEF TypeOK, ReadsTrue, BehindOver, Idle, Stage, Live, Outcomes, Operations,
     CacheEntry, SessionRead, Progress
<1>10. CallsChange'
  BY <1>1 DEF TypeOK, CallsChange, BehindOver, Idle, Stage, Live, Outcomes, Operations,
     CacheEntry, SessionRead, Progress
<1>11. SettledSeen'
  BY <1>1 DEF TypeOK, SettledSeen, BehindOver, Idle, Stage, Live, Outcomes, Operations,
     CacheEntry, SessionRead, Progress
<1> QED
  BY <1>2, <1>3, <1>4, <1>5, <1>6, <1>7, <1>8, <1>9, <1>10, <1>11

\* Time passes for reads under way and for what is cached alike.
LEMMA TickStep ==
  ASSUME WebSessionAssumption, SessionInv, Tick
  PROVE  SessionInv'
<1> USE DEF SessionInv, SessionSound
<1>1. /\ CacheTicks \in Nat /\ CacheTicks > 0 /\ CallTicks \in Nat /\ CallTicks > 0
      /\ Recent \in Nat /\ Recent = CacheTicks + CallTicks /\ AgeCap = Recent + 1
      /\ None # "plain" /\ None # "elevated" /\ None # "gone" /\ None # "failed"
  BY Bounds
<1>2. TypeOK'
  <2>1. given' \in [age : 0..AgeCap, orphan : BOOLEAN]
    BY NobodyGiven, <1>1 DEF Tick
  <2>2. \A n \in 0..AgeCap : Older(n) \in 0..AgeCap
    BY <1>1, <2>1 DEF Older
  <2>3. ASSUME cache # None, NEW l \in 1..CacheTicks, NEW n \in 0..AgeCap
        PROVE  [cache EXCEPT !.left = l, !.age = n] \in CacheEntry
      <3>1. cache \in CacheEntry
        BY <2>3 DEF TypeOK
      <3> QED
        BY <3>1 DEF CacheEntry
  <2>4. ASSUME cache # None, cache.left # 1
        PROVE  cache.left - 1 \in 1..CacheTicks /\ Older(cache.age) \in 0..AgeCap
    BY <1>1, <2>2, <2>4 DEF TypeOK, CacheEntry
  <2>5. cache' \in CacheEntry \cup {None}
    BY <1>1, <2>1, <2>2, <2>3, <2>4 DEF TypeOK, Tick
  <2>6. ASSUME flight # None, NEW e \in 0..CallTicks, NEW n \in 0..AgeCap
        PROVE  [flight EXCEPT !.age = n, !.elapsed = e] \in SessionRead
      <3>1. flight \in SessionRead
        BY <2>6 DEF TypeOK
      <3> QED
        BY <3>1 DEF SessionRead
  <2>7. ASSUME flight # None
        PROVE  /\ (IF flight.at = "done" THEN flight.elapsed ELSE flight.elapsed + 1) \in 0..CallTicks
               /\ Older(flight.age) \in 0..AgeCap
    BY <1>1, <2>2, <2>7 DEF TypeOK, Tick, SessionRead
  <2>8. flight' \in SessionRead \cup {None}
    BY <1>1, <2>1, <2>2, <2>3, <2>4, <2>5, <2>6, <2>7 DEF TypeOK, Tick
  <2> QED
    BY <2>1, <2>2, <2>3, <2>4, <2>5, <2>6, <2>7, <2>8 DEF TypeOK, Tick
<1>3. RecentUnlessAbandoned'
  BY NobodyGiven DEF Tick
<1>4. AnsweredIsSeen'
  BY <1>1 DEF TypeOK, AnsweredIsSeen, Tick, Older, Live, Outcomes, Operations, CacheEntry,
     SessionRead, Progress
<1>5. LostOnlyToOthers'
  BY <1>1 DEF TypeOK, LostOnlyToOthers, Tick, Older, Live, Outcomes, Operations, CacheEntry,
     SessionRead, Progress
<1>6. FlightYoung'
  BY <1>1 DEF TypeOK, FlightYoung, Tick, Older, Live, Outcomes, Operations, CacheEntry,
     SessionRead, Progress
<1>7. ChecksYoung'
  BY <1>1 DEF TypeOK, ChecksYoung, Tick, Older, Live, Outcomes, Operations, CacheEntry,
     SessionRead, Progress
<1>8. CacheYoung'
  BY <1>1 DEF TypeOK, CacheYoung, Tick, Older, Live, Outcomes, Operations, CacheEntry,
     SessionRead, Progress
<1>9. ReadsTrue'
  BY <1>1 DEF TypeOK, ReadsTrue, Tick, Older, Live, Outcomes, Operations, CacheEntry, SessionRead,
     Progress
<1>10. CallsChange'
  BY <1>1 DEF TypeOK, CallsChange, Tick, Older, Live, Outcomes, Operations, CacheEntry,
     SessionRead, Progress
<1>11. SettledSeen'
  BY <1>1 DEF TypeOK, SettledSeen, Tick, Older, Live, Outcomes, Operations, CacheEntry,
     SessionRead, Progress
<1> QED
  BY <1>2, <1>3, <1>4, <1>5, <1>6, <1>7, <1>8, <1>9, <1>10, <1>11

----------------------------------------------------------------------------
\* A read that is over, in any of its ways, keeps the invariant.
LEMMA ReadOverStep ==
  ASSUME WebSessionAssumption, SessionInv, FlightArrives \/ FlightFails
  PROVE  SessionInv'
<1>1. CASE FlightArrives
  <2>1. flight # None /\ flight.at = "served" /\ FlightOver(flight.value)
    BY <1>1 DEF FlightArrives
  <2>2. flight.value \in Outcomes \cup {None}
    BY <2>1 DEF SessionInv, SessionSound, TypeOK, SessionRead
  <2> QED
    BY <2>1, <2>2, FlightOverStep
<1>2. CASE FlightFails
  <2>1. flight # None /\ flight.at # "done" /\ FlightOver("failed")
    BY <1>2 DEF FlightFails
  <2>2. "failed" \in Outcomes /\ "failed" \notin Live
    BY DEF Outcomes, Live
  <2> QED
    BY <2>1, <2>2, FlightOverStep
<1> QED
  BY <1>1, <1>2

\* Every step keeps the invariant.
LEMMA SessionStep ==
  ASSUME WebSessionAssumption, SessionInv, [Next]_vars
  PROVE  SessionInv'
<1>1. CASE UNCHANGED vars
  BY <1>1
  DEF vars, SessionInv, SessionSound, TypeOK, RecentUnlessAbandoned, AnsweredIsSeen,
      LostOnlyToOthers, FlightYoung, ChecksYoung, CacheYoung, ReadsTrue, CallsChange,
      SettledSeen
<1>2. CASE Next
  BY <1>2, FromCacheStep, JoinStep, StartStep, CheckedStep, CheckFailedStep, CancelledStep,
     ServedStep, AnsweredStep, GivenUpStep, FlightServedStep, ReadOverStep, LateStep,
     EndedElsewhereStep, SigningStartedStep, SignedInStep, SignInOverStep, BehindOverStep,
     TickStep DEF Next
<1> QED
  BY <1>1, <1>2

\* Session checks show recent sessions, in any case the outcome of what was
\* answered in a quiet moment, and no request of a live session costs it the
\* cookie: only answers about another token do, which go by its name.  This
\* holds whichever tabs sign in again, whichever requests are cancelled and
\* however late the helper acts.
THEOREM SessionsAlwaysSound ==
  ASSUME WebSessionAssumption
  PROVE  Spec => []SessionSound
<1>1. Init => SessionInv
  BY SessionInit
<1>2. SessionInv /\ [Next]_vars => SessionInv'
  BY SessionStep
<1>3. SessionInv => SessionSound
  BY DEF SessionInv
<1> QED
  BY <1>1, <1>2, <1>3, PTL DEF Spec

----------------------------------------------------------------------------
(* Write tokens: sequences from which positions are left out. *)

\* new is old without some of its elements.
Shrunk(new, old) ==
    \E f \in [DOMAIN new -> DOMAIN old] :
        /\ \A i, j \in DOMAIN new : f[i] = f[j] => i = j
        /\ \A i \in DOMAIN new : new[i] = old[f[i]]

\* A one-to-one map bounds what it maps by what it maps to.
LEMMA MapBounds ==
    ASSUME NEW S, NEW T, NEW f \in [S -> T], IsFiniteSet(T),
           \A a, b \in S : f[a] = f[b] => a = b
    PROVE  /\ IsFiniteSet(S) /\ Cardinality(S) \in Nat /\ Cardinality(T) \in Nat
           /\ Cardinality(S) <= Cardinality(T)
<1>1. f \in Injection(S, T)
  BY DEF Injection, IsInjective
<1>2. IsFiniteSet(S) /\ Cardinality(S) <= Cardinality(T)
  BY <1>1, FS_Injection
<1> QED
  BY <1>2, FS_CardinalityType

\* The members of a finite set of numbers have ranks without gaps.
LEMMA Ranks ==
    ASSUME NEW n \in Nat, NEW T \in SUBSET (1 .. n)
    PROVE  /\ IsFiniteSet(T) /\ Cardinality(T) \in Nat
           /\ \A k \in T : Cardinality({j \in T : j <= k}) \in 1 .. Cardinality(T)
           /\ \A k, l \in T :
                Cardinality({j \in T : j <= k}) = Cardinality({j \in T : j <= l}) => k = l
           /\ \A i \in 1 .. Cardinality(T) : \E k \in T : Cardinality({j \in T : j <= k}) = i
<1> DEFINE upto(k) == {j \in T : j <= k}
           r == [k \in T |-> Cardinality(upto(k))]
<1>1. IsFiniteSet(T) /\ Cardinality(T) \in Nat
  <2>1. IsFiniteSet(1 .. n)
    BY FS_Interval
  <2> QED
    BY <2>1, FS_Subset, FS_CardinalityType
<1>2. \A k \in T : IsFiniteSet(upto(k)) /\ Cardinality(upto(k)) \in Nat
                   /\ Cardinality(upto(k)) <= Cardinality(T)
  <2> TAKE k \in T
  <2>1. upto(k) \in SUBSET T
    OBVIOUS
  <2> QED
    BY <1>1, <2>1, FS_Subset, FS_CardinalityType
<1>3. \A k \in T : Cardinality(upto(k)) > 0
  BY <1>2, FS_EmptySet
<1>4. \A k, l \in T : k < l => Cardinality(upto(k)) < Cardinality(upto(l))
  <2> SUFFICES ASSUME NEW k \in T, NEW l \in T, k < l
               PROVE  Cardinality(upto(k)) < Cardinality(upto(l))
    OBVIOUS
  <2>0. T \subseteq Int
    OBVIOUS
  <2>1. upto(k) \in SUBSET upto(l) /\ l \in upto(l) /\ l \notin upto(k)
    <3>1. \A j \in T : j <= k => j <= l
      BY <2>0
    <3>2. l <= l /\ ~(l <= k)
      BY <2>0
    <3> QED
      BY <3>1, <3>2
  <2>2. /\ Cardinality(upto(k)) <= Cardinality(upto(l))
        /\ Cardinality(upto(l)) = Cardinality(upto(k)) => upto(l) = upto(k)
    BY <1>2, <2>1, FS_Subset
  <2> QED
    BY <1>2, <2>1, <2>2
<1>5. \A k, l \in T : Cardinality(upto(k)) = Cardinality(upto(l)) => k = l
  BY <1>2, <1>4
<1>6. \A k \in T : Cardinality(upto(k)) \in 1 .. Cardinality(T)
  BY <1>1, <1>2, <1>3
<1>7. r \in [T -> 1 .. Cardinality(T)]
  BY <1>6
<1>8. IsFiniteSet(1 .. Cardinality(T)) /\ Cardinality(1 .. Cardinality(T)) = Cardinality(T)
  BY <1>1, FS_Interval
<1>9. \A i \in 1 .. Cardinality(T) : \E k \in T : r[k] = i
  <2>1. \A k, l \in T : r[k] = r[l] => k = l
    BY <1>5
  <2> DEFINE R == 1 .. Cardinality(T)
  <2>2. IsFiniteSet(R) /\ Cardinality(T) = Cardinality(R) /\ r \in [T -> R]
    BY <1>7, <1>8
  <2> HIDE DEF r, R
  <2>3. \A i \in R : \E k \in T : r[k] = i
    <3>1. r \in Injection(T, R)
      BY <2>1, <2>2 DEF Injection, IsInjective
    <3>2. r \in Surjection(T, R)
      BY <2>2, <3>1, FS_Injection
    <3> QED
      BY <3>2 DEF Surjection
  <2> QED
    BY <2>3 DEF R
<1> QED
  BY <1>1, <1>5, <1>6, <1>9

\* The positions to keep, in their order.
Chosen(keep) ==
    [i \in 1 .. Cardinality(keep) |->
        CHOOSE k \in keep : Cardinality({j \in keep : j <= k}) = i]

\* The positions to keep are chosen once each, all of them.
LEMMA ChosenIs ==
    ASSUME NEW n \in Nat, NEW keep \in SUBSET (1 .. n)
    PROVE  /\ Cardinality(keep) \in Nat
           /\ Chosen(keep) \in [1 .. Cardinality(keep) -> keep]
           /\ \A i, j \in 1 .. Cardinality(keep) : Chosen(keep)[i] = Chosen(keep)[j] => i = j
           /\ \A k \in keep : \E i \in 1 .. Cardinality(keep) : Chosen(keep)[i] = k
<1> DEFINE m == Cardinality(keep)
           rank(k) == Cardinality({j \in keep : j <= k})
           f == Chosen(keep)
<1>1. /\ m \in Nat
      /\ \A k \in keep : rank(k) \in 1 .. m
      /\ \A k, l \in keep : rank(k) = rank(l) => k = l
      /\ \A i \in 1 .. m : \E k \in keep : rank(k) = i
  BY Ranks
<1>2. f = [i \in 1 .. m |-> CHOOSE k \in keep : rank(k) = i]
  BY DEF Chosen
<1> HIDE DEF rank, m, f
<1>3. \A i \in 1 .. m : f[i] \in keep /\ rank(f[i]) = i
  BY <1>1, <1>2
<1>4. \A k \in keep : rank(k) \in 1 .. m /\ f[rank(k)] = k
  BY <1>1, <1>3
<1>5. f \in [1 .. m -> keep]
  BY <1>2, <1>3
<1>6. \A i, j \in 1 .. m : f[i] = f[j] => i = j
  BY <1>3
<1>7. \A k \in keep : \E i \in 1 .. m : f[i] = k
  BY <1>4
<1> QED
  BY <1>1, <1>5, <1>6, <1>7 DEF m, f

\* What is kept of a sequence are its elements at the positions to keep.
LEMMA KeptChosen ==
    ASSUME NEW c \in Settings, NEW S, NEW es \in Seq(S), NEW keep \in SUBSET DOMAIN es
    PROVE  LET ks == Tokens(c)!Kept(es, keep)
           IN  /\ ks \in Seq(S) /\ Len(ks) = Cardinality(keep)
               /\ DOMAIN ks = 1 .. Cardinality(keep)
               /\ \A i \in DOMAIN ks : ks[i] = es[Chosen(keep)[i]]
<1> DEFINE n == Cardinality(keep)
           f == Chosen(keep)
           ks == Tokens(c)!Kept(es, keep)
<1>1. keep \in SUBSET (1 .. Len(es)) /\ Len(es) \in Nat /\ \A k \in keep : es[k] \in S
  OBVIOUS
<1>2. n \in Nat /\ f \in [1 .. n -> keep]
  BY <1>1, ChosenIs
<1>3. ks = [i \in 1 .. n |-> es[f[i]]]
  BY DEF Tokens!Kept, Chosen, Tokens!Cardinality, Cardinality
<1> HIDE DEF n, f, ks
<1>4. ks \in Seq(S) /\ Len(ks) = n /\ DOMAIN ks = 1 .. n
  BY <1>1, <1>2, <1>3
<1>5. \A i \in DOMAIN ks : ks[i] = es[f[i]]
  BY <1>3, <1>4
<1> QED
  BY <1>4, <1>5 DEF n, f, ks

\* What Kept leaves of a sequence: as many elements, each from its position.
LEMMA KeptIs ==
    ASSUME NEW c \in Settings, NEW S, NEW es \in Seq(S), NEW keep \in SUBSET DOMAIN es
    PROVE  LET ks == Tokens(c)!Kept(es, keep)
           IN  /\ ks \in Seq(S) /\ Len(ks) = Cardinality(keep)
               /\ \E f \in [DOMAIN ks -> keep] :
                    /\ \A i, j \in DOMAIN ks : f[i] = f[j] => i = j
                    /\ \A i \in DOMAIN ks : ks[i] = es[f[i]]
<1> DEFINE n == Cardinality(keep)
           f == Chosen(keep)
           ks == Tokens(c)!Kept(es, keep)
<1>1. keep \in SUBSET (1 .. Len(es)) /\ Len(es) \in Nat
  OBVIOUS
<1>2. f \in [1 .. n -> keep] /\ \A i, j \in 1 .. n : f[i] = f[j] => i = j
  BY <1>1, ChosenIs
<1>3. /\ ks \in Seq(S) /\ Len(ks) = n /\ DOMAIN ks = 1 .. n
      /\ \A i \in DOMAIN ks : ks[i] = es[f[i]]
  BY KeptChosen
<1> HIDE DEF f, ks, n
<1>4. \E g \in [DOMAIN ks -> keep] :
        /\ \A i, j \in DOMAIN ks : g[i] = g[j] => i = j
        /\ \A i \in DOMAIN ks : ks[i] = es[g[i]]
  <2>1. f \in [DOMAIN ks -> keep] /\ \A i, j \in DOMAIN ks : f[i] = f[j] => i = j
    BY <1>2, <1>3
  <2> QED
    BY <1>3, <2>1
<1> QED
  BY <1>3, <1>4 DEF ks, n

\* Kept leaves the rows at the positions to keep, and no others.
LEMMA KeptRows ==
    ASSUME NEW c \in Settings, NEW S, NEW es \in Seq(S), NEW keep \in SUBSET DOMAIN es
    PROVE  Tokens(c)!Rows(Tokens(c)!Kept(es, keep)) = {es[k] : k \in keep}
<1> DEFINE n == Cardinality(keep)
           f == Chosen(keep)
           ks == Tokens(c)!Kept(es, keep)
<1>1. keep \in SUBSET (1 .. Len(es)) /\ Len(es) \in Nat
  OBVIOUS
<1>2. f \in [1 .. n -> keep] /\ \A k \in keep : \E i \in 1 .. n : f[i] = k
  BY <1>1, ChosenIs
<1>3. DOMAIN ks = 1 .. n /\ \A i \in DOMAIN ks : ks[i] = es[f[i]]
  BY KeptChosen
<1> HIDE DEF f, ks, n
<1>4. {ks[i] : i \in DOMAIN ks} = {es[k] : k \in keep}
  BY <1>2, <1>3
<1> QED
  BY <1>4 DEF ks, Tokens!Rows

\* A sequence of which only some positions are kept is a shrunk one.
LEMMA KeptShrunk ==
    ASSUME NEW c \in Settings, NEW S, NEW es \in Seq(S), NEW keep \in SUBSET DOMAIN es
    PROVE  Tokens(c)!Kept(es, keep) \in Seq(S) /\ Shrunk(Tokens(c)!Kept(es, keep), es)
<1> DEFINE ks == Tokens(c)!Kept(es, keep)
<1>1. ks \in Seq(S)
  BY KeptIs
<1>2. PICK f \in [DOMAIN ks -> keep] :
        /\ \A i, j \in DOMAIN ks : f[i] = f[j] => i = j
        /\ \A i \in DOMAIN ks : ks[i] = es[f[i]]
  BY KeptIs
<1>3. f \in [DOMAIN ks -> DOMAIN es]
  BY <1>2
<1> QED
  BY <1>1, <1>2, <1>3 DEF Shrunk

\* The newest part of a sequence is a shrunk one, and so is what is left after
\* it was shrunk twice.
LEMMA ShrunkTwice ==
    ASSUME NEW x, NEW y, NEW z, Shrunk(x, y), Shrunk(y, z)
    PROVE  Shrunk(x, z)
<1>1. PICK f \in [DOMAIN x -> DOMAIN y] :
        /\ \A i, j \in DOMAIN x : f[i] = f[j] => i = j
        /\ \A i \in DOMAIN x : x[i] = y[f[i]]
  BY DEF Shrunk
<1>2. PICK g \in [DOMAIN y -> DOMAIN z] :
        /\ \A i, j \in DOMAIN y : g[i] = g[j] => i = j
        /\ \A i \in DOMAIN y : y[i] = z[g[i]]
  BY DEF Shrunk
<1> DEFINE h == [i \in DOMAIN x |-> g[f[i]]]
<1>3. /\ h \in [DOMAIN x -> DOMAIN z]
      /\ \A i, j \in DOMAIN x : h[i] = h[j] => i = j
      /\ \A i \in DOMAIN x : x[i] = z[h[i]]
  BY <1>1, <1>2
<1> HIDE DEF h
<1> QED
  BY <1>3 DEF Shrunk

\* The end of a sequence is a part of it.
LEMMA NewestShrunk ==
    ASSUME NEW S, NEW es \in Seq(S), NEW m \in 1 .. Len(es) + 1
    PROVE  LET ks == SubSeq(es, m, Len(es))
           IN  ks \in Seq(S) /\ Len(ks) = Len(es) - m + 1 /\ Shrunk(ks, es)
<1> DEFINE ks == SubSeq(es, m, Len(es))
           f == [i \in DOMAIN ks |-> i + m - 1]
<1>1. /\ ks \in Seq(S) /\ Len(ks) = Len(es) - m + 1
      /\ \A i \in 1 .. Len(ks) : ks[i] = es[i + m - 1]
  OBVIOUS
<1> HIDE DEF ks
<1>2. /\ DOMAIN ks = 1 .. Len(ks) /\ DOMAIN es = 1 .. Len(es)
      /\ Len(ks) \in Nat /\ Len(es) \in Nat
  BY <1>1
<1>3. \A i \in DOMAIN ks : i + m - 1 \in DOMAIN es
  BY <1>1, <1>2
<1>4. f \in [DOMAIN ks -> DOMAIN es]
  BY <1>3
<1>5. \A i, j \in DOMAIN ks : f[i] = f[j] => i = j
  BY <1>1, <1>2
<1>6. \A i \in DOMAIN ks : ks[i] = es[f[i]]
  BY <1>1, <1>2
<1> HIDE DEF f
<1>7. Shrunk(ks, es)
  BY <1>4, <1>5, <1>6 DEF Shrunk
<1> QED
  BY <1>1, <1>7 DEF ks

\* What is left of a sequence was there before.
LEMMA ShrunkRows ==
    ASSUME NEW c \in Settings, NEW new, NEW old, Shrunk(new, old)
    PROVE  Tokens(c)!Rows(new) \subseteq Tokens(c)!Rows(old)
BY DEF Shrunk, Tokens!Rows

----------------------------------------------------------------------------
(* The limits of the token registry. *)

\* What a scope belongs to: a session, or the address of a client.
Identities(c) == c.sessions \cup c.strangers \cup {"client", None}
Row(c) == [key : Identities(c) \X Nat, nonce : Nat \ {0}, exp : Nat]

\* The scopes of an identity.
Flows(es, x) == {i \in DOMAIN es : es[i].key[1] = x}

Bounded(c, es) ==
    /\ Len(es) <= c.capacity
    /\ \A x : Cardinality(Flows(es, x)) <= c.flows
    /\ \A i, j \in DOMAIN es : es[i].key = es[j].key => i = j

\* The limits of a setting.
LEMMA SettingBounds ==
    ASSUME NEW c \in Settings
    PROVE  /\ c.capacity \in Nat /\ c.capacity > 0 /\ c.flows \in Nat /\ c.flows > 0
           /\ c.ttl \in Nat /\ c.ttl > 0 /\ c.maxTime \in Nat
BY WebBounds DEF Tokens!CsrfBounds

\* A registry and the flows of an identity in it can be counted.
LEMMA FlowsFinite ==
    ASSUME NEW c \in Settings, NEW es \in Seq(Row(c)), NEW x
    PROVE  /\ IsFiniteSet(DOMAIN es) /\ Cardinality(DOMAIN es) = Len(es)
           /\ IsFiniteSet(Flows(es, x)) /\ Cardinality(Flows(es, x)) \in Nat
<1>1. DOMAIN es = 1 .. Len(es) /\ Len(es) \in Nat
  OBVIOUS
<1>2. IsFiniteSet(DOMAIN es) /\ Cardinality(DOMAIN es) = Len(es)
  <2>1. PICK n : n = Len(es)
    OBVIOUS
  <2>2. n \in Nat /\ DOMAIN es = 1 .. n
    BY <1>1, <2>1
  <2>3. IsFiniteSet(1 .. n) /\ Cardinality(1 .. n) = n
    BY <2>2, FS_Interval
  <2> QED
    BY <2>1, <2>2, <2>3
<1>3. Flows(es, x) \in SUBSET DOMAIN es
  BY DEF Flows
<1> QED
  BY <1>2, <1>3, FS_Subset, FS_CardinalityType

\* StoreBounded, for the identities that have no scope as well.
LEMMA StoreIsBounded ==
    ASSUME NEW c \in Settings, entries \in Seq(Row(c))
    PROVE  Tokens(c)!StoreBounded <=> Bounded(c, entries)
<1>1. \A x : Flows(entries, x) = {} => Cardinality(Flows(entries, x)) <= c.flows
  BY FS_EmptySet, SettingBounds
<1>2. \A x : Flows(entries, x) # {} => \E i \in DOMAIN entries : entries[i].key[1] = x
  BY DEF Flows
<1>3. Tokens(c)!StoreBounded <=>
        /\ Len(entries) <= c.capacity
        /\ \A i \in DOMAIN entries : Cardinality(Flows(entries, entries[i].key[1])) <= c.flows
        /\ \A i, j \in DOMAIN entries : entries[i].key = entries[j].key => i = j
  BY DEF Tokens!StoreBounded, Flows, Tokens!Cardinality, Cardinality
<1> QED
  BY <1>1, <1>2, <1>3 DEF Bounded

\* A registry from which entries are dropped keeps its limits.
LEMMA ShrunkBounded ==
    ASSUME NEW c \in Settings, NEW es \in Seq(Row(c)), NEW ks \in Seq(Row(c)),
           Shrunk(ks, es), Bounded(c, es)
    PROVE  Bounded(c, ks)
<1>1. PICK f \in [DOMAIN ks -> DOMAIN es] :
        /\ \A i, j \in DOMAIN ks : f[i] = f[j] => i = j
        /\ \A i \in DOMAIN ks : ks[i] = es[f[i]]
  BY DEF Shrunk
<1>2. Len(ks) <= Len(es)
  <2>1. /\ IsFiniteSet(DOMAIN es) /\ Cardinality(DOMAIN es) = Len(es)
        /\ Cardinality(DOMAIN ks) = Len(ks)
    BY FlowsFinite
  <2>2. Cardinality(DOMAIN ks) <= Cardinality(DOMAIN es)
    BY <1>1, <2>1, MapBounds
  <2> QED
    BY <2>1, <2>2
<1>3. ASSUME NEW x PROVE Cardinality(Flows(ks, x)) <= Cardinality(Flows(es, x))
  <2> DEFINE g == [i \in Flows(ks, x) |-> f[i]]
  <2>1. g \in [Flows(ks, x) -> Flows(es, x)] /\ \A i, j \in Flows(ks, x) : g[i] = g[j] => i = j
    BY <1>1 DEF Flows
  <2>2. IsFiniteSet(Flows(es, x))
    BY FlowsFinite
  <2> HIDE DEF g
  <2> QED
    BY <2>1, <2>2, MapBounds
<1>4. ASSUME NEW x PROVE Cardinality(Flows(ks, x)) <= c.flows
  <2>1. Cardinality(Flows(ks, x)) \in Nat /\ Cardinality(Flows(es, x)) \in Nat
    BY FlowsFinite
  <2>2. Cardinality(Flows(es, x)) <= c.flows
    BY DEF Bounded
  <2> QED
    BY <1>3, <2>1, <2>2, SettingBounds
<1>5. \A i, j \in DOMAIN ks : ks[i].key = ks[j].key => i = j
  BY <1>1 DEF Bounded
<1>6. Len(ks) <= c.capacity
  BY <1>2, SettingBounds DEF Bounded
<1> QED
  BY <1>4, <1>5, <1>6 DEF Bounded

\* An entry for a scope that has none may be added while there is room.
LEMMA AppendBounded ==
    ASSUME NEW c \in Settings, NEW es \in Seq(Row(c)), NEW e \in Row(c), Bounded(c, es),
           Len(es) < c.capacity, Cardinality(Flows(es, e.key[1])) < c.flows,
           \A i \in DOMAIN es : es[i].key # e.key
    PROVE  Append(es, e) \in Seq(Row(c)) /\ Bounded(c, Append(es, e))
<1> DEFINE as == Append(es, e)
           n == Len(es)
<1>1. /\ as \in Seq(Row(c)) /\ Len(as) = n + 1 /\ n \in Nat
      /\ DOMAIN as = DOMAIN es \cup {n + 1} /\ n + 1 \notin DOMAIN es
      /\ as[n + 1] = e /\ \A i \in DOMAIN es : as[i] = es[i]
  OBVIOUS
<1> HIDE DEF as, n
<1>2. ASSUME NEW x PROVE Cardinality(Flows(as, x)) <= c.flows
  <2>1. IsFiniteSet(Flows(es, x)) /\ Cardinality(Flows(es, x)) \in Nat
        /\ Cardinality(Flows(es, x)) <= c.flows
    BY FlowsFinite DEF Bounded
  <2>2. CASE x = e.key[1]
    <3>1. Flows(as, x) = Flows(es, x) \cup {n + 1}
      BY <1>1, <2>2 DEF Flows
    <3>2. Cardinality(Flows(as, x)) = Cardinality(Flows(es, x)) + 1
      <4>1. n + 1 \notin Flows(es, x)
        BY <1>1 DEF Flows
      <4> QED
        BY <2>1, <3>1, <4>1, FS_AddElement
    <3>3. Cardinality(Flows(es, x)) < c.flows /\ c.flows \in Nat
      BY <2>2, SettingBounds
    <3> QED
      BY <2>1, <3>2, <3>3
  <2>3. CASE x # e.key[1]
    <3>1. Flows(as, x) = Flows(es, x)
      BY <1>1, <2>3 DEF Flows
    <3> QED
      BY <2>1, <3>1
  <2> QED
    BY <2>2, <2>3
<1>3. Len(as) <= c.capacity
  BY <1>1, SettingBounds DEF n
<1>4. \A i, j \in DOMAIN as : as[i].key = as[j].key => i = j
  BY <1>1 DEF Bounded
<1>5. Bounded(c, as)
  BY <1>2, <1>3, <1>4 DEF Bounded
<1> QED
  BY <1>1, <1>5 DEF as

\* An entry that takes the place of the one its scope has.
LEMMA RotatedBounded ==
    ASSUME NEW c \in Settings, NEW es \in Seq(Row(c)), NEW e \in Row(c), Bounded(c, es),
           \E i \in DOMAIN es : es[i].key = e.key
    PROVE  LET ks == Append(Tokens(c)!Without(es, e.key), e)
           IN  ks \in Seq(Row(c)) /\ Bounded(c, ks)
<1> DEFINE keep == {i \in DOMAIN es : es[i].key # e.key}
           rest == Tokens(c)!Kept(es, keep)
<1>1. PICK m \in DOMAIN es : es[m].key = e.key
  OBVIOUS
<1>2. Tokens(c)!Without(es, e.key) = rest /\ keep \in SUBSET DOMAIN es
  BY DEF Tokens!Without
<1>3. \A k \in keep : es[k].key # e.key /\ k # m
  BY <1>1
<1> HIDE DEF keep
<1>4. rest \in Seq(Row(c)) /\ Len(rest) = Cardinality(keep) /\ Shrunk(rest, es)
  BY <1>2, KeptChosen, KeptShrunk
<1>5. PICK f \in [DOMAIN rest -> keep] :
        /\ \A i, j \in DOMAIN rest : f[i] = f[j] => i = j
        /\ \A i \in DOMAIN rest : rest[i] = es[f[i]]
  BY <1>2, KeptIs
<1> HIDE DEF rest
<1>6. Bounded(c, rest)
  BY <1>4, ShrunkBounded
<1>7. \A i \in DOMAIN rest : rest[i].key # e.key
  BY <1>3, <1>5
<1>8. IsFiniteSet(DOMAIN es) /\ Cardinality(DOMAIN es) = Len(es) /\ Len(es) \in Nat
  BY FlowsFinite
<1>9. Len(rest) < c.capacity
  <2>1. keep \in SUBSET (DOMAIN es \ {m})
    BY <1>2, <1>3
  <2>2. IsFiniteSet(DOMAIN es \ {m}) /\ Cardinality(DOMAIN es \ {m}) = Len(es) - 1
    BY <1>1, <1>8, FS_RemoveElement
  <2>3. Cardinality(keep) <= Len(es) - 1
    BY <2>1, <2>2, FS_Subset
  <2>4. Len(rest) \in Nat
    BY <1>4
  <2> QED
    BY <1>4, <1>8, <2>3, <2>4, SettingBounds DEF Bounded
<1>10. Cardinality(Flows(rest, e.key[1])) < c.flows
  <2> DEFINE x == e.key[1]
             R == Flows(es, x) \ {m}
             g == [i \in Flows(rest, x) |-> f[i]]
  <2>1. /\ g \in [Flows(rest, x) -> R]
        /\ \A i, j \in Flows(rest, x) : g[i] = g[j] => i = j
    BY <1>2, <1>3, <1>5 DEF Flows
  <2>2. m \in Flows(es, x)
    BY <1>1 DEF Flows
  <2>3. /\ IsFiniteSet(Flows(es, x)) /\ Cardinality(Flows(es, x)) \in Nat
        /\ Cardinality(Flows(es, x)) <= c.flows
    BY FlowsFinite DEF Bounded
  <2>4. IsFiniteSet(R) /\ Cardinality(R) = Cardinality(Flows(es, x)) - 1
    BY <2>2, <2>3, FS_RemoveElement
  <2> HIDE DEF g, R
  <2>5. Cardinality(Flows(rest, x)) <= Cardinality(R) /\ Cardinality(Flows(rest, x)) \in Nat
    BY <2>1, <2>4, MapBounds
  <2> QED
    BY <2>3, <2>4, <2>5, SettingBounds
<1>11. Append(rest, e) \in Seq(Row(c)) /\ Bounded(c, Append(rest, e))
  BY <1>4, <1>6, <1>7, <1>9, <1>10, AppendBounded
<1> QED
  BY <1>2, <1>11

\* The other scopes of a scope's identity.
Others(es, key) == {i \in DOMAIN es : es[i].key[1] = key[1] /\ es[i].key # key}

\* Dropping rows leaves no more other flows than there were.
LEMMA ShrunkOthers ==
    ASSUME NEW c \in Settings, NEW es \in Seq(Row(c)), NEW ks, Shrunk(ks, es), NEW key
    PROVE  /\ IsFiniteSet(Others(es, key)) /\ Cardinality(Others(es, key)) \in Nat
           /\ IsFiniteSet(Others(ks, key)) /\ Cardinality(Others(ks, key)) \in Nat
           /\ Cardinality(Others(ks, key)) <= Cardinality(Others(es, key))
<1>1. PICK f \in [DOMAIN ks -> DOMAIN es] :
        /\ \A i, j \in DOMAIN ks : f[i] = f[j] => i = j
        /\ \A i \in DOMAIN ks : ks[i] = es[f[i]]
  BY DEF Shrunk
<1> DEFINE g == [i \in Others(ks, key) |-> f[i]]
<1>2. /\ g \in [Others(ks, key) -> Others(es, key)]
      /\ \A i, j \in Others(ks, key) : g[i] = g[j] => i = j
  BY <1>1 DEF Others
<1>3. IsFiniteSet(DOMAIN es) /\ Others(es, key) \in SUBSET DOMAIN es
  BY FlowsFinite DEF Others
<1>4. IsFiniteSet(Others(es, key))
  BY <1>3, FS_Subset
<1> HIDE DEF g
<1> QED
  BY <1>2, <1>4, MapBounds

\* Of the other scopes of an identity, the newest remain, as many as fit.
LEMMA NewestOthers ==
    ASSUME NEW c \in Settings, NEW n \in Nat, NEW T \in SUBSET (1 .. n)
    PROVE  LET surplus == Cardinality(T) + 1 - c.flows
               rest == {k \in T : ~(Cardinality({j \in T : j <= k}) <= surplus)}
           IN  IsFiniteSet(rest) /\ Cardinality(rest) \in Nat /\ Cardinality(rest) < c.flows
<1> DEFINE rank(k) == Cardinality({j \in T : j <= k})
           surplus == Cardinality(T) + 1 - c.flows
           rest == {k \in T : ~(rank(k) <= surplus)}
           r == [k \in rest |-> rank(k)]
<1>1. /\ IsFiniteSet(T) /\ Cardinality(T) \in Nat
      /\ \A k \in T : rank(k) \in 1 .. Cardinality(T)
      /\ \A k, l \in T : rank(k) = rank(l) => k = l
  BY Ranks
<1> DEFINE all == Cardinality(T)
           cap == c.flows
<1>2. /\ all \in Nat /\ cap \in Nat /\ cap > 0
      /\ surplus = all + 1 - cap /\ surplus \in Int
      /\ \A k \in T : rank(k) \in 1 .. all
  BY <1>1, SettingBounds
<1> HIDE DEF rank, all, cap, surplus
<1>3. rest \in SUBSET T
  OBVIOUS
<1>4. /\ IsFiniteSet(rest) /\ Cardinality(rest) \in Nat
      /\ Cardinality(rest) <= all
  BY <1>1, <1>3, FS_Subset, FS_CardinalityType DEF all
<1>5. CASE surplus < 0
  <2>1. all < cap
    BY <1>2, <1>5
  <2> HIDE DEF rest
  <2>2. Cardinality(rest) < cap
    BY <1>2, <1>4, <2>1
  <2> QED
    BY <1>4, <2>2 DEF rank, rest, cap, surplus
<1>6. CASE surplus >= 0
  <2> DEFINE R == (surplus + 1) .. all
  <2>1. r \in [rest -> R] /\ \A k, l \in rest : r[k] = r[l] => k = l
    <3>1. \A k \in rest : k \in T /\ rank(k) \in Nat /\ rank(k) <= all /\ ~(rank(k) <= surplus)
      BY <1>2
    <3>2. \A k \in rest : rank(k) \in R
      BY <1>2, <3>1
    <3>3. \A k, l \in rest : rank(k) = rank(l) => k = l
      BY <1>1, <3>1 DEF rank
    <3> HIDE DEF rest
    <3> QED
      BY <3>2, <3>3
  <2>2. IsFiniteSet(R) /\ Cardinality(R) = cap - 1
    <3>1. surplus + 1 \in Int /\ all \in Int
      BY <1>2
    <3>2. IsFiniteSet(R)
          /\ Cardinality(R) = IF surplus + 1 > all THEN 0 ELSE all - (surplus + 1) + 1
      BY <3>1, FS_Interval
    <3> HIDE DEF R
    <3> QED
      BY <1>2, <3>2
  <2> HIDE DEF r, rest, R
  <2>3. Cardinality(rest) <= Cardinality(R)
    BY <2>1, <2>2, MapBounds
  <2>4. Cardinality(rest) < cap
    BY <1>2, <1>4, <2>2, <2>3
  <2> QED
    BY <1>4, <2>4 DEF rank, rest, cap, surplus
<1>7. surplus < 0 \/ surplus >= 0
  BY <1>2
<1> QED
  BY <1>5, <1>6, <1>7

\* _bound_capacity makes room for a scope, in its identity and in the registry.
LEMMA BoundCapacityIs ==
    ASSUME NEW c \in Settings, NEW es \in Seq(Row(c)), NEW key
    PROVE  LET ks == Tokens(c)!BoundCapacity(es, key)
           IN  /\ ks \in Seq(Row(c)) /\ Shrunk(ks, es)
               /\ Cardinality(Others(ks, key)) < c.flows
               /\ (\E i \in DOMAIN ks : ks[i].key = key) \/ Len(ks) < c.capacity
<1> DEFINE others == Others(es, key)
           rank(k) == Cardinality({j \in others : j <= k})
           surplus == Cardinality(others) + 1 - c.flows
           keep == {i \in DOMAIN es : ~(i \in others /\ rank(i) <= surplus)}
           rest == {i \in others : ~(rank(i) <= surplus)}
           left == Tokens(c)!Kept(es, keep)
           room == IF \E i \in DOMAIN left : left[i].key = key THEN Len(left) ELSE c.capacity - 1
           ks == IF Len(left) <= room THEN left
                 ELSE SubSeq(left, Len(left) - room + 1, Len(left))
<1>1. Tokens(c)!BoundCapacity(es, key) = ks
  BY DEF Tokens!BoundCapacity, Others, Tokens!Cardinality, Cardinality
<1>2. Len(es) \in Nat /\ others \in SUBSET (1 .. Len(es))
  BY DEF Others
<1>3. IsFiniteSet(rest) /\ Cardinality(rest) \in Nat /\ Cardinality(rest) < c.flows
  BY <1>2, NewestOthers
<1>4. keep \in SUBSET DOMAIN es
  OBVIOUS
<1> HIDE DEF keep
<1>5. left \in Seq(Row(c)) /\ Shrunk(left, es)
  BY <1>4, KeptShrunk
<1>6. PICK f \in [DOMAIN left -> keep] :
        /\ \A i, j \in DOMAIN left : f[i] = f[j] => i = j
        /\ \A i \in DOMAIN left : left[i] = es[f[i]]
  BY <1>4, KeptIs
<1> HIDE DEF left
<1>7. Cardinality(Others(left, key)) <= Cardinality(rest)
  <2> DEFINE g == [i \in Others(left, key) |-> f[i]]
  <2>0. \A k \in keep : k \in others => k \in rest
    BY DEF keep
  <2> HIDE DEF rest
  <2>1. \A i \in Others(left, key) : f[i] \in rest
    BY <1>4, <1>6, <2>0 DEF Others
  <2>2. g \in [Others(left, key) -> rest] /\ \A i, j \in Others(left, key) : g[i] = g[j] => i = j
    BY <1>6, <2>1 DEF Others
  <2> HIDE DEF g, rest
  <2> QED
    BY <1>3, <2>2, MapBounds
<1>8. /\ Cardinality(Others(left, key)) \in Nat /\ c.flows \in Nat
      /\ c.capacity \in Nat /\ c.capacity > 0
  BY <1>5, ShrunkOthers, SettingBounds
<1>9. CASE Len(left) <= room
  <2>1. ks = left
    BY <1>9
  <2>2. (\E i \in DOMAIN ks : ks[i].key = key) \/ Len(ks) < c.capacity
    <3>1. Len(left) \in Nat
      BY <1>5
    <3> QED
      BY <1>8, <1>9, <2>1, <3>1
  <2> HIDE DEF ks
  <2> QED
    BY <1>1, <1>3, <1>5, <1>7, <1>8, <2>1, <2>2
<1>10. CASE ~(Len(left) <= room)
  <2>1. Len(left) \in Nat
    BY <1>5
  <2>2. room = c.capacity - 1 /\ room < Len(left)
    BY <1>8, <1>10, <2>1
  <2> DEFINE m == Len(left) - room + 1
  <2>0. ks = SubSeq(left, m, Len(left))
    BY <1>10
  <2> HIDE DEF room, ks
  <2>3. m \in 1 .. Len(left) + 1
    BY <1>8, <2>1, <2>2
  <2>4. Len(left) - m + 1 = c.capacity - 1
    BY <1>8, <2>1, <2>2
  <2> HIDE DEF m
  <2>5. ks \in Seq(Row(c)) /\ Len(ks) = Len(left) - m + 1 /\ Shrunk(ks, left)
    BY <1>5, <2>0, <2>3, NewestShrunk
  <2>6. Shrunk(ks, es) /\ Cardinality(Others(ks, key)) <= Cardinality(Others(left, key))
        /\ Cardinality(Others(ks, key)) \in Nat
    BY <1>5, <2>5, ShrunkTwice, ShrunkOthers
  <2>7. Len(ks) < c.capacity /\ Cardinality(Others(ks, key)) < c.flows
    BY <1>3, <1>7, <1>8, <2>4, <2>5, <2>6
  <2> QED
    BY <1>1, <2>5, <2>6, <2>7
<1> QED
  BY <1>9, <1>10

\* What a write to the registry leaves: its limits hold, its last entry is the
\* new one, and the others were there before.
Written(c, ks, es, e) ==
    /\ ks \in Seq(Row(c)) /\ Bounded(c, ks)
    /\ \E rest \in Seq(Row(c)) : ks = Append(rest, e) /\ Shrunk(rest, es)

\* What is left of a registry when its expired entries go.
LEMMA UnexpiredIs ==
    ASSUME NEW c \in Settings, NEW es \in Seq(Row(c)), NEW time
    PROVE  LET ks == Tokens(c)!Kept(es, {i \in DOMAIN es : es[i].exp > time})
           IN  /\ ks \in Seq(Row(c)) /\ Shrunk(ks, es)
               /\ Bounded(c, es) => Bounded(c, ks)
               /\ \A e \in Tokens(c)!Rows(es) : e \in Tokens(c)!Rows(ks) <=> e.exp > time
<1> DEFINE keep == {i \in DOMAIN es : es[i].exp > time}
           ks == Tokens(c)!Kept(es, keep)
<1>1. keep \in SUBSET DOMAIN es
  OBVIOUS
<1>2. \A k \in DOMAIN es : k \in keep <=> es[k].exp > time
  OBVIOUS
<1> HIDE DEF keep
<1>3. ks \in Seq(Row(c)) /\ Shrunk(ks, es)
  BY <1>1, KeptShrunk
<1>4. Tokens(c)!Rows(ks) = {es[k] : k \in keep}
  BY <1>1, KeptRows
<1> HIDE DEF ks
<1>5. Bounded(c, es) => Bounded(c, ks)
  BY <1>3, ShrunkBounded
<1>6. \A e \in Tokens(c)!Rows(es) : e \in Tokens(c)!Rows(ks) <=> e.exp > time
  BY <1>1, <1>2, <1>4 DEF Tokens!Rows
<1> QED
  BY <1>3, <1>5, <1>6 DEF ks, keep

\* _purge drops the rows that have expired, and only those.
LEMMA PurgedIs ==
    ASSUME NEW c \in Settings, entries \in Seq(Row(c))
    PROVE  /\ Tokens(c)!Purged \in Seq(Row(c)) /\ Shrunk(Tokens(c)!Purged, entries)
           /\ Bounded(c, entries) => Bounded(c, Tokens(c)!Purged)
           /\ \A e \in Tokens(c)!Rows(entries) :
                 e \in Tokens(c)!Rows(Tokens(c)!Purged) <=> e.exp > now
BY UnexpiredIs DEF Tokens!Purged

\* A registry without the rows of a scope.
LEMMA WithoutIs ==
    ASSUME NEW c \in Settings, NEW es \in Seq(Row(c)), NEW key
    PROVE  LET ks == Tokens(c)!Without(es, key)
           IN  /\ ks \in Seq(Row(c)) /\ Shrunk(ks, es)
               /\ \A i \in DOMAIN ks : ks[i].key # key
               /\ (\E i \in DOMAIN es : es[i].key = key) => Len(ks) < Len(es)
<1> DEFINE keep == {i \in DOMAIN es : es[i].key # key}
           ks == Tokens(c)!Kept(es, keep)
<1>1. Tokens(c)!Without(es, key) = ks /\ keep \in SUBSET DOMAIN es
  BY DEF Tokens!Without
<1>2. \A k \in keep : es[k].key # key
  OBVIOUS
<1>3. \A m \in DOMAIN es : es[m].key = key => keep \subseteq DOMAIN es \ {m}
  OBVIOUS
<1> HIDE DEF keep
<1>4. ks \in Seq(Row(c)) /\ Shrunk(ks, es) /\ Len(ks) = Cardinality(keep)
  BY <1>1, KeptShrunk, KeptIs
<1>5. PICK f \in [DOMAIN ks -> keep] : \A i \in DOMAIN ks : ks[i] = es[f[i]]
  BY <1>1, KeptIs
<1> HIDE DEF ks
<1>6. \A i \in DOMAIN ks : ks[i].key # key
  BY <1>2, <1>5
<1>7. ASSUME NEW m \in DOMAIN es, es[m].key = key PROVE Len(ks) < Len(es)
  <2>1. IsFiniteSet(DOMAIN es) /\ Cardinality(DOMAIN es) = Len(es) /\ Len(es) \in Nat
    BY FlowsFinite
  <2>2. IsFiniteSet(DOMAIN es \ {m}) /\ Cardinality(DOMAIN es \ {m}) = Len(es) - 1
    BY <1>7, <2>1, FS_RemoveElement
  <2>3. Cardinality(keep) <= Len(es) - 1
    BY <1>3, <1>7, <2>2, FS_Subset
  <2>4. Len(ks) \in Nat
    BY <1>4
  <2> QED
    BY <1>4, <2>1, <2>3, <2>4
<1> QED
  BY <1>1, <1>4, <1>6, <1>7

\* CurrentCsrfStore.replace keeps both limits.
LEMMA ReplacedIs ==
    ASSUME NEW c \in Settings, entries \in Seq(Row(c)), Bounded(c, entries),
           NEW key, NEW nonce, Tokens(c)!Entry(key, nonce) \in Row(c)
    PROVE  Written(c, Tokens(c)!Replaced(key, nonce), entries, Tokens(c)!Entry(key, nonce))
<1> DEFINE e == Tokens(c)!Entry(key, nonce)
           es == Tokens(c)!Purged
           room == Tokens(c)!BoundCapacity(es, key)
           rest == Tokens(c)!Without(room, key)
<1>1. Tokens(c)!Replaced(key, nonce) = Append(rest, e)
  BY DEF Tokens!Replaced
<1>2. es \in Seq(Row(c)) /\ Shrunk(es, entries) /\ Bounded(c, es)
  BY PurgedIs
<1> HIDE DEF es
<1>3. /\ room \in Seq(Row(c)) /\ Shrunk(room, es)
      /\ Cardinality(Others(room, key)) < c.flows
      /\ (\E i \in DOMAIN room : room[i].key = key) \/ Len(room) < c.capacity
  BY <1>2, BoundCapacityIs
<1> HIDE DEF room
<1>4. Bounded(c, room)
  BY <1>2, <1>3, ShrunkBounded
<1>5. /\ rest \in Seq(Row(c)) /\ Shrunk(rest, room)
      /\ \A i \in DOMAIN rest : rest[i].key # key
      /\ (\E i \in DOMAIN room : room[i].key = key) => Len(rest) < Len(room)
  BY <1>3, WithoutIs
<1> HIDE DEF rest
<1>6. Bounded(c, rest)
  BY <1>3, <1>4, <1>5, ShrunkBounded
<1>7. Len(rest) < c.capacity
  <2>1. Len(rest) <= Len(room)
    <3>1. PICK f \in [DOMAIN rest -> DOMAIN room] :
            \A i, j \in DOMAIN rest : f[i] = f[j] => i = j
      BY <1>5 DEF Shrunk
    <3>2. IsFiniteSet(DOMAIN room) /\ Cardinality(DOMAIN room) = Len(room)
      BY <1>3, FlowsFinite
    <3>3. Cardinality(DOMAIN rest) = Len(rest)
      BY <1>5, FlowsFinite
    <3> QED
      BY <3>1, <3>2, <3>3, MapBounds
  <2>2. Len(rest) \in Nat /\ Len(room) \in Nat /\ c.capacity \in Nat
    BY <1>3, <1>5, SettingBounds
  <2> QED
    BY <1>3, <1>4, <1>5, <2>1, <2>2 DEF Bounded
<1>8. Cardinality(Flows(rest, key[1])) < c.flows
  <2>1. Flows(rest, key[1]) = Others(rest, key)
    BY <1>5 DEF Flows, Others
  <2>2. /\ Cardinality(Others(rest, key)) <= Cardinality(Others(room, key))
        /\ Cardinality(Others(rest, key)) \in Nat /\ Cardinality(Others(room, key)) \in Nat
    BY <1>3, <1>5, ShrunkOthers
  <2> QED
    BY <1>3, <2>1, <2>2, SettingBounds
<1>9. e.key = key
  BY DEF Tokens!Entry
<1>10. Append(rest, e) \in Seq(Row(c)) /\ Bounded(c, Append(rest, e))
  BY <1>5, <1>6, <1>7, <1>8, <1>9, AppendBounded
<1>11. Shrunk(rest, entries)
  BY <1>2, <1>3, <1>5, ShrunkTwice
<1> QED
  BY <1>1, <1>5, <1>10, <1>11 DEF Written

\* Where a nonce is current there is an entry that says so.
LEMMA CurrentHasEntry ==
    ASSUME NEW c \in Settings, entries \in Seq(Row(c)), NEW key, NEW nonce,
           Tokens(c)!IsCurrent(key, nonce)
    PROVE  \E e \in Tokens(c)!Rows(Tokens(c)!Purged) : e.key = key /\ e.nonce = nonce
BY DEF Tokens!IsCurrent, Tokens!Rows

\* A scope's entry is moved to the end or given another nonce.
LEMMA RotatedIs ==
    ASSUME NEW c \in Settings, entries \in Seq(Row(c)), Bounded(c, entries),
           NEW nonce, NEW e \in Row(c), Tokens(c)!IsCurrent(e.key, nonce)
    PROVE  Written(c, Append(Tokens(c)!Without(Tokens(c)!Purged, e.key), e), entries, e)
<1> DEFINE es == Tokens(c)!Purged
           rest == Tokens(c)!Without(es, e.key)
<1>1. \E i \in DOMAIN es : es[i].key = e.key
  BY DEF Tokens!IsCurrent
<1>2. es \in Seq(Row(c)) /\ Shrunk(es, entries) /\ Bounded(c, es)
  BY PurgedIs
<1> HIDE DEF es
<1>3. rest \in Seq(Row(c)) /\ Shrunk(rest, es)
  BY <1>2, WithoutIs
<1>4. Append(rest, e) \in Seq(Row(c)) /\ Bounded(c, Append(rest, e))
  BY <1>1, <1>2, RotatedBounded
<1> HIDE DEF rest
<1>5. Shrunk(rest, entries)
  BY <1>2, <1>3, ShrunkTwice
<1>6. Written(c, Append(rest, e), entries, e)
  BY <1>3, <1>4, <1>5 DEF Written
<1> QED
  BY <1>6 DEF rest, es

----------------------------------------------------------------------------
(* The inductive invariant of the write tokens. *)

Cookies(c) == Tokens(c)!Token \cup {None}
Browsing(c) == c.sessions \cup {None}
Messages(c) ==
    [is : {"none", "handling"}]
    \cup [is : {"get"}, cookie : Cookies(c), session : Browsing(c)]
    \cup [is : {"post"}, cookie : Cookies(c), session : Browsing(c), header : Cookies(c)]
    \cup [is : {"answer"}, code : {"ok", "busy", "csrf", "unauthorized", "done", "error"},
          token : Cookies(c), session : Browsing(c) \cup {"keep"}]
TabStates(c) ==
    [pc : {"idle", "sync", "sent", "page"}, mem : Cookies(c), kind : c.kinds \cup {None},
     tries : 0 .. 2]
Handlers(c) ==
    [tab : c.tabs, waited : BOOLEAN, kind : c.kinds \cup {None}, session : Browsing(c),
     stale : BOOLEAN, token : Tokens(c)!Token]

\* The registry: every nonce was drawn, so that a new one is unlike any that it
\* holds or that was spent.
Store(c) ==
    /\ entries \in Seq(Row(c)) /\ nonces \in Nat
    /\ \A e \in Tokens(c)!Rows(entries) :
          e.nonce <= nonces /\ e.exp \in 1 .. (c.maxTime + c.ttl)
    /\ \A p \in spent : p[2] \in 0 .. nonces
    /\ Tokens(c)!SpentNeverCurrent /\ Bounded(c, entries)

ClientsTyped(c) ==
    /\ boot \in 1 .. c.maxBoot /\ now \in 0 .. c.maxTime
    /\ live \subseteq c.sessions
    /\ jar \in [csrf : Cookies(c), session : Browsing(c)]
    /\ tab \in [c.tabs -> TabStates(c)] /\ net \in [c.tabs -> Messages(c)]
    /\ handling \subseteq Handlers(c)
    /\ runs \in [c.tabs -> Nat]
    /\ \A h \in handling : h.token.nonce <= nonces

\* A tab that does nothing has nothing on the wire, and a handler whose client
\* waits is the only such one of its tab.
ClientsWait(c) ==
    /\ \A t \in c.tabs : tab[t].pc = "idle" <=> net[t].is = "none"
    /\ \A h \in handling : h.waited => net[h.tab].is = "handling"
    /\ \A g, h \in handling : g.waited /\ h.waited /\ g.tab = h.tab => g = h

\* Whatever may still lead to a first or second try has not run the handler.
NotRunYet(c) ==
    \A t \in c.tabs :
        /\ runs[t] <= 1
        /\ \/ net[t].is \in {"get", "post"}
           \/ net[t].is = "answer" /\ net[t].code \notin {"done", "error"}
           => runs[t] = 0

\* Only writes behind the session check synchronise and try again.
OnlyProtectedRetried(c) ==
    \A t \in c.tabs : tab[t].tries = 2 \/ tab[t].pc = "sync" => tab[t].kind # "login"

\* The token is the one to present for the session, if that is live.
Usable(c, token, session) ==
    /\ token # None
    /\ session \in live =>
          /\ Tokens(c)!Verified(token)
          /\ Tokens(c)!IsCurrent(Tokens(c)!Key(session, token.flow), token.nonce)

\* Unless something intervened, the token that a tab is being given, and the one
\* that it then presents, is usable.
TryUsable(c, t) ==
    ~disturbed[t] =>
        /\ net[t].is = "post" /\ (tab[t].tries = 2 \/ tab[t].kind = "upload") =>
              net[t].header = net[t].cookie /\ Usable(c, net[t].cookie, net[t].session)
        /\ /\ net[t].is = "answer" /\ net[t].code \in {"ok", "csrf"}
           /\ tab[t].pc \in {"sync", "sent"} /\ tab[t].kind # "login"
           => net[t].session = "keep" /\ Usable(c, net[t].token, jar.session)
TriesUsable(c) == \A t \in c.tabs : TryUsable(c, t)

TokenInv(c) ==
    /\ Store(c) /\ ClientsTyped(c) /\ ClientsWait(c)
    /\ NotRunYet(c) /\ OnlyProtectedRetried(c) /\ TriesUsable(c)

----------------------------------------------------------------------------
(* What the registry becomes. *)

\* What holds of a registry to which a row was written.
LEMMA WrittenIs ==
    ASSUME NEW c \in Settings, NEW es, NEW ks, NEW e, Written(c, ks, es, e)
    PROVE  /\ ks \in Seq(Row(c)) /\ Bounded(c, ks)
           /\ e \in Tokens(c)!Rows(ks)
           /\ \A r \in Tokens(c)!Rows(ks) : r = e \/ r \in Tokens(c)!Rows(es)
           /\ \A r \in Tokens(c)!Rows(ks) : r.key = e.key => r = e
<1>1. PICK rest \in Seq(Row(c)) : ks = Append(rest, e) /\ Shrunk(rest, es)
  BY DEF Written
<1>2. /\ DOMAIN ks = DOMAIN rest \cup {Len(rest) + 1}
      /\ ks[Len(rest) + 1] = e /\ \A i \in DOMAIN rest : ks[i] = rest[i]
  BY <1>1
<1>3. ks \in Seq(Row(c)) /\ Bounded(c, ks)
  BY DEF Written
<1>4. Tokens(c)!Rows(rest) \subseteq Tokens(c)!Rows(es)
  BY <1>1, ShrunkRows
<1>5. e \in Tokens(c)!Rows(ks)
  BY <1>2 DEF Tokens!Rows
<1>6. \A r \in Tokens(c)!Rows(ks) : r = e \/ r \in Tokens(c)!Rows(es)
  BY <1>2, <1>4 DEF Tokens!Rows
<1>7. \A r \in Tokens(c)!Rows(ks) : r.key = e.key => r = e
  BY <1>2, <1>3 DEF Tokens!Rows, Bounded
<1> QED
  BY <1>3, <1>5, <1>6, <1>7

\* A write with a new nonce, or of an entry that is not spent.
LEMMA StoreWritten ==
    ASSUME NEW c \in Settings, Store(c), NEW e, Written(c, entries', entries, e),
           nonces' \in Nat, nonces <= nonces',
           e.nonce <= nonces', e.exp \in 1 .. (c.maxTime + c.ttl),
           <<e.key, e.nonce>> \notin spent',
           \A p \in spent' : p \in spent \/ (p[1] = e.key /\ p[2] \in 0 .. nonces)
    PROVE  Store(c)'
<1>1. /\ entries' \in Seq(Row(c)) /\ Bounded(c, entries')
      /\ \A r \in Tokens(c)!Rows(entries') : r = e \/ r \in Tokens(c)!Rows(entries)
      /\ \A r \in Tokens(c)!Rows(entries') : r.key = e.key => r = e
  BY WrittenIs
<1>2. \A r \in Tokens(c)!Rows(entries) : r.nonce \in Nat
  <2>1. entries \in Seq(Row(c))
    BY DEF Store
  <2>2. \A r \in Tokens(c)!Rows(entries) : r \in Row(c)
    BY <2>1 DEF Tokens!Rows
  <2> QED
    BY <2>2 DEF Row
<1>3. /\ nonces \in Nat
      /\ \A r \in Tokens(c)!Rows(entries) :
            r.nonce <= nonces /\ r.exp \in 1 .. (c.maxTime + c.ttl)
      /\ \A r \in Tokens(c)!Rows(entries) : <<r.key, r.nonce>> \notin spent
  BY DEF Store, Tokens!SpentNeverCurrent
<1>4. \A r \in Tokens(c)!Rows(entries') :
          r.nonce <= nonces' /\ r.exp \in 1 .. (c.maxTime + c.ttl)
  BY <1>1, <1>2, <1>3
<1>5. \A p \in spent' : p[2] \in 0 .. nonces'
  BY <1>3 DEF Store
<1>6. \A r \in Tokens(c)!Rows(entries') : <<r.key, r.nonce>> \notin spent'
  BY <1>1, <1>3
<1> QED
  BY <1>1, <1>4, <1>5, <1>6 DEF Store, Tokens!SpentNeverCurrent

\* The entry that was written is the current one until it expires.
LEMMA WrittenCurrent ==
    ASSUME NEW c \in Settings, NEW es, NEW e, Written(c, entries', es, e), e.exp > now'
    PROVE  Tokens(c)!IsCurrent(e.key, e.nonce)'
<1> DEFINE ks == Tokens(c)!Kept(entries', {i \in DOMAIN entries' : entries'[i].exp > now'})
<1>1. entries' \in Seq(Row(c)) /\ e \in Tokens(c)!Rows(entries')
  BY WrittenIs
<1>2. e \in Tokens(c)!Rows(ks)
  BY <1>1, UnexpiredIs
<1>3. Tokens(c)!Purged' = ks
  BY DEF Tokens!Purged
<1> HIDE DEF ks
<1>4. \E i \in DOMAIN ks : ks[i] = e
  BY <1>2 DEF Tokens!Rows
<1> QED
  BY <1>3, <1>4 DEF Tokens!IsCurrent

----------------------------------------------------------------------------
(* What the parts of the invariant say of one message, and what keeps them. *)

\* The fields of a message.
LEMMA MessageIs ==
    ASSUME NEW c \in Settings, NEW m \in Messages(c)
    PROVE  /\ m.is \in {"none", "handling", "get", "post", "answer"}
           /\ m.is \in {"get", "post"} => m.cookie \in Cookies(c) /\ m.session \in Browsing(c)
           /\ m.is = "post" => m.header \in Cookies(c)
           /\ m.is = "answer" =>
                /\ m.code \in {"ok", "busy", "csrf", "unauthorized", "done", "error"}
                /\ m.token \in Cookies(c) /\ m.session \in Browsing(c) \cup {"keep"}
BY DEF Messages

\* An answer is a message, with the fields it is given.
LEMMA AnswerIs ==
    ASSUME NEW c \in Settings, NEW token \in Cookies(c), NEW session \in Browsing(c) \cup {"keep"},
           NEW code \in {"ok", "busy", "csrf", "unauthorized", "done", "error"}
    PROVE  LET m == Tokens(c)!Answer(code, token, session)
           IN  /\ m \in Messages(c) /\ m.is = "answer" /\ m.code = code
               /\ m.token = token /\ m.session = session
BY DEF Messages, Tokens!Answer

\* What a browser sends are messages.
LEMMA SentIs ==
    ASSUME NEW c \in Settings, NEW j \in [csrf : Cookies(c), session : Browsing(c)],
           NEW mem \in Cookies(c)
    PROVE  /\ Tokens(c)!Silent \in Messages(c) /\ Tokens(c)!Silent.is = "none"
           /\ Tokens(c)!SendGet(j) \in Messages(c) /\ Tokens(c)!SendGet(j).is = "get"
           /\ Tokens(c)!SendPost(j, mem) \in Messages(c) /\ Tokens(c)!SendPost(j, mem).is = "post"
           /\ Tokens(c)!SendPost(j, mem).cookie = j.csrf
           /\ Tokens(c)!SendPost(j, mem).session = j.session
           /\ Tokens(c)!SendPost(j, mem).header = mem
           /\ [is |-> "handling"] \in Messages(c)
BY DEF Messages, Tokens!Silent, Tokens!SendGet, Tokens!SendPost

\* A token that was just drawn is verified and has the next nonce.
LEMMA FreshIs ==
    ASSUME NEW c \in Settings, ClientsTyped(c), nonces \in Nat, NEW held \in Cookies(c)
    PROVE  LET token == Tokens(c)!FreshToken(held)
           IN  /\ token \in Tokens(c)!Token /\ token # None /\ token.nonce = nonces + 1
               /\ Tokens(c)!Verified(token)
               /\ Tokens(c)!Verified(held) => token.flow = held.flow
<1>1. /\ boot \in 1 .. c.maxBoot /\ now \in 0 .. c.maxTime /\ now \in Nat
      /\ None \notin Tokens(c)!Token /\ c.ttl \in Nat
  BY WebBounds, SettingBounds DEF ClientsTyped, Tokens!CsrfBounds
<1>2. Tokens(c)!Verified(held) => held.flow \in Nat \ {0}
  BY DEF Cookies, Tokens!Verified, Tokens!Token
<1> DEFINE token == Tokens(c)!FreshToken(held)
<1>3. /\ token \in Tokens(c)!Token /\ token.nonce = nonces + 1 /\ token.at = now
      /\ token.boot = boot /\ (Tokens(c)!Verified(held) => token.flow = held.flow)
  BY <1>1, <1>2 DEF Tokens!FreshToken, Tokens!Token
<1> HIDE DEF token
<1>4. token # None
  BY <1>1, <1>3
<1>5. Tokens(c)!Verified(token)
  BY <1>1, <1>3, <1>4 DEF Tokens!Verified
<1> QED
  BY <1>3, <1>4, <1>5 DEF token

\* The entry of a scope that exists is a row of the registry.
LEMMA EntryIs ==
    ASSUME NEW c \in Settings, ClientsTyped(c), NEW session \in Browsing(c),
           NEW flow \in Nat, NEW nonce \in Nat \ {0}
    PROVE  LET e == Tokens(c)!Entry(Tokens(c)!Key(session, flow), nonce)
           IN  /\ e \in Row(c) /\ e.key = Tokens(c)!Key(session, flow) /\ e.nonce = nonce
               /\ e.exp \in 1 .. (c.maxTime + c.ttl) /\ e.exp > now
<1>1. now \in 0 .. c.maxTime /\ now \in Nat /\ c.ttl \in Nat /\ c.ttl > 0
  BY SettingBounds DEF ClientsTyped
<1>2. Tokens(c)!Key(session, flow) \in Identities(c) \X Nat
  BY DEF Tokens!Key, Identities, Browsing
<1>3. now + c.ttl \in 1 .. (c.maxTime + c.ttl) /\ now + c.ttl > now /\ now + c.ttl \in Nat
  BY <1>1, SettingBounds
<1> QED
  BY <1>2, <1>3 DEF Tokens!Entry, Row

\* The registry part holds on while the registry is left alone.
LEMMA StoreSame ==
    ASSUME NEW c \in Settings, Store(c), UNCHANGED <<entries, nonces, spent>>
    PROVE  Store(c)'
BY DEF Store, Tokens!SpentNeverCurrent, Tokens!Rows, Bounded, Flows

\* A usable token stays so while the registry and the time stand still.
LEMMA UsableSame ==
    ASSUME NEW c \in Settings, UNCHANGED <<entries, boot, now>>, live' \subseteq live,
           NEW token, NEW session, Usable(c, token, session)
    PROVE  Usable(c, token, session)'
BY DEF Usable, Tokens!Verified, Tokens!IsCurrent, Tokens!Purged, Tokens!Key

\* What holds of a tab's try holds on while the tab is left alone.
LEMMA TryKept ==
    ASSUME NEW c \in Settings, NEW t \in c.tabs, TryUsable(c, t),
           UNCHANGED <<entries, boot, now>>, live' \subseteq live,
           net'[t] = net[t], tab'[t] = tab[t],
           disturbed'[t] \/ (~disturbed[t] /\ jar'.session = jar.session)
    PROVE  TryUsable(c, t)'
<1> SUFFICES ASSUME ~disturbed'[t] PROVE TryUsable(c, t)'
  BY DEF TryUsable
<1>1. ~disturbed[t] /\ jar'.session = jar.session
  OBVIOUS
<1>2. /\ Usable(c, net[t].cookie, net[t].session) => Usable(c, net[t].cookie, net[t].session)'
      /\ Usable(c, net[t].token, jar.session) => Usable(c, net[t].token, jar.session)'
  <2>1. PICK m, s : m = net[t] /\ s = jar.session
    OBVIOUS
  <2>2. /\ Usable(c, m.cookie, m.session) => Usable(c, m.cookie, m.session)'
        /\ Usable(c, m.token, s) => Usable(c, m.token, s)'
    BY UsableSame
  <2>3. m' = net'[t] /\ s' = jar'.session
    BY <1>1, <2>1
  <2> QED
    BY <1>1, <2>1, <2>2
<1> QED
  BY <1>1, <1>2 DEF TryUsable

\* A tab with no request and no token under way has no try to speak of.
LEMMA TryOver ==
    ASSUME NEW c \in Settings, NEW t \in c.tabs,
           \/ disturbed'[t]
           \/ net'[t].is \notin {"post", "answer"}
           \/ net'[t].is = "answer" /\ net'[t].code \notin {"ok", "csrf"}
    PROVE  TryUsable(c, t)'
BY DEF TryUsable

----------------------------------------------------------------------------
(* The steps that leave the registry alone. *)

\* A refusal before the token is looked at.
LEMMA RefusedKeeps ==
    ASSUME NEW c \in Settings, TokenInv(c), NEW t \in c.tabs, net[t].is \in {"get", "post"},
           NEW code \in {"busy", "unauthorized"}, NEW session \in Browsing(c) \cup {"keep"},
           net' = [net EXCEPT ![t] = Tokens(c)!Answer(code, None, session)],
           UNCHANGED <<entries, boot, now, nonces, live, handling, spent, jar, tab, runs, disturbed>>
    PROVE  TokenInv(c)'
<1> DEFINE m == Tokens(c)!Answer(code, None, session)
<1>1. m \in Messages(c) /\ m.is = "answer" /\ m.code = code
  BY AnswerIs DEF Cookies
<1>2. /\ net \in [c.tabs -> Messages(c)] /\ net' \in [c.tabs -> Messages(c)]
      /\ net'[t] = m /\ \A u \in c.tabs : u # t => net'[u] = net[u]
  BY <1>1 DEF TokenInv, ClientsTyped
<1> HIDE DEF m
<1>3. Store(c)'
  BY StoreSame DEF TokenInv
<1>4. ClientsTyped(c)'
  BY <1>2 DEF TokenInv, ClientsTyped
<1>5. ClientsWait(c)'
  <2>1. \A u \in c.tabs : tab'[u].pc = "idle" <=> net'[u].is = "none"
    BY <1>1, <1>2 DEF TokenInv, ClientsWait
  <2>2. \A h \in handling : h.tab \in c.tabs
    BY DEF TokenInv, ClientsTyped, Handlers
  <2>3. \A h \in handling : h.waited => net'[h.tab].is = "handling"
    BY <1>2, <2>2 DEF TokenInv, ClientsWait
  <2> QED
    BY <2>1, <2>3 DEF TokenInv, ClientsWait
<1>6. NotRunYet(c)'
  BY <1>1, <1>2 DEF TokenInv, NotRunYet
<1>7. OnlyProtectedRetried(c)'
  BY DEF TokenInv, OnlyProtectedRetried
<1>8. TriesUsable(c)'
  <2> SUFFICES ASSUME NEW u \in c.tabs PROVE TryUsable(c, u)'
    BY DEF TriesUsable
  <2>1. CASE u = t
    BY <1>1, <1>2, <2>1, TryOver
  <2>2. CASE u # t
    BY <1>2, <2>2, TryKept DEF TokenInv, TriesUsable
  <2> QED
    BY <2>1, <2>2
<1> QED
  BY <1>3, <1>4, <1>5, <1>6, <1>7, <1>8 DEF TokenInv

\* The answer "too many requests" keeps the invariant.
LEMMA TooManyRequestsKeeps ==
    ASSUME NEW c \in Settings, TokenInv(c), NEW t \in c.tabs, Tokens(c)!TooManyRequests(t)
    PROVE  TokenInv(c)'
BY RefusedKeeps DEF Tokens!TooManyRequests, Tokens!server, Tokens!Keep

\* The refusal of a request without a session keeps the invariant.
LEMMA UnauthorizedKeeps ==
    ASSUME NEW c \in Settings, TokenInv(c), NEW t \in c.tabs, Tokens(c)!Unauthorized(t)
    PROVE  TokenInv(c)'
BY RefusedKeeps DEF Tokens!Unauthorized, Tokens!server, Browsing

\* A new token, or the present one, is handed out and made current.
LEMMA GivenKeeps ==
    ASSUME NEW c \in Settings, TokenInv(c), Store(c)', nonces <= nonces',
           NEW t \in c.tabs, net[t].is \in {"get", "post"},
           NEW token \in Tokens(c)!Token, Tokens(c)!Verified(token),
           NEW e, Written(c, entries', entries, e), e.exp > now, e.nonce = token.nonce,
           NEW code \in {"ok", "csrf"}, NEW session \in Browsing(c) \cup {"keep"},
           tab[t].kind # "login" =>
              session = "keep" /\ e.key = Tokens(c)!Key(net[t].session, token.flow),
           net' = [net EXCEPT ![t] = Tokens(c)!Answer(code, token, session)],
           disturbed' = [Tokens(c)!OthersDisturbed(t) EXCEPT ![t] = net[t].session # jar.session],
           UNCHANGED <<boot, now, live, jar, tab, handling, runs>>
    PROVE  TokenInv(c)'
<1> DEFINE m == Tokens(c)!Answer(code, token, session)
<1>1. m \in Messages(c) /\ m.is = "answer" /\ m.code = code /\ m.token = token /\ m.session = session
  BY AnswerIs DEF Cookies
<1>2. /\ net \in [c.tabs -> Messages(c)] /\ net' \in [c.tabs -> Messages(c)]
      /\ net'[t] = m /\ \A u \in c.tabs : u # t => net'[u] = net[u]
  BY <1>1 DEF TokenInv, ClientsTyped
<1> HIDE DEF m
<1>3. nonces \in Nat /\ nonces' \in Nat
  BY DEF TokenInv, Store
<1>4. ClientsTyped(c)'
  <2>1. \A h \in handling : h.token.nonce \in Nat /\ h.token.nonce <= nonces
    BY DEF TokenInv, ClientsTyped, Handlers, Tokens!Token
  <2>2. \A h \in handling : h.token.nonce <= nonces'
    BY <1>3, <2>1
  <2> QED
    BY <1>2, <2>2 DEF TokenInv, ClientsTyped
<1>5. ClientsWait(c)'
  <2>1. \A u \in c.tabs : tab'[u].pc = "idle" <=> net'[u].is = "none"
    BY <1>1, <1>2 DEF TokenInv, ClientsWait
  <2>2. \A h \in handling : h.tab \in c.tabs
    BY DEF TokenInv, ClientsTyped, Handlers
  <2>3. \A h \in handling : h.waited => net'[h.tab].is = "handling"
    BY <1>2, <2>2 DEF TokenInv, ClientsWait
  <2> QED
    BY <2>1, <2>3 DEF TokenInv, ClientsWait
<1>6. NotRunYet(c)'
  BY <1>1, <1>2 DEF TokenInv, NotRunYet
<1>7. OnlyProtectedRetried(c)'
  BY DEF TokenInv, OnlyProtectedRetried
<1>8. TriesUsable(c)'
  <2> SUFFICES ASSUME NEW u \in c.tabs PROVE TryUsable(c, u)'
    BY DEF TriesUsable
  <2>1. CASE u # t
    BY <2>1, TryOver DEF Tokens!OthersDisturbed
  <2>2. CASE u = t /\ tab[t].kind = "login"
    BY <1>1, <1>2, <2>2 DEF TryUsable
  <2>3. CASE u = t /\ tab[t].kind # "login"
    <3>1. PICK s : s = net[t].session
      OBVIOUS
    <3>2. e.key = Tokens(c)!Key(s, token.flow) /\ session = "keep"
      BY <2>3, <3>1
    <3>3. Tokens(c)!IsCurrent(e.key, e.nonce)'
      BY WrittenCurrent
    <3>4. Usable(c, token, s)'
      <4>1. token # None
        BY WebBounds DEF Tokens!CsrfBounds
      <4>2. Tokens(c)!Verified(token)'
        BY DEF Tokens!Verified
      <4> QED
        BY <3>2, <3>3, <4>1, <4>2 DEF Usable, Tokens!Key
    <3>5. ~disturbed'[t] => s = jar.session
      BY <3>1 DEF Tokens!OthersDisturbed
    <3>6. ~disturbed'[t] => Usable(c, token, jar.session)'
      BY <3>4, <3>5
    <3> QED
      BY <1>1, <1>2, <2>3, <3>2, <3>6 DEF TryUsable
  <2> QED
    BY <2>1, <2>2, <2>3
<1> QED
  BY <1>4, <1>5, <1>6, <1>7, <1>8 DEF TokenInv

\* A GET that is served, which may rotate the token, keeps the invariant.
LEMMA HandleGetKeeps ==
    ASSUME NEW c \in Settings, TokenInv(c), NEW t \in c.tabs, Tokens(c)!HandleGet(t)
    PROVE  TokenInv(c)'
<1> DEFINE r == net[t]
           key == Tokens(c)!Key(r.session, Tokens(c)!FreshToken(r.cookie).flow)
           good == Tokens(c)!Verified(r.cookie) /\ Tokens(c)!IsCurrent(key, r.cookie.nonce)
           token == IF good THEN r.cookie ELSE Tokens(c)!FreshToken(r.cookie)
           rows == Tokens(c)!Rows(Tokens(c)!Purged)
           kept == CHOOSE e \in rows : e.key = key
<1>0. /\ r.is = "get" /\ UNCHANGED <<boot, now, live, jar, tab, handling, runs, spent>>
      /\ entries' = IF good THEN Append(Tokens(c)!Without(Tokens(c)!Purged, key), kept)
                    ELSE Tokens(c)!Replaced(key, token.nonce)
      /\ nonces' = IF good THEN nonces ELSE nonces + 1
      /\ disturbed' = [Tokens(c)!OthersDisturbed(t) EXCEPT ![t] = r.session # jar.session]
      /\ net' = [net EXCEPT ![t] = Tokens(c)!Answer("ok", token, "keep")]
  BY DEF Tokens!HandleGet, Tokens!Keep
<1>1. /\ r.cookie \in Cookies(c) /\ r.session \in Browsing(c)
      /\ entries \in Seq(Row(c)) /\ Bounded(c, entries) /\ nonces \in Nat
  BY <1>0, MessageIs DEF TokenInv, ClientsTyped, Store
<1>2. CASE good
  <2>1. r.cookie \in Tokens(c)!Token /\ key = Tokens(c)!Key(r.session, r.cookie.flow)
    BY <1>1, <1>2, FreshIs DEF TokenInv, Cookies, Tokens!Verified
  <2>2. PICK e \in rows : e.key = key /\ e.nonce = r.cookie.nonce
    BY <1>1, <1>2, CurrentHasEntry
  <2>3. kept \in rows /\ kept.key = key
    BY <2>2
  <2>4. /\ rows \subseteq Tokens(c)!Rows(entries) /\ kept.exp > now
        /\ \A x, y \in Tokens(c)!Rows(entries) : x.key = y.key => x = y
    <3>1. Tokens(c)!Purged \in Seq(Row(c)) /\ Shrunk(Tokens(c)!Purged, entries)
      BY <1>1, PurgedIs
    <3>2. rows \subseteq Tokens(c)!Rows(entries)
      BY <1>1, <3>1, ShrunkRows
    <3>3. kept.exp > now
      BY <1>1, <2>3, <3>2, PurgedIs
    <3>4. \A x, y \in Tokens(c)!Rows(entries) : x.key = y.key => x = y
      BY <1>1 DEF Bounded, Tokens!Rows
    <3> QED
      BY <3>2, <3>3, <3>4
  <2>5. kept = e /\ kept \in Tokens(c)!Rows(entries) /\ kept \in Row(c)
    <3>1. kept = e /\ kept \in Tokens(c)!Rows(entries)
      BY <2>2, <2>3, <2>4
    <3>2. Tokens(c)!Rows(entries) \subseteq Row(c)
      BY <1>1 DEF Tokens!Rows
    <3> QED
      BY <3>1, <3>2
  <2> HIDE DEF rows, kept, key
  <2>6. Written(c, entries', entries, kept)
    BY <1>0, <1>1, <1>2, <2>3, <2>5, RotatedIs
  <2>7. /\ kept.nonce <= nonces /\ kept.exp \in 1 .. (c.maxTime + c.ttl)
        /\ <<kept.key, kept.nonce>> \notin spent
    BY <2>5 DEF TokenInv, Store, Tokens!SpentNeverCurrent
  <2>8. /\ nonces' = nonces /\ spent' = spent /\ nonces <= nonces'
        /\ r.cookie.nonce = kept.nonce
        /\ net' = [net EXCEPT ![t] = Tokens(c)!Answer("ok", r.cookie, "keep")]
        /\ \A p \in spent' : p \in spent
    BY <1>0, <1>1, <1>2, <2>2, <2>5
  <2>9. Store(c)'
    <3>1. Store(c)
      BY DEF TokenInv
    <3> QED
      BY <1>1, <2>6, <2>7, <2>8, <3>1, StoreWritten
  <2>10. /\ Tokens(c)!Verified(r.cookie) /\ r.cookie \in Tokens(c)!Token
         /\ kept.exp > now /\ kept.nonce = r.cookie.nonce
         /\ kept.key = Tokens(c)!Key(net[t].session, r.cookie.flow)
    BY <1>2, <2>1, <2>3, <2>4, <2>8
  <2>11. /\ UNCHANGED <<boot, now, live, jar, tab, handling, runs>>
         /\ disturbed' = [Tokens(c)!OthersDisturbed(t) EXCEPT ![t] = net[t].session # jar.session]
         /\ net[t].is \in {"get", "post"}
    BY <1>0
  <2> QED
    BY <2>6, <2>8, <2>9, <2>10, <2>11, GivenKeeps
<1>3. CASE ~good
  <2>1. /\ token \in Tokens(c)!Token /\ token.nonce = nonces + 1 /\ Tokens(c)!Verified(token)
        /\ key = Tokens(c)!Key(r.session, token.flow) /\ token.flow \in Nat
    BY <1>1, <1>3, FreshIs DEF TokenInv, Tokens!Token
  <2> DEFINE e == Tokens(c)!Entry(key, token.nonce)
  <2>2. /\ e \in Row(c) /\ e.key = key /\ e.nonce = token.nonce
        /\ e.exp \in 1 .. (c.maxTime + c.ttl) /\ e.exp > now
    BY <1>1, <2>1, EntryIs DEF TokenInv
  <2> HIDE DEF e
  <2>3. Written(c, entries', entries, e)
    BY <1>0, <1>1, <1>3, <2>2, ReplacedIs DEF e
  <2>4. <<e.key, e.nonce>> \notin spent
    BY <1>1, <2>1, <2>2 DEF TokenInv, Store
  <2>5. /\ nonces' = nonces + 1 /\ spent' = spent /\ nonces <= nonces'
        /\ \A p \in spent' : p \in spent
    BY <1>0, <1>1, <1>3
  <2> HIDE DEF token, key
  <2>6. Store(c)'
    <3>1. Store(c) /\ nonces' \in Nat /\ e.nonce <= nonces'
      BY <1>1, <2>1, <2>2, <2>5 DEF TokenInv
    <3> QED
      BY <2>2, <2>3, <2>4, <2>5, <3>1, StoreWritten
  <2> QED
    BY <1>0, <2>1, <2>2, <2>3, <2>5, <2>6, GivenKeeps
<1> QED
  BY <1>2, <1>3

\* A write that is rejected, with a new token in the answer, keeps the invariant.
LEMMA RejectPostKeeps ==
    ASSUME NEW c \in Settings, TokenInv(c), NEW t \in c.tabs, Tokens(c)!RejectPost(t)
    PROVE  TokenInv(c)'
<1> DEFINE r == net[t]
           token == Tokens(c)!FreshToken(r.cookie)
           scope == Tokens(c)!ScopeOf(r)
           key == Tokens(c)!Key(scope, token.flow)
           e == Tokens(c)!Entry(key, token.nonce)
           session == IF r.session \in live \cup {None} THEN "keep" ELSE None
<1>0. /\ r.is = "post" /\ UNCHANGED <<boot, now, live, jar, tab, handling, runs, spent>>
      /\ tab[t].kind # "login" => r.session \in live
      /\ entries' = Tokens(c)!Replaced(key, token.nonce)
      /\ nonces' = nonces + 1
      /\ disturbed' = [Tokens(c)!OthersDisturbed(t) EXCEPT ![t] = r.session # jar.session]
      /\ net' = [net EXCEPT ![t] = Tokens(c)!Answer("csrf", token, session)]
  BY DEF Tokens!RejectPost, Tokens!Keep, Tokens!Admitted, Tokens!Protected
<1>1. /\ r.cookie \in Cookies(c) /\ r.session \in Browsing(c)
      /\ entries \in Seq(Row(c)) /\ Bounded(c, entries) /\ nonces \in Nat
  BY <1>0, MessageIs DEF TokenInv, ClientsTyped, Store
<1>2. /\ token \in Tokens(c)!Token /\ token.nonce = nonces + 1 /\ Tokens(c)!Verified(token)
      /\ token.flow \in Nat
  BY <1>1, FreshIs DEF TokenInv, Tokens!Token
<1>3. /\ scope \in Browsing(c) /\ session \in Browsing(c) \cup {"keep"}
      /\ tab[t].kind # "login" => scope = r.session /\ session = "keep"
  BY <1>0, <1>1 DEF Tokens!ScopeOf, Browsing
<1> HIDE DEF token, scope, session
<1>4. /\ e \in Row(c) /\ e.key = key /\ e.nonce = token.nonce
      /\ e.exp \in 1 .. (c.maxTime + c.ttl) /\ e.exp > now
  <2>1. PICK n, f : n = token.nonce /\ f = token.flow /\ n \in Nat \ {0} /\ f \in Nat
    BY <1>1, <1>2
  <2>2. PICK x : x = Tokens(c)!Entry(Tokens(c)!Key(scope, f), n)
    OBVIOUS
  <2>3. /\ x \in Row(c) /\ x.key = Tokens(c)!Key(scope, f) /\ x.nonce = n
        /\ x.exp \in 1 .. (c.maxTime + c.ttl) /\ x.exp > now
    BY <1>3, <2>1, <2>2, EntryIs DEF TokenInv
  <2> QED
    BY <2>1, <2>2, <2>3
<1> HIDE DEF e
<1>5. Written(c, entries', entries, e)
  BY <1>0, <1>1, <1>4, ReplacedIs DEF e
<1>6. <<e.key, e.nonce>> \notin spent
  BY <1>1, <1>2, <1>4 DEF TokenInv, Store
<1>7. /\ Store(c) /\ nonces' \in Nat /\ e.nonce <= nonces' /\ nonces <= nonces'
      /\ spent' = spent /\ \A p \in spent' : p \in spent
  BY <1>0, <1>1, <1>2, <1>4 DEF TokenInv
<1>8. Store(c)'
  BY <1>4, <1>5, <1>6, <1>7, StoreWritten
<1> QED
  BY <1>0, <1>2, <1>3, <1>4, <1>5, <1>7, <1>8, GivenKeeps

\* A write that is admitted spends its nonce and keeps the invariant.
LEMMA AcceptPostKeeps ==
    ASSUME NEW c \in Settings, TokenInv(c), NEW t \in c.tabs, Tokens(c)!AcceptPost(t)
    PROVE  TokenInv(c)'
<1> DEFINE r == net[t]
           scope == Tokens(c)!ScopeOf(r)
           key == Tokens(c)!Key(scope, r.cookie.flow)
           token == Tokens(c)!FreshToken(r.cookie)
           e == Tokens(c)!Entry(key, token.nonce)
           h0 == [tab |-> t, waited |-> TRUE, kind |-> tab[t].kind,
                  session |-> scope, stale |-> r.session # scope, token |-> token]
<1>0. /\ r.is = "post" /\ UNCHANGED <<boot, now, live, jar, tab>>
      /\ Tokens(c)!Verified(r.cookie) /\ Tokens(c)!IsCurrent(key, r.cookie.nonce)
      /\ entries' = Append(Tokens(c)!Without(Tokens(c)!Purged, key), e)
      /\ nonces' = nonces + 1
      /\ spent' = spent \cup {<<key, r.cookie.nonce>>}
      /\ handling' = handling \cup {h0}
      /\ net' = [net EXCEPT ![t] = [is |-> "handling"]]
      /\ runs' = [runs EXCEPT ![t] = @ + 1]
      /\ disturbed' = Tokens(c)!OthersDisturbed(t)
  BY DEF Tokens!AcceptPost, Tokens!Admitted, Tokens!Valid, Tokens!Rotated
<1>1. /\ r.cookie \in Cookies(c) /\ r.session \in Browsing(c)
      /\ entries \in Seq(Row(c)) /\ Bounded(c, entries) /\ nonces \in Nat
  BY <1>0, MessageIs DEF TokenInv, ClientsTyped, Store
<1>2. /\ token \in Tokens(c)!Token /\ token.nonce = nonces + 1 /\ r.cookie.flow \in Nat
      /\ r.cookie.nonce \in Nat
  BY <1>0, <1>1, FreshIs DEF TokenInv, Tokens!Token, Cookies, Tokens!Verified
<1>3. scope \in Browsing(c)
  BY <1>1 DEF Tokens!ScopeOf, Browsing
<1>4. h0 \in Handlers(c)
  <2>1. tab[t].kind \in c.kinds \cup {None}
    BY DEF TokenInv, ClientsTyped, TabStates
  <2> QED
    BY <1>2, <1>3, <2>1 DEF Handlers
<1>5. h0.tab = t /\ h0.waited /\ h0.token = token
  OBVIOUS
<1> HIDE DEF token, scope, h0
<1>6. /\ e \in Row(c) /\ e.key = key /\ e.nonce = nonces + 1
      /\ e.exp \in 1 .. (c.maxTime + c.ttl)
  BY <1>1, <1>2, <1>3, EntryIs DEF TokenInv
<1> HIDE DEF e
<1>7. Written(c, entries', entries, e)
  BY <1>0, <1>1, <1>6, RotatedIs
<1>8. r.cookie.nonce <= nonces
  <2>1. PICK x \in Tokens(c)!Rows(Tokens(c)!Purged) : x.key = key /\ x.nonce = r.cookie.nonce
    BY <1>0, <1>1, CurrentHasEntry
  <2>2. Shrunk(Tokens(c)!Purged, entries)
    BY <1>1, PurgedIs
  <2>3. x \in Tokens(c)!Rows(entries)
    BY <2>2, ShrunkRows
  <2> QED
    BY <2>1, <2>3 DEF TokenInv, Store
<1>9. Store(c)'
  <2>1. Store(c) /\ nonces' \in Nat /\ nonces <= nonces' /\ e.nonce <= nonces'
    BY <1>0, <1>1, <1>6 DEF TokenInv
  <2>2. \A p \in spent : p[2] \in 0 .. nonces
    BY DEF TokenInv, Store
  <2>3. <<e.key, e.nonce>> \notin spent'
    BY <1>0, <1>1, <1>2, <1>6, <1>8, <2>2
  <2>4. \A p \in spent' : p \in spent \/ (p[1] = e.key /\ p[2] \in 0 .. nonces)
    BY <1>0, <1>1, <1>2, <1>6, <1>8
  <2> QED
    BY <1>6, <1>7, <2>1, <2>3, <2>4, StoreWritten
<1>10. /\ net \in [c.tabs -> Messages(c)] /\ net' \in [c.tabs -> Messages(c)]
       /\ net'[t] = [is |-> "handling"] /\ \A u \in c.tabs : u # t => net'[u] = net[u]
  BY <1>0 DEF TokenInv, ClientsTyped, Messages
<1>11. /\ runs \in [c.tabs -> Nat] /\ runs' \in [c.tabs -> Nat] /\ runs[t] = 0 /\ runs'[t] = 1
       /\ \A u \in c.tabs : u # t => runs'[u] = runs[u]
  BY <1>0 DEF TokenInv, ClientsTyped, NotRunYet
<1>12. ClientsTyped(c)'
  <2>1. \A h \in handling : h.token.nonce \in Nat /\ h.token.nonce <= nonces
    BY DEF TokenInv, ClientsTyped, Handlers, Tokens!Token
  <2>2. \A h \in handling' : h.token.nonce <= nonces'
    BY <1>0, <1>1, <1>2, <1>5, <2>1
  <2>3. handling' \subseteq Handlers(c)
    BY <1>0, <1>4 DEF TokenInv, ClientsTyped
  <2> QED
    BY <1>0, <1>10, <1>11, <2>2, <2>3 DEF TokenInv, ClientsTyped
<1>13. ClientsWait(c)'
  <2>1. \A u \in c.tabs : tab'[u].pc = "idle" <=> net'[u].is = "none"
    BY <1>0, <1>10 DEF TokenInv, ClientsWait
  <2>2. \A h \in handling : h.tab \in c.tabs /\ (h.waited => h.tab # t /\ net'[h.tab].is = "handling")
    BY <1>0, <1>10 DEF TokenInv, ClientsTyped, Handlers, ClientsWait
  <2>3. \A h \in handling' : h.waited => net'[h.tab].is = "handling"
    BY <1>0, <1>5, <1>10, <2>2
  <2>4. \A g, h \in handling' : g.waited /\ h.waited /\ g.tab = h.tab => g = h
    BY <1>0, <1>5, <2>2 DEF TokenInv, ClientsWait
  <2> QED
    BY <2>1, <2>3, <2>4 DEF ClientsWait
<1>14. NotRunYet(c)'
  BY <1>10, <1>11 DEF TokenInv, NotRunYet
<1>15. OnlyProtectedRetried(c)'
  BY <1>0 DEF TokenInv, OnlyProtectedRetried
<1>16. TriesUsable(c)'
  <2> SUFFICES ASSUME NEW u \in c.tabs PROVE TryUsable(c, u)'
    BY DEF TriesUsable
  <2> QED
    BY <1>0, <1>10, TryOver DEF Tokens!OthersDisturbed
<1> QED
  BY <1>9, <1>12, <1>13, <1>14, <1>15, <1>16 DEF TokenInv

\* The answer of a handler, as far as the clients are concerned.
LEMMA RepliedKeeps ==
    ASSUME NEW c \in Settings, TokenInv(c), NEW h \in handling,
           NEW code \in {"done", "error"}, NEW token \in Cookies(c),
           NEW session \in Browsing(c) \cup {"keep"},
           handling' = handling \ {h}, live' \subseteq c.sessions,
           net' = Tokens(c)!Reply(h, Tokens(c)!Answer(code, token, session)),
           UNCHANGED <<boot, now, nonces, jar, tab, runs>>
    PROVE  /\ ClientsTyped(c)' /\ ClientsWait(c)' /\ NotRunYet(c)' /\ OnlyProtectedRetried(c)'
           /\ h.tab \in c.tabs
           /\ h.waited => net'[h.tab].is = "answer" /\ net'[h.tab].code \notin {"ok", "csrf"}
           /\ \A u \in c.tabs : u # h.tab \/ ~h.waited => net'[u] = net[u]
<1> DEFINE m == Tokens(c)!Answer(code, token, session)
<1>1. m \in Messages(c) /\ m.is = "answer" /\ m.code = code
  BY AnswerIs
<1>2. net' = IF h.waited THEN [net EXCEPT ![h.tab] = m] ELSE net
  BY DEF Tokens!Reply
<1>3. h.tab \in c.tabs /\ net \in [c.tabs -> Messages(c)]
  BY DEF TokenInv, ClientsTyped, Handlers
<1> HIDE DEF m
<1>4. /\ net' \in [c.tabs -> Messages(c)]
      /\ h.waited => net'[h.tab] = m
      /\ \A u \in c.tabs : u # h.tab \/ ~h.waited => net'[u] = net[u]
  BY <1>1, <1>2, <1>3
<1>5. ClientsTyped(c)'
  BY <1>4 DEF TokenInv, ClientsTyped
<1>6. ClientsWait(c)'
  <2>1. \A u \in c.tabs : tab'[u].pc = "idle" <=> net'[u].is = "none"
    BY <1>1, <1>3, <1>4 DEF TokenInv, ClientsWait
  <2>2. \A g \in handling' : g \in handling /\ g # h /\ g.tab \in c.tabs
    BY DEF TokenInv, ClientsTyped, Handlers
  <2>3. \A g \in handling' : g.waited /\ h.waited => g.tab # h.tab
    BY <2>2 DEF TokenInv, ClientsWait
  <2>4. \A g \in handling' : g.waited => net'[g.tab].is = "handling"
    BY <1>4, <2>2, <2>3 DEF TokenInv, ClientsWait
  <2> QED
    BY <2>1, <2>2, <2>4 DEF TokenInv, ClientsWait
<1>7. NotRunYet(c)'
  BY <1>1, <1>3, <1>4 DEF TokenInv, NotRunYet
<1>8. OnlyProtectedRetried(c)'
  BY DEF TokenInv, OnlyProtectedRetried
<1> QED
  BY <1>1, <1>3, <1>4, <1>5, <1>6, <1>7, <1>8

\* A handler that fails keeps the invariant.
LEMMA HandlerFailsKeeps ==
    ASSUME NEW c \in Settings, TokenInv(c), NEW h \in handling, Tokens(c)!HandlerFails(h)
    PROVE  TokenInv(c)'
<1>1. /\ handling' = handling \ {h}
      /\ net' = Tokens(c)!Reply(h, Tokens(c)!Answer("error", None, "keep"))
      /\ UNCHANGED <<entries, boot, now, nonces, live, jar, tab, runs, spent, disturbed>>
  BY DEF Tokens!HandlerFails, Tokens!Keep
<1>2. live' \subseteq c.sessions /\ None \in Cookies(c)
  BY <1>1 DEF TokenInv, ClientsTyped, Cookies
<1>3. /\ ClientsTyped(c)' /\ ClientsWait(c)' /\ NotRunYet(c)' /\ OnlyProtectedRetried(c)'
      /\ h.tab \in c.tabs
      /\ h.waited => net'[h.tab].is = "answer" /\ net'[h.tab].code \notin {"ok", "csrf"}
      /\ \A u \in c.tabs : u # h.tab \/ ~h.waited => net'[u] = net[u]
  BY <1>1, <1>2, RepliedKeeps
<1>4. Store(c)'
  BY <1>1, StoreSame DEF TokenInv
<1>5. TriesUsable(c)'
  <2> SUFFICES ASSUME NEW u \in c.tabs PROVE TryUsable(c, u)'
    BY DEF TriesUsable
  <2>1. CASE u = h.tab /\ h.waited
    BY <1>3, <2>1, TryOver
  <2>2. CASE u # h.tab \/ ~h.waited
    BY <1>1, <1>3, <2>2, TryKept DEF TokenInv, TriesUsable
  <2> QED
    BY <2>1, <2>2
<1> QED
  BY <1>3, <1>4, <1>5 DEF TokenInv

\* A handler that returns, with the next token in its answer, keeps the invariant.
LEMMA HandlerReturnsKeeps ==
    ASSUME NEW c \in Settings, TokenInv(c), NEW h \in handling, Tokens(c)!HandlerReturns(h)
    PROVE  TokenInv(c)'
<1>1. PICK ok \in BOOLEAN, s \in IF h.kind = "login" THEN (c.sessions \ live) \cup {None} ELSE {None} :
        LET loggedOut == h.kind = "logout" /\ ok
            code == IF loggedOut \/ h.stale THEN None ELSE IF s # None THEN s ELSE "keep"
        IN  /\ h.kind # "logout" => ok
            /\ s # None => \A e \in Tokens(c)!Rows(entries) : e.key[1] # s
            /\ s # None => \A p \in spent : p[1][1] # s
            /\ s # None => jar.session # s
            /\ live' = CASE loggedOut -> live \ {h.session}
                         [] s # None -> live \cup {s}
                         [] OTHER -> live
            /\ entries' = IF s = None THEN entries
                          ELSE Tokens(c)!Replaced(Tokens(c)!Key(s, h.token.flow), h.token.nonce)
            /\ handling' = handling \ {h}
            /\ net' = Tokens(c)!Reply(h, Tokens(c)!Answer("done", h.token, code))
            /\ disturbed' = [Tokens(c)!OthersDisturbed(h.tab) EXCEPT ![h.tab] = ~h.waited \/ @]
            /\ UNCHANGED <<boot, now, nonces, jar, tab, runs, spent>>
  BY DEF Tokens!HandlerReturns, Tokens!Keep
<1> DEFINE loggedOut == h.kind = "logout" /\ ok
           code == IF loggedOut \/ h.stale THEN None ELSE IF s # None THEN s ELSE "keep"
<1>2. /\ s \in Browsing(c) /\ code \in Browsing(c) \cup {"keep"}
      /\ live' \subseteq c.sessions
  BY <1>1 DEF TokenInv, ClientsTyped, Browsing
<1>3. /\ h.token \in Tokens(c)!Token /\ h.token \in Cookies(c) /\ h.token.flow \in Nat
      /\ h.token.nonce \in Nat \ {0} /\ h.token.nonce <= nonces
  BY DEF TokenInv, ClientsTyped, Handlers, Cookies, Tokens!Token
<1>4. /\ net' = Tokens(c)!Reply(h, Tokens(c)!Answer("done", h.token, code))
      /\ handling' = handling \ {h}
      /\ disturbed' = [Tokens(c)!OthersDisturbed(h.tab) EXCEPT ![h.tab] = ~h.waited \/ @]
      /\ UNCHANGED <<boot, now, nonces, jar, tab, runs, spent>>
  BY <1>1
<1> HIDE DEF code
<1>5. /\ ClientsTyped(c)' /\ ClientsWait(c)' /\ NotRunYet(c)' /\ OnlyProtectedRetried(c)'
      /\ h.tab \in c.tabs
      /\ h.waited => net'[h.tab].is = "answer" /\ net'[h.tab].code \notin {"ok", "csrf"}
      /\ \A u \in c.tabs : u # h.tab \/ ~h.waited => net'[u] = net[u]
  BY <1>2, <1>3, <1>4, RepliedKeeps
<1>6. Store(c)'
  <2>1. CASE s = None
    BY <1>1, <1>4, <2>1, StoreSame DEF TokenInv
  <2>2. CASE s # None
    <3> DEFINE key == Tokens(c)!Key(s, h.token.flow)
               e == Tokens(c)!Entry(key, h.token.nonce)
    <3>1. /\ e \in Row(c) /\ e.key = key /\ e.nonce = h.token.nonce
          /\ e.exp \in 1 .. (c.maxTime + c.ttl)
      BY <1>2, <1>3, EntryIs DEF TokenInv
    <3>2. key = <<s, 0>>
      BY <2>2 DEF Tokens!Key
    <3> HIDE DEF e, key
    <3>3. entries' = Tokens(c)!Replaced(key, h.token.nonce)
      BY <1>1, <2>2 DEF key
    <3>4. Store(c) /\ entries \in Seq(Row(c)) /\ Bounded(c, entries) /\ nonces \in Nat
      BY DEF TokenInv, Store
    <3>5. Written(c, entries', entries, e)
      BY <3>1, <3>3, <3>4, ReplacedIs DEF e
    <3>6. <<e.key, e.nonce>> \notin spent
      <4>1. \A p \in spent : p[1][1] # s
        BY <1>1, <2>2
      <4> QED
        BY <3>1, <3>2, <4>1
    <3>7. nonces' \in Nat /\ nonces <= nonces' /\ e.nonce <= nonces' /\ spent' = spent
      BY <1>3, <1>4, <3>1, <3>4
    <3> QED
      BY <3>1, <3>4, <3>5, <3>6, <3>7, StoreWritten
  <2> QED
    BY <2>1, <2>2
<1>7. TriesUsable(c)'
  <2> SUFFICES ASSUME NEW u \in c.tabs PROVE TryUsable(c, u)'
    BY DEF TriesUsable
  <2>1. CASE u = h.tab /\ h.waited
    BY <1>5, <2>1, TryOver
  <2>2. CASE u # h.tab \/ ~h.waited
    BY <1>4, <2>2, TryOver DEF Tokens!OthersDisturbed
  <2> QED
    BY <2>1, <2>2
<1> QED
  BY <1>5, <1>6, <1>7 DEF TokenInv

----------------------------------------------------------------------------
(* The steps of the browser. *)

\* An idle tab sends its first request.
LEMMA BegunKeeps ==
    ASSUME NEW c \in Settings, TokenInv(c), NEW t \in c.tabs, tab[t].pc = "idle",
           NEW x \in TabStates(c), x.pc # "idle", x.tries # 2, x.pc = "sync" => x.kind # "login",
           NEW m \in Messages(c), m.is \in {"get", "post"},
           m.is = "post" => x.kind # "upload",
           tab' = [tab EXCEPT ![t] = x], net' = [net EXCEPT ![t] = m],
           runs' = [runs EXCEPT ![t] = 0],
           UNCHANGED <<entries, boot, now, nonces, live, handling, spent, jar, disturbed>>
    PROVE  TokenInv(c)'
<1>1. /\ net \in [c.tabs -> Messages(c)] /\ net' \in [c.tabs -> Messages(c)]
      /\ net'[t] = m /\ \A u \in c.tabs : u # t => net'[u] = net[u]
  BY DEF TokenInv, ClientsTyped
<1>2. /\ tab \in [c.tabs -> TabStates(c)] /\ tab' \in [c.tabs -> TabStates(c)]
      /\ tab'[t] = x /\ \A u \in c.tabs : u # t => tab'[u] = tab[u]
  BY DEF TokenInv, ClientsTyped
<1>3. /\ runs \in [c.tabs -> Nat] /\ runs' \in [c.tabs -> Nat] /\ runs'[t] = 0
      /\ \A u \in c.tabs : u # t => runs'[u] = runs[u]
  BY DEF TokenInv, ClientsTyped
<1>4. Store(c)'
  BY StoreSame DEF TokenInv
<1>5. ClientsTyped(c)'
  BY <1>1, <1>2, <1>3 DEF TokenInv, ClientsTyped
<1>6. ClientsWait(c)'
  <2>1. \A u \in c.tabs : tab'[u].pc = "idle" <=> net'[u].is = "none"
    BY <1>1, <1>2 DEF TokenInv, ClientsWait
  <2>2. \A h \in handling : h.tab \in c.tabs /\ (h.waited => h.tab # t)
    BY DEF TokenInv, ClientsTyped, Handlers, ClientsWait
  <2> QED
    BY <1>1, <2>1, <2>2 DEF TokenInv, ClientsWait
<1>7. NotRunYet(c)'
  BY <1>1, <1>3 DEF TokenInv, NotRunYet
<1>8. OnlyProtectedRetried(c)'
  BY <1>2 DEF TokenInv, OnlyProtectedRetried
<1>9. TriesUsable(c)'
  <2> SUFFICES ASSUME NEW u \in c.tabs PROVE TryUsable(c, u)'
    BY DEF TriesUsable
  <2>1. CASE u = t
    BY <1>1, <1>2, <2>1 DEF TryUsable
  <2>2. CASE u # t
    BY <1>1, <1>2, <2>2, TryKept DEF TokenInv, TriesUsable
  <2> QED
    BY <2>1, <2>2
<1> QED
  BY <1>4, <1>5, <1>6, <1>7, <1>8, <1>9 DEF TokenInv

\* A tab that starts a write keeps the invariant.
LEMMA StartWriteKeeps ==
    ASSUME NEW c \in Settings, TokenInv(c), NEW t \in c.tabs, NEW k \in c.kinds,
           Tokens(c)!StartWrite(t, k)
    PROVE  TokenInv(c)'
<1> DEFINE sync == k = "upload" \/ (k # "login" /\ tab[t].mem = None)
           x == [pc |-> IF sync THEN "sync" ELSE "sent", mem |-> tab[t].mem,
                 kind |-> k, tries |-> 1]
           m == IF sync THEN Tokens(c)!SendGet(jar) ELSE Tokens(c)!SendPost(jar, tab[t].mem)
<1>1. /\ tab[t].pc = "idle"
      /\ tab' = [tab EXCEPT ![t] = [pc |-> IF sync THEN "sync" ELSE "sent",
                                    mem |-> @.mem, kind |-> k, tries |-> 1]]
      /\ net' = [net EXCEPT ![t] = m] /\ runs' = [runs EXCEPT ![t] = 0]
      /\ UNCHANGED <<entries, boot, now, nonces, live, handling, spent, jar, disturbed>>
  BY DEF Tokens!StartWrite, Tokens!server
<1>2. /\ tab \in [c.tabs -> TabStates(c)] /\ tab[t].mem \in Cookies(c)
      /\ jar \in [csrf : Cookies(c), session : Browsing(c)]
  BY DEF TokenInv, ClientsTyped, TabStates
<1>3. tab' = [tab EXCEPT ![t] = x]
  BY <1>1, <1>2
<1>4. /\ x \in TabStates(c) /\ x.pc # "idle" /\ x.tries # 2 /\ (x.pc = "sync" => x.kind # "login")
      /\ ~sync => x.kind # "upload"
  BY <1>2 DEF TabStates
<1>5. m \in Messages(c) /\ m.is \in {"get", "post"} /\ (m.is = "post" => ~sync)
  BY <1>2, SentIs
<1> HIDE DEF x, m, sync
<1> QED
  BY <1>1, <1>3, <1>4, <1>5, BegunKeeps

\* A tab that opens a page keeps the invariant.
LEMMA OpenPageKeeps ==
    ASSUME NEW c \in Settings, TokenInv(c), NEW t \in c.tabs, Tokens(c)!OpenPage(t)
    PROVE  TokenInv(c)'
<1> DEFINE x == [Tokens(c)!Idle EXCEPT !.pc = "page"]
           m == Tokens(c)!SendGet(jar)
<1>1. /\ tab[t].pc = "idle" /\ tab' = [tab EXCEPT ![t] = x]
      /\ net' = [net EXCEPT ![t] = m] /\ runs' = [runs EXCEPT ![t] = 0]
      /\ UNCHANGED <<entries, boot, now, nonces, live, handling, spent, jar, disturbed>>
  BY DEF Tokens!OpenPage, Tokens!server
<1>2. /\ x \in TabStates(c) /\ x.pc # "idle" /\ x.tries # 2 /\ (x.pc = "sync" => x.kind # "login")
  BY DEF TabStates, Tokens!Idle, Cookies
<1>3. m \in Messages(c) /\ m.is = "get"
  BY SentIs DEF TokenInv, ClientsTyped, Cookies
<1> HIDE DEF x, m
<1> QED
  BY <1>1, <1>2, <1>3, BegunKeeps

\* A tab stops waiting: it and the server forget its request.
LEMMA LoseConnectionKeeps ==
    ASSUME NEW c \in Settings, TokenInv(c), NEW t \in c.tabs, Tokens(c)!LoseConnection(t)
    PROVE  TokenInv(c)'
<1> DEFINE x == Tokens(c)!Broken(t)
           m == Tokens(c)!Silent
           left(h) == IF h.tab = t THEN [h EXCEPT !.waited = FALSE] ELSE h
<1>1. /\ tab' = [tab EXCEPT ![t] = x] /\ net' = [net EXCEPT ![t] = m]
      /\ handling' = {left(h) : h \in handling}
      /\ UNCHANGED <<entries, boot, now, nonces, live, jar, runs, spent, disturbed>>
  BY DEF Tokens!LoseConnection
<1>2. x \in TabStates(c) /\ x.pc = "idle" /\ x.tries = 0
  BY DEF Tokens!Broken, Tokens!Idle, TokenInv, ClientsTyped, TabStates, Cookies
<1>3. m \in Messages(c) /\ m.is = "none"
  BY DEF Tokens!Silent, Messages
<1> HIDE DEF x, m
<1>4. /\ net \in [c.tabs -> Messages(c)] /\ net' \in [c.tabs -> Messages(c)]
      /\ net'[t] = m /\ \A u \in c.tabs : u # t => net'[u] = net[u]
  BY <1>1, <1>3 DEF TokenInv, ClientsTyped
<1>5. /\ tab \in [c.tabs -> TabStates(c)] /\ tab' \in [c.tabs -> TabStates(c)]
      /\ tab'[t] = x /\ \A u \in c.tabs : u # t => tab'[u] = tab[u]
  BY <1>1, <1>2 DEF TokenInv, ClientsTyped
<1>6. /\ handling' \subseteq Handlers(c)
      /\ \A g \in handling' : g.token.nonce <= nonces
      /\ \A g \in handling' : g.waited => g \in handling /\ g.tab # t
  <2> SUFFICES ASSUME NEW g \in handling'
               PROVE  g \in Handlers(c) /\ g.token.nonce <= nonces
                      /\ (g.waited => g \in handling /\ g.tab # t)
    OBVIOUS
  <2>1. PICK h \in handling : g = left(h)
    BY <1>1
  <2>2. h \in Handlers(c) /\ h.token.nonce <= nonces
    BY DEF TokenInv, ClientsTyped
  <2>3. CASE h.tab = t
    BY <2>1, <2>2, <2>3 DEF Handlers
  <2>4. CASE h.tab # t
    BY <2>1, <2>2, <2>4
  <2> QED
    BY <2>3, <2>4
<1>7. Store(c)'
  BY <1>1, StoreSame DEF TokenInv
<1>8. ClientsTyped(c)'
  BY <1>1, <1>4, <1>5, <1>6 DEF TokenInv, ClientsTyped
<1>9. ClientsWait(c)'
  <2>1. \A u \in c.tabs : tab'[u].pc = "idle" <=> net'[u].is = "none"
    BY <1>2, <1>3, <1>4, <1>5 DEF TokenInv, ClientsWait
  <2>2. \A h \in handling' : h.tab \in c.tabs
    BY <1>6 DEF Handlers
  <2>3. \A h \in handling' : h.waited => net'[h.tab].is = "handling"
    BY <1>4, <1>6, <2>2 DEF TokenInv, ClientsWait
  <2>4. \A g, h \in handling' : g.waited /\ h.waited /\ g.tab = h.tab => g = h
    BY <1>6 DEF TokenInv, ClientsWait
  <2> QED
    BY <2>1, <2>3, <2>4 DEF ClientsWait
<1>10. NotRunYet(c)'
  BY <1>1, <1>3, <1>4 DEF TokenInv, NotRunYet
<1>11. OnlyProtectedRetried(c)'
  BY <1>2, <1>5 DEF TokenInv, OnlyProtectedRetried
<1>12. TriesUsable(c)'
  <2> SUFFICES ASSUME NEW u \in c.tabs PROVE TryUsable(c, u)'
    BY DEF TriesUsable
  <2>1. CASE u = t
    BY <1>3, <1>4, <2>1, TryOver
  <2>2. CASE u # t
    BY <1>1, <1>4, <1>5, <2>2, TryKept DEF TokenInv, TriesUsable
  <2> QED
    BY <2>1, <2>2
<1> QED
  BY <1>7, <1>8, <1>9, <1>10, <1>11, <1>12 DEF TokenInv

\* A tab that receives an answer, and may try again with its token, keeps the invariant.
LEMMA ReceiveKeeps ==
    ASSUME NEW c \in Settings, TokenInv(c), NEW t \in c.tabs, Tokens(c)!Receive(t)
    PROVE  TokenInv(c)'
<1> DEFINE a == net[t]
           j == [csrf |-> IF a.token = None THEN jar.csrf ELSE a.token,
                 session |-> IF a.session = "keep" THEN jar.session ELSE a.session]
           mem == IF a.token # None THEN a.token
                  ELSE IF a.code = "error" THEN None ELSE tab[t].mem
           next == CASE tab[t].pc = "sync" /\ a.code = "ok" -> "sent"
                     [] tab[t].pc = "sent" /\ Tokens(c)!Retried(t, a) -> "sent"
                     [] tab[t].pc = "sent" /\ tab[t].kind = "login" /\ a.code = "csrf" -> "page"
                     [] OTHER -> "idle"
           x == [pc |-> next, mem |-> mem, kind |-> tab[t].kind,
                 tries |-> IF tab[t].pc = "sent" /\ next = "sent" THEN 2 ELSE tab[t].tries]
           m == CASE next = "sent" -> Tokens(c)!SendPost(j, mem)
                  [] next = "page" -> Tokens(c)!SendGet(j)
                  [] OTHER -> Tokens(c)!Silent
<1>0. /\ tab \in [c.tabs -> TabStates(c)] /\ net \in [c.tabs -> Messages(c)]
      /\ jar \in [csrf : Cookies(c), session : Browsing(c)]
      /\ tab[t] \in TabStates(c)
  BY DEF TokenInv, ClientsTyped
<1>1. /\ a.is = "answer" /\ jar' = j
      /\ tab' = [tab EXCEPT ![t] = x] /\ net' = [net EXCEPT ![t] = m]
      /\ disturbed' = IF j = jar THEN disturbed ELSE Tokens(c)!OthersDisturbed(t)
      /\ UNCHANGED <<entries, boot, now, nonces, live, handling, spent, runs>>
  BY <1>0 DEF Tokens!Receive, Tokens!server, Tokens!Keep
<1>2. /\ a.code \in {"ok", "busy", "csrf", "unauthorized", "done", "error"}
      /\ a.token \in Cookies(c) /\ a.session \in Browsing(c) \cup {"keep"}
  BY <1>0, <1>1, MessageIs
<1>3. j \in [csrf : Cookies(c), session : Browsing(c)] /\ mem \in Cookies(c)
  BY <1>0, <1>2 DEF TabStates, Cookies, Browsing
<1>4. /\ next \in {"sent", "page", "idle"}
      /\ next = "sent" => \/ tab[t].pc = "sync" /\ a.code = "ok"
                          \/ tab[t].pc = "sent" /\ Tokens(c)!Retried(t, a)
      /\ next = "page" => a.code = "csrf"
  OBVIOUS
<1>5. next = "sent" => /\ tab[t].kind # "login" /\ tab[t].pc \in {"sync", "sent"}
                       /\ a.code \in {"ok", "csrf"}
  BY <1>4 DEF Tokens!Retried, TokenInv, OnlyProtectedRetried
<1>6. x \in TabStates(c) /\ x.pc = next /\ x.kind = tab[t].kind
      /\ (x.tries = 2 => next = "sent" \/ tab[t].tries = 2)
  BY <1>0, <1>3, <1>4 DEF TabStates
<1>7. /\ m \in Messages(c)
      /\ next = "sent" => m.is = "post" /\ m.cookie = j.csrf /\ m.header = mem /\ m.session = j.session
      /\ next = "page" => m.is = "get"
      /\ next = "idle" => m.is = "none"
  BY <1>3, <1>4, SentIs
<1> HIDE DEF j, mem, next, x, m
<1>8. /\ net' \in [c.tabs -> Messages(c)]
      /\ net'[t] = m /\ \A u \in c.tabs : u # t => net'[u] = net[u]
  BY <1>0, <1>1, <1>7
<1>9. /\ tab' \in [c.tabs -> TabStates(c)]
      /\ tab'[t] = x /\ \A u \in c.tabs : u # t => tab'[u] = tab[u]
  BY <1>0, <1>1, <1>6
<1>10. Store(c)'
  BY <1>1, StoreSame DEF TokenInv
<1>11. ClientsTyped(c)'
  BY <1>1, <1>3, <1>8, <1>9 DEF TokenInv, ClientsTyped
<1>12. ClientsWait(c)'
  <2>1. \A u \in c.tabs : tab'[u].pc = "idle" <=> net'[u].is = "none"
    BY <1>4, <1>6, <1>7, <1>8, <1>9 DEF TokenInv, ClientsWait
  <2>2. \A h \in handling : h.tab \in c.tabs /\ (h.waited => h.tab # t)
    BY <1>1 DEF TokenInv, ClientsTyped, Handlers, ClientsWait
  <2> QED
    BY <1>1, <1>8, <2>1, <2>2 DEF TokenInv, ClientsWait
<1>13. NotRunYet(c)'
  <2>1. m.is \in {"get", "post"} => runs[t] = 0
    BY <1>1, <1>4, <1>5, <1>7 DEF TokenInv, NotRunYet
  <2>2. m.is # "answer"
    BY <1>4, <1>7
  <2> QED
    BY <1>1, <1>8, <2>1, <2>2 DEF TokenInv, NotRunYet
<1>14. OnlyProtectedRetried(c)'
  BY <1>4, <1>5, <1>6, <1>9 DEF TokenInv, OnlyProtectedRetried
<1>15. TriesUsable(c)'
  <2> SUFFICES ASSUME NEW u \in c.tabs PROVE TryUsable(c, u)'
    BY DEF TriesUsable
  <2>1. CASE u # t
    <3>1. j = jar => UNCHANGED <<jar, disturbed>>
      BY <1>1
    <3>2. j # jar => disturbed'[u]
      BY <1>1, <2>1 DEF Tokens!OthersDisturbed
    <3>3. CASE j = jar
      BY <1>1, <1>8, <1>9, <2>1, <3>1, <3>3, TryKept DEF TokenInv, TriesUsable
    <3> QED
      BY <3>2, <3>3, TryOver
  <2>2. CASE u = t /\ next # "sent"
    BY <1>4, <1>7, <1>8, <2>2, TryOver
  <2>3. CASE u = t /\ next = "sent" /\ disturbed'[t]
    BY <2>3, TryOver
  <2>4. CASE u = t /\ next = "sent" /\ ~disturbed'[t]
    <3>1. ~disturbed[t]
      BY <1>1, <2>4 DEF Tokens!OthersDisturbed
    <3>2. a.session = "keep" /\ Usable(c, a.token, jar.session)
      BY <1>1, <1>5, <2>4, <3>1 DEF TokenInv, TriesUsable, TryUsable
    <3>3. j.csrf = a.token /\ j.session = jar.session /\ mem = a.token
      BY <3>2 DEF Usable, j, mem
    <3>4. PICK v, s : v = a.token /\ s = jar.session
      OBVIOUS
    <3>5. Usable(c, v, s)'
      BY <1>1, <3>2, <3>4, UsableSame
    <3>6. net'[t].is = "post" /\ net'[t].header = v /\ net'[t].cookie = v /\ net'[t].session = s
      BY <1>7, <1>8, <2>4, <3>3, <3>4
    <3> QED
      BY <2>4, <3>5, <3>6 DEF TryUsable
  <2> QED
    BY <2>1, <2>2, <2>3, <2>4
<1> QED
  BY <1>10, <1>11, <1>12, <1>13, <1>14, <1>15 DEF TokenInv

----------------------------------------------------------------------------
(* The steps of the surroundings. *)

\* Whatever else happens, every tab may find its token out of date.
LEMMA AllDisturbed ==
    ASSUME NEW c \in Settings, disturbed' = Tokens(c)!Everyone
    PROVE  TriesUsable(c)'
BY TryOver DEF TriesUsable, Tokens!Everyone

\* Another client that takes room in the registry keeps the invariant.
LEMMA StrangerKeeps ==
    ASSUME NEW c \in Settings, TokenInv(c), Tokens(c)!Stranger
    PROVE  TokenInv(c)'
<1>1. PICK identity \in c.strangers :
        /\ entries' = Tokens(c)!Replaced(<<identity, nonces + 1>>, nonces + 1)
        /\ nonces' = nonces + 1 /\ disturbed' = Tokens(c)!Everyone
        /\ UNCHANGED <<boot, now, live, jar, tab, net, handling, runs, spent>>
  BY DEF Tokens!Stranger
<1> DEFINE key == <<identity, nonces + 1>>
           e == Tokens(c)!Entry(key, nonces + 1)
<1>2. /\ Store(c) /\ entries \in Seq(Row(c)) /\ Bounded(c, entries) /\ nonces \in Nat
      /\ now \in 0 .. c.maxTime /\ c.ttl \in Nat /\ c.ttl > 0 /\ c.maxTime \in Nat
  BY SettingBounds DEF TokenInv, Store, ClientsTyped
<1>3. /\ e \in Row(c) /\ e.key = key /\ e.nonce = nonces + 1
      /\ e.exp \in 1 .. (c.maxTime + c.ttl)
  <2>1. now + c.ttl \in 1 .. (c.maxTime + c.ttl)
    BY <1>2
  <2>2. key \in Identities(c) \X Nat
    BY <1>2 DEF Identities
  <2> QED
    BY <1>2, <2>1, <2>2 DEF Tokens!Entry, Row
<1>4. Written(c, entries', entries, e)
  BY <1>1, <1>2, <1>3, ReplacedIs
<1> HIDE DEF e
<1>5. Store(c)'
  <2>1. nonces' \in Nat /\ nonces <= nonces' /\ e.nonce <= nonces' /\ spent' = spent
    BY <1>1, <1>2, <1>3
  <2>2. <<e.key, e.nonce>> \notin spent
    BY <1>2, <1>3 DEF Store
  <2> QED
    BY <1>2, <1>3, <1>4, <2>1, <2>2, StoreWritten
<1>6. ClientsTyped(c)'
  <2>1. \A h \in handling : h.token.nonce \in Nat /\ h.token.nonce <= nonces
    BY DEF TokenInv, ClientsTyped, Handlers, Tokens!Token
  <2>2. \A h \in handling : h.token.nonce <= nonces'
    BY <1>1, <1>2, <2>1
  <2> QED
    BY <1>1, <2>2 DEF TokenInv, ClientsTyped
<1>7. ClientsWait(c)' /\ NotRunYet(c)' /\ OnlyProtectedRetried(c)'
  BY <1>1 DEF TokenInv, ClientsWait, NotRunYet, OnlyProtectedRetried
<1> QED
  BY <1>1, <1>5, <1>6, <1>7, AllDisturbed DEF TokenInv

\* A session that ends keeps the invariant.
LEMMA SessionEndsKeeps ==
    ASSUME NEW c \in Settings, TokenInv(c), NEW s, Tokens(c)!SessionEnds(s)
    PROVE  TokenInv(c)'
<1>1. /\ live' \subseteq live
      /\ UNCHANGED <<entries, boot, now, nonces, jar, tab, net, handling, runs, spent, disturbed>>
  BY DEF Tokens!SessionEnds
<1>2. Store(c)'
  BY <1>1, StoreSame DEF TokenInv
<1>3. ClientsTyped(c)' /\ ClientsWait(c)' /\ NotRunYet(c)' /\ OnlyProtectedRetried(c)'
  BY <1>1 DEF TokenInv, ClientsTyped, ClientsWait, NotRunYet, OnlyProtectedRetried
<1>4. TriesUsable(c)'
  <2> SUFFICES ASSUME NEW u \in c.tabs PROVE TryUsable(c, u)'
    BY DEF TriesUsable
  <2> QED
    BY <1>1, TryKept DEF TokenInv, TriesUsable
<1> QED
  BY <1>2, <1>3, <1>4 DEF TokenInv

\* Time that passes keeps the invariant.
LEMMA TickKeeps ==
    ASSUME NEW c \in Settings, TokenInv(c), Tokens(c)!Tick
    PROVE  TokenInv(c)'
<1>1. /\ now < c.maxTime /\ now' = now + 1 /\ disturbed' = Tokens(c)!Everyone
      /\ UNCHANGED <<entries, boot, nonces, live, jar, tab, net, handling, runs, spent>>
  BY DEF Tokens!Tick
<1>2. Store(c)'
  BY <1>1, StoreSame DEF TokenInv
<1>3. ClientsTyped(c)'
  BY <1>1, SettingBounds DEF TokenInv, ClientsTyped
<1>4. ClientsWait(c)' /\ NotRunYet(c)' /\ OnlyProtectedRetried(c)'
  BY <1>1 DEF TokenInv, ClientsWait, NotRunYet, OnlyProtectedRetried
<1> QED
  BY <1>1, <1>2, <1>3, <1>4, AllDisturbed DEF TokenInv

\* No registry is empty and within every limit.
LEMMA NothingStored ==
    ASSUME NEW c \in Settings
    PROVE  <<>> \in Seq(Row(c)) /\ Bounded(c, <<>>) /\ Tokens(c)!Rows(<<>>) = {}
<1>1. \A x : Flows(<<>>, x) = {}
  BY DEF Flows
<1>2. \A x : Cardinality(Flows(<<>>, x)) = 0
  BY <1>1, FS_EmptySet
<1> QED
  BY <1>2, SettingBounds DEF Bounded, Tokens!Rows

\* A restart of the server, with an empty registry, keeps the invariant.
LEMMA RestartKeeps ==
    ASSUME NEW c \in Settings, TokenInv(c), Tokens(c)!Restart
    PROVE  TokenInv(c)'
<1>1. /\ boot < c.maxBoot /\ boot' = boot + 1 /\ entries' = <<>> /\ handling' = {}
      /\ net' = [t \in c.tabs |-> Tokens(c)!Silent]
      /\ tab' = [t \in c.tabs |-> IF tab[t].pc = "idle" THEN tab[t] ELSE Tokens(c)!Broken(t)]
      /\ disturbed' = Tokens(c)!Everyone
      /\ UNCHANGED <<now, nonces, live, jar, runs, spent>>
  BY DEF Tokens!Restart
<1>2. \A t \in c.tabs : /\ Tokens(c)!Broken(t) \in TabStates(c)
                        /\ Tokens(c)!Broken(t).pc = "idle" /\ Tokens(c)!Broken(t).tries = 0
  BY DEF Tokens!Broken, Tokens!Idle, TokenInv, ClientsTyped, TabStates, Cookies
<1>3. Tokens(c)!Silent \in Messages(c) /\ Tokens(c)!Silent.is = "none"
  BY DEF Tokens!Silent, Messages
<1>4. /\ net' \in [c.tabs -> Messages(c)] /\ \A t \in c.tabs : net'[t].is = "none"
  BY <1>1, <1>3
<1>5. /\ tab \in [c.tabs -> TabStates(c)] /\ tab' \in [c.tabs -> TabStates(c)]
      /\ \A t \in c.tabs : /\ tab'[t].pc = "idle"
                           /\ tab'[t] = tab[t] \/ tab'[t].tries = 0
  BY <1>1, <1>2 DEF TokenInv, ClientsTyped
<1>6. Store(c)'
  <2>1. \A p \in spent' : p[2] \in 0 .. nonces'
    BY <1>1 DEF TokenInv, Store
  <2> QED
    BY <1>1, <2>1, NothingStored DEF TokenInv, Store, Tokens!SpentNeverCurrent
<1>7. ClientsTyped(c)'
  <2>1. boot' \in 1 .. c.maxBoot
    BY <1>1, WebBounds DEF TokenInv, ClientsTyped, Tokens!CsrfBounds
  <2> QED
    BY <1>1, <1>4, <1>5, <2>1 DEF TokenInv, ClientsTyped
<1>8. ClientsWait(c)'
  BY <1>1, <1>4, <1>5 DEF ClientsWait
<1>9. NotRunYet(c)'
  BY <1>1, <1>4 DEF TokenInv, NotRunYet
<1>10. OnlyProtectedRetried(c)'
  BY <1>5 DEF TokenInv, OnlyProtectedRetried
<1> QED
  BY <1>1, <1>6, <1>7, <1>8, <1>9, <1>10, AllDisturbed DEF TokenInv

\* The invariant holds at the start.
LEMMA TokensStart ==
    ASSUME NEW c \in Settings, Tokens(c)!Init
    PROVE  TokenInv(c)
<1>1. PICK s \in c.sessions \cup {None} :
        jar = [csrf |-> None, session |-> s] /\ live = {s} \ {None}
  BY DEF Tokens!Init
<1>2. Tokens(c)!Silent \in Messages(c) /\ Tokens(c)!Silent.is = "none"
  BY DEF Tokens!Silent, Messages
<1>3. Tokens(c)!Idle \in TabStates(c) /\ Tokens(c)!Idle.pc = "idle" /\ Tokens(c)!Idle.tries = 0
  BY DEF Tokens!Idle, TabStates, Cookies
<1>4. Store(c)
  BY NothingStored DEF Tokens!Init, Store, Tokens!SpentNeverCurrent
<1>5. ClientsTyped(c)
  BY <1>1, <1>2, <1>3, WebBounds, SettingBounds
     DEF Tokens!Init, ClientsTyped, Tokens!CsrfBounds, Cookies, Browsing
<1>6. ClientsWait(c) /\ NotRunYet(c) /\ OnlyProtectedRetried(c)
  BY <1>2, <1>3 DEF Tokens!Init, ClientsWait, NotRunYet, OnlyProtectedRetried
<1>7. TriesUsable(c)
  BY DEF Tokens!Init, Tokens!Everyone, TriesUsable, TryUsable
<1> QED
  BY <1>4, <1>5, <1>6, <1>7 DEF TokenInv

\* Every step keeps the invariant.
LEMMA TokensStep ==
    ASSUME NEW c \in Settings, TokenInv(c), Tokens(c)!Next
    PROVE  TokenInv(c)'
<1>1. ASSUME NEW t \in c.tabs, Tokens(c)!HandleGet(t) PROVE TokenInv(c)'
  BY <1>1, HandleGetKeeps
<1>2. ASSUME NEW t \in c.tabs, Tokens(c)!TooManyRequests(t) PROVE TokenInv(c)'
  BY <1>2, TooManyRequestsKeeps
<1>3. ASSUME NEW t \in c.tabs, Tokens(c)!Unauthorized(t) PROVE TokenInv(c)'
  BY <1>3, UnauthorizedKeeps
<1>4. ASSUME NEW t \in c.tabs, Tokens(c)!RejectPost(t) PROVE TokenInv(c)'
  BY <1>4, RejectPostKeeps
<1>5. ASSUME NEW t \in c.tabs, Tokens(c)!AcceptPost(t) PROVE TokenInv(c)'
  BY <1>5, AcceptPostKeeps
<1>6. ASSUME NEW t \in c.tabs, Tokens(c)!Receive(t) PROVE TokenInv(c)'
  BY <1>6, ReceiveKeeps
<1>7. ASSUME NEW t \in c.tabs, Tokens(c)!LoseConnection(t) PROVE TokenInv(c)'
  BY <1>7, LoseConnectionKeeps
<1>8. ASSUME NEW h \in handling, Tokens(c)!HandlerReturns(h) PROVE TokenInv(c)'
  BY <1>8, HandlerReturnsKeeps
<1>9. ASSUME NEW h \in handling, Tokens(c)!HandlerFails(h) PROVE TokenInv(c)'
  BY <1>9, HandlerFailsKeeps
<1>10. ASSUME NEW t \in c.tabs, Tokens(c)!OpenPage(t) PROVE TokenInv(c)'
  BY <1>10, OpenPageKeeps
<1>11. ASSUME NEW t \in c.tabs, NEW k \in c.kinds, Tokens(c)!StartWrite(t, k) PROVE TokenInv(c)'
  BY <1>11, StartWriteKeeps
<1>12. CASE Tokens(c)!Stranger
  BY <1>12, StrangerKeeps
<1>13. ASSUME NEW s \in c.sessions, Tokens(c)!SessionEnds(s) PROVE TokenInv(c)'
  BY <1>13, SessionEndsKeeps
<1>14. CASE Tokens(c)!Tick
  BY <1>14, TickKeeps
<1>15. CASE Tokens(c)!Restart
  BY <1>15, RestartKeeps
<1> QED
  BY <1>1, <1>2, <1>3, <1>4, <1>5, <1>6, <1>7, <1>8, <1>9, <1>10, <1>11, <1>12,
     <1>13, <1>14, <1>15 DEF Tokens!Next

\* The invariant holds on while the clients and the registry rest.
LEMMA TokensRest ==
    ASSUME NEW c \in Settings, TokenInv(c), UNCHANGED csrfVars
    PROVE  TokenInv(c)'
<1>1. UNCHANGED <<entries, boot, now, nonces, live, jar, tab, net, handling, runs, spent, disturbed>>
  BY DEF csrfVars
<1>2. Store(c)'
  BY <1>1, StoreSame DEF TokenInv
<1>3. ClientsTyped(c)' /\ ClientsWait(c)' /\ NotRunYet(c)' /\ OnlyProtectedRetried(c)'
  BY <1>1 DEF TokenInv, ClientsTyped, ClientsWait, NotRunYet, OnlyProtectedRetried
<1>4. TriesUsable(c)'
  <2> SUFFICES ASSUME NEW u \in c.tabs PROVE TryUsable(c, u)'
    BY DEF TriesUsable
  <2> QED
    BY <1>1, TryKept DEF TokenInv, TriesUsable
<1> QED
  BY <1>2, <1>3, <1>4 DEF TokenInv

\* What the invariant says of the registry.
LEMMA TokensAreCurrent ==
    ASSUME NEW c \in Settings, TokenInv(c)
    PROVE  Tokens(c)!TokensCurrent
<1>1. Tokens(c)!SpentNeverCurrent
  BY DEF TokenInv, Store
<1>2. Tokens(c)!StoreBounded
  BY StoreIsBounded DEF TokenInv, Store
<1>3. ASSUME NEW e \in Tokens(c)!Rows(entries)
      PROVE  e.nonce \in 1 .. nonces /\ e.exp \in 1 .. (c.maxTime + c.ttl)
  <2>1. e \in Row(c)
    BY DEF TokenInv, Store, Tokens!Rows
  <2> QED
    BY <2>1 DEF TokenInv, Store, Row
<1>4. ASSUME NEW t \in c.tabs
      PROVE  /\ tab[t].pc \in {"idle", "sync", "sent", "page"}
             /\ tab[t].mem \in Cookies(c)
             /\ net[t].is \in {"none", "get", "post", "handling", "answer"}
             /\ (tab[t].pc = "idle") <=> (net[t].is = "none")
  <2>1. tab[t] \in TabStates(c) /\ net[t] \in Messages(c)
    BY DEF TokenInv, ClientsTyped
  <2>2. net[t].is \in {"none", "handling", "get", "post", "answer"}
    BY <2>1, MessageIs
  <2> QED
    BY <2>1, <2>2 DEF TabStates, TokenInv, ClientsWait
<1>5. ASSUME NEW h \in handling PROVE h.tab \in c.tabs /\ h.token \in Tokens(c)!Token
  BY DEF TokenInv, ClientsTyped, Handlers
<1>6. /\ boot \in 1 .. c.maxBoot /\ now \in 0 .. c.maxTime /\ nonces \in Nat
      /\ live \subseteq c.sessions
      /\ jar.csrf \in Cookies(c) /\ jar.session \in Browsing(c)
  BY DEF TokenInv, ClientsTyped, Store
<1>7. Tokens(c)!TypeOK
  BY <1>3, <1>4, <1>5, <1>6 DEF Tokens!TypeOK, Cookies, Browsing
<1> QED
  BY <1>1, <1>2, <1>7 DEF Tokens!TokensCurrent

\* Only the middleware answers a write with a rejection, and only a write whose
\* token is not the current one of its scope.
LEMMA OnlyRejected ==
    ASSUME NEW c \in Settings, TokenInv(c), Tokens(c)!Next, NEW t \in c.tabs,
           net[t].is = "post", net'[t].is = "answer", net'[t].code = "csrf"
    PROVE  Tokens(c)!RejectPost(t)
<1>0. /\ net \in [c.tabs -> Messages(c)]
      /\ tab[t].pc # "idle" /\ \A h \in handling : h.waited => h.tab # t
  BY DEF TokenInv, ClientsTyped, ClientsWait
<1>1. ASSUME NEW u \in c.tabs, Tokens(c)!HandleGet(u) PROVE FALSE
  BY <1>0, <1>1 DEF Tokens!HandleGet, Tokens!Answer
<1>2. ASSUME NEW u \in c.tabs, Tokens(c)!TooManyRequests(u) PROVE FALSE
  BY <1>0, <1>2 DEF Tokens!TooManyRequests, Tokens!Answer
<1>3. ASSUME NEW u \in c.tabs, Tokens(c)!Unauthorized(u) PROVE FALSE
  BY <1>0, <1>3 DEF Tokens!Unauthorized, Tokens!Answer
<1>4. ASSUME NEW u \in c.tabs, Tokens(c)!RejectPost(u) PROVE u = t
  BY <1>0, <1>4 DEF Tokens!RejectPost
<1>5. ASSUME NEW u \in c.tabs, Tokens(c)!AcceptPost(u) PROVE FALSE
  BY <1>0, <1>5 DEF Tokens!AcceptPost
<1>6. ASSUME NEW u \in c.tabs, Tokens(c)!Receive(u) PROVE FALSE
  BY <1>0, <1>6 DEF Tokens!Receive
<1>7. ASSUME NEW u \in c.tabs, Tokens(c)!LoseConnection(u) PROVE FALSE
  BY <1>0, <1>7 DEF Tokens!LoseConnection, Tokens!Silent
<1>8. ASSUME NEW h \in handling, Tokens(c)!HandlerReturns(h) PROVE FALSE
  BY <1>0, <1>8 DEF Tokens!HandlerReturns, Tokens!Reply
<1>9. ASSUME NEW h \in handling, Tokens(c)!HandlerFails(h) PROVE FALSE
  BY <1>0, <1>9 DEF Tokens!HandlerFails, Tokens!Reply
<1>10. ASSUME NEW u \in c.tabs, Tokens(c)!OpenPage(u) PROVE FALSE
  BY <1>0, <1>10 DEF Tokens!OpenPage
<1>11. ASSUME NEW u \in c.tabs, NEW k \in c.kinds, Tokens(c)!StartWrite(u, k) PROVE FALSE
  BY <1>0, <1>11 DEF Tokens!StartWrite
<1>12. ASSUME Tokens(c)!Stranger PROVE FALSE
  BY <1>12 DEF Tokens!Stranger
<1>13. ASSUME NEW s \in c.sessions, Tokens(c)!SessionEnds(s) PROVE FALSE
  BY <1>13 DEF Tokens!SessionEnds
<1>14. ASSUME Tokens(c)!Tick PROVE FALSE
  BY <1>14 DEF Tokens!Tick
<1>15. ASSUME Tokens(c)!Restart PROVE FALSE
  BY <1>15 DEF Tokens!Restart, Tokens!Silent
<1> QED
  BY <1>1, <1>2, <1>3, <1>4, <1>5, <1>6, <1>7, <1>8, <1>9, <1>10, <1>11, <1>12,
     <1>13, <1>14, <1>15 DEF Tokens!Next

\* No step breaks Recoverable.
LEMMA TriesRecover ==
    ASSUME NEW c \in Settings, TokenInv(c), Tokens(c)!Next
    PROVE  Tokens(c)!Recoverable
<1> SUFFICES ASSUME NEW t \in c.tabs, net[t].is = "post", net'[t].is = "answer",
                    tab[t].tries = 2 \/ tab[t].kind = "upload",
                    net'[t].code = "csrf", ~disturbed[t]
             PROVE  FALSE
  BY DEF Tokens!Recoverable
<1>1. Tokens(c)!Admitted(t) /\ ~Tokens(c)!Valid(net[t])
  BY OnlyRejected DEF Tokens!RejectPost
<1>2. net[t].header = net[t].cookie /\ Usable(c, net[t].cookie, net[t].session)
  BY DEF TokenInv, TriesUsable, TryUsable
<1>3. net[t].session \in live
  BY <1>1 DEF Tokens!Admitted, Tokens!Protected, TokenInv, OnlyProtectedRetried
<1> QED
  BY <1>1, <1>2, <1>3 DEF Usable, Tokens!Valid, Tokens!ScopeOf


\* A behaviour is under one setting, for which the invariant holds.
SettingInv == \E c \in Settings : setting = c /\ TokenInv(c)

\* Every step stays under its setting and keeps its invariant.
LEMMA SettingKept ==
    SettingInv /\ [CsrfNext]_<<setting, csrfVars>> => SettingInv'
<1> SUFFICES ASSUME SettingInv, [CsrfNext]_<<setting, csrfVars>> PROVE SettingInv'
  OBVIOUS
<1>1. PICK c \in Settings : setting = c /\ TokenInv(c)
  BY DEF SettingInv
<1>2. CASE CsrfNext
  <2>1. Tokens(c)!Next /\ setting' = c
    BY <1>1, <1>2 DEF CsrfNext
  <2>2. TokenInv(c)'
    BY <1>1, <2>1, TokensStep
  <2> QED
    BY <2>1, <2>2 DEF SettingInv
<1>3. CASE UNCHANGED <<setting, csrfVars>>
  <2>1. TokenInv(c)' /\ setting' = c
    BY <1>1, <1>3, TokensRest
  <2> QED
    BY <2>1 DEF SettingInv
<1> QED
  BY <1>2, <1>3

\* The invariant holds at the start of every setting.
LEMMA SettingStart == CsrfInit => SettingInv
BY TokensStart DEF CsrfInit, SettingInv

\* One write of the user runs its handler at most once (executeMutation retries a
\* write that was rejected, and only that): whatever may still lead to a try of
\* the write has not run it.
THEOREM WritesRunOnce == CsrfSpec => []WriteRunsOnce
<1>1. SettingInv => WriteRunsOnce
  BY DEF SettingInv, TokenInv, NotRunYet, WriteRunsOnce, Tokens!WriteRunsOnce
<1> QED
  BY <1>1, SettingStart, SettingKept, PTL DEF CsrfSpec

\* A nonce that granted its attempt is never current again, and the registry of
\* write tokens keeps to its capacity and to the flows of one identity
\* (CurrentCsrfStore), at any time and under every setting.
THEOREM TokensAlwaysCurrent == CsrfSpec => []TokensCurrent
<1>1. SettingInv => TokensCurrent
  BY TokensAreCurrent DEF SettingInv, TokensCurrent
<1> QED
  BY <1>1, SettingStart, SettingKept, PTL DEF CsrfSpec

\* The token that comes with a rejection is good for the next try, unless
\* something intervened since the write began: only then is a write rejected twice.
THEOREM TriesAlwaysRecover == CsrfSpec => RecoverableOnce
<1>1. SettingInv /\ [CsrfNext]_<<setting, csrfVars>> => [Recoverable]_csrfVars
  <2> SUFFICES ASSUME SettingInv, CsrfNext PROVE Recoverable
    OBVIOUS
  <2>1. PICK c \in Settings : setting = c /\ TokenInv(c)
    BY DEF SettingInv
  <2>2. Tokens(c)!Next
    BY <2>1 DEF CsrfNext
  <2> QED
    BY <2>1, <2>2, TriesRecover DEF Recoverable
<1> QED
  BY <1>1, SettingStart, SettingKept, PTL DEF CsrfSpec, RecoverableOnce

----------------------------------------------------------------------------
(* New-mail events: their inductive invariant. *)

\* UIDs, and what a browser resumes from.
Uids == 0 .. MaxMail
Marks == Events!NoId .. MaxMail
\* The states of a stream, and of the sources of the tabs.
Streaming ==
    [pc : {"free", "read", "join", "ready", "catchup", "live", "leave"},
     q : [kind : {"nothing", "new_mail", "session_expired"}, uid : Uids],
     base : Uids, resume : Marks]
Sources ==
    [Requests -> [src : Tasks \cup {"closed", "waiting"}, cursor : Marks, owed : SUBSET inbox]]

\* What was read or told of does not pass what has arrived.
EventsTyped ==
    /\ arrived \in Uids /\ inbox \subseteq 1 .. arrived /\ access \in BOOLEAN
    /\ watch \in [on : BOOLEAN, run : BOOLEAN, latest : 0 .. arrived, subs : SUBSET Tasks,
                  pc : {"sleep", "apply"}, got : 0 .. arrived]
    /\ watch.on <=> watch.subs # {}
    /\ st \in [Tasks -> Streaming]
    /\ \A s \in Tasks : st[s].base <= arrived /\ st[s].q.uid <= arrived
    /\ source \in Sources /\ \A t \in Requests : source[t].cursor <= arrived

\* A tab hears a stream until that ends, and the stream resumes from where the
\* tab stands; what a tab is owed lies beyond that.
Hearing ==
    \A t \in Requests :
        /\ source[t].cursor = Events!NoId => source[t].owed = {}
        /\ \A m \in source[t].owed : m > source[t].cursor
        /\ source[t].src \in Tasks =>
              /\ st[source[t].src].pc \in {"read", "join", "ready", "catchup", "live"}
              /\ st[source[t].src].pc # "live" => st[source[t].src].resume = source[t].cursor

\* A message beyond n is seen by the watcher of the stream or told to the stream.
Coming(s, m) ==
    \/ watch.on /\ watch.run /\ s \in watch.subs /\ m > watch.latest
    \/ st[s].q.kind = "new_mail" /\ st[s].q.uid >= m
    \/ st[s].q.kind = "session_expired"

\* Nothing is missed between the read of a stream's base and its first event.
Announced ==
    /\ \A s \in Tasks : st[s].pc \in {"ready", "catchup"} =>
          \A m \in inbox : m > st[s].base => Coming(s, m)
    /\ \A t \in Requests : \A m \in source[t].owed :
          LET s == source[t].src
          IN  s \in Tasks /\ Events!Joined(s) =>
                 \/ Coming(s, m)
                 \/ st[s].pc \in {"ready", "catchup"} /\ st[s].base >= m /\ Events!Behind(s)

EventsInv == EventsTyped /\ Hearing /\ Events!StreamsFed /\ Announced

----------------------------------------------------------------------------
\* The bounds of the events; "closed" and "waiting" name no stream.
LEMMA EventsBounds ==
    MaxMail \in Nat /\ MaxMail > 0 /\ "closed" \notin Tasks /\ "waiting" \notin Tasks
BY WebBounds DEF Events!EventsAssumption

\* The newest of the messages that are there, or none.
LEMMA NewestIs ==
    ASSUME arrived \in Nat, inbox \subseteq 1 .. arrived
    PROVE  Events!Newest \in 0 .. arrived /\ \A m \in inbox : m <= Events!Newest
<1> DEFINE S == {0} \cup inbox
           T == {arrived - m : m \in S}
           R == OpToRel(<, Nat)
<1>1. S \subseteq 0 .. arrived /\ 0 \in S
  OBVIOUS
<1>2. T \subseteq Nat /\ T # {}
  BY <1>1
<1>3. \E x \in T : \A y \in T : <<y, x>> \notin R
  <2> HIDE DEF T, R
  <2> QED
    BY <1>2, NatLessThanWellFounded, WFMin, Zenon DEF R
<1>4. PICK x \in T : \A y \in T : ~(y < x)
  BY <1>2, <1>3 DEF OpToRel
<1>5. PICK n \in S : x = arrived - n
  BY <1>4
<1>6. \A m \in S : n >= m
  <2> SUFFICES ASSUME NEW m \in S PROVE n >= m
    OBVIOUS
  <2>1. ~(arrived - m < arrived - n)
    BY <1>4, <1>5
  <2>2. n \in Nat /\ m \in Nat
    BY <1>1
  <2> QED
    BY <2>1, <2>2
<1>7. Events!Newest \in S /\ \A m \in S : Events!Newest >= m
  <2>1. \E z \in S : \A m \in S : z >= m
    BY <1>6
  <2> QED
    BY <2>1 DEF Events!Newest, Events!Max
<1> QED
  BY <1>1, <1>7

\* The invariant holds at the start.
LEMMA EventsStart == Events!Init => EventsInv
<1> SUFFICES ASSUME Events!Init PROVE EventsInv
  OBVIOUS
<1>1. PICK n \in 0 .. 1 : inbox = 1 .. n /\ arrived = n
  BY DEF Events!Init
<1>2. EventsTyped
  BY <1>1, EventsBounds DEF Events!Init, Events!NoWatch, Events!Free, Events!Closed, Events!NoId,
     Events!Nothing, EventsTyped, Sources, Streaming, Uids, Marks
<1>3. Hearing
  BY EventsBounds DEF Events!Init, Events!Closed, Hearing
<1>4. Events!StreamsFed /\ Announced
  BY DEF Events!Init, Events!Closed, Events!Free, Events!StreamsFed, Events!Joined, Announced
<1> QED
  BY <1>2, <1>3, <1>4 DEF EventsInv

\* The invariant says that every arrival reaches its tabs.
LEMMA EventsArrive == EventsInv => ArrivalsReach
<1> SUFFICES ASSUME EventsInv PROVE ArrivalsReach
  OBVIOUS
<1>1. Events!TypeOK
  BY EventsBounds DEF EventsInv, EventsTyped, Sources, Streaming, Uids, Marks, Events!TypeOK
<1>2. Events!NeverPastUnnoticed
  BY DEF EventsInv, Hearing, Events!NeverPastUnnoticed
<1>3. Events!OnItsWay
  BY DEF EventsInv, Announced, Coming, Events!OnItsWay, Events!Alive
<1> QED
  BY <1>1, <1>2, <1>3 DEF EventsInv, ArrivalsReach, Events!ArrivalsReach

\* A message that arrives keeps the invariant.
LEMMA DeliverKeeps ==
    ASSUME EventsInv, Events!Deliver
    PROVE  EventsInv'
<1>1. /\ arrived < MaxMail /\ arrived' = arrived + 1 /\ inbox' = inbox \cup {arrived + 1}
      /\ source' = [t \in Requests |->
                      IF source[t].cursor = Events!NoId THEN source[t]
                      ELSE [source[t] EXCEPT !.owed = @ \cup {arrived + 1}]]
      /\ UNCHANGED <<access, watch, st, used>>
  BY DEF Events!Deliver
<1>2. /\ arrived \in Nat /\ watch.latest \in 0 .. arrived /\ watch.got \in 0 .. arrived
      /\ inbox \subseteq 1 .. arrived
  BY DEF EventsInv, EventsTyped, Sources, Uids
<1>3. \A t \in Requests : /\ source'[t].src = source[t].src /\ source'[t].cursor = source[t].cursor
                          /\ source'[t].owed \subseteq source[t].owed \cup {arrived + 1}
                          /\ source[t].cursor = Events!NoId => source'[t].owed = source[t].owed
  BY <1>1 DEF EventsInv, EventsTyped, Sources
<1>4. EventsTyped'
  <2>1. arrived' \in Uids /\ inbox' \subseteq 1 .. arrived'
    BY <1>1, <1>2, EventsBounds DEF Uids
  <2>2. 0 .. arrived \subseteq 0 .. arrived'
    BY <1>1, <1>2
  <2>3. watch' \in [on : BOOLEAN, run : BOOLEAN, latest : 0 .. arrived', subs : SUBSET Tasks,
                    pc : {"sleep", "apply"}, got : 0 .. arrived']
    BY <1>1, <2>2 DEF EventsInv, EventsTyped, Sources
  <2>4. /\ \A s \in Tasks : st'[s].base <= arrived' /\ st'[s].q.uid <= arrived'
        /\ \A t \in Requests : source'[t].cursor <= arrived'
    BY <1>1, <1>2, <1>3, <2>2 DEF EventsInv, EventsTyped, Sources, Streaming, Uids, Marks, Events!NoId
  <2>5. source' \in Sources'
    BY <1>1 DEF EventsInv, EventsTyped, Sources
  <2> QED
    BY <1>1, <2>1, <2>3, <2>4, <2>5 DEF EventsInv, EventsTyped, Sources
<1>5. Hearing'
  BY <1>1, <1>2, <1>3 DEF EventsInv, EventsTyped, Sources, Hearing, Marks, Events!NoId
<1>6. Events!StreamsFed'
  BY <1>1 DEF EventsInv, Events!StreamsFed, Events!Joined, Events!Alive
<1>7. Announced'
  BY <1>1, <1>2, <1>3 DEF EventsInv, EventsTyped, Sources, Events!StreamsFed, Events!Alive,
     Announced, Coming, Events!Joined, Events!Behind
<1> QED
  BY <1>4, <1>5, <1>6, <1>7 DEF EventsInv

\* A message that is removed keeps the invariant.
LEMMA ExpungeKeeps ==
    ASSUME EventsInv, Events!Expunge
    PROVE  EventsInv'
<1>1. PICK x \in inbox :
        /\ inbox' = inbox \ {x}
        /\ source' = [t \in Requests |-> [source[t] EXCEPT !.owed = @ \ {x}]]
        /\ UNCHANGED <<arrived, access, watch, st, used>>
  BY DEF Events!Expunge
<1>2. \A t \in Requests : /\ source'[t].src = source[t].src /\ source'[t].cursor = source[t].cursor
                          /\ source'[t].owed \subseteq source[t].owed
  BY <1>1 DEF EventsInv, EventsTyped, Sources
<1>3. EventsTyped'
  <2>1. source' \in Sources'
    <3>1. source \in [Requests -> [src : Tasks \cup {"closed", "waiting"}, cursor : Marks,
                                   owed : SUBSET inbox]]
      BY DEF EventsInv, EventsTyped, Sources
    <3>2. \A t \in Requests :
             source'[t] \in [src : Tasks \cup {"closed", "waiting"}, cursor : Marks,
                             owed : SUBSET inbox']
      BY <1>1, <3>1
    <3> QED
      BY <1>1, <3>2 DEF Sources
  <2> QED
    BY <1>1, <1>2, <2>1 DEF EventsInv, EventsTyped, Sources
<1>4. Hearing'
  BY <1>1, <1>2 DEF EventsInv, Hearing
<1>5. Events!StreamsFed'
  BY <1>1 DEF EventsInv, Events!StreamsFed, Events!Joined, Events!Alive
<1>6. Announced'
  BY <1>1, <1>2 DEF EventsInv, Announced, Coming, Events!Joined, Events!Behind
<1> QED
  BY <1>3, <1>4, <1>5, <1>6 DEF EventsInv

\* Nothing but the access and the counts of the bounds changes.
LEMMA ReadingSame ==
    ASSUME EventsInv, access' \in BOOLEAN, UNCHANGED <<inbox, arrived, watch, st, source>>
    PROVE  EventsInv'
BY DEF EventsInv, EventsTyped, Sources, Hearing, Announced, Coming, Events!StreamsFed, Events!Joined,
       Events!Alive, Events!Behind

\* Access that is lost or regained keeps the invariant.
LEMMA SwitchAccessKeeps ==
    ASSUME EventsInv, Events!SwitchAccess
    PROVE  EventsInv'
BY ReadingSame DEF Events!SwitchAccess

\* A call of the watcher that fails keeps the invariant.
LEMMA ProbeFailsKeeps ==
    ASSUME EventsInv, Events!ProbeFails
    PROVE  EventsInv'
BY ReadingSame DEF Events!ProbeFails, Events!outside, EventsInv, EventsTyped, Sources

\* The read of the watcher, or the end it tells its subscribers of, keeps the invariant.
LEMMA ProbeKeeps ==
    ASSUME EventsInv, Events!Probe
    PROVE  EventsInv'
<1>1. /\ watch.on /\ watch.run /\ UNCHANGED <<inbox, arrived, access, source>>
  BY DEF Events!Probe, Events!outside
<1>2. CASE access
  <2>1. st' = st /\ watch' = [watch EXCEPT !.pc = "apply", !.got = Events!Newest]
    BY <1>2 DEF Events!Probe
  <2>2. Events!Newest \in 0 .. arrived
    BY NewestIs DEF EventsInv, EventsTyped, Sources, Uids
  <2>3. EventsTyped'
    BY <1>1, <2>1, <2>2 DEF EventsInv, EventsTyped, Sources
  <2>4. /\ watch'.on = watch.on /\ watch'.run = watch.run /\ watch'.subs = watch.subs
        /\ watch'.latest = watch.latest
    BY <2>1 DEF EventsInv, EventsTyped, Sources
  <2>5. Hearing' /\ Events!StreamsFed' /\ Announced'
    BY <1>1, <2>1, <2>4 DEF EventsInv, Hearing, Announced, Coming, Events!StreamsFed,
       Events!Joined, Events!Alive, Events!Behind
  <2> QED
    BY <2>3, <2>5 DEF EventsInv
<1>3. CASE ~access
  <2> DEFINE ended == [kind |-> "session_expired", uid |-> watch.latest]
  <2>1. /\ st' = [s \in Tasks |-> IF s \in watch.subs THEN [st[s] EXCEPT !.q = ended] ELSE st[s]]
        /\ watch' = [watch EXCEPT !.run = FALSE]
    BY <1>3 DEF Events!Probe, Events!Publish
  <2>2. /\ st \in [Tasks -> Streaming] /\ ended.kind = "session_expired"
        /\ ended.uid \in 0 .. arrived /\ arrived \in 0 .. MaxMail
        /\ ended \in [kind : {"nothing", "new_mail", "session_expired"}, uid : Uids]
    BY EventsBounds DEF EventsInv, EventsTyped, Sources, Uids
  <2> HIDE DEF ended
  <2>3. /\ st' \in [Tasks -> Streaming]
        /\ \A s \in Tasks : /\ st'[s].pc = st[s].pc /\ st'[s].base = st[s].base
                            /\ st'[s].resume = st[s].resume
                            /\ s \in watch.subs => st'[s].q = ended
                            /\ s \notin watch.subs => st'[s].q = st[s].q
    BY <2>1, <2>2 DEF Streaming
  <2>4. EventsTyped'
    <3>1. \A s \in Tasks : st'[s].base <= arrived /\ st'[s].q.uid <= arrived
      BY <2>2, <2>3 DEF EventsInv, EventsTyped, Sources
    <3>2. watch' \in [on : BOOLEAN, run : BOOLEAN, latest : 0 .. arrived, subs : SUBSET Tasks,
                      pc : {"sleep", "apply"}, got : 0 .. arrived]
          /\ (watch'.on <=> watch'.subs # {})
      BY <2>1 DEF EventsInv, EventsTyped, Sources
    <3> QED
      BY <1>1, <2>3, <3>1, <3>2 DEF EventsInv, EventsTyped, Sources
  <2>5. Hearing'
    BY <1>1, <2>3 DEF EventsInv, EventsTyped, Sources, Hearing
  <2>6. Events!StreamsFed'
    BY <2>2, <2>3 DEF EventsInv, Events!StreamsFed, Events!Joined, Events!Alive
  <2>7. \A s \in Tasks : Events!Joined(s)' => st'[s].q.kind = "session_expired"
    BY <2>2, <2>3 DEF EventsInv, Events!StreamsFed, Events!Joined, Events!Alive
  <2>8. Announced'
    BY <2>7 DEF Announced, Coming, Events!Joined
  <2> QED
    BY <2>4, <2>5, <2>6, <2>8 DEF EventsInv
<1> QED
  BY <1>2, <1>3

\* The watcher that acts on what it read keeps the invariant.
LEMMA ApplyKeeps ==
    ASSUME EventsInv, Events!Apply
    PROVE  EventsInv'
<1> DEFINE fresh == watch.got > watch.latest
           note == [kind |-> "new_mail", uid |-> watch.got]
<1>1. /\ watch.on /\ watch.run /\ UNCHANGED <<inbox, arrived, access, source>>
      /\ watch' = [watch EXCEPT !.pc = "sleep", !.latest = watch.got, !.got = 0]
      /\ st' = IF fresh THEN [s \in Tasks |-> IF s \in watch.subs THEN [st[s] EXCEPT !.q = note]
                              ELSE st[s]]
               ELSE st
  BY DEF Events!Apply, Events!Server, Events!outside, Events!Publish
<1>2. /\ st \in [Tasks -> Streaming] /\ note.kind = "new_mail" /\ note.uid = watch.got
      /\ watch.got \in 0 .. arrived /\ watch.latest \in 0 .. arrived /\ arrived \in 0 .. MaxMail
      /\ note \in [kind : {"nothing", "new_mail", "session_expired"}, uid : Uids]
      /\ inbox \subseteq 1 .. arrived
  BY EventsBounds DEF EventsInv, EventsTyped, Sources, Uids
<1> HIDE DEF note
<1>3. /\ st' \in [Tasks -> Streaming]
      /\ \A s \in Tasks : /\ st'[s].pc = st[s].pc /\ st'[s].base = st[s].base
                          /\ st'[s].resume = st[s].resume
                          /\ s \in watch.subs /\ fresh => st'[s].q = note
                          /\ ~(s \in watch.subs /\ fresh) => st'[s].q = st[s].q
  BY <1>1, <1>2 DEF Streaming
<1>4. /\ watch'.on = watch.on /\ watch'.run = watch.run /\ watch'.subs = watch.subs
      /\ watch'.latest = watch.got
  BY <1>1 DEF EventsInv, EventsTyped, Sources
<1>5. EventsTyped'
  <2>1. \A s \in Tasks : st'[s].base <= arrived /\ st'[s].q.uid <= arrived
    BY <1>2, <1>3 DEF EventsInv, EventsTyped, Sources
  <2>2. watch' \in [on : BOOLEAN, run : BOOLEAN, latest : 0 .. arrived, subs : SUBSET Tasks,
                    pc : {"sleep", "apply"}, got : 0 .. arrived]
        /\ (watch'.on <=> watch'.subs # {})
    <3>1. 0 \in 0 .. arrived /\ watch.got \in 0 .. arrived
      BY <1>2
    <3>2. watch' = [watch EXCEPT !.pc = "sleep", !.latest = watch.got, !.got = 0]
      BY <1>1
    <3> QED
      BY <3>1, <3>2 DEF EventsInv, EventsTyped, Sources
  <2> QED
    BY <1>1, <1>3, <2>1, <2>2 DEF EventsInv, EventsTyped, Sources
<1>6. Hearing'
  BY <1>1, <1>3 DEF EventsInv, EventsTyped, Sources, Hearing
<1>7. Events!StreamsFed'
  BY <1>1, <1>2, <1>3, <1>4 DEF EventsInv, Events!StreamsFed, Events!Joined, Events!Alive
<1>8. ASSUME NEW s \in Tasks, Events!Joined(s), NEW m \in inbox, Coming(s, m)
      PROVE  Coming(s, m)'
  <2>0. m \in Nat /\ st[s].q.uid \in Nat
    BY <1>2 DEF Streaming, Uids
  <2>1. CASE s \in watch.subs /\ fresh
    BY <1>1, <1>2, <1>3, <1>4, <2>0, <2>1 DEF Coming
  <2>2. CASE s \in watch.subs /\ ~fresh
    BY <1>1, <1>2, <1>3, <1>4, <1>8, <2>0, <2>2 DEF Coming
  <2>3. CASE s \notin watch.subs
    BY <1>3, <1>8, <2>3 DEF Coming
  <2> QED
    BY <2>1, <2>2, <2>3
<1>9. Announced'
  <2>1. \A s \in Tasks : Events!Joined(s)' = Events!Joined(s) /\ Events!Behind(s)' = Events!Behind(s)
    BY <1>3 DEF Events!Joined, Events!Behind
  <2>2. \A t \in Requests : source[t].owed \subseteq inbox
    BY DEF EventsInv, EventsTyped, Sources
  <2> QED
    BY <1>1, <1>3, <1>8, <2>1, <2>2 DEF EventsInv, Announced, Events!Joined
<1> QED
  BY <1>5, <1>6, <1>7, <1>9 DEF EventsInv

\* What becomes of a tab when the stream s goes on as x.
SourceKeeps(s, x, t) ==
    /\ source[t].src # s => source'[t] = source[t]
    /\ source[t].src = s =>
          /\ source'[t].src \in {s, "closed"} /\ source'[t].cursor <= arrived
          /\ source'[t].cursor = Events!NoId => source'[t].owed = {}
          /\ \A m \in source'[t].owed : m > source'[t].cursor
    /\ source[t].src = s /\ source'[t].src = s =>
          /\ x.pc \in {"read", "join", "ready", "catchup", "live"}
          /\ x.pc # "live" => x.resume = source'[t].cursor
          /\ x.pc \in {"ready", "catchup", "live"} =>
                \A m \in source'[t].owed :
                   \/ Coming(s, m)'
                   \/ /\ x.pc \in {"ready", "catchup"} /\ x.base >= m
                      /\ x.resume # Events!NoId /\ x.base > x.resume

\* A stream goes on, and what the tabs that hear it are owed is still coming.
LEMMA StreamKeeps ==
    ASSUME EventsInv, NEW s \in Tasks, NEW x \in Streaming, x.base <= arrived, x.q.uid <= arrived,
           st' = [st EXCEPT ![s] = x], UNCHANGED <<inbox, arrived, access, watch>>,
           source' \in Sources, \A t \in Requests : SourceKeeps(s, x, t),
           x.pc \in {"ready", "catchup", "live"} =>
              (watch.on /\ watch.run /\ s \in watch.subs) \/ x.q.kind = "session_expired",
           x.pc \in {"ready", "catchup"} => \A m \in inbox : m > x.base => Coming(s, m)'
    PROVE  EventsInv'
<1>1. /\ st \in [Tasks -> Streaming] /\ st' \in [Tasks -> Streaming]
      /\ st'[s] = x /\ \A u \in Tasks : u # s => st'[u] = st[u]
  BY DEF EventsInv, EventsTyped, Sources
<1>2. /\ "closed" \notin Tasks /\ "waiting" \notin Tasks
      /\ source \in [Requests -> [src : Tasks \cup {"closed", "waiting"}, cursor : Marks,
                                  owed : SUBSET inbox]]
  BY EventsBounds DEF EventsInv, EventsTyped, Sources
<1>3. EventsTyped'
  <2>0. source' \in Sources /\ Sources' = Sources
    BY DEF Sources
  <2>1. \A u \in Tasks : st'[u].base <= arrived /\ st'[u].q.uid <= arrived
    BY <1>1 DEF EventsInv, EventsTyped, Sources
  <2>2. \A t \in Requests : source'[t].cursor <= arrived
    BY DEF EventsInv, EventsTyped, Sources, SourceKeeps
  <2> QED
    BY <1>1, <2>0, <2>1, <2>2 DEF EventsInv, EventsTyped, Sources
<1>4. Hearing'
  <2> SUFFICES ASSUME NEW t \in Requests
               PROVE  /\ source'[t].cursor = Events!NoId => source'[t].owed = {}
                      /\ \A m \in source'[t].owed : m > source'[t].cursor
                      /\ source'[t].src \in Tasks =>
                            /\ st'[source'[t].src].pc \in {"read", "join", "ready", "catchup", "live"}
                            /\ st'[source'[t].src].pc # "live" =>
                                  st'[source'[t].src].resume = source'[t].cursor
    BY DEF Hearing, Events!NoId
  <2>1. CASE source[t].src # s
    BY <1>1, <2>1 DEF EventsInv, Hearing, SourceKeeps
  <2>2. CASE source[t].src = s
    BY <1>1, <1>2, <2>2 DEF SourceKeeps
  <2> QED
    BY <2>1, <2>2
<1>5. Events!StreamsFed'
  BY <1>1 DEF EventsInv, Events!StreamsFed, Events!Joined, Events!Alive
<1>6. ASSUME NEW u \in Tasks, u # s, NEW m
      PROVE  Coming(u, m)' <=> Coming(u, m)
  BY <1>1, <1>6 DEF Coming
<1>7. Announced'
  <2>1. ASSUME NEW u \in Tasks, st'[u].pc \in {"ready", "catchup"}, NEW m \in inbox, m > st'[u].base
        PROVE  Coming(u, m)'
    <3>1. CASE u = s
      BY <1>1, <2>1, <3>1
    <3>2. CASE u # s
      BY <1>1, <1>6, <2>1, <3>2 DEF EventsInv, Announced
    <3> QED
      BY <3>1, <3>2
  <2>2. ASSUME NEW t \in Requests, NEW m, m \in source'[t].owed,
               NEW u \in Tasks, u = source'[t].src, st'[u].pc \in {"ready", "catchup", "live"}
        PROVE  \/ Coming(u, m)'
               \/ /\ st'[u].pc \in {"ready", "catchup"} /\ st'[u].base >= m
                  /\ st'[u].resume # Events!NoId /\ st'[u].base > st'[u].resume
    <3>1. CASE source[t].src = s
      <4>1. u = s /\ source'[t].src = s /\ st'[u] = x
        BY <1>1, <1>2, <2>2, <3>1 DEF SourceKeeps
      <4> QED
        BY <2>2, <3>1, <4>1 DEF SourceKeeps
    <3>2. CASE source[t].src # s
      <4>1. source'[t] = source[t] /\ u # s /\ st'[u] = st[u] /\ m \in source[t].owed
        BY <1>1, <2>2, <3>2 DEF SourceKeeps
      <4>2. Coming(u, m) \/ (/\ st[u].pc \in {"ready", "catchup"} /\ st[u].base >= m
                             /\ st[u].resume # Events!NoId /\ st[u].base > st[u].resume)
        BY <2>2, <4>1 DEF EventsInv, Announced, Events!Joined, Events!Behind
      <4>3. Coming(u, m)' <=> Coming(u, m)
        BY <1>6, <4>1
      <4> QED
        BY <4>1, <4>2, <4>3
    <3> QED
      BY <3>1, <3>2
  <2> QED
    BY <2>1, <2>2 DEF Announced, Events!Joined, Events!Behind, Events!NoId
<1> QED
  BY <1>3, <1>4, <1>5, <1>7 DEF EventsInv

\* The fields of a stream and of an event source.
LEMMA StreamIs ==
    ASSUME EventsInv, NEW s \in Tasks
    PROVE  /\ st[s] \in Streaming /\ arrived \in Nat /\ arrived \in Uids
           /\ st[s].pc \in {"free", "read", "join", "ready", "catchup", "live", "leave"}
           /\ st[s].q.kind \in {"nothing", "new_mail", "session_expired"}
           /\ st[s].q.uid \in 0 .. arrived /\ st[s].base \in 0 .. arrived
           /\ st[s].resume \in Marks
BY EventsBounds DEF EventsInv, EventsTyped, Sources, Streaming, Uids

\* What the invariant says of one tab.
LEMMA SourceIs ==
    ASSUME EventsInv, NEW t \in Requests
    PROVE  /\ source[t].src \in Tasks \cup {"closed", "waiting"}
           /\ source[t].cursor \in Marks /\ source[t].cursor <= arrived
           /\ source[t].owed \subseteq inbox /\ \A m \in source[t].owed : m \in Nat
           /\ source[t].cursor = Events!NoId => source[t].owed = {}
           /\ \A m \in source[t].owed : m > source[t].cursor
           /\ source[t].src \in Tasks /\ st[source[t].src].pc # "live" =>
                 st[source[t].src].resume = source[t].cursor
           /\ source[t].src \in Tasks =>
                 st[source[t].src].pc \in {"read", "join", "ready", "catchup", "live"}
BY DEF EventsInv, EventsTyped, Sources, Hearing, Uids

\* The fields of a stream and of a source at rest.
LEMMA FreeIs ==
    /\ Events!Free \in Streaming /\ Events!Free.q.kind = "nothing" /\ Events!Free.q.uid = 0
    /\ Events!Free.base = 0 /\ Events!Free.pc = "free"
    /\ [Events!Free EXCEPT !.pc = "leave"] \in Streaming
    /\ Events!Closed.src = "closed" /\ Events!Closed.owed = {} /\ Events!Closed.cursor = Events!NoId
    /\ Events!Closed \in [src : {"closed"}, cursor : Marks, owed : {{}}]
    /\ Events!NoId \in Marks /\ Events!NoId \in Int /\ Events!NoId < 0
BY EventsBounds DEF Events!Free, Events!Nothing, Events!Closed, Events!NoId, Streaming, Uids, Marks

\* The read of the newest UID before a stream joins keeps the invariant.
LEMMA InitialReadKeeps ==
    ASSUME EventsInv, NEW s \in Tasks, Events!InitialRead(s)
    PROVE  EventsInv'
<1> DEFINE x == [st[s] EXCEPT !.pc = "join", !.base = Events!Newest]
<1>1. /\ st[s].pc = "read" /\ st' = [st EXCEPT ![s].pc = "join", ![s].base = Events!Newest]
      /\ UNCHANGED <<inbox, arrived, access, watch, source>>
  BY DEF Events!InitialRead, Events!Server, Events!outside
<1>2. Events!Newest \in 0 .. arrived /\ Events!Newest \in Uids
  BY NewestIs, EventsBounds DEF EventsInv, EventsTyped, Sources, Uids
<1>3. /\ x \in Streaming /\ x.pc = "join" /\ x.base <= arrived /\ x.q.uid <= arrived
      /\ x.resume = st[s].resume
  <2>1. st[s] \in Streaming /\ st[s].q.uid \in 0 .. arrived /\ arrived \in Nat
    BY StreamIs
  <2>2. x \in Streaming
    BY <1>2, <2>1 DEF Streaming
  <2>3. x.pc = "join" /\ x.base = Events!Newest /\ x.q = st[s].q /\ x.resume = st[s].resume
    BY <2>1 DEF Streaming
  <2> QED
    BY <1>2, <2>1, <2>2, <2>3
<1>4. st' = [st EXCEPT ![s] = x]
  BY <1>1 DEF EventsInv, EventsTyped, Sources, Streaming
<1> HIDE DEF x
<1>5. source' \in Sources
  BY <1>1 DEF EventsInv, EventsTyped, Sources
<1>6. \A t \in Requests : source[t].src = s =>
         /\ source'[t].src \in {s, "closed"} /\ source'[t].cursor <= arrived
         /\ source'[t].cursor = Events!NoId => source'[t].owed = {}
         /\ \A m \in source'[t].owed : m > source'[t].cursor
  BY <1>1, SourceIs
<1>7. \A t \in Requests : source[t].src = s => x.resume = source'[t].cursor
  BY <1>1, <1>3, SourceIs
<1>8. \A t \in Requests : SourceKeeps(s, x, t)
  BY <1>1, <1>3, <1>6, <1>7 DEF SourceKeeps
<1> QED
  BY <1>1, <1>3, <1>4, <1>5, <1>8, StreamKeeps

\* A stream that ends, and the tabs that hear it are told so.
LEMMA EndedKeeps ==
    ASSUME EventsInv, NEW s \in Tasks,
           NEW x \in {Events!Free, [Events!Free EXCEPT !.pc = "leave"]},
           st' = [st EXCEPT ![s] = x], UNCHANGED <<inbox, arrived, access, watch>>,
           source' = [t \in Requests |-> IF t \in Events!Heard(s) THEN Events!Closed ELSE source[t]]
    PROVE  EventsInv'
<1>1. /\ x \in Streaming /\ x.pc \in {"free", "leave"} /\ x.base = 0 /\ x.q.uid = 0
      /\ arrived \in Nat
  BY FreeIs, StreamIs DEF Events!Free
<1>2. source' \in Sources
  BY FreeIs DEF EventsInv, EventsTyped, Sources
<1>3. \A t \in Requests : /\ source[t].src # s => source'[t] = source[t]
                          /\ source[t].src = s => source'[t] = Events!Closed
  BY DEF Events!Heard
<1>4. \A t \in Requests : source[t].src = s =>
         /\ source'[t].src = "closed" /\ source'[t].cursor <= arrived
         /\ source'[t].owed = {}
  BY <1>1, <1>3, FreeIs
<1>5. \A t \in Requests : ~(source[t].src = s /\ source'[t].src = s)
  BY <1>4, EventsBounds
<1>6. x.base <= arrived /\ x.q.uid <= arrived
  BY <1>1
<1>7. \A t \in Requests : SourceKeeps(s, x, t)
  BY <1>3, <1>4, <1>5 DEF SourceKeeps
<1> QED
  BY <1>1, <1>2, <1>6, <1>7, StreamKeeps

\* A stream that is refused keeps the invariant.
LEMMA RefusedKeepsOn ==
    ASSUME EventsInv, NEW s \in Tasks, Events!Refused(s)
    PROVE  EventsInv'
BY EndedKeeps DEF Events!Refused, Events!outside

\* A stream that tells its tab of the end of the session keeps the invariant.
LEMMA SendExpiredKeeps ==
    ASSUME EventsInv, NEW s \in Tasks, Events!SendExpired(s)
    PROVE  EventsInv'
BY EndedKeeps DEF Events!SendExpired, Events!Server, Events!outside

\* A stream that ends and that nobody hears.
LEMMA UnheardKeeps ==
    ASSUME EventsInv, NEW s \in Tasks, Events!Heard(s) = {},
           st' = [st EXCEPT ![s] = [Events!Free EXCEPT !.pc = "leave"]],
           UNCHANGED <<inbox, arrived, access, watch, source>>
    PROVE  EventsInv'
<1>1. source' = [t \in Requests |-> IF t \in Events!Heard(s) THEN Events!Closed ELSE source[t]]
  BY DEF EventsInv, EventsTyped, Sources
<1> QED
  BY <1>1, EndedKeeps

\* A keepalive that fails keeps the invariant.
LEMMA NoticeBreakKeeps ==
    ASSUME EventsInv, NEW s \in Tasks, Events!NoticeBreak(s)
    PROVE  EventsInv'
BY UnheardKeeps DEF Events!NoticeBreak, Events!Server, Events!outside

\* What a tab that hears a stream has after an event with the identifier.
Told(t, id, notified, y) ==
    /\ y \in [src : {source[t].src}, owed : SUBSET inbox,
                cursor : {IF id = Events!NoId THEN source[t].cursor ELSE id}]
    /\ \A m \in y.owed :
          \/ m \in source[t].owed /\ (notified => m > id)
          \/ ~notified /\ source[t].cursor = Events!NoId /\ id # Events!NoId /\ m > id

\* What the write of an event does to the stream and to the tabs that hear it.
EventWritten(s, id, notified, next) ==
    /\ UNCHANGED <<inbox, arrived, access, watch>>
    /\ \E x \in Streaming :
          /\ st' = [st EXCEPT ![s] = x] /\ x.pc = next
          /\ next = "catchup" => x = [st[s] EXCEPT !.pc = "catchup"]
          /\ next = "live" =>
                x.base = 0 /\ x.q = IF st[s].pc = "live" THEN Events!Nothing ELSE st[s].q
    /\ \A t \in Requests :
          /\ source[t].src # s => source'[t] = source[t]
          /\ source[t].src = s => Told(t, id, notified, source'[t])
    /\ DOMAIN source' = Requests /\ source' = [t \in Requests |-> source'[t]]

\* The same, of the identifiers alone.
EventReached(s, id, next) ==
    /\ UNCHANGED <<inbox, arrived, access, watch>>
    /\ \E x \in Streaming :
          /\ st' = [st EXCEPT ![s] = x] /\ x.pc = next
          /\ next = "catchup" => x = [st[s] EXCEPT !.pc = "catchup"]
          /\ next = "live" =>
                x.base = 0 /\ x.q = IF st[s].pc = "live" THEN Events!Nothing ELSE st[s].q
    /\ \A t \in Requests :
          /\ source[t].src # s => source'[t] = source[t]
          /\ source[t].src = s =>
                source'[t] \in [src : {source[t].src}, owed : SUBSET inbox,
                                cursor : {IF id = Events!NoId THEN source[t].cursor ELSE id}]
    /\ DOMAIN source' = Requests /\ source' = [t \in Requests |-> source'[t]]

\* A write that nobody hears may fail; otherwise the stream goes on.
LEMMA WriteIs ==
    ASSUME EventsInv, NEW s \in Tasks, NEW id, NEW notified \in BOOLEAN,
           NEW next \in {"catchup", "live"}, Events!Write(s, id, notified, next)
    PROVE  EventsInv' \/ EventWritten(s, id, notified, next)
<1>1. UNCHANGED <<inbox, arrived, access, watch>>
  BY DEF Events!Write, Events!Server, Events!outside
<1>2. \A t \in Requests :
         /\ source[t].src # s => source'[t] = source[t]
         /\ source[t].src = s => Told(t, id, notified, source'[t])
  <2> SUFFICES ASSUME NEW t \in Requests
               PROVE  /\ source[t].src # s => source'[t] = source[t]
                      /\ source[t].src = s => Told(t, id, notified, source'[t])
    OBVIOUS
  <2>1. /\ source[t] \in [src : Tasks \cup {"closed", "waiting"}, cursor : Marks, owed : SUBSET inbox]
        /\ source[t].cursor = Events!NoId => source[t].owed = {}
    BY SourceIs DEF EventsInv, EventsTyped, Sources
  <2>2. source'[t] = IF source[t].src # s THEN source[t]
                     ELSE [source[t] EXCEPT
                             !.cursor = IF id = Events!NoId THEN @ ELSE id,
                             !.owed = IF notified THEN {m \in @ : m > id}
                                      ELSE IF source[t].cursor = Events!NoId /\ id # Events!NoId
                                           THEN {m \in inbox : m > id}
                                      ELSE @]
    BY DEF Events!Write, Events!Received, Events!Heard
  <2>3. CASE source[t].src # s
    BY <2>2, <2>3
  <2>4. CASE source[t].src = s /\ notified
    <3>1. source'[t] = [source[t] EXCEPT !.cursor = IF id = Events!NoId THEN @ ELSE id,
                                         !.owed = {m \in source[t].owed : m > id}]
      BY <2>2, <2>4
    <3>2. /\ source'[t].owed \subseteq source[t].owed /\ source[t].owed \subseteq inbox
          /\ \A m \in source'[t].owed : m > id
      BY <2>1, <3>1
    <3>3. source'[t] \in [src : {source[t].src}, owed : SUBSET inbox,
                          cursor : {IF id = Events!NoId THEN source[t].cursor ELSE id}]
      BY <2>1, <3>1, <3>2
    <3>4. \A m \in source'[t].owed : m \in source[t].owed /\ (notified => m > id)
      BY <3>2
    <3> HIDE DEF Events!NoId
    <3> QED
      BY <2>4, <3>3, <3>4 DEF Told
  <2>5. CASE source[t].src = s /\ ~notified /\ source[t].cursor = Events!NoId /\ id # Events!NoId
    <3>1. source'[t] = [source[t] EXCEPT !.cursor = id, !.owed = {m \in inbox : m > id}]
      BY <2>2, <2>5
    <3> QED
      BY <2>1, <2>5, <3>1 DEF Told
  <2>6. CASE source[t].src = s /\ ~notified /\ ~(source[t].cursor = Events!NoId /\ id # Events!NoId)
    <3>1. source'[t] = [source[t] EXCEPT !.cursor = IF id = Events!NoId THEN @ ELSE id]
      BY <2>1, <2>2, <2>6
    <3> QED
      BY <2>1, <2>6, <3>1 DEF Told
  <2> QED
    BY <2>3, <2>4, <2>5, <2>6
<1>3. PICK pc \in IF Events!Heard(s) = {} THEN {next, "leave"} ELSE {next} :
         st' = [st EXCEPT ![s] =
                  CASE pc = "catchup" -> [st[s] EXCEPT !.pc = pc]
                    [] pc = "live" -> [Events!Free EXCEPT !.pc = pc,
                         !.q = IF st[s].pc = "live" THEN Events!Nothing ELSE st[s].q]
                    [] pc = "leave" -> [Events!Free EXCEPT !.pc = pc]]
  BY DEF Events!Write
<1>4. CASE pc = "leave"
  <2>1. Events!Heard(s) = {} /\ st' = [st EXCEPT ![s] = [Events!Free EXCEPT !.pc = "leave"]]
    BY <1>3, <1>4
  <2>2. source' = source
    <3>1. \A t \in Requests : source[t].src # s
      BY <2>1 DEF Events!Heard
    <3>2. source' = [t \in Requests |-> source[t]]
      BY <3>1 DEF Events!Write, Events!Received, Events!Heard
    <3> QED
      BY <3>2 DEF EventsInv, EventsTyped, Sources
  <2> QED
    BY <1>1, <2>1, <2>2, UnheardKeeps
<1>5. CASE pc = next
  <2> DEFINE x == IF next = "catchup" THEN [st[s] EXCEPT !.pc = "catchup"]
                  ELSE [Events!Free EXCEPT !.pc = "live",
                          !.q = IF st[s].pc = "live" THEN Events!Nothing ELSE st[s].q]
  <2>1. st' = [st EXCEPT ![s] = x]
    BY <1>3, <1>5
  <2> DEFINE good == /\ x \in Streaming /\ x.pc = next
                     /\ next = "live" =>
                           x.base = 0 /\ x.q = IF st[s].pc = "live" THEN Events!Nothing ELSE st[s].q
  <2>2. ASSUME next = "catchup" PROVE good
    BY <2>2, StreamIs DEF Streaming
  <2>3. ASSUME next = "live" PROVE good
    <3>1. /\ st[s].q \in [kind : {"nothing", "new_mail", "session_expired"}, uid : Uids]
      BY StreamIs DEF Streaming
    <3>2. Events!Nothing \in [kind : {"nothing", "new_mail", "session_expired"}, uid : Uids]
      BY EventsBounds DEF Events!Nothing, Uids
    <3>3. x = [Events!Free EXCEPT !.pc = "live",
                 !.q = IF st[s].pc = "live" THEN Events!Nothing ELSE st[s].q]
      BY <2>3
    <3>4. x.pc = "live" /\ x.base = 0 /\ x.q = IF st[s].pc = "live" THEN Events!Nothing ELSE st[s].q
      BY <3>3 DEF Events!Free
    <3>5. x \in Streaming
      <4>1. ASSUME NEW q \in [kind : {"nothing", "new_mail", "session_expired"}, uid : Uids]
            PROVE  [Events!Free EXCEPT !.pc = "live", !.q = q] \in Streaming
        BY FreeIs DEF Streaming
      <4> QED
        BY <3>1, <3>2, <3>3, <4>1
    <3> QED
      BY <2>3, <3>4, <3>5
  <2> HIDE DEF x
  <2>4. next = "catchup" => x = [st[s] EXCEPT !.pc = "catchup"]
    BY DEF x
  <2>5. source' = [t \in Requests |-> source'[t]]
    BY DEF Events!Write, Events!Received
  <2> QED
    BY <1>1, <1>2, <2>1, <2>2, <2>3, <2>4, <2>5 DEF EventWritten
<1> QED
  BY <1>3, <1>4, <1>5

\* What is coming to a stream comes, while its watcher and its queue stay.
LEMMA ComingSame ==
    ASSUME NEW s, NEW m, watch' = watch, st'[s].q = st[s].q
    PROVE  Coming(s, m)' <=> Coming(s, m)
BY DEF Coming

\* What the invariant says of a stream that is subscribed.
LEMMA JoinedIs ==
    ASSUME EventsInv, NEW s \in Tasks, st[s].pc \in {"ready", "catchup", "live"}
    PROVE  /\ (watch.on /\ watch.run /\ s \in watch.subs) \/ st[s].q.kind = "session_expired"
           /\ st[s].pc \in {"ready", "catchup"} => \A m \in inbox : m > st[s].base => Coming(s, m)
           /\ \A t \in Requests : source[t].src = s =>
                 \A m \in source[t].owed :
                    Coming(s, m) \/ (st[s].pc # "live" /\ st[s].base >= m /\ Events!Behind(s))
BY DEF EventsInv, Announced, Events!StreamsFed, Events!Joined, Events!Alive

\* A write of an event is one of the steps of StreamKeeps.
LEMMA EventWrittenKeeps ==
    ASSUME EventsInv, NEW s \in Tasks, NEW id,
           NEW next \in {"catchup", "live"}, EventReached(s, id, next),
           id = Events!NoId \/ id \in 0 .. arrived, arrived \in Uids,
           (watch.on /\ watch.run /\ s \in watch.subs)
              \/ (st[s].pc # "live" /\ st[s].q.kind = "session_expired"),
           next = "catchup" =>
              st[s].pc = "ready" /\ \A m \in inbox : m > st[s].base => Coming(s, m),
           \A t \in Requests : source[t].src = s =>
              /\ next = "catchup" => source'[t].cursor = st[s].resume
              /\ source'[t].cursor = Events!NoId => source'[t].owed = {}
              /\ \A m \in source'[t].owed :
                    /\ m \in inbox /\ m > source'[t].cursor
                    /\ \/ watch.on /\ watch.run /\ s \in watch.subs /\ m > watch.latest
                       \/ st[s].pc # "live" /\ Coming(s, m)
                       \/ next = "catchup" /\ st[s].base >= m /\ Events!Behind(s)
    PROVE  EventsInv'
<1>1. PICK x \in Streaming :
        /\ st' = [st EXCEPT ![s] = x] /\ x.pc = next
        /\ next = "catchup" => x = [st[s] EXCEPT !.pc = "catchup"]
        /\ next = "live" =>
              x.base = 0 /\ x.q = IF st[s].pc = "live" THEN Events!Nothing ELSE st[s].q
  BY DEF EventReached
<1>2. /\ st[s] \in Streaming /\ st[s].q.uid \in 0 .. arrived /\ st[s].base \in 0 .. arrived
      /\ arrived \in Nat
  BY StreamIs
<1>3. /\ next = "catchup" => x.q = st[s].q /\ x.base = st[s].base /\ x.resume = st[s].resume
      /\ next = "live" => x.base = 0 /\ (x.q = st[s].q \/ x.q = Events!Nothing)
      /\ st[s].pc # "live" => x.q = st[s].q
  BY <1>1, <1>2 DEF Streaming
<1>4. x.base <= arrived /\ x.q.uid <= arrived
  BY <1>2, <1>3 DEF Events!Nothing
<1>5. st'[s] = x /\ watch' = watch
  BY <1>1 DEF EventReached, EventsInv, EventsTyped
<1>6. \A m : st[s].pc # "live" => (Coming(s, m)' <=> Coming(s, m))
  BY <1>3, <1>5, ComingSame
<1>7. \A m : watch.on /\ watch.run /\ s \in watch.subs /\ m > watch.latest => Coming(s, m)'
  BY <1>5 DEF Coming
<1>8. \A t \in Requests : /\ source[t].src # s => source'[t] = source[t]
                          /\ source[t].src = s => source'[t].src = s
                          /\ source'[t].cursor \in Marks /\ source'[t].cursor <= arrived
                          /\ source'[t].owed \subseteq inbox
  <2> TAKE t \in Requests
  <2>1. CASE source[t].src # s
    BY <2>1, SourceIs DEF EventReached
  <2>2. CASE source[t].src = s
    <3>2. source'[t].src = s /\ source'[t].cursor \in {source[t].cursor, id}
          /\ (source'[t].cursor = Events!NoId \/ source'[t].cursor # id \/ id \in 0 .. arrived)
      BY <2>2 DEF EventReached
    <3>3. source'[t].cursor \in Marks /\ source'[t].cursor <= arrived
      <4>1. source[t].cursor \in Marks /\ source[t].cursor <= arrived
        BY SourceIs
      <4>2. Events!NoId \in Marks /\ Events!NoId <= arrived
        BY <1>2, FreeIs
      <4>3. id \in 0 .. arrived => id \in Marks /\ id <= arrived
        BY EventsBounds DEF Marks, Uids, Events!NoId
      <4> QED
        BY <3>2, <4>1, <4>2, <4>3
    <3> QED
      BY <2>2, <3>2, <3>3
  <2> QED
    BY <2>1, <2>2
<1>9. source' \in Sources
  <2>1. \A t \in Requests :
          source'[t] \in [src : Tasks \cup {"closed", "waiting"}, cursor : Marks, owed : SUBSET inbox]
    <3> TAKE t \in Requests
    <3>1. source[t] \in [src : Tasks \cup {"closed", "waiting"}, cursor : Marks, owed : SUBSET inbox]
      BY DEF EventsInv, EventsTyped, Sources
    <3>2. CASE source[t].src # s
      BY <1>8, <3>1, <3>2
    <3>3. CASE source[t].src = s
      <4>1. source'[t] = [src |-> s, cursor |-> source'[t].cursor, owed |-> source'[t].owed]
        BY <3>3 DEF EventReached
      <4> QED
        BY <1>8, <4>1
    <3> QED
      BY <3>2, <3>3
  <2> QED
    BY <2>1 DEF EventReached, Sources
<1>10. \A t \in Requests : SourceKeeps(s, x, t)
  <2> SUFFICES ASSUME NEW t \in Requests PROVE SourceKeeps(s, x, t)
    OBVIOUS
  <2>1. CASE source[t].src # s
    BY <1>8, <2>1 DEF SourceKeeps
  <2>2. CASE source[t].src = s
    <3>1. /\ source'[t].src = s /\ source'[t].cursor <= arrived
          /\ source'[t].cursor = Events!NoId => source'[t].owed = {}
          /\ \A m \in source'[t].owed : m > source'[t].cursor
          /\ x.pc # "live" => x.resume = source'[t].cursor
      BY <1>1, <1>3, <1>8, <2>2
    <3>2. \A m \in source'[t].owed :
             \/ Coming(s, m)'
             \/ /\ x.pc \in {"ready", "catchup"} /\ x.base >= m
                /\ x.resume # Events!NoId /\ x.base > x.resume
      BY <1>1, <1>3, <1>6, <1>7, <2>2 DEF Events!Behind
    <3> QED
      BY <1>1, <2>2, <3>1, <3>2 DEF SourceKeeps
  <2> QED
    BY <2>1, <2>2
<1>11. /\ (watch.on /\ watch.run /\ s \in watch.subs) \/ x.q.kind = "session_expired"
       /\ x.pc \in {"ready", "catchup"} => \A m \in inbox : m > x.base => Coming(s, m)'
  BY <1>1, <1>3, <1>6
<1>12. UNCHANGED <<inbox, arrived, access, watch>>
  BY DEF EventReached
<1> QED
  BY <1>1, <1>4, <1>9, <1>10, <1>11, <1>12, StreamKeeps

\* What a tab has after a write to its stream.
LEMMA ToldIs ==
    ASSUME EventsInv, NEW s \in Tasks, NEW id, NEW notified, NEW next,
           EventWritten(s, id, notified, next), NEW t \in Requests, source[t].src = s
    PROVE  Told(t, id, notified, source'[t])
BY DEF EventWritten

\* A write moves the identifiers in any case.
LEMMA ReachedIs ==
    ASSUME NEW s \in Tasks, NEW id, NEW notified, NEW next, EventWritten(s, id, notified, next)
    PROVE  EventReached(s, id, next)
BY DEF EventWritten, EventReached, Told

\* The ready event, with or without an identifier, keeps the invariant.
LEMMA ReadyKeeps ==
    ASSUME EventsInv, NEW s \in Tasks, Events!Ready(s)
    PROVE  EventsInv'
<1> DEFINE id == IF Events!Behind(s) THEN Events!NoId ELSE st[s].base
           next == IF Events!Behind(s) THEN "catchup" ELSE "live"
<1>1. /\ st[s].pc = "ready" /\ next \in {"catchup", "live"}
      /\ EventsInv' \/ EventWritten(s, id, FALSE, next)
  BY WriteIs DEF Events!Ready
<1>2. /\ st[s].base \in 0 .. arrived /\ arrived \in Nat /\ arrived \in Uids
      /\ id = Events!NoId \/ id \in 0 .. arrived
  BY StreamIs
<1>3. /\ (watch.on /\ watch.run /\ s \in watch.subs) \/ st[s].q.kind = "session_expired"
      /\ \A m \in inbox : m > st[s].base => Coming(s, m)
  BY <1>1, JoinedIs
<1>4. ASSUME EventWritten(s, id, FALSE, next), NEW t \in Requests, source[t].src = s
      PROVE  /\ next = "catchup" => source'[t].cursor = st[s].resume
             /\ source'[t].cursor = Events!NoId => source'[t].owed = {}
             /\ \A m \in source'[t].owed :
                   /\ m \in inbox /\ m > source'[t].cursor
                   /\ \/ Coming(s, m)
                      \/ next = "catchup" /\ st[s].base >= m /\ Events!Behind(s)
  <2>1. /\ source'[t].cursor = IF id = Events!NoId THEN source[t].cursor ELSE id
        /\ source'[t].owed \subseteq inbox
        /\ \A m \in source'[t].owed :
              \/ m \in source[t].owed
              \/ source[t].cursor = Events!NoId /\ id # Events!NoId /\ m > id
    <3>1. Told(t, id, FALSE, source'[t])
      BY <1>4, ToldIs
    <3> QED
      BY <3>1 DEF Told
  <2>2. /\ source[t].cursor = Events!NoId => source[t].owed = {}
        /\ source[t].owed \subseteq inbox
        /\ \A m \in source[t].owed : m > source[t].cursor /\ m \in Nat
        /\ st[s].resume = source[t].cursor
        /\ \A m \in source[t].owed : Coming(s, m) \/ (st[s].base >= m /\ Events!Behind(s))
    BY <1>1, <1>4, SourceIs, JoinedIs
  <2>3. CASE Events!Behind(s)
    BY <2>1, <2>2, <2>3
  <2>4. CASE ~Events!Behind(s)
    <3>1. id = st[s].base /\ id # Events!NoId /\ id \in Int /\ next = "live"
      BY <1>2, <2>4, FreeIs
    <3>2. source'[t].cursor = id
      BY <2>1, <3>1
    <3>3. CASE source[t].cursor = Events!NoId
      BY <1>3, <2>1, <2>2, <3>1, <3>2, <3>3
    <3>4. CASE source[t].cursor # Events!NoId
      <4>1. source[t].cursor \in Int
        BY SourceIs DEF Marks, Events!NoId
      <4>2. ~(st[s].base > st[s].resume) /\ source'[t].owed \subseteq source[t].owed
        BY <2>1, <2>2, <2>4, <3>4 DEF Events!Behind
      <4>3. \A m \in source[t].owed : m > id
        BY <2>2, <3>1, <4>1, <4>2
      <4> QED
        BY <2>2, <2>4, <3>1, <3>2, <4>2, <4>3
    <3> QED
      BY <3>3, <3>4
  <2> QED
    BY <2>3, <2>4
<1>5. next = "catchup" => st[s].pc = "ready" /\ \A m \in inbox : m > st[s].base => Coming(s, m)
  BY <1>1, <1>3
<1>6. \/ watch.on /\ watch.run /\ s \in watch.subs
      \/ st[s].pc # "live" /\ st[s].q.kind = "session_expired"
  BY <1>1, <1>3
<1> HIDE DEF id, next
<1>7. ASSUME EventWritten(s, id, FALSE, next)
      PROVE  \A t \in Requests : source[t].src = s =>
                /\ next = "catchup" => source'[t].cursor = st[s].resume
                /\ source'[t].cursor = Events!NoId => source'[t].owed = {}
                /\ \A m \in source'[t].owed :
                      /\ m \in inbox /\ m > source'[t].cursor
                      /\ \/ watch.on /\ watch.run /\ s \in watch.subs /\ m > watch.latest
                         \/ st[s].pc # "live" /\ Coming(s, m)
                         \/ next = "catchup" /\ st[s].base >= m /\ Events!Behind(s)
  BY <1>1, <1>4, <1>7
<1>8. CASE EventWritten(s, id, FALSE, next)
  <2>1. next \in {"catchup", "live"} /\ (id = Events!NoId \/ id \in 0 .. arrived)
        /\ arrived \in Uids
    BY <1>1, <1>2
  <2>3. EventReached(s, id, next)
    BY <1>8, ReachedIs
  <2>2. \A t \in Requests : source[t].src = s =>
                /\ next = "catchup" => source'[t].cursor = st[s].resume
                /\ source'[t].cursor = Events!NoId => source'[t].owed = {}
                /\ \A m \in source'[t].owed :
                      /\ m \in inbox /\ m > source'[t].cursor
                      /\ \/ watch.on /\ watch.run /\ s \in watch.subs /\ m > watch.latest
                         \/ st[s].pc # "live" /\ Coming(s, m)
                         \/ next = "catchup" /\ st[s].base >= m /\ Events!Behind(s)
    BY <1>7, <1>8
  <2> QED
    BY <2>1, <2>2, <2>3, <1>5, <1>6, EventWrittenKeeps
<1> QED
  BY <1>1, <1>8

\* The notice that catches up keeps the invariant.
LEMMA CatchupKeeps ==
    ASSUME EventsInv, NEW s \in Tasks, Events!Catchup(s)
    PROVE  EventsInv'
<1>1. st[s].pc = "catchup" /\ (EventsInv' \/ EventWritten(s, st[s].base, TRUE, "live"))
  BY WriteIs DEF Events!Catchup
<1>2. st[s].base \in 0 .. arrived /\ arrived \in Nat /\ arrived \in Uids
  BY StreamIs
<1>3. (watch.on /\ watch.run /\ s \in watch.subs) \/ st[s].q.kind = "session_expired"
  BY <1>1, JoinedIs
<1>4. ASSUME EventWritten(s, st[s].base, TRUE, "live"), NEW t \in Requests, source[t].src = s
      PROVE  /\ source'[t].cursor # Events!NoId
             /\ \A m \in source'[t].owed : m \in inbox /\ m > source'[t].cursor /\ Coming(s, m)
  <2>1. st[s].base # Events!NoId
    BY <1>2, FreeIs
  <2>2. /\ source'[t].cursor = st[s].base
        /\ \A m \in source'[t].owed : m \in source[t].owed /\ m > st[s].base
    <3>1. Told(t, st[s].base, TRUE, source'[t])
      BY <1>4, ToldIs
    <3> QED
      BY <2>1, <3>1 DEF Told
  <2>3. /\ source[t].owed \subseteq inbox
        /\ \A m \in source[t].owed : m \in Nat /\ (Coming(s, m) \/ st[s].base >= m)
    BY <1>1, <1>4, SourceIs, JoinedIs
  <2> QED
    BY <1>2, <2>1, <2>2, <2>3
<1>5. EventWritten(s, st[s].base, TRUE, "live") => EventReached(s, st[s].base, "live")
  BY ReachedIs
<1> QED
  BY <1>1, <1>2, <1>3, <1>4, <1>5, EventWrittenKeeps

\* The notice of new mail keeps the invariant.
LEMMA SendNewMailKeeps ==
    ASSUME EventsInv, NEW s \in Tasks, Events!SendNewMail(s)
    PROVE  EventsInv'
<1> DEFINE id == st[s].q.uid
<1>1. /\ st[s].pc = "live" /\ st[s].q.kind = "new_mail"
      /\ EventsInv' \/ EventWritten(s, id, TRUE, "live")
  BY WriteIs DEF Events!SendNewMail
<1>2. id \in 0 .. arrived /\ arrived \in Nat /\ arrived \in Uids
  BY StreamIs
<1>3. watch.on /\ watch.run /\ s \in watch.subs
  BY <1>1, JoinedIs
<1>4. ASSUME EventWritten(s, id, TRUE, "live"), NEW t \in Requests, source[t].src = s
      PROVE  /\ source'[t].cursor # Events!NoId
             /\ \A m \in source'[t].owed :
                   m \in inbox /\ m > source'[t].cursor /\ m > watch.latest
  <2>1. id # Events!NoId
    BY <1>2, FreeIs
  <2>2. source'[t].cursor = id /\ \A m \in source'[t].owed : m \in source[t].owed /\ m > id
    <3>1. Told(t, id, TRUE, source'[t])
      BY <1>4, ToldIs
    <3> QED
      BY <2>1, <3>1 DEF Told
  <2>3. /\ source[t].owed \subseteq inbox
        /\ \A m \in source[t].owed : m \in Nat /\ Coming(s, m)
    BY <1>1, <1>4, SourceIs, JoinedIs
  <2>4. \A m \in source[t].owed : m > id => m > watch.latest
    BY <1>1, <1>2, <2>3 DEF Coming
  <2> QED
    BY <2>1, <2>2, <2>3, <2>4
<1> HIDE DEF id
<1>5. EventWritten(s, id, TRUE, "live") => EventReached(s, id, "live")
  BY ReachedIs
<1> QED
  BY <1>1, <1>2, <1>3, <1>4, <1>5, EventWrittenKeeps

\* The watcher of the other streams that it feeds goes on.
WatchKeeps(s) ==
    /\ watch' \in [on : BOOLEAN, run : BOOLEAN, latest : 0 .. arrived, subs : SUBSET Tasks,
                   pc : {"sleep", "apply"}, got : 0 .. arrived]
    /\ watch'.on <=> watch'.subs # {}
    /\ \A u \in Tasks : u # s /\ watch.on /\ watch.run /\ u \in watch.subs =>
          watch'.on /\ watch'.run /\ watch'.latest = watch.latest /\ u \in watch'.subs

\* What becomes of a tab when the stream s starts, is subscribed or leaves as x.
Attached(s, x, t) ==
    /\ source'[t].cursor = source[t].cursor /\ source'[t].owed = source[t].owed
    /\ source'[t].src = s => x.pc # "free" /\ x.resume = source[t].cursor
    /\ source'[t].src # s => source'[t].src = source[t].src

\* A subscribed stream announces from the watcher's newest message on; a tab that
\* stands before that is told by the notice that catches up.
LEMMA AttachKeeps ==
    ASSUME EventsInv, NEW s \in Tasks, NEW x \in Streaming, x.base <= arrived, x.q.uid <= arrived,
           st' = [st EXCEPT ![s] = x], UNCHANGED <<inbox, arrived, access>>,
           \/ x.pc \in {"free", "read"}
           \/ /\ x.pc = "ready" /\ x.base = watch'.latest
              /\ watch'.on /\ watch'.run /\ s \in watch'.subs,
           WatchKeeps(s), source' \in Sources, \A t \in Requests : Attached(s, x, t)
    PROVE  EventsInv'
<1>1. /\ st \in [Tasks -> Streaming] /\ st' \in [Tasks -> Streaming]
      /\ st'[s] = x /\ \A u \in Tasks : u # s => st'[u] = st[u]
  BY DEF EventsInv, EventsTyped
<1>2. EventsTyped'
  <2>1. source' \in Sources /\ Sources' = Sources
    BY DEF Sources
  <2>2. \A u \in Tasks : st'[u].base <= arrived /\ st'[u].q.uid <= arrived
    BY <1>1 DEF EventsInv, EventsTyped
  <2>3. \A t \in Requests : source'[t].cursor <= arrived
    BY DEF EventsInv, EventsTyped, Attached
  <2>4. watch' \in [on : BOOLEAN, run : BOOLEAN, latest : 0 .. arrived, subs : SUBSET Tasks,
                    pc : {"sleep", "apply"}, got : 0 .. arrived]
        /\ (watch'.on <=> watch'.subs # {})
    BY DEF WatchKeeps
  <2> QED
    BY <1>1, <2>1, <2>2, <2>3, <2>4 DEF EventsInv, EventsTyped
<1>3. Hearing'
  <2> SUFFICES ASSUME NEW t \in Requests
               PROVE  /\ source'[t].cursor = Events!NoId => source'[t].owed = {}
                      /\ \A m \in source'[t].owed : m > source'[t].cursor
                      /\ source'[t].src \in Tasks =>
                            /\ st'[source'[t].src].pc \in {"read", "join", "ready", "catchup", "live"}
                            /\ st'[source'[t].src].pc # "live" =>
                                  st'[source'[t].src].resume = source'[t].cursor
    BY DEF Hearing, Events!NoId
  <2>1. CASE source'[t].src = s
    BY <1>1, <2>1 DEF EventsInv, Hearing, Attached
  <2>2. CASE source'[t].src # s
    BY <1>1, <2>2 DEF EventsInv, Hearing, Attached
  <2> QED
    BY <2>1, <2>2
<1>4. Events!StreamsFed'
  <2> SUFFICES ASSUME NEW u \in Tasks, st'[u].pc \in {"ready", "catchup", "live"}
               PROVE  (watch'.on /\ watch'.run /\ u \in watch'.subs)
                         \/ st'[u].q.kind = "session_expired"
    BY DEF Events!StreamsFed, Events!Joined, Events!Alive
  <2>1. CASE u = s
    BY <1>1, <2>1
  <2>2. CASE u # s
    BY <1>1, <2>2, JoinedIs DEF WatchKeeps
  <2> QED
    BY <2>1, <2>2
<1>5. ASSUME NEW u \in Tasks, u # s, NEW m, Coming(u, m)
      PROVE  Coming(u, m)'
  BY <1>1, <1>5 DEF Coming, WatchKeeps
<1>6. \A m : x.pc = "ready" /\ m > x.base => Coming(s, m)'
  BY DEF Coming
<1>7. Announced'
  <2>1. ASSUME NEW u \in Tasks, st'[u].pc \in {"ready", "catchup"}, NEW m \in inbox, m > st'[u].base
        PROVE  Coming(u, m)'
    <3>1. CASE u = s
      BY <1>1, <1>6, <2>1, <3>1
    <3>2. CASE u # s
      BY <1>1, <1>5, <2>1, <3>2 DEF EventsInv, Announced
    <3> QED
      BY <3>1, <3>2
  <2>2. ASSUME NEW t \in Requests, NEW m, m \in source'[t].owed,
               NEW u \in Tasks, u = source'[t].src, st'[u].pc \in {"ready", "catchup", "live"}
        PROVE  \/ Coming(u, m)'
               \/ /\ st'[u].pc \in {"ready", "catchup"} /\ st'[u].base >= m
                  /\ st'[u].resume # Events!NoId /\ st'[u].base > st'[u].resume
    <3>0. m \in source[t].owed
      BY <2>2 DEF Attached
    <3>1. CASE u = s
      <4>0. st'[u] = x /\ x.base \in Int
        BY <1>1, <3>1 DEF Streaming, Uids
      <4>1. x.pc = "ready" /\ x.resume = source[t].cursor
        BY <2>2, <3>1, <4>0 DEF Attached
      <4>2. m \in Int /\ m > x.resume /\ x.resume # Events!NoId /\ x.resume \in Int
        BY <3>0, <4>0, <4>1, SourceIs DEF Marks, Events!NoId
      <4>3. CASE m > x.base
        BY <1>6, <3>1, <4>1, <4>3
      <4>4. CASE ~(m > x.base)
        BY <4>0, <4>1, <4>2, <4>4
      <4> QED
        BY <4>3, <4>4
    <3>2. CASE u # s
      <4>1. source[t].src = u /\ st'[u] = st[u]
        BY <1>1, <2>2, <3>2 DEF Attached
      <4>2. Coming(u, m) \/ (/\ st[u].pc \in {"ready", "catchup"} /\ st[u].base >= m
                             /\ st[u].resume # Events!NoId /\ st[u].base > st[u].resume)
        BY <2>2, <3>0, <4>1 DEF EventsInv, Announced, Events!Joined, Events!Behind
      <4>3. Coming(u, m) => Coming(u, m)'
        BY <1>5, <3>2
      <4> QED
        BY <4>1, <4>2, <4>3
    <3> QED
      BY <3>1, <3>2
  <2> QED
    BY <2>1, <2>2 DEF Announced, Events!Joined, Events!Behind, Events!NoId
<1> QED
  BY <1>2, <1>3, <1>4, <1>7 DEF EventsInv

\* The fields of the watcher.
LEMMA WatchIs ==
    ASSUME EventsInv
    PROVE  /\ watch \in [on : BOOLEAN, run : BOOLEAN, latest : 0 .. arrived, subs : SUBSET Tasks,
                         pc : {"sleep", "apply"}, got : 0 .. arrived]
           /\ watch.on <=> watch.subs # {}
BY DEF EventsInv, EventsTyped

\* A stream that joins the watcher, or starts it, keeps the invariant.
LEMMA JoinKeeps ==
    ASSUME EventsInv, NEW s \in Tasks, Events!Join(s)
    PROVE  EventsInv'
<1> DEFINE x == [st[s] EXCEPT !.pc = "ready", !.base = watch'.latest]
<1>1. /\ st[s].pc = "join" /\ UNCHANGED <<inbox, arrived, access, source>>
      /\ IF watch.on /\ watch.run THEN watch' = [watch EXCEPT !.subs = watch.subs \cup {s}]
         ELSE watch' \in [on : {TRUE}, run : {TRUE}, latest : {st[s].base}, subs : {{s}},
                          pc : {"sleep"}, got : {0}]
  <2>1. ASSUME NEW n, NEW S
        PROVE  [Events!NoWatch EXCEPT !.on = TRUE, !.run = TRUE, !.latest = n, !.subs = S]
                  \in [on : {TRUE}, run : {TRUE}, latest : {n}, subs : {S}, pc : {"sleep"}, got : {0}]
    BY DEF Events!NoWatch
  <2>2. /\ st[s].pc = "join" /\ UNCHANGED <<inbox, arrived, access, source>>
        /\ watch' = IF watch.on /\ watch.run THEN [watch EXCEPT !.subs = watch.subs \cup {s}]
                    ELSE [Events!NoWatch EXCEPT !.on = TRUE, !.run = TRUE, !.latest = st[s].base,
                                                !.subs = {s}]
    BY DEF Events!Join, Events!Server, Events!outside, Events!Alive, Events!Added
  <2> QED
    BY <2>1, <2>2
<1>2. /\ watch' \in [on : BOOLEAN, run : BOOLEAN, latest : 0 .. arrived, subs : SUBSET Tasks,
                     pc : {"sleep", "apply"}, got : 0 .. arrived]
      /\ watch'.on /\ watch'.run /\ s \in watch'.subs
      /\ watch.on /\ watch.run => watch'.latest = watch.latest /\ watch.subs \subseteq watch'.subs
  <2>1. st[s].base \in 0 .. arrived /\ 0 \in 0 .. arrived
    BY StreamIs
  <2>2. CASE watch.on /\ watch.run
    BY <1>1, <2>2, WatchIs
  <2>3. CASE ~(watch.on /\ watch.run)
    BY <1>1, <2>1, <2>3
  <2> QED
    BY <2>2, <2>3
<1>3. WatchKeeps(s)
  BY <1>2 DEF WatchKeeps
<1>4. x \in Streaming /\ x.pc = "ready" /\ x.base = watch'.latest /\ x.q = st[s].q
      /\ x.resume = st[s].resume /\ x.base <= arrived /\ x.q.uid <= arrived
  <2>1. watch'.latest \in Uids /\ watch'.latest <= arrived
    BY <1>2, StreamIs, EventsBounds DEF Uids
  <2>2. st[s] \in Streaming /\ st[s].q.uid <= arrived
    BY StreamIs
  <2> QED
    BY <2>1, <2>2 DEF Streaming
<1>5. st' = [st EXCEPT ![s] = x]
  BY <1>1 DEF Events!Join, EventsInv, EventsTyped, Streaming
<1> HIDE DEF x
<1>6. source' \in Sources
  BY <1>1 DEF EventsInv, EventsTyped
<1>7. \A t \in Requests : Attached(s, x, t)
  BY <1>1, <1>4, SourceIs DEF Attached
<1> QED
  BY <1>1, <1>2, <1>3, <1>4, <1>5, <1>6, <1>7, AttachKeeps

\* A request for events keeps the invariant.
LEMMA ConnectKeeps ==
    ASSUME EventsInv, NEW s \in Tasks, NEW t \in Requests, Events!Connect(t, s)
    PROVE  EventsInv'
<1> DEFINE x == IF watch.on /\ watch.run
                THEN [Events!Free EXCEPT !.pc = "ready", !.base = watch.latest,
                                         !.resume = source[t].cursor]
                ELSE [Events!Free EXCEPT !.pc = "read", !.resume = source[t].cursor]
<1>1. /\ source[t].src = "waiting" /\ st[s].pc = "free"
      /\ UNCHANGED <<inbox, arrived, access>> /\ source' = [source EXCEPT ![t].src = s]
      /\ watch' = IF watch.on /\ watch.run THEN [watch EXCEPT !.subs = watch.subs \cup {s}]
                  ELSE watch
      /\ st' = [st EXCEPT ![s] = x]
  BY DEF Events!Connect, Events!Server, Events!outside, Events!Alive, Events!Added
<1>2. /\ WatchKeeps(s)
      /\ watch.on /\ watch.run =>
            watch'.on /\ watch'.run /\ s \in watch'.subs /\ watch'.latest = watch.latest
  BY <1>1, WatchIs DEF WatchKeeps
<1>3. /\ x \in Streaming /\ x.resume = source[t].cursor /\ x.base <= arrived /\ x.q.uid <= arrived
      /\ IF watch.on /\ watch.run THEN x.pc = "ready" /\ x.base = watch.latest ELSE x.pc = "read"
  <2>1. watch.latest \in Uids /\ watch.latest <= arrived /\ source[t].cursor \in Marks
        /\ 0 <= arrived
    BY WatchIs, SourceIs, StreamIs, EventsBounds DEF Uids
  <2> QED
    BY <2>1, FreeIs DEF Streaming
<1> HIDE DEF x
<1>4. /\ source' \in Sources
      /\ source'[t].src = s /\ source'[t].cursor = source[t].cursor /\ source'[t].owed = source[t].owed
      /\ \A u \in Requests : u # t => source'[u] = source[u]
  BY <1>1 DEF EventsInv, EventsTyped, Sources
<1>5. \A u \in Requests : source[u].src # s
  BY <1>1, SourceIs
<1>6. \A u \in Requests : Attached(s, x, u)
  BY <1>3, <1>4, <1>5 DEF Attached
<1> QED
  BY <1>1, <1>2, <1>3, <1>4, <1>6, AttachKeeps

\* A stream that leaves, perhaps as the last one of its watcher, keeps the invariant.
LEMMA LeaveKeeps ==
    ASSUME EventsInv, NEW s \in Tasks, Events!Leave(s)
    PROVE  EventsInv'
<1>1. /\ st[s].pc = "leave" /\ UNCHANGED <<inbox, arrived, access, source>>
      /\ st' = [st EXCEPT ![s] = Events!Free]
      /\ watch' = IF watch.subs \subseteq {s}
                  THEN [on |-> FALSE, run |-> FALSE, latest |-> 0, subs |-> {},
                        pc |-> "sleep", got |-> 0]
                  ELSE [watch EXCEPT !.subs = watch.subs \ {s}]
  BY DEF Events!Leave, Events!Server, Events!outside, Events!NoWatch
<1>2. WatchKeeps(s)
  <2>1. 0 \in 0 .. arrived
    BY StreamIs
  <2> QED
    BY <1>1, <2>1, WatchIs DEF WatchKeeps
<1>3. /\ Events!Free \in Streaming /\ Events!Free.pc = "free" /\ Events!Free.base <= arrived
      /\ Events!Free.q.uid <= arrived
  BY FreeIs, StreamIs
<1>4. \A t \in Requests : Attached(s, Events!Free, t)
  BY <1>1, SourceIs DEF Attached
<1>5. source' \in Sources
  BY <1>1 DEF EventsInv, EventsTyped
<1> QED
  BY <1>1, <1>2, <1>3, <1>4, <1>5, AttachKeeps

\* A tab stops hearing its stream, or asks for one again.
LEMMA TabKeeps ==
    ASSUME EventsInv, NEW t \in Requests,
           NEW y \in {Events!Closed, [source[t] EXCEPT !.src = "waiting"]},
           source' = [source EXCEPT ![t] = y], UNCHANGED <<inbox, arrived, access, watch, st>>
    PROVE  EventsInv'
<1>1. /\ y \in [src : {"closed", "waiting"}, cursor : Marks, owed : SUBSET inbox]
      /\ y.cursor <= arrived
      /\ y.cursor = Events!NoId => y.owed = {}
      /\ \A m \in y.owed : m > y.cursor
  <2>1. source[t] \in [src : Tasks \cup {"closed", "waiting"}, cursor : Marks, owed : SUBSET inbox]
    BY DEF EventsInv, EventsTyped, Sources
  <2>2. CASE y = Events!Closed
    <3>1. /\ Events!Closed \in [src : {"closed"}, cursor : Marks, owed : {{}}]
          /\ Events!Closed.cursor <= arrived /\ Events!Closed.owed = {}
      <4>1. arrived \in Nat
        BY DEF EventsInv, EventsTyped, Uids
      <4>2. Events!NoId <= arrived
        BY <4>1 DEF Events!NoId
      <4> QED
        BY <4>2, FreeIs
    <3> QED
      BY <2>2, <3>1
  <2>3. CASE y = [source[t] EXCEPT !.src = "waiting"]
    BY <2>1, <2>3, SourceIs
  <2> QED
    BY <2>2, <2>3
<1>2. /\ source' \in Sources /\ source'[t] = y
      /\ \A u \in Requests : u # t => source'[u] = source[u]
  BY <1>1 DEF EventsInv, EventsTyped, Sources
<1>3. EventsTyped'
  <2>1. \A u \in Requests : source'[u].cursor <= arrived
    BY <1>1, <1>2 DEF EventsInv, EventsTyped
  <2>2. source' \in Sources /\ Sources' = Sources
    BY <1>2 DEF Sources
  <2> QED
    BY <2>1, <2>2 DEF EventsInv, EventsTyped
<1>4. Hearing'
  BY <1>1, <1>2, EventsBounds DEF EventsInv, Hearing, Events!NoId
<1>5. Events!StreamsFed'
  BY DEF EventsInv, Events!StreamsFed, Events!Joined, Events!Alive
<1>6. Announced'
  <2>1. y.src \notin Tasks
    BY <1>1, EventsBounds
  <2> QED
    BY <1>2, <2>1 DEF EventsInv, Announced, Coming, Events!Joined, Events!Behind, Events!NoId
<1> QED
  BY <1>3, <1>4, <1>5, <1>6 DEF EventsInv

\* A tab that opens, closes or loses its source keeps the invariant.
LEMMA TabsKeep ==
    ASSUME EventsInv, NEW t \in Requests, Events!Open(t) \/ Events!Close(t) \/ Events!Break(t)
    PROVE  EventsInv'
<1>1. \/ source' = [source EXCEPT ![t] = Events!Closed]
      \/ source' = [source EXCEPT ![t] = [source[t] EXCEPT !.src = "waiting"]]
  BY DEF Events!Open, Events!Close, Events!Break
<1>2. UNCHANGED <<inbox, arrived, access, watch, st>>
  BY DEF Events!Open, Events!Close, Events!Break, Events!Server, Events!outside
<1> QED
  BY <1>1, <1>2, TabKeeps

\* Every step of a stream keeps the invariant.
LEMMA ServeKeeps ==
    ASSUME EventsInv, NEW s \in Tasks, Events!Serve(s)
    PROVE  EventsInv'
BY InitialReadKeeps, RefusedKeepsOn, JoinKeeps, ReadyKeeps, CatchupKeeps, SendNewMailKeeps,
   SendExpiredKeeps, NoticeBreakKeeps, LeaveKeeps DEF Events!Serve

\* Every step keeps the invariant.
LEMMA EventsStep == EventsInv /\ [Events!Next]_(Events!vars) => EventsInv'
<1> SUFFICES ASSUME EventsInv, [Events!Next]_(Events!vars) PROVE EventsInv'
  OBVIOUS
<1>1. CASE UNCHANGED Events!vars
  BY <1>1 DEF Events!vars, EventsInv, EventsTyped, Sources, Hearing, Announced, Coming,
     Events!StreamsFed, Events!Joined, Events!Alive, Events!Behind
<1>2. CASE \E s \in Tasks : Events!Serve(s) \/ \E t \in Requests : Events!Connect(t, s)
  BY <1>2, ServeKeeps, ConnectKeeps
<1>3. CASE \E t \in Requests : Events!Open(t) \/ Events!Close(t) \/ Events!Break(t)
  BY <1>3, TabsKeep
<1>4. CASE Events!Deliver \/ Events!Expunge \/ Events!SwitchAccess
           \/ Events!Probe \/ Events!ProbeFails \/ Events!Apply
  BY <1>4, DeliverKeeps, ExpungeKeeps, SwitchAccessKeeps, ProbeKeeps, ProbeFailsKeeps, ApplyKeeps
<1> QED
  BY <1>1, <1>2, <1>3, <1>4 DEF Events!Next

\* A message that a tab is owed a notice of is never passed by the identifier that
\* the tab would resume from, and while the tab is connected it is on its way to
\* it (_MailEventHub, mail_events), for any number of tabs, streams and messages.
THEOREM ArrivalsAlwaysReach == Events!Spec => []ArrivalsReach
<1>1. Events!Init => EventsInv
  BY EventsStart
<1>2. EventsInv /\ [Events!Next]_(Events!vars) => EventsInv'
  BY EventsStep
<1>3. EventsInv => ArrivalsReach
  BY EventsArrive
<1> QED
  BY <1>1, <1>2, <1>3, PTL DEF Events!Spec
==============================================================================
