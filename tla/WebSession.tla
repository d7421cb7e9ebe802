----------------------------- MODULE WebSession -----------------------------
(***************************************************************************)
(* The session check of the web process: the authentication middleware     *)
(* (web.py), the two-second session cache with its shared reads and the    *)
(* operations that change a session (gateway.py), and the cookie in the    *)
(* browser.  One browser, whose tabs may sign in again at any time, and    *)
(* the session of the last sign-in that was answered.  Sessions meet only  *)
(* in the cookie: an answer that deletes it goes by its name, whichever    *)
(* token it holds by then, so what is left of the requests of an earlier   *)
(* session is kept as long as their answers may delete it.                 *)
(*                                                                         *)
(* Everything runs on one event loop: what lies between two awaits is one  *)
(* step, and a request that is ready is resumed before time passes.  A     *)
(* request may be cancelled at every await (the server runs with           *)
(* handler_cancellation); the thread that calls the helper goes on.        *)
(*                                                                         *)
(* Abstractions.  A principal is whether the session is elevated.  Time    *)
(* counts in ticks from the moment the helper read the session; an entry   *)
(* that expires is dropped.  Calls of the helper are served in any order.  *)
(*                                                                         *)
(* A definition just before another one with the same parameters is a      *)
(* wrong version of it; PROJECT.json lists which property catches which.   *)
(***************************************************************************)
EXTENDS Integers

CONSTANTS
    Requests,   \* HTTP requests of the browser
    Tasks,      \* pool of session reads
    CacheTicks, \* _SESSION_CACHE_SECONDS
    CallTicks,  \* socket timeout of a helper call
    None

\* What every instance has to give; the MC modules assume it of theirs.
WebSessionAssumption ==
    /\ CacheTicks \in Nat \ {0} /\ CallTicks \in Nat \ {0}
    /\ None \notin Requests \cup Tasks \cup {"plain", "elevated", "gone", "failed"}

VARIABLES
    store,    \* the session as the helper has it
    cookie,   \* whether the browser still holds the token
    cache,    \* _session_cache
    flight,   \* _session_flights
    req,      \* where each request is
    given,    \* history: age of the session a handler was given in this step
    late,     \* effects of operations whose caller has gone, not yet at the helper
    settled,  \* history: what was answered when no read was under way
    crossed   \* history: an answer about another token took the cookie

vars == <<store, cookie, cache, flight, req, given, late, settled, crossed>>

Live == {"plain", "elevated"}
\* What a session read may end with.
Outcomes == Live \cup {"gone", "failed"}
\* Operations of the handlers: "read" stands for all that leave the session
\* alone, "end" for a password change and for new recovery codes, "login" for
\* the requests of a sign-in.
Operations == {"read", "logout", "end", "step_up", "login"}
Recent == CacheTicks + CallTicks
AgeCap == Recent + 1

\* A request that has no session yet, or no longer needs one.
Stage(at, op, task) ==
    [at |-> at, op |-> op, task |-> task, value |-> None, age |-> 0, orphan |-> FALSE]
Idle == Stage("idle", "read", None)

Init ==
    /\ store = "plain" /\ cookie = TRUE /\ cache = None /\ flight = None
    /\ req = [r \in Requests |-> Idle]
    /\ given = [age |-> 0, orphan |-> FALSE]
    /\ late = {} /\ settled = None /\ crossed = FALSE

\* No handler is given a session in this step.
NoneGiven == given' = [age |-> 0, orphan |-> FALSE]

----------------------------------------------------------------------------
(* session() and the middleware *)

\* The request goes on with a principal (or, for a read, is over).
Goes(op) ==
    CASE op = "read" -> Idle
      [] op = "login" -> Stage("signing", "login", None)
      [] OTHER -> Stage("calling", op, None)

Proceed(r, op, age, orphan) ==
    /\ given' = [age |-> age, orphan |-> orphan]
    /\ req' = [req EXCEPT ![r] = Goes(op)]

\* logout drops the cache entry before it calls the helper.
CacheBeforeCall(op, kept) == IF op = "logout" THEN None ELSE kept

CheckFromCache(r, op) ==
    /\ req[r].at = "idle" /\ cookie /\ cache # None
    /\ Proceed(r, op, cache.age, cache.orphan)
    /\ cache' = CacheBeforeCall(op, cache)
    /\ UNCHANGED <<store, cookie, flight, late, settled, crossed>>

\* A read under way is shared, and so is one that is over and still stored.
JoinFlight(r, op) ==
    /\ req[r].at = "idle" /\ cookie /\ cache = None /\ flight # None
    /\ req' = [req EXCEPT ![r] =
                  [at |-> IF flight.at = "done" THEN "resuming" ELSE "waiting", op |-> op,
                   task |-> flight.id, value |-> flight.value, age |-> flight.age,
                   orphan |-> flight.orphan]]
    /\ NoneGiven /\ UNCHANGED <<store, cookie, cache, flight, late, settled, crossed>>

StartFlight(r, op) ==
    /\ req[r].at = "idle" /\ cookie /\ cache = None /\ flight = None
    /\ \E t \in Tasks :
        /\ \A q \in Requests : req[q].task # t
        /\ flight' = [id |-> t, at |-> "running", value |-> None, age |-> 0, elapsed |-> 0,
                      orphan |-> FALSE]
        /\ req' = [req EXCEPT ![r] = Stage("waiting", op, t)]
    /\ NoneGiven /\ UNCHANGED <<store, cookie, cache, late, settled, crossed>>

\* finally: the task is forgotten by the first waiter that finds it over.
ForgetFlight(r) ==
    flight' = IF flight # None /\ flight.id = req[r].task /\ flight.at = "done"
              THEN None ELSE flight

\* The awaited read is over: the session is cached, without a look at what
\* happened since, and the handler runs.
SessionChecked(r) ==
    /\ req[r].at = "resuming" /\ req[r].value \in Live
    /\ ForgetFlight(r)
    /\ Proceed(r, req[r].op, req[r].age, req[r].orphan)
    /\ cache' = CacheBeforeCall(req[r].op, [value |-> req[r].value, age |-> req[r].age,
                                            left |-> CacheTicks, orphan |-> req[r].orphan])
    /\ UNCHANGED <<store, cookie, late, settled, crossed>>

\* The middleware clears the cookie when the helper refused the session, and
\* answers 503 when it could not ask.  A sign-in goes on with a refused
\* session, and its answer clears the cookie.
ClearsCookieOnFailure(value) == value \notin Live
ClearsCookie(value) == value = "gone"

Dead == [Stage("signing", "login", None) EXCEPT !.value = "gone"]

CheckFailed(r) ==
    /\ req[r].at = "resuming" /\ req[r].value \notin Live
    /\ ForgetFlight(r)
    /\ \/ /\ req[r].op = "login" /\ req[r].value = "gone"
          /\ req' = [req EXCEPT ![r] = Dead] /\ cookie' = cookie
       \/ /\ ~(req[r].op = "login" /\ req[r].value = "gone")
          /\ req' = [req EXCEPT ![r] = Idle]
          /\ cookie' = (cookie /\ ~ClearsCookie(req[r].value))
    /\ NoneGiven /\ UNCHANGED <<store, cache, late, settled, crossed>>

----------------------------------------------------------------------------
(* The shared read *)

FlightServed ==
    /\ flight # None /\ flight.at = "running"
    /\ flight' = [flight EXCEPT !.at = "served", !.value = store, !.age = 0]
    /\ NoneGiven /\ UNCHANGED <<store, cookie, cache, req, late, settled, crossed>>

\* The task is over and wakes everyone who waits for it; if their requests
\* were cancelled, nobody takes it out of _session_flights.
FlightOver(value) ==
    LET waiters == {r \in Requests : req[r].at = "waiting" /\ req[r].task = flight.id}
    IN  /\ flight' = [flight EXCEPT !.at = "done", !.value = value, !.orphan = (waiters = {})]
        /\ req' = [r \in Requests |->
                      IF r \in waiters
                      THEN [req[r] EXCEPT !.at = "resuming", !.value = value, !.age = flight.age]
                      ELSE req[r]]
        /\ NoneGiven /\ UNCHANGED <<store, cookie, cache, late, settled, crossed>>

FlightArrives == flight # None /\ flight.at = "served" /\ FlightOver(flight.value)
FlightFails == flight # None /\ flight.at \in {"running", "served"} /\ FlightOver("failed")

----------------------------------------------------------------------------
(* Operations that change the session *)

\* What the helper makes of an operation that it accepts.
Effect(op) ==
    CASE op \in {"logout", "end"} -> "gone"
      [] op = "step_up" -> "elevated"

\* The helper authorizes against its own store, whatever the web process was
\* told.  A change of password ends the sessions before Maddy is asked, so it
\* may fail with that effect.
OperationServed(r) ==
    /\ req[r].at = "calling"
    /\ \/ /\ store # "gone" /\ store' = Effect(req[r].op)
          /\ req' = [req EXCEPT ![r].at = "answered", ![r].value = "ok"]
       \/ /\ store # "gone" /\ store' \in {store} \cup (IF req[r].op = "end" THEN {"gone"} ELSE {})
          /\ req' = [req EXCEPT ![r].at = "answered", ![r].value = "refused"]
       \/ /\ store = "gone" /\ store' = store
          /\ req' = [req EXCEPT ![r].at = "answered", ![r].value = "refused"]
    /\ NoneGiven /\ UNCHANGED <<cookie, cache, flight, late, settled, crossed>>

\* Nobody reads the session at this moment.
Quiet == flight = None /\ \A r \in Requests : req[r].at \notin {"waiting", "resuming"}

\* finally: the cache is cleared when the call is over, however it ended.
CacheAfterCallKept(op) == IF op = "logout" THEN cache ELSE None
CacheAfterCall(op) == None

OperationAnswered(r) ==
    LET ended == req[r].value = "ok" /\ req[r].op \in {"logout", "end"}
    IN  /\ req[r].at = "answered"
        /\ req' = [req EXCEPT ![r] = Idle]
        /\ cache' = CacheAfterCall(req[r].op)
        /\ cookie' = (cookie /\ ~ended)
        /\ settled' = IF req[r].value = "ok" /\ Quiet THEN Effect(req[r].op)
                      ELSE settled
        /\ NoneGiven /\ UNCHANGED <<store, flight, late, crossed>>

\* The call fails in transport, or its request is cancelled: what was sent, or
\* is about to be, still takes effect.
OperationGivenUp(r) ==
    /\ req[r].at \in {"calling", "answered"}
    /\ req' = [req EXCEPT ![r] = Idle]
    /\ cache' = CacheAfterCall(req[r].op)
    /\ late' = IF req[r].at = "calling" THEN late \cup {Effect(req[r].op)} ELSE late
    /\ NoneGiven /\ UNCHANGED <<store, cookie, flight, settled, crossed>>

LateOperation(effect) ==
    /\ late' = late \ {effect}
    /\ store' = IF store = "gone" THEN store ELSE effect
    /\ NoneGiven /\ UNCHANGED <<cookie, cache, flight, req, settled, crossed>>

\* A request is cancelled while it waits for its session check.
CheckCancelled(r) ==
    /\ req[r].at \in {"waiting", "resuming"}
    /\ ForgetFlight(r)
    /\ req' = [req EXCEPT ![r] = Idle]
    /\ NoneGiven /\ UNCHANGED <<store, cookie, cache, late, settled, crossed>>

\* The session ends without this gateway: a root command, another browser, the
\* absolute deadline.
EndedElsewhere ==
    /\ store # "gone" /\ store' = "gone"
    /\ NoneGiven /\ UNCHANGED <<cookie, cache, flight, req, late, settled, crossed>>

----------------------------------------------------------------------------
(* Sign-ins: the new session gets a new token, and with it new keys of cache *)
(* and flights.                                                              *)

\* A sign-in sent without a cookie has no session to check.
SigningStarted(r) ==
    /\ req[r].at = "idle" /\ ~cookie
    /\ req' = [req EXCEPT ![r] = Stage("signing", "login", None)]
    /\ NoneGiven /\ UNCHANGED <<store, cookie, cache, flight, late, settled, crossed>>

\* A request whose session is no longer the one of the browser matters only if
\* its answer may still set or delete the cookie.
Left(row) ==
    CASE row.op = "login" /\ row.at \in {"signing", "resuming"}
              /\ row.value \notin {"gone", "failed"} -> Stage("signing", "login", None)
      [] \/ row.at \in {"waiting", "behind"} \/ row.value = "gone"
         \/ row.op \in {"logout", "end"} /\ row.value \notin {"failed", "refused"}
              -> Stage("behind", IF row.op = "login" THEN "login" ELSE "read", None)
      [] OTHER -> Idle

\* The answer of a sign-in sets the cookie; if it was sent with the cookie of a
\* session that is gone, the middleware deletes the new one again.
SignedIn(r, dead) ==
    /\ \/ req[r].at = "signing" /\ dead = (req[r].value = "gone")
       \/ req[r].at = "behind" /\ req[r].op = "login"
    /\ store' = "plain" /\ cookie' = ~dead /\ crossed' = dead
    /\ cache' = None /\ flight' = None /\ late' = {} /\ settled' = None
    /\ req' = [q \in Requests |-> IF q = r THEN Idle ELSE Left(req[q])]
    /\ NoneGiven

\* A sign-in that is refused, asks for another factor or is cancelled.
SignInOver(r) ==
    /\ req[r].at = "signing"
    /\ req' = [req EXCEPT ![r] = Idle]
    /\ cookie' \in {cookie, cookie /\ ~ClearsCookie(req[r].value)}
    /\ NoneGiven /\ UNCHANGED <<store, cache, flight, late, settled, crossed>>

\* The answer to a request of an earlier session, which may have ended since.
BehindOver(r) ==
    /\ req[r].at = "behind"
    /\ req' = [req EXCEPT ![r] = Idle]
    /\ cookie' \in {cookie, FALSE}
    /\ crossed' = (crossed \/ cookie' # cookie)
    /\ NoneGiven /\ UNCHANGED <<store, cache, flight, late, settled>>

----------------------------------------------------------------------------
(* Time *)

Older(age) == IF age = AgeCap THEN AgeCap ELSE age + 1

Tick ==
    /\ \A r \in Requests : req[r].at \notin {"resuming", "answered"}
    /\ flight # None /\ flight.at # "done" => flight.elapsed < CallTicks
    /\ cache' = IF cache = None \/ cache.left = 1 THEN None
                ELSE [cache EXCEPT !.left = @ - 1, !.age = Older(@)]
    /\ flight' = IF flight = None THEN None
                 ELSE [flight EXCEPT !.age = Older(@),
                                     !.elapsed = IF flight.at = "done" THEN @ ELSE @ + 1]
    /\ NoneGiven
    /\ UNCHANGED <<store, cookie, req, late, settled, crossed>>

Next ==
    \/ \E r \in Requests :
        \/ \E op \in Operations : CheckFromCache(r, op) \/ JoinFlight(r, op) \/ StartFlight(r, op)
        \/ SessionChecked(r) \/ CheckFailed(r) \/ CheckCancelled(r)
        \/ OperationServed(r) \/ OperationAnswered(r) \/ OperationGivenUp(r)
        \/ SigningStarted(r) \/ SignInOver(r) \/ BehindOver(r)
        \/ \E dead \in BOOLEAN : SignedIn(r, dead)
    \/ FlightServed \/ FlightArrives \/ FlightFails
    \/ \E effect \in late : LateOperation(effect)
    \/ EndedElsewhere \/ Tick

Spec == Init /\ [][Next]_vars

----------------------------------------------------------------------------
(* Properties *)

CacheEntry == [value : Live, age : 0..AgeCap, left : 1..CacheTicks, orphan : BOOLEAN]
SessionRead == [id : Tasks, at : {"running", "served", "done"}, value : Outcomes \cup {None},
                age : 0..AgeCap, elapsed : 0..CallTicks, orphan : BOOLEAN]
Progress == [at : {"idle", "waiting", "resuming", "calling", "answered", "signing", "behind"},
             op : Operations, task : Tasks \cup {None},
             value : Outcomes \cup {None, "ok", "refused"}, age : 0..AgeCap, orphan : BOOLEAN]

TypeOK ==
    /\ store \in Live \cup {"gone"} /\ cookie \in BOOLEAN
    /\ cache \in CacheEntry \cup {None}
    /\ flight \in SessionRead \cup {None}
    /\ req \in [Requests -> Progress]
    /\ given \in [age : 0..AgeCap, orphan : BOOLEAN]
    /\ late \subseteq {"gone", "elevated"}
    /\ settled \in Live \cup {"gone", None} /\ crossed \in BOOLEAN

\* A session that a handler is given was read from the helper at most one
\* cache lifetime and one call ago, except when the read it comes from was
\* left behind by requests that were all cancelled.
RecentUnlessAbandoned == given.age <= Recent \/ given.orphan

\* The browser is without the cookie of a live session only if it was deleted
\* by the answer to a request sent with another token: a late one of an earlier
\* session, or the sign-in itself, sent with the cookie of a dead one.  No
\* failed, late or cancelled call of the session itself signs its user out.
LostOnlyToOthers == cookie \/ store = "gone" \/ crossed

\* Once a logout or a step-up has been answered with no session read under way,
\* no cached session and no stored read shows the state from before.
AnsweredIsSeen ==
    /\ settled = "gone" => cache = None /\ (flight # None => flight.value \notin Live)
    /\ settled = "elevated" =>
        /\ cache # None => cache.value = "elevated"
        /\ flight # None => flight.value # "plain"

\* Session checks show recent sessions, in any case the outcome of what was
\* answered, and no request of a live session costs it the cookie.
SessionSound ==
    TypeOK /\ RecentUnlessAbandoned /\ AnsweredIsSeen /\ LostOnlyToOthers
=============================================================================
