------------------------------ MODULE WebCsrf ------------------------------
(* The write tokens of the web application (security.py, security_middleware  *)
(* and CurrentCsrfStore) together with the browser that uses them (app.js,    *)
(* executeMutation; login.js).  A token is handed out by a safe request, is   *)
(* presented twice with a write (cookie and header) and grants one attempt:   *)
(* the store keeps, per login flow or session, only the nonce usable next.    *)
(* One browser is modelled: its tabs share a cookie jar and each tab keeps    *)
(* the last token it was told.  Strangers share the store.                    *)
EXTENDS Naturals, Sequences, FiniteSets

CONSTANTS Tabs,          \* the browser's tabs
          Sessions,      \* the session tokens the helper can issue
          Kinds,         \* the kinds of write that are made
          Capacity,      \* state_capacity: scopes the store keeps
          FlowsPerIdentity,
          TTL,           \* csrf_max_age
          Strangers,     \* the client addresses other browsers come from
          Slots,         \* requests the concurrency limiter admits
          MaxNonce, MaxTime, MaxBoot,   \* bounds of the model
          None

VARIABLES
    entries,   \* CurrentCsrfStore._entries, least recently used first
    boot,      \* the process whose key signs the tokens
    now, nonces, \* the clock; nonces drawn so far
    live,      \* sessions the helper accepts
    jar,       \* the browser's cookies
    tab,       \* what each tab's script is doing
    net,       \* the request or the answer of each tab on the wire
    handling,  \* writes whose handler is running
    runs,      \* how often the handler ran for the tab's present write
    spent,     \* <<key, nonce>> pairs that have granted their attempt
    disturbed  \* whether anything else happened since the tab was last given a token,
               \* or the token is for a session that its browser has left

vars == <<entries, boot, now, nonces, live, jar, tab, net, handling, runs, spent, disturbed>>
server == <<entries, boot, now, nonces, live, handling, spent>>

Token == [boot: 1..MaxBoot, flow: Nat \ {0}, nonce: Nat \ {0}, at: 0..MaxTime]

\* What every instance has to give; the composing module assumes it of its own.
CsrfBounds ==
    /\ Capacity \in Nat \ {0} /\ FlowsPerIdentity \in Nat \ {0}
    /\ TTL \in Nat \ {0} /\ Slots \in Nat \ {0}
    /\ {MaxNonce, MaxTime} \subseteq Nat /\ MaxBoot \in Nat \ {0}
    /\ Kinds \subseteq {"json", "upload", "login", "logout"} /\ None \notin Token

Protected(k) == k # "login"
Idle == [pc |-> "idle", mem |-> None, kind |-> None, tries |-> 0]

------------------------------------------------------------------------------
(* Scopes, tokens and the store.                                              *)

\* _csrf_scope and state_identity: a session is one scope, an anonymous client
\* address one scope per login flow.
Key(session, flow) == IF session = None THEN <<"client", flow>> ELSE <<session, 0>>

\* verify_csrf_token: signed by this process and not older than csrf_max_age.
Verified(token) == token # None /\ token.boot = boot /\ now - token.at <= TTL

\* new_csrf_token, for the flow of an authentic cookie or for a new flow.
FreshToken(cookie) ==
    [boot |-> boot, nonce |-> nonces + 1, at |-> now,
     flow |-> IF Verified(cookie) THEN cookie.flow ELSE nonces + 1]

Rows(es) == {es[i] : i \in DOMAIN es}

\* The entries at the positions to keep, in their order
Kept(es, keep) ==
    [i \in 1..Cardinality(keep) |->
        es[CHOOSE k \in keep : Cardinality({j \in keep : j <= k}) = i]]

Purged == Kept(entries, {i \in DOMAIN entries : entries[i].exp > now})
IsCurrent(key, nonce) == \E i \in DOMAIN Purged : Purged[i].key = key /\ Purged[i].nonce = nonce
Without(es, key) == Kept(es, {i \in DOMAIN es : es[i].key # key})
Entry(key, nonce) == [key |-> key, nonce |-> nonce, exp |-> now + TTL]

\* _bound_capacity: the oldest flows of the identity, then the oldest scopes.
BoundCapacity(es, key) ==
    LET others == {i \in DOMAIN es : es[i].key[1] = key[1] /\ es[i].key # key}
        rank(i) == Cardinality({j \in others : j <= i})
        surplus == Cardinality(others) + 1 - FlowsPerIdentity
        left == Kept(es, {i \in DOMAIN es : ~(i \in others /\ rank(i) <= surplus)})
        room == IF \E i \in DOMAIN left : left[i].key = key THEN Len(left) ELSE Capacity - 1
    IN  IF Len(left) <= room THEN left ELSE SubSeq(left, Len(left) - room + 1, Len(left))

\* A replacement that leaves a scope's present nonce in place.
KeptReplaced(key, nonce) ==
    IF \E i \in DOMAIN Purged : Purged[i].key = key THEN Purged
    ELSE Append(BoundCapacity(Purged, key), Entry(key, nonce))

\* CurrentCsrfStore.replace
Replaced(key, nonce) == Append(Without(BoundCapacity(Purged, key), key), Entry(key, nonce))

\* A rotation that forgets to put the replacement in the place of the nonce.
RotatedLate(key, nonce) == Purged

\* CurrentCsrfStore.rotate, once the expected nonce is found current.
Rotated(key, nonce) == Append(Without(Purged, key), Entry(key, nonce))

------------------------------------------------------------------------------
(* What the server answers.  A POST answer may carry the next token in the     *)
(* X-CSRF-Token header and the cookie, and may set or clear the session.      *)

Answer(code, token, session) == [is |-> "answer", code |-> code, token |-> token, session |-> session]
Keep == "keep"   \* the answer does not touch the session cookie

Everyone == [t \in Tabs |-> TRUE]
OthersDisturbed(t) == [u \in Tabs |-> u # t \/ disturbed[u]]

\* A safe request (GET /api/v1/auth/csrf): the cookie's token again while it is
\* current, a new one otherwise.
HandleGet(t) ==
    /\ net[t].is = "get"
    /\ LET r == net[t]
           key == Key(r.session, FreshToken(r.cookie).flow)
           good == Verified(r.cookie) /\ IsCurrent(key, r.cookie.nonce)
           token == IF good THEN r.cookie ELSE FreshToken(r.cookie)
       IN  /\ entries' = IF good
                         THEN Append(Without(Purged, key),
                                     CHOOSE e \in Rows(Purged) : e.key = key)
                         ELSE Replaced(key, token.nonce)
           /\ nonces' = IF good THEN nonces ELSE nonces + 1
           /\ disturbed' = [OthersDisturbed(t) EXCEPT ![t] = r.session # jar.session]
           /\ net' = [net EXCEPT ![t] = Answer("ok", token, Keep)]
    /\ UNCHANGED <<boot, now, live, jar, tab, handling, runs, spent>>

\* bounded_concurrency_middleware: no slot became free within wait_timeout.
TooManyRequests(t) ==
    /\ net[t].is \in {"get", "post"}
    /\ Cardinality(handling) >= Slots
    /\ net' = [net EXCEPT ![t] = Answer("busy", None, Keep)]
    /\ UNCHANGED <<server, jar, tab, runs, disturbed>>

\* _authentication_middleware: a protected path without a live session is
\* refused before the token is looked at, and clears the session cookie.
Unauthorized(t) ==
    /\ net[t].is = "post" /\ Protected(tab[t].kind) /\ net[t].session \notin live
    /\ Cardinality(handling) < Slots
    /\ net' = [net EXCEPT ![t] = Answer("unauthorized", None, None)]
    /\ UNCHANGED <<server, jar, tab, runs, disturbed>>

\* The session of a write as the CSRF scope sees it: an anonymous path with a
\* dead session cookie is scoped by the client address.
ScopeOf(r) == IF r.session \in live THEN r.session ELSE None

Admitted(t) ==
    /\ net[t].is = "post"
    /\ Cardinality(handling) < Slots
    /\ Protected(tab[t].kind) => net[t].session \in live

\* cookie_token == submitted and states.rotate finds the nonce current.
Valid(r) ==
    /\ Verified(r.cookie)
    /\ r.header = r.cookie
    /\ IsCurrent(Key(ScopeOf(r), r.cookie.flow), r.cookie.nonce)

\* recoverable_csrf_rejection: the handler does not run, and the answer carries
\* a new token that is made current for the scope.
RejectPost(t) ==
    /\ Admitted(t)
    /\ LET r == net[t]
           token == FreshToken(r.cookie)
       IN  /\ ~Valid(r)
           /\ entries' = Replaced(Key(ScopeOf(r), token.flow), token.nonce)
           /\ nonces' = nonces + 1
           /\ disturbed' = [OthersDisturbed(t) EXCEPT ![t] = r.session # jar.session]
           /\ net' = [net EXCEPT ![t] =
                        Answer("csrf", token, IF r.session \in live \cup {None} THEN Keep ELSE None)]
    /\ UNCHANGED <<boot, now, live, jar, tab, handling, runs, spent>>

\* The token is rotated before the handler runs.
AcceptPost(t) ==
    /\ Admitted(t)
    /\ LET r == net[t]
           key == Key(ScopeOf(r), r.cookie.flow)
           token == FreshToken(r.cookie)
       IN  /\ Valid(r)
           /\ entries' = Rotated(key, token.nonce)
           /\ nonces' = nonces + 1
           /\ spent' = spent \cup {<<key, r.cookie.nonce>>}
           /\ handling' = handling \cup
                {[tab |-> t, waited |-> TRUE, kind |-> tab[t].kind,
                  session |-> ScopeOf(r), stale |-> r.session # ScopeOf(r), token |-> token]}
           /\ net' = [net EXCEPT ![t] = [is |-> "handling"]]
           /\ runs' = [runs EXCEPT ![t] = @ + 1]
    /\ disturbed' = OthersDisturbed(t)
    /\ UNCHANGED <<boot, now, live, jar, tab>>

\* The answer of a handler reaches the wire only if its tab still waits.
Reply(h, answer) == IF h.waited THEN [net EXCEPT ![h.tab] = answer] ELSE net

\* The handler returns (with success or an HTTP error).  A login moves the write
\* to the scope of its new session, where the replacement becomes current too;
\* a logout clears the cookie but leaves the request's scope.  A request that
\* came with the cookie of a dead session has it cleared, also when it is the
\* login that just set a new one.
HandlerReturns(h) ==
    \E ok \in BOOLEAN, s \in IF h.kind = "login" THEN (Sessions \ live) \cup {None} ELSE {None} :
        LET loggedOut == h.kind = "logout" /\ ok
            code == IF loggedOut \/ h.stale THEN None ELSE IF s # None THEN s ELSE Keep
        IN  /\ h.kind # "logout" => ok
            /\ s # None => \A e \in Rows(entries) : e.key[1] # s
            /\ s # None => \A p \in spent : p[1][1] # s
            /\ s # None => jar.session # s
            /\ live' = CASE loggedOut -> live \ {h.session}
                         [] s # None -> live \cup {s}
                         [] OTHER -> live
            /\ entries' = IF s = None THEN entries
                          ELSE Replaced(Key(s, h.token.flow), h.token.nonce)
            /\ handling' = handling \ {h}
            /\ net' = Reply(h, Answer("done", h.token, code))
            /\ disturbed' = [OthersDisturbed(h.tab) EXCEPT ![h.tab] = ~h.waited \/ @]
            /\ UNCHANGED <<boot, now, nonces, jar, tab, runs, spent>>

\* The handler raises anything but an HTTP error: no token goes back.
HandlerFails(h) ==
    /\ handling' = handling \ {h}
    /\ net' = Reply(h, Answer("error", None, Keep))
    /\ UNCHANGED <<entries, boot, now, nonces, live, jar, tab, runs, spent, disturbed>>

------------------------------------------------------------------------------
(* The browser.                                                                *)

Silent == [is |-> "none"]
SendGet(j) == [is |-> "get", cookie |-> j.csrf, session |-> j.session]
SendPost(j, mem) == [is |-> "post", cookie |-> j.csrf, session |-> j.session, header |-> mem]

\* executeMutation: uploads, and writes without a known token, synchronise first.
StartWrite(t, k) ==
    /\ tab[t].pc = "idle" /\ k \in Kinds
    /\ Protected(k) => jar.session # None
    /\ LET sync == k = "upload" \/ (k # "login" /\ tab[t].mem = None)
       IN  /\ tab' = [tab EXCEPT ![t] = [pc |-> IF sync THEN "sync" ELSE "sent",
                                         mem |-> @.mem, kind |-> k, tries |-> 1]]
           /\ net' = [net EXCEPT ![t] = IF sync THEN SendGet(jar) ELSE SendPost(jar, tab[t].mem)]
    /\ runs' = [runs EXCEPT ![t] = 0]
    /\ UNCHANGED <<server, jar, disturbed>>

\* bootstrapSession, showAnonymous: a page learns its token.
OpenPage(t) ==
    /\ tab[t].pc = "idle" /\ tab[t].mem = None
    /\ tab' = [tab EXCEPT ![t] = [Idle EXCEPT !.pc = "page"]]
    /\ net' = [net EXCEPT ![t] = SendGet(jar)]
    /\ runs' = [runs EXCEPT ![t] = 0]
    /\ UNCHANGED <<server, jar, disturbed>>

\* A retry that also repeats a write whose handler answered (with an error).
RetryFailures(t, a) ==
    tab[t].kind \in {"json", "logout"} /\ a.code \in {"csrf", "done"} /\ tab[t].tries = 1

\* One more try of a JSON write, only for a rejection by the middleware.
Retried(t, a) ==
    tab[t].kind \in {"json", "logout"} /\ a.code = "csrf" /\ tab[t].tries = 1

\* The answer arrives: the cookie jar and the tab's token follow it.
Receive(t) ==
    /\ net[t].is = "answer"
    /\ LET a == net[t]
           newJar == [csrf |-> IF a.token = None THEN jar.csrf ELSE a.token,
                      session |-> IF a.session = Keep THEN jar.session ELSE a.session]
           mem == IF a.token # None THEN a.token
                  ELSE IF a.code = "error" THEN None ELSE tab[t].mem
           next == CASE tab[t].pc = "sync" /\ a.code = "ok" -> "sent"
                     [] tab[t].pc = "sent" /\ Retried(t, a) -> "sent"
                     [] tab[t].pc = "sent" /\ tab[t].kind = "login" /\ a.code = "csrf" -> "page"
                     [] OTHER -> "idle"
       IN  /\ jar' = newJar
           /\ tab' = [tab EXCEPT ![t] =
                        [pc |-> next, mem |-> mem, kind |-> @.kind,
                         tries |-> IF tab[t].pc = "sent" /\ next = "sent" THEN 2 ELSE @.tries]]
           /\ net' = [net EXCEPT ![t] = CASE next = "sent" -> SendPost(newJar, mem)
                                          [] next = "page" -> SendGet(newJar)
                                          [] OTHER -> Silent]
           /\ disturbed' = IF newJar = jar THEN disturbed ELSE OthersDisturbed(t)
    /\ UNCHANGED <<server, runs>>

\* Without an answer app.js forgets its token; login.js keeps it.
Broken(t) == [Idle EXCEPT !.mem = IF tab[t].kind = "login" THEN tab[t].mem ELSE None]

\* The connection breaks: the outcome is ambiguous and nothing is sent again.
\* A handler that is running goes on running.
LoseConnection(t) ==
    /\ net[t].is # "none"
    /\ net' = [net EXCEPT ![t] = Silent]
    /\ tab' = [tab EXCEPT ![t] = Broken(t)]
    /\ handling' = {IF h.tab = t THEN [h EXCEPT !.waited = FALSE] ELSE h : h \in handling}
    /\ UNCHANGED <<entries, boot, now, nonces, live, jar, runs, spent, disturbed>>

------------------------------------------------------------------------------
(* The surroundings.                                                           *)

\* Another client of the same address, or of another, opens the login page.
Stranger ==
    \E identity \in Strangers :
        /\ entries' = Replaced(<<identity, nonces + 1>>, nonces + 1)
        /\ nonces' = nonces + 1
        /\ disturbed' = Everyone
        /\ UNCHANGED <<boot, now, live, jar, tab, net, handling, runs, spent>>

SessionEnds(s) ==
    /\ s \in live
    /\ live' = live \ {s}
    /\ UNCHANGED <<entries, boot, now, nonces, jar, tab, net, handling, runs, spent, disturbed>>

Tick ==
    /\ now < MaxTime
    /\ now' = now + 1
    /\ disturbed' = Everyone
    /\ UNCHANGED <<entries, boot, nonces, live, jar, tab, net, handling, runs, spent>>

\* The process restarts: the signing key and the store are new, and every
\* connection breaks.
Restart ==
    /\ boot < MaxBoot
    /\ boot' = boot + 1
    /\ entries' = <<>> /\ handling' = {}
    /\ net' = [t \in Tabs |-> Silent]
    /\ tab' = [t \in Tabs |-> IF tab[t].pc = "idle" THEN tab[t] ELSE Broken(t)]
    /\ disturbed' = Everyone
    /\ UNCHANGED <<now, nonces, live, jar, runs, spent>>

\* The web process starts; sessions live in the helper, so the browser may
\* already hold one.
Init ==
    /\ entries = <<>> /\ boot = 1 /\ now = 0 /\ nonces = 0
    /\ \E s \in Sessions \cup {None} :
          /\ jar = [csrf |-> None, session |-> s]
          /\ live = {s} \ {None}
    /\ tab = [t \in Tabs |-> Idle]
    /\ net = [t \in Tabs |-> Silent]
    /\ handling = {} /\ spent = {}
    /\ runs = [t \in Tabs |-> 0]
    /\ disturbed = Everyone

\* The bound on nonces: what is under way can always draw the ones it may need.
Reserve(t) == CASE tab[t].pc = "idle" \/ net[t].is = "handling" -> 0
                [] tab[t].pc = "page" -> 1
                [] tab[t].pc = "sync" -> 3
                [] OTHER -> 3 - tab[t].tries
Affordable(n) == nonces + n + Cardinality(UNION {{t} \X (1..Reserve(t)) : t \in Tabs}) <= MaxNonce

Next ==
    \/ \E t \in Tabs : HandleGet(t) \/ TooManyRequests(t) \/ Unauthorized(t)
                       \/ RejectPost(t) \/ AcceptPost(t) \/ Receive(t) \/ LoseConnection(t)
    \/ \E h \in handling : HandlerReturns(h) \/ HandlerFails(h)
    \/ \E t \in Tabs : \/ Affordable(1) /\ OpenPage(t)
                       \/ Affordable(3) /\ \E k \in Kinds : StartWrite(t, k)
    \/ Affordable(1) /\ Stranger
    \/ \E s \in Sessions : SessionEnds(s)
    \/ Tick
    \/ Restart

Spec == Init /\ [][Next]_vars

------------------------------------------------------------------------------
(* Properties.                                                                 *)

TypeOK ==
    /\ \A e \in Rows(entries) : e.nonce \in 1..nonces /\ e.exp \in 1..(MaxTime + TTL)
    /\ boot \in 1..MaxBoot /\ now \in 0..MaxTime /\ nonces \in Nat
    /\ live \subseteq Sessions
    /\ jar.csrf \in Token \cup {None} /\ jar.session \in Sessions \cup {None}
    /\ \A t \in Tabs : /\ tab[t].pc \in {"idle", "sync", "sent", "page"}
                       /\ tab[t].mem \in Token \cup {None}
                       /\ net[t].is \in {"none", "get", "post", "handling", "answer"}
                       /\ (tab[t].pc = "idle") <=> (net[t].is = "none")
    /\ \A h \in handling : h.tab \in Tabs /\ h.token \in Token

\* One write of the user runs its handler at most once, whatever is lost,
\* retried or raced: executeMutation repeats a write only after an answer that
\* the middleware gave in place of the handler.  (A write whose handler asks for
\* a step-up, without effect, is a write anew once mutate repeats it.)
WriteRunsOnce == \A t \in Tabs : runs[t] <= 1

\* A nonce that has granted its attempt in a scope is never again the current
\* one of that scope: not by a late answer, an eviction, a login that moves the
\* token to the new session, a rejection or a restart.
SpentNeverCurrent == \A e \in Rows(entries) : <<e.key, e.nonce>> \notin spent

\* The registry stays within state_capacity, and one client address within
\* flows_per_identity, through replacements, rotations and logins.
StoreBounded ==
    /\ Len(entries) <= Capacity
    /\ \A i \in DOMAIN entries :
          Cardinality({j \in DOMAIN entries : entries[j].key[1] = entries[i].key[1]}) <= FlowsPerIdentity
    /\ \A i, j \in DOMAIN entries : entries[i].key = entries[j].key => i = j

\* The token of a rejection or of a synchronisation is good for the next try:
\* the second try of a write, and an upload, are turned away by the middleware
\* only if some other request, expiry or restart came in between, or the browser
\* changed its session while the token was on its way.
Recoverable ==
    \A t \in Tabs :
        /\ net[t].is = "post" /\ net'[t].is = "answer"
        /\ tab[t].tries = 2 \/ tab[t].kind = "upload"
        => (net'[t].code = "csrf" => disturbed[t])
RecoverableOnce == [][Recoverable]_vars

\* The registry holds usable nonces only, and not too many of them.
TokensCurrent == TypeOK /\ SpentNeverCurrent /\ StoreBounded
=============================================================================
