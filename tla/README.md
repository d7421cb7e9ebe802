# A TLA+ model of MaddyWeb

MaddyWeb is a web mail client and administration interface for the Maddy mail
server. This directory holds TLA+ modules that model its stateful parts, the
TLC configurations that check them on small instances, and TLAPS proofs for
instances of every size. `PROJECT.json` lists the runs, the source lines every
definition stands for, the hazards behind the properties, and, for every
checked property, a plausible wrong version of a definition that breaks it.

Paths below are relative to the repository; `maddyweb/` abbreviates
`src/maddyweb/`.

## 1. Inventory

### Processes

| process | runs as | serves | concurrency |
|---|---|---|---|
| web (`maddyweb/web.py`, `security.py`, `gateway.py`) | unprivileged | HTTP | one asyncio loop, many requests interleave at every `await`; requests may be cancelled |
| helper (`maddyweb/helper.py`, `auth.py`, `maddy.py`, `certificates.py`) | root, socket-activated | one framed request per Unix connection | one thread, connections served one after the other; exits after an idle period or a request cap and is started again by the next connection |
| root commands (`maddyweb/cli.py`: `auth-bootstrap`, `auth-role`, `auth-purge`) | root | an administrator | separate processes on the same SQLite file; their transactions fall between those of the helper |
| filter bridge (`maddyweb/filter_bridge.py`) | its own user | Maddy's `imap_filter` command through `filter_client.py` | a bounded number of threads, evaluation under one lock |
| Maddy, IMAP clients, Certbot, SMTP | external | | act at any time |

### Components, their state and what makes them correct

1. **Authentication store** (`auth.py`, class `AuthStore`). State: accounts with
   their second factor, recovery codes, login challenges, sessions, passkeys,
   passkey ceremonies. Each method is one `BEGIN IMMEDIATE` transaction.
   Correct when no proof is honoured twice, a session or an elevation goes only
   to who earned it, a sensitive change leaves nothing of what was issued
   before, no enrollment is stranded, and rows stay bounded.
2. **Login rates** (`auth.py` 2015-2234). State: counters per address, client
   and pair in fixed windows, bounded in number. Correct when failures beyond
   the limit are refused until the window ends, one client cannot lock another
   out by clearing, and eviction frees no live block early.
3. **Helper dispatcher** (`helper.py`). State: the request being served.
   Authorizes twice around a streamed body. Correct when what a handler does is
   authorized by the state it runs in.
4. **Account lifecycle** (`helper.py` 2193-2270, `cli.py` 435-568). State: two
   stores, Maddy's and ours, and no transaction over both. Correct when a
   failure between the two leaves a state in which nobody is authenticated who
   should not be, and which a retry repairs.
5. **Mail rules, delivery snapshots** (`auth.py` 2236-2580, `helper.py`
   2339-2710, `rule_snapshots.py`). State: rules in SQLite, one snapshot file
   per account read by the bridge. Correct when delivery never follows rules
   that were replaced.
6. **Existing-mail runs** (`auth.py` 2584-2778, `helper.py` 2712-2968). State:
   one persisted cursor per run over mailboxes that others change. Correct when
   only matching, old enough mail moves, each at most once, and a run ends.
7. **Rule evaluation, filter bridge and client** (`rules.py`,
   `filter_bridge.py`, `filter_client.py`). Pure evaluation of condition trees;
   fails open to INBOX.
8. **Gateway** (`gateway.py`). State: caches, generations, in-flight reads and
   mutations, for accounts, sessions, mailboxes and messages. Correct when a
   reader never sees a state older than a mutation that had settled before it
   asked.
9. **Session check** (`web.py` middleware, `gateway.py` session cache, the
   cookie). Correct when a session that ended is soon refused and a live one
   loses its cookie to no answer about itself.
10. **Write tokens** (`security.py`, `app.js`, `login.js`). State: the usable
    nonce of each login flow or session. Correct when a write runs at most once
    and a rejected one can be repeated.
11. **Message confirmations and previews** (`web.py` 763-953, 3413-4427). State:
    one-use tokens bound to what was shown, a cache of parsed messages. Correct
    when a move or a deletion is called only for what its user saw.
12. **New-mail events** (`web.py` `_MailEventHub`, `app.js`). State: watchers,
    streams, the browser's last event. Correct when every arrival is told.
13. **Submission** (`helper.py` 572-910, `gateway.py` 1704-1765). Correct when an
    ambiguous outcome is never reported as a definite one.
14. **Certificates** (`certificates.py`, `docker_certificates.py`). State: files
    deployed to Maddy. Correct when a failed deployment leaves the old pair.
15. **Maddy adapter** (`maddy.py`). Operations of several commands with
    compensation, among them the deletion of a mailbox that keeps its messages.
16. **Rendering** (`mail.py`), **configuration** (`config.py`), the rest of the
    **web application** and the **browser client** (`static/`), **scripts**
    (`scripts/`, `deploy/`).

### What is hard to test

Two transactions of one handler with a root command between them; a clock that
steps back; evictions at a limit; a helper killed between Maddy and the store;
a snapshot published late or not at all; a mailbox that changes under a cursor;
cancelled requests whose work goes on; a call that timed out at the client and
still runs at the helper; a command that fails after it took effect, and the
compensation that fails as well; two tabs with one cookie jar; a connection that
breaks between two events; a UID that names another message than the one shown.
`PROJECT.json` lists each of them at its line.

## 2. Modules

| module | models | extends |
|---|---|---|
| `AuthStore` | the authentication store, with the root commands beside the helper | |
| `AuthStoreProofs` | theorems about `AuthStore` | `AuthStore` |
| `AuthTablesProofs` | theorems about the tables of `AuthStore`, its sessions and elevations | `AuthStoreProofs` |
| `MailRules` | rules, snapshot files, start and death of the helper | |
| `RuleRuns` | runs of a rule over existing mail | |
| `AccountCache` | the gateway's account list: cache, shared reads, account changes | |
| `AccountRegister` | what the gateway promises of that list | |
| `WebSession` | the session check of the web process, its cache, the cookie | |
| `MessageCache` | the gateway's mailbox and message lists | |
| `WebCsrf` | write tokens, the request limiter, the tabs of a browser | |
| `Freshness` | confirmations of message actions, message previews | |
| `MailEvents` | new-mail events from the watcher to the tab | |
| `HelperDispatch` | the helper as a server: authorization around a streamed body | |
| `AccountLifecycle` | accounts over Maddy and the store | |
| `LoginRate` | limits on sign-in attempts | |
| `RuleEval` | conditions and rule lists against a message | |
| `FilterBridge` | the delivery filter: client and threaded server | |
| `Submission` | sending one mail, from the request to Maddy and Sent | |
| `SmtpData` | line ends and dot-stuffing of DATA | |
| `CertificateDeploy` | renewal, deployment and rollback of certificates | |
| `MailboxDelete` | deletion of a mailbox whose messages are kept | |
| `Filtering` | rules and the filter that reads their snapshots | `MailRules`, with `FilterBridge` |
| `Mailboxes` | what the helper does to whole mailboxes | `MailboxDelete`, with `RuleRuns` |
| `Gateway` | all caches of the gateway | `AccountCache`, with `MessageCache` |
| `WebProcess` | sessions, write tokens and events | `WebSession`, with `WebCsrf`, `MailEvents` |
| `HelperProcess` | the dispatcher and the handlers of several commands | `HelperDispatch`, with `AccountLifecycle`, `CertificateDeploy`, `Submission` |
| `FilteringProofs`, `MailboxProofs`, `GatewayProofs`, `WebProofs` | theorems about the parts of one process | the module of that process |
| `HelperDispatchProofs` | theorems about the dispatcher | `HelperDispatch` |
| `HandlerProofs` | theorems about the handlers of the helper | `HelperProcess` |
| `RuleSamples` | the condition trees, rule lists and messages that the evaluation is checked on | |
| `MCAuthStore` | instances of the store for TLC | `AuthStore` |
| `MCRules` | the modules behind a delivery, for TLC | `Filtering` |
| `MCMailboxes` | the modules about whole mailboxes, for TLC | `Mailboxes` |
| `MCGateway` | the modules of the gateway, for TLC | `Gateway` |
| `MCWeb` | the modules of the web process and its browsers, for TLC | `WebProcess` |
| `MCHelper` | the modules of the helper, for TLC | `HelperProcess` |
| `MCConfirmation` | instances of `Freshness` for TLC | |
| `MCProgress`, `MCWaits` | smaller instances of the modules that promise progress, with fairness | |

In every module a definition just before another one with the same parameters
is a deliberately wrong version of it. TLC replaces the right one by it and has
to find the property named in `PROJECT.json` violated. The wrong versions take
no part in any specification.

`Filtering`, `Mailboxes`, `Gateway`, `WebProcess` and `HelperProcess` put the parts
of one process side by side, each with variables of its own, because in the code
they share nothing that either of them depends on: the bridge only reads
snapshots, the caches of `HelperGateway` have locks and generations of their own,
a handler of the helper runs inside one step of the dispatcher. Such a module
states the properties of its parts under one name each, so that a run checks, and
a theorem proves, the same definition. Where several instances of one part are of
interest (write tokens, lists of messages, the filter, either deployment mode),
the instance has a parameter: a setting is a record of the part's constants, and a
behaviour chooses one in its first state and keeps it.

### AuthStore

A table is a set of records, one transaction is one action, and `ON DELETE
CASCADE` is part of the deletion (`Cascade`, `NotOfAccount`). Two handlers of
the helper carry a verified proof from one transaction into a second one
(passkey login: `verify_passkey_login` then `issue_verified_passkey_session`;
step-up by code: `verify_totp` then `mark_step_up`); `held` is what they carry,
and root commands may run between. Time is a clock that steps by one in either
direction. `usedCounters`, `usedTokens`, `usedCodes` and `replays` are history:
what has been accepted, and what was accepted a second time.

`ApiSpec` lets a caller use every method of the store; `Spec` has only what the
helper and the root commands really call, and is what the properties that rest
on the callers (`SessionIsEarned`, `ElevationIsEarned`, `EnrolledBeforeSession`)
are checked of.

Abstractions: a digest is its token; random values are fresh ones from a pool;
a TOTP code is the counter it was computed for, under the secret of the account
it is sent for; a WebAuthn response is its signature counter and whether it
verifies. `auth-bootstrap` imports freshly drawn secrets.
The authorization that precedes a step-up by code is a condition of the first of
its two transactions.

### MailRules

State: `accounts` and `rules` (SQLite), `files` (the snapshot directory),
`mailboxes` (what Maddy hosts), and the helper's program counter with the
request it serves. A change of rules is four steps of `_rules_create` and its
siblings: checks and the empty snapshot (`PauseDelivery`), the transaction
(`Commit...`), the new snapshot (`PublishRules`), the answer. A write may fail
before or after its rename; the helper may die between any two steps
(`Crash`), stops at the request cap or when idle (`StopHelper`), and reconciles
all snapshots when it starts. `AuthPurge` is the root command. A rule's name,
condition, target and flags are one content.

### RuleRuns

State: for each message its mailbox and UID, for each mailbox the next UID,
the newest row of `mail_rule_runs`, the number of final rows, and the locals of
the request being served. Every Maddy command of a step is an action, because
mail changes between them: the cursor's sequence number (`ResolveCursor`), the
window (`FetchWindow`), one dump per message (`ScanMessage`), the move
(`MoveMatched`), then the transaction (`StoreProgress`, `FailRun`,
`FinishRun`). IMAP clients and delivery add and remove messages, and mailboxes
are renamed and created, at any time. That Maddy starts the UIDs of a new
mailbox at 1 and never uses one twice in a mailbox is assumed of it.

`planned` and `replaced` are history: what was in the source mailboxes when
they were planned, and which names lost their mailbox since.

### AccountCache and AccountRegister

State: the fields of `HelperGateway` for the account list, the read and
mutation tasks, where each caller of `list_accounts` is, and the connections
that wait at the helper. What lies between two `await`s is one step. A call is
made by a thread that connects (`ReadConnects`, `MutationConnects`) and ends
with an answer or a failure; a failed call leaves its request in the helper's
queue, where it still takes effect. The helper serves connections in the order
they were made. A list of accounts is the set of changes it shows.

`AccountRegister` is the abstract specification: a list that is returned is
what the helper has at that instant, read with the caller's own authority.
`AccountCache` implements it (`ImplementsRegister`); a caller's key is what the
register calls `reading`. Changes made beside the gateway are outside: for
those only the two seconds of the cache apply. The same holds for the model
without the quarantine flag: a change that fails in transport also bumps the
generation, so a list from before can neither be in the cache nor enter it.

### WebSession

State: the session at the helper (`store`), the browser's cookie, the two-second
cache, the table of shared reads (`flight`) and where each request is between
two awaits. A request may be cancelled at every await while its thread goes on;
what such a thread still does later is `late`. Ages count from the moment the
helper read the session, so that "at most two seconds and one call old" can be
stated. A password change, new recovery codes, logout and step-up are the
operations that change a session.

A tab may sign in at any time, with a cookie or without, while requests of the
former session are under way. The model follows the newest session. What is left
of the requests of earlier ones (`Left`) is kept at "behind" if their answers may
still set or delete the cookie, which the code deletes by its name: a late 401, a
late logout, and the answer of a sign-in that was itself sent with the cookie of
a dead session (`SignedIn` with `dead`). `crossed` is history: such an answer took
the cookie of the newest session.

### MessageCache

State: the caches of lists and mailboxes by scope, the fields that keep a delete
out of the cache (`inflight`, `quarantined`), and each read and change with the
connection it has or has not made yet. Deletes and steps of a run are tasks that
outlive the request, the other changes are not: both ways of losing the caller
are in the model. A list is the set of changes it shows; a read carries a mark in
place of the generation it compares.

### WebCsrf

Both sides of the double-submitted token: `security_middleware` with the store of
current nonces, and `executeMutation` with its one retry, in tabs that share a
cookie jar and each remember the token they were last told. Requests and answers
are on the wire and may be lost; sessions, client flows and other browsers share
the store, which expires, evicts and is empty after a restart.

### Freshness

State: the mailbox, the token store with its index by session, the preview cache
with its size, and each request between two awaits: reading, verifying, calling.
A batch and a bulk action read at most `Concurrency` messages at a time. `log`
remembers what each token was issued for; `was` is the content a UID had when the
request read it. The UID of a mailbox that was
deleted and created again may name another message (`Arrive`). A content stands
for its digest.

### MailEvents

State: the Inbox, whether the session may read it, the watcher that the streams
of one session share, the streams (each with a queue of one event) and the event
sources of the tabs. Reading the newest UID and publishing it are two steps; a
connection breaks at the browser first and is noticed by the server at its next
write. `owed` is history: the arrivals a tab has yet to be told of.

### HelperDispatch

One connection at a time goes through framing, allow list, authorization (itself
a sequence of transactions and Maddy commands), body, second authorization,
handler, audit line and answer. Expiry, root commands and Maddy's command line
fall between any two steps; the helper stops at the request cap, when idle, or is
killed. The allow list is the table of `helper.py` as sets of operations.

### AccountLifecycle

State: credentials and mail storage of Maddy, metadata, challenges and sessions
of the store, and the operation under way with its baseline. A Maddy command
fails with or without effect, and the process may be killed between two. The
compensation of a failed creation and the rollback of the bootstrap are modelled
with the same failures. A challenge or a session is current or was obtained with
a password that has been changed since, which is what the properties are about.

### LoginRate

The rows of the table keep the age of their window, so that time has no bound;
`admitted` counts what was let through how long ago.

### RuleEval and FilterBridge

`RuleEval` takes a rule list and a message through parsing, compilation and
evaluation as `rules.py` and `evaluate_filter_message` do, and compares the
result with a reference that reads the documents directly, with three-valued
logic. Text is short sequences of letters in two cases. It uses recursive
operators and is for TLC only. `FilterBridge` is the transport around it: streams
that may be cut anywhere, one permit for each connection, one evaluation at a
time, and failures of either side.

### Submission and SmtpData

`Submission` follows up to three attempts at one mail through the web process, a
thread, the helper's queue and the SMTP dialogue; Maddy may decide after the
client stopped waiting. The transports fail differently, and `Transport` chooses
one. `SmtpData` is the byte scan of DATA against a reference by positions.

### CertificateDeploy

State: the lineage of Certbot, the deployed pair, the generation Maddy has
loaded, and each deployer's position. Files are replaced one by one, natively or
through staged copies in a container; commands fail with or without effect, reads
fail, processes are killed. The helper and the deploy hook are two deployers. In a
container a prior file that cannot be read is taken for a missing one:
`prior[p].unseen` remembers which, and `AsRead` is the prior pair as the call saw
it.

### MailboxDelete

State: which mailboxes exist, their messages, and the position of the call. Each
Maddy command is a step that may fail with all, part or none of its effect; the
helper may be killed. Mail arrives and clients create and remove mailboxes
throughout. `slipped` names the messages that reach the quarantine after it was
looked at for the last time.

## 3. Runs

An MC module other than `MCAuthStore` holds several parts: the parts of one
process, and instances of modules with bounds of their own. A behaviour chooses a
part in its first state and moves only that one, so that a run covers the sum of
the parts' states and not their product; the parts share no state in the code or
meet only through what each module takes from its environment. A part that does
not move rests in a first state, so that its properties are checked as they stand;
the parts of `MCProgress`, `MCWaits`, `MCConfirmation`, `RuleEval`, `LoginRate` and
`SmtpData` rest at `None` instead, and a property of theirs is stated as
`part = "x" => X!P`. The constant `Parts` says which parts a run has.

| run | part | shows | bounds |
|---|---|---|---|
| `enrollment` | | `TypeOK`, `PendingHasOwner`, `ProofsAreOneTime`, `SensitiveChangeRevokes` of `ApiSpec` | one address with two generations of its account, three login tokens for two challenge slots (an eviction, and the owner that must not be evicted), two failures to the limit, two instants and a clock that steps back |
| `passkeys` | | `TablesSound` (`NoOrphans`, `TablesBounded`, `LifetimesNested`), `EnrolledBeforeSession`, `SessionIsEarned`, `ElevationIsEarned` of `Spec` | one credential, two ceremonies and two sessions, so that a ceremony begun in one session can be presented in another; two account identifiers, so that an account is purged and imported again inside a login; idle time < life of a session < step-up, so that the cap on a step-up matters |
| `rules` | store | `SnapshotsSound` (`SnapshotsCurrent`, `SnapshotsAccepted`, `RevisionNamesContent`) | one address with two generations, three rules over time and two at once, two revisions, two faults |
| | bridge, Near | `FilterSound` (`OwnWholeAnswer`, `CapacityRestored`) | two deliveries, one connection, every cut of the streams, a newline inside a message |
| | bridge, Beyond | `FilterSound` | a delivery without the token, a message above the limit, and a control line above its limit |
| | trees | `EvaluatedAsWritten`, above all `MatchIsCertain` and `StoredFormExact` | every tree of up to three levels over leaves that are true, false or unknown |
| | lists | `EvaluatedAsWritten`, above all `BudgetExact` and `FiledAsOrdered` | rule lists in every order, every operator, trees and messages around each limit |
| `mailboxes` | runs | `RunsSound` (`HistoryBounded`, `NoneSkipped`), `MovesOnlyPlanned` | windows of two over a mailbox with up to four UIDs (two windows, and one that has shrunk), one replaced mailbox, one fault, a history of two rows |
| | delete | `MailKept` (`NoMessageLost`, `FailureRestores`, `DeletedMeansMoved`) | two calls, three messages, two faults |
| `gateway` | accounts | `CachesCurrent` (`CacheIsExact`), `ImplementsRegister` | two callers and two keys, two changes (one given up, one after it), two read tasks (a detached one beside the current one) |
| | messages, Mixed | `CachesCurrent` (`ReturnedShowsSettled`) | two mailboxes and the list of mailboxes, two readers, one change of every kind |
| | messages, Deleting | `CachesCurrent` (`NothingCachedAcrossDelete`) | a reader and two changes of one mailbox, deletes among them |
| | messages, Polling | `CachesCurrent` (`AnnouncedIsListed`) | a polled mailbox with an arrival, two readers, one change |
| `web` | tokens, Browser | `WriteRunsOnce`, `TokensCurrent` (`SpentNeverCurrent`), `RecoverableOnce` | two tabs, one session, every kind of write, five nonces |
| | tokens, Shared | the same, with `StoreBounded` of `TokensCurrent` at its limit | one tab and strangers at two addresses, a registry of three rows, three instants, a restart |
| | tokens, Switching | the same | two tabs and two sessions: one tab signs in anew while the other waits for a token |
| | session | `SessionSound` (`RecentUnlessAbandoned`, `LostOnlyToOthers`, `AnsweredIsSeen`) | two requests, three reads (one shared, one detached, one new), cache and call of one tick each, sign-ins at any time |
| | events | `ArrivalsReach` (`NeverPastUnnoticed`, `StreamsFed`, `OnItsWay`) | two tabs, three streams (a broken one not yet noticed beside its replacement), two arrivals, one break, and one failing call or the loss of access |
| `helper` | dispatch | `RequestsSound` (`NoStaleEffect`, `NoUnauthorizedBody`, `OwnAccountOnly`, `UnauthorizedIsDead`, `OneRecord`, `SpoolsRemoved`) | one request of every class of operation, an administrator and a user, three outside steps, one kill |
| | stepUp | `RequestsSound` | two requests, so that one elevates or ends what the other uses |
| | rate | `LimitsExact` (`SpanBound`, `RetryExact`) | two accounts from one address, limits and windows of a few units, all scopes |
| | fullTable | `LimitsExact` (`PasswordRecovers`, `PasskeyRecovers`) | two accounts and two addresses for a table of five rows |
| | lifecycle | `PasswordsRetired` (`NoneOutlivesPassword`, `ResetForcesChange`), `AccountsSound` (`TellsTrue`, `KeepsBaseline`, `ForgetsLast`) | one address, every operation, four faults (a failure, a failing compensation and its retry), two outside changes |
| | bootstrap | `PasswordsRetired`, `AccountsSound` | two addresses, new or existing, three faults |
| | submitDocker, submitNative | `SubmissionSound` (`ToldIsTrue`, `FilesRemoved`; through Docker also `NoDuplicate`, `AcceptedWhole`) | three attempts at a mail, or two |
| | certNative, certDocker | `FailureSound` (`AnswerTrue`, `ReloadsWhole`, `NoLitter`), `SuccessServed` | natively four generations, one of them for other names, in the container three; three faults: commands, kills and, in the container, reads |
| | data | `DataExact` (`ReceiverHasMessage`, `NoEarlyEnd`) | every message of up to seven bytes |
| `confirmation` | tokens | `StoresExact` (`StoreExact`), `ActsOnceOnShown` | two sessions, three tokens for a store of two, selections of two, expiry |
| | selection | `ActsOnceOnShown` (`ActsOnShown`) | selections of two with any pairing of two tokens, one change of a message |
| | overlap | `ActsOnceOnShown` (`ActsOnShown`, `AdmitsOne`), `StoresExact` | two requests on one message with two tokens, previews on |
| | previews | `StoresExact` (`CacheExact`) | three messages of sizes 1 and 2 in four bytes |
| `progress` | store | `DeliveryResumes` | as in `rules` with two rules |
| | bridge | `DeliveryGoesOn` | as in `rules` |
| | runs, renamed | `RunEnds` | two source mailboxes that may exist or not, windows of one; one mailbox that is renamed, with a fault |
| | accounts | `EveryCallEnds` | one caller that asks again, two changes |
| | submit | `EveryAttemptAnswered` | two attempts |
| `waits` | messages | `EveryReadEnds` | one reader that asks again, two changes |
| | dispatch | `EveryConnectionEnds` | two connections, a cap of one request, one kill |
| | events | `EveryoneTold` | one tab, two streams, two arrivals, one break |
| | cert, hook | `Heals` | two generations; three faults of every kind, or the hook beside the helper |
| `rules_after_purge` | store | `RulesStayInGeneration` is violated | two rules |
| `submission_native` | submitNative | `NoDuplicateNative` is violated | two attempts |

A property with names in parentheses is a conjunction, defined at the end of its
module after its parts and checked in every part of the run that has that module;
the names are the conjuncts that the bounds of the part are chosen for. The type
invariant of a module is one of the conjuncts.
Deadlock is not checked where a behaviour ends because every request has been
made (`helper`, `progress`, `waits`) or the nonces of the model are used up
(`web`).

Addresses do not interact in `AuthStore` (every lookup is by account identifier
or by token) and accounts do not interact in `MailRules` and `RuleRuns`, so one
address with several generations of its account is where the interesting cases
are. The symmetry sets permute pools of values that are only compared for
equality; where parts draw from one pool, none of them tells its members apart.

### What the violations show

- `rules_after_purge`: Maddy's account is deleted with Maddy's own command,
  `auth-purge` removes the rows, the address is created again. The snapshot
  file was never touched, and mail to the new mailbox is filed by the former
  owner's rules until the helper starts again. `SnapshotsCurrent` holds all the
  same, because it speaks of rules that are stored.
- `submission_native`: over the native mode's loopback connection a time-out after the end of DATA is
  an `OSError`, which is reported as "not submitted"; the user repeats and the
  mail is accepted twice. Over the Docker transport `NoDuplicate` holds.

### Observed while modelling

Behaviour that a maintainer may want to know. The properties are stated with
these as exceptions, or of the parts where they do not occur:

- `rules.create` publishes the unchanged rules again when its transaction fails;
  update, delete and reorder leave the empty snapshot. `DeliveryResumes` still
  holds: the next change or the next start of the helper repairs it.
- A mailbox renamed during a run and created again gets new UIDs from 1; the
  run's cursor is valid there by accident and a message that arrived later is
  filed. `mailboxes.delete` is refused during a run, `mailboxes.rename` is not.
  `MovesOnlyPlanned` excepts mailboxes that took such a name (`replaced`).
- When all requests that wait for a session read are cancelled, the finished read
  stays in `_session_flights`, and the next check returns it however old it is.
  `RecentUnlessAbandoned` says that this is the only way.
- A short write of the native submission socket goes unnoticed (`helper.py` 467);
  `AcceptedWhole` is stated of the Docker transport.
- A sign-in that is sent with the cookie of a dead session signs its user in and
  out again: the handler sets the new cookie (`web.py` 2326, 1542) and the
  middleware, for which the request is still one with an invalid session, deletes
  it by its name (1700-1701). A second sign-in, without a cookie, works. In the
  same way a late 401 (1716-1717) or a late answer that ends a session (2691, 2726,
  2758) deletes the cookie of a session that another tab has begun since.
  `LostOnlyToOthers` says that these are the only ways, and that no call of the
  live session itself, failed, late or cancelled, costs it the cookie.
- A failed read of the prior certificate or key in a container counts as "missing"
  (`docker_certificates.py` 263-270), so that a rollback removes the file that is
  there and reports the prior material restored. `AnswerTrue` and `ReloadsWhole`
  are checked and proved with such reads and say what is left: what is restored is
  the prior pair as it was read (`AsRead`), where the file that could not be read
  is gone. A later renewal repairs it (`Heals`). Hook and helper share no lock,
  and one may restore the other's half until a later renewal (`Heals`). A
  certificate refused for its changed names stays in the lineage and is deployed
  by the next request.
- A disabling of credentials that fails after its effect leaves sessions, and
  cannot be repeated because the credentials are gone. They are refused while the
  account is disabled.
- Messages are verified by content and acted on by UID in a later call; a UID that
  changes its meaning in between is acted on. `ActsOnShown` is what is left: it
  was the message shown when the request read it.
- A page that read a message before its permanent deletion stores the preview
  after the deletion's last invalidation; it is shown for up to a minute more.
- A special move whose call fails in transport leaves the target's list stale for
  its lifetime; a rename invalidates message lists only before its call; a
  cancelled plain change can leave a list without the change.
- A refused upload may reach the client only as a broken connection. Spools of a
  killed helper stay on disk, and a request cancelled while its message is
  prepared leaves the mail file.
- After an uncertain submission the user is told to look into Sent, which is not
  written in that case.
- After a login the replacement token is current under the client's scope and the
  session's; single use holds within a scope. After logout the first write is
  rejected once and then recovers. `mutate` in `app.js` (1048-1068) enters
  `executeMutation` again after the answer "step_up_required": `WriteRunsOnce` is
  about one entry, and the first of the two has had no effect.
- A token handed in for the wrong UID is consumed all the same, and a refused
  selection has lost its tokens up to the refused one.
- The delivery filter is open on failure by design: overload and time-outs
  deliver unfiltered.
- Staged files of a killed deployment stay in the container.
- Repeating a failed mailbox deletion may copy messages twice; a mailbox that a
  client recreates leaves the quarantine behind; a message that reaches the
  quarantine after the last check goes with it.
- Fixed windows admit up to twice the limit less one within a stretch of one
  window's length. A passkey attempt prunes only its two scopes and always
  recovers nevertheless; the eviction branch is not reached.
- The compensation of a failed creation removes whatever appeared after its
  baseline, others' work included; a deletion whose stages were chosen before a
  client opened mail storage leaves that storage.
- An Inbox whose UIDs start anew is not announced, and an event source that was
  refused on reconnecting stays closed until the page acts.

### Fairness

Each module states the fairness of its `FairSpec`. `MCProgress` and `MCWaits` ask
the same of the part that moves: `WF_vars(part = "x" /\ X!A)`, with the part's own
variables as the subscript, is the module's condition in a behaviour of that part
and is void in the others.

`MailRules!FairSpec`: weak fairness of what the helper does once it is serving
(one thread, no wait without a timeout), weak fairness of `StartHelper` (socket
activation: some request arrives in the end), and strong fairness of
`StopHelper`: `_run_helper` ends an activation after a number of requests or an
idle period, so a helper does not stay up for ever by being busy whenever the
deadline is looked at. Without the last one delivery may stay paused.

`RuleRuns!FairSpec`: weak fairness of the helper's steps and of `RulesRunStep`,
the request that the Rules page repeats while it is open. Faults are bounded;
nothing is assumed of cancellation, of mail or of mailboxes.

`AccountCache!FairSpec`: the event loop runs a caller that can go on, a helper
call ends by its answer or by the socket timeout of `UnixSocketClient`, and the
helper goes on to the next connection. Changes are finite in number; a caller
may wait for ever behind an endless stream of them, in the code too.

`MessageCache!FairSpec`: as for `AccountCache`, per reader and change.
`HelperDispatch!FairSpec`: the helper goes on, since every read has a deadline, and
socket activation starts it for a waiting connection. `Submission!FairSpec`: the
event loop, the threads and the helper go on; nothing is assumed of Maddy beyond
the time-outs. `FilterBridge!FairSpec`: client and thread go on; no time-out need
fire. `CertificateDeploy!FairSpec`: renewals are asked for again and what is begun
goes on; faults are finite. `MailEvents!FairSpec`: the watcher polls, streams are
served, a browser reconnects; breaks are finite.

## 4. Proofs

Every theorem holds for all values of the constants that meet the assumption of
its module. `FilteringBounds`, `MailboxBounds`, `GatewayBounds`, `WebBounds` and
`HelperBounds` are such assumptions of the modules that put parts side by side, and
so TLC evaluates them on each run; they are stated through a definition of each
part (`FilterBounds`, `CsrfBounds` and so on). Where a module states its assumption
only as such a definition (`AccountCacheAssumption`, `MailRulesAssumption`,
`DeleteAssumption`, `WebSessionAssumption`, `HelperDispatchAssumption`), its theorem
has it as hypothesis, and the MC modules assume it of each of their instances.
What a run checks and what a theorem states is one definition: the MC modules
extend the modules that theorems are about.

| theorem | of | states |
|---|---|---|
| `TypeCorrect` | `ApiSpec` of `AuthStore` | `TypeOK` |
| `PendingAlwaysOwned` | `ApiSpec` | `PendingHasOwner`: a pending enrollment has the challenge that owns it |
| `EveryProofOnce` | `ApiSpec` | `ProofsAreOneTime`: nothing is accepted twice |
| `TablesAlwaysSound` | `ApiSpec` | `TablesSound`: no orphans, limits kept, lifetimes nested |
| `EverySessionEarned` | `ApiSpec` | the action property `SessionIsEarned` |
| `EveryElevationEarned` | `ApiSpec` | the action property `ElevationIsEarned` |
| `EverySensitiveChangeRevokes` | `ApiSpec` | the action property `SensitiveChangeRevokes` |
| `AlwaysEnrolledBeforeSession` | `Spec` of `AuthStore` | `EnrolledBeforeSession` |
| `SnapshotsAlwaysSound` | `MailRules` | `SnapshotsSound` |
| `FilterAlwaysSound` | `FilterBridge` | `FilterSound`: the whole answer to the whole message or none, and permits and lock come back |
| `CacheAlwaysSound` | `AccountCache` | `CacheSound`: a cached list is the helper's, and no change is on its way |
| `GatewayImplementsRegister` | `AccountCache` | `ImplementsRegister`, the refinement of `AccountRegister` |
| `CachesAlwaysCurrent` | `AccountCache`, `MessageCache` | `CachesCurrent`: a list shows what had settled and what was announced before it was asked for |
| `SessionsAlwaysSound` | `WebSession` | `SessionSound`: a handler's session is recent, an answered change is seen, and only answers about other tokens take a live session's cookie |
| `WritesRunOnce` | `WebCsrf` | `WriteRunsOnce` |
| `TokensAlwaysCurrent` | `WebCsrf` | `TokensCurrent`: a spent nonce is never current, and the registry is within its limits |
| `TriesAlwaysRecover` | `WebCsrf` | the action property `RecoverableOnce` |
| `ArrivalsAlwaysReach` | `MailEvents` | `ArrivalsReach` |
| `RequestsAlwaysSound` | `HelperDispatch` | `RequestsSound` |
| `PasswordsAlwaysRetired` | `AccountLifecycle` | `PasswordsRetired` |
| `AccountsAlwaysSound` | `AccountLifecycle` | the action property `AccountsSound` |
| `FailuresAlwaysSound` | `CertificateDeploy`, both modes, every kind of fault | `FailureSound`: what is answered of a failure is true of Maddy and of the files as they could be read |
| `SuccessAlwaysServed` | `CertificateDeploy`, both modes | the action property `SuccessServed` |
| `SubmissionAlwaysSound` | `Submission`, both transports | `SubmissionSound` |
| `MailAlwaysKept` | `MailboxDelete` | `MailKept` |
| `RunsAlwaysSound` | `RuleRuns` | `RunsSound`: a completed run left nothing behind, and the history is bounded |
| `OnlyPlannedMoved` | `RuleRuns` | the action property `MovesOnlyPlanned` |

### Assumptions

They are what an instance must meet anyway. `AuthStore`: limits are positive,
`MaxChallenges` is at least 2 (with one slot the protected owner would leave no
room), login and ceremony tokens are told apart. `AccountCache`: tasks and
changes are told apart (they share the helper's queue). `MailRules`: positive
limits, rule and account identifiers told apart. `MailboxDelete`: a quarantine
name is neither of the two mailboxes, which the prefix of
`_new_mailbox_quarantine_name` gives. `WebSession`: positive times.
`HelperDispatch`: a positive number of requests per process, and the operations
with special treatment are operations the helper knows. `RuleRuns`: a window and
a history of at least one, each mailbox listed once. `WebCsrf`: positive limits
and lifetimes. `MailEvents`: "closed" and "waiting" name no stream. `FilterBridge`:
positive limits, a message is a sequence of bytes, and the newline is no byte of
a control line, no name and no number. In all of them `None` is none of the values
it stands beside (a delivery, a mailbox, a kind or an outcome of a change, an
operation); the prover has to be told what TLC sees of a model value.

### Inductive invariants

None of the properties is inductive. What each proof adds, and why:

- **`EveryProofOnce`.** `ProofsAreOneTime` says that `replays` stays empty, which
  no single action shows. `KeysUnique`: identifiers and tokens are keys and were
  issued, so a row found by key is the row. `TokensGone`: an honoured token is
  stored nowhere, whichever handler deleted it. `CodesFresh`: a stored recovery
  code was drawn for one account and is unused. `CountersRemembered`: a secret
  belongs to one account, and every counter accepted under it is at most the
  account's `lastCounter`. Only this rules out replays when the clock steps
  back, and it survives rotation because a new secret has no accepted counters.
- **`TablesAlwaysSound`** (`TablesInv`). Session tokens are keys
  (`SessionKeys`); login ceremonies name nobody and all others a stored session
  (`CeremoniesBound`); recovery codes belong to enrolled accounts
  (`CodesEnrolled`); each table is finite and counted, one conjunct per table; and
  a TOTP proof in a handler's hands, between two transactions, names no session
  of another account (`HeldBound`). The counting rests on `EvictionMakesRoom`:
  eviction from a table within its limit leaves room for one more row, if
  something may be evicted once the table is full. For challenges that is where
  `MaxChallenges >= 2` is used: one row may be protected, not two.
- **`AlwaysEnrolledBeforeSession`** (`EnrolledInv`) adds `HeldEnrolled`: while a
  handler holds a verified passkey, the account behind it, as long as it is
  stored, is enrolled. The theorem is of `Spec`: `reset_totp`, which is part of the
  store's interface but has no caller, leaves the passkeys of an account whose
  enrollment starts anew.
- **The three action properties** follow from `TypeOK`, the key conjuncts and
  `HeldBound`, action by action.
- **`SnapshotsAlwaysSound`** (`IInv` of `FilteringProofs`). `RuleKeys`: the last
  revision written under an identifier is the stored one, so a conditional
  update writes a new pair. `RulesLined`: positions are 0, 1, 2 and so on, which
  deletion keeps only because it compacts and which creation needs for its next
  position to be free. `FilesFollow` and `PlanFollows`: a snapshot, and one that a
  starting helper is about to publish, is the stored list or has no rule of it.
  `RequestFits`: from the pause to the publication the snapshot of the account
  being changed is empty; without it a commit would leave an older list in force.
- **`FilterAlwaysSound`** (`BridgeInv`). `Underway`: as long as the client goes on,
  what the thread has read, what is on its way and what the client has still to
  read make up the control line and the message, in this order; a body taken for
  complete is the message, unless its client gave up, and that one takes no answer. `Answering`: what a waiting client has read and
  what is on its way is a beginning of the answer to its message, and an answer has
  one newline, its last byte, so no shorter beginning is taken for it
  (`Validated`). `Capacity`: permits and threads at work add up to the limit, and
  who holds the lock evaluates. Streams are reasoned about as sequences behind one
  another (`Cat`, `Splits`); that the control line ends where it should is
  `AfterLine`.
- **`CacheAlwaysSound`, `GatewayImplementsRegister`** (`IInv` of
  `GatewayProofs`). `Counted`: the counter of changes in flight is exact.
  `CacheCurrent`: a filled cache means no change in flight and none left in the
  helper's queue. `ReadsCurrent`: a read of the present generation is queued
  behind all changes, so what it brings is the present list. This is where
  detached reads and changes whose call timed out while still queued are
  excluded. `CallersPaired`: a caller waits for a task started with its key. The
  refinement then takes one lemma per action: each is a step of the register or
  leaves its variables alone.
- **`CachesAlwaysCurrent`** (`MessagesInv`, beside the former). `Current`: nothing
  settled is missing from a list, and nothing settled can still take effect.
  `Behind`: a reader that no change has crossed stands in the helper's line behind
  every change that has settled, so what it is given is current (`ReadSound`).
  `DeletesCounted`: the counters that keep a permanent delete out of the cache are
  exact. `ChangeSound`: only a permanent delete is never left running unobserved;
  the other kinds may be, and are then not owed to anybody.
- **`SessionsAlwaysSound`** (`SessionInv`). Ages are bounded along the path from
  a read to a handler (`FlightYoung`, `ChecksYoung`, `CacheYoung`), and what a
  read or an answer says about the end or the elevation of a session stays true
  (`ReadsTrue`, `CallsChange`, `SettledSeen`), since a session never comes back:
  a sign-in, with whatever cookie, begins another one, whose cache and reads are
  empty. An answer that deletes the cookie is then about a session that is gone at
  the helper, or it is counted in `crossed`.
- **`WritesRunOnce`, `TokensAlwaysCurrent`, `TriesAlwaysRecover`** (`TokenInv`).
  `Store`: every nonce in the registry or spent was drawn, so a new one is unlike
  all of them, and no spent one is current. `NotRunYet`: while a first or second try
  of a tab is still on the wire, its handler has not run. `OnlyProtectedRetried`:
  a sign-in is never repeated. `TryUsable`: the token of a rejection stays the
  current one of its flow, unless the tab is `disturbed`. The attempt at this proof
  showed that `disturbed` did not yet count a sign-in in another tab that changes
  the session between rejection and retry; the history variable was corrected, and
  the run has a setting (Switching) in which it happens.
- **`ArrivalsAlwaysReach`** (`EventsInv`). `Hearing`: a stream that is not yet live
  resumes from where its tab stands, and what a tab is owed lies beyond.
  `Announced`: between the read of a stream's base and its first event, what arrives
  is seen by the watcher or told to the stream. That no event, base or cursor passes
  what has arrived (`EventsTyped`) was found missing by the proof.
- **`RequestsAlwaysSound`** (`DispatchInv`). `Passed`: every check that a
  connection has passed left, since its last authorization began, a state of its
  caller that shows the check was right. `Entered`, `NoFileYet`: nothing is
  decided or stored before the operation is known. `WaitingOnce`, `ServedOnce`:
  a request is in the backlog, or served, or answered, and has no record before
  it is about to be answered. `RefusedSession`: the answer "unauthorized" comes
  from a session check.
- **`MailAlwaysKept`** (`DeleteInv`). Messages have UIDs in order of arrival
  (`Numbered`); a quarantine name is new, so the rename covers nothing
  (`NamesFresh`); until the copy the quarantine holds what the mailbox held, and
  afterwards the target does (`OnTheWay`); what is below the anchor was copied
  before it is purged, and what is there at the removal slipped in
  (`CopiedFirst`).
- **`PasswordsAlwaysRetired`, `AccountsAlwaysSound`** (`LifeInv`). For each position
  of an operation, what it has read and done so far: `BaselineKept` (a creation
  takes nothing away), `MakingSound` (it makes only what its baseline lacks),
  `UndoingSound` (what a compensation has verified is undone), `BootstrapSound`
  (every address of a bootstrap is done, in hand or to do), `PasswordSound` (a
  password is set when no challenge or session of the old one is left) and
  `DeleteSound` (a deletion that has passed a stage has removed what the stage is
  for). What clients of Maddy did meanwhile (`foreign`, `opened`) is excepted
  wherever the code cannot see it.
- **`FailuresAlwaysSound`, `SuccessAlwaysServed`** (`DeployInv`). Up to the first
  file everything is as it was; up to the reload Maddy is (`ServedKnown`); the files
  that are put back are the ones that were read, and these the ones that were there
  or, if they could not be read, none (`FilesKnown`, `AsRead`); and each position knows which staged files may be left
  (`StagedKnown`). One invariant serves both modes.
- **`SubmissionAlwaysSound`** (`MailInv`). `PlaceKnown`, `WorkerKnown`: where a
  request and its worker are says what Maddy can know of the mail. `MaddyKnown`:
  Maddy learns of a mail during its one call (`OneSend`), and a copy is saved only
  after it accepted. `PipeKnown`, of the Docker transport alone: an answer that
  invites a repetition means that the mail is dead. `OneActive`: at most one attempt
  may still deliver, which is what rules out duplicates.
- **`RunsAlwaysSound`, `OnlyPlannedMoved`** (`RunInv`). `Issued`: a UID names one
  message of a mailbox. `SourcesKnown`: below the cursor of a source that kept its
  mailbox there is only what was there when the run was planned, so what a window
  finds was planned. `PlannedCovered`: what was planned, matches and is still there
  is below the cursor of a source yet to be scanned; `Scanned` carries this through
  the steps of one window, between which mail comes and goes.

Each invariant was first checked by TLC on an instance of its module. Each
proof has one lemma or step per action, and under it one step per conjunct the
action can disturb; what many actions share (a row removed, a row added, a token
spent, a request refused) is a lemma that the cases cite.

### Left to TLC

- Liveness under fairness is out of the prover's reach: `DeliveryResumes`,
  `RunEnds`, `EveryCallEnds`, `EveryReadEnds`, `EveryConnectionEnds`,
  `EveryAttemptAnswered`, `DeliveryGoesOn`, `Heals`, `EveryoneTold`.
- `EvaluatedAsWritten` and `DataExact` say what a computation over arbitrary
  trees and sequences yields; that is induction over data, and `RuleEval`
  declares recursive operators.
- `LimitsExact` of `LoginRate` rests on what folds over rows and scopes yield
  (eviction in order of age, the sum of what was admitted), and `ActsOnceOnShown`
  and `StoresExact` of `Freshness` on folds over a selection and over the sizes in
  a cache: induction over data again.

## 5. Plan

Modules that could follow: the continuations of the All Mail listing
(`_MailboxCursorStore` and the merge over mailboxes), and a crash model of the
backup and rollback scripts.

Compositions: `MessageCache` under `Freshness` (previews beside lists), and
`AccountLifecycle` with the rows of `AuthStore`.

Theorems to prove next: those of `LoginRate` and `Freshness`, once their folds are
stated by what they yield; and that `Submission` and `MailboxDelete` implement
abstract specifications of their own.

## 6. Not modelled

Rendering and sanitising of messages, parsing of Maddy's output, configuration
and templates are pure functions of text; frames of the helper protocol are
bounded JSON, and a malformed one is a single action of `HelperDispatch`. Of the
browser client only what the server's properties meet is modelled: the retry of
a write, the event source, the stepping of a run. Schema migrations run in one
transaction at start. Installation, backup and rollback scripts act on a host
that is not described here. Effects that reach Maddy after the last read-back of
an account operation (a container command that outlives its time-out) and a clock
that steps back under the rate limits are left out. `PROJECT.json` gives the
reason for each part.
