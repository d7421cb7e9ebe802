------------------------ MODULE HelperDispatchProofs ------------------------
(***************************************************************************)
(* Why the privileged helper runs no handler and stores no byte of a body  *)
(* for a caller who lacks the authority (HelperDispatch), for any number   *)
(* of accounts and requests, whatever root and Maddy do meanwhile.         *)
(*                                                                         *)
(* The argument: the history `since' only grows between two authorizations *)
(* of a connection and starts anew with each.  Every check that a          *)
(* connection has passed left a state of the caller in it that shows the   *)
(* check was right; so at the handler all of them are there.  A request is *)
(* in the backlog, is served, or has been told its answer, and has left no *)
(* record before it is about to be answered.                               *)
(***************************************************************************)
EXTENDS HelperDispatch, SequenceTheorems, TLAPS

----------------------------------------------------------------------------
(* The inductive invariant. *)

\* Everything but public operations carries a token.
TokenSent(q) == (q.who = None) = (q.op \in PublicOps \cup {"unknown"})

\* A request that waits has no record and no effect, and is not also elsewhere.
Untouched(r) == told[r] = "waiting" /\ records[r] = 0 /\ effects[r] = 0

WaitingOnce ==
    /\ backlog \in Seq(Asked)
    /\ \A i \in 1..Len(backlog) :
          /\ TokenSent(backlog[i]) /\ Untouched(backlog[i].r)
          /\ conn # None => backlog[i].r # conn.q.r
    /\ \A i, j \in 1..Len(backlog) : backlog[i].r = backlog[j].r => i = j
    /\ \A r \in Requests : told[r] = None => records[r] = 0 /\ effects[r] = 0

\* The connection that is served, and the files and records it has made.
ServedOnce ==
    conn # None =>
        /\ helper.up /\ helper.served < MaxServed
        /\ TokenSent(conn.q) /\ told[conn.q.r] = "waiting"
        /\ conn.at # "answering" => Untouched(conn.q.r) /\ conn.spool <= 1
        /\ conn.at = "answering" => conn.result \in Results
        /\ conn.spool <= spools

\* A body that is not authorized yet has no file.
NoFileYet ==
    conn # None =>
        /\ conn.at = "accepted" => conn.stage = "none"
        /\ conn.at \notin {"receiving", "answering"} /\ conn.stage # "dispatch" => conn.spool = 0

\* What is decided about a request only once it is known to be allowed.
Entered ==
    conn # None /\ conn.at \notin {"accepted", "answering"} =>
        /\ conn.q.op \in Allowed
        /\ conn.at \in {"authenticate", "active", "rights", "target"} => conn.q.op \notin PublicOps
        /\ conn.stage # "none"

\* The checks that a connection passed, and what in its caller's history shows it.
Sessioned(p) == \E x \in since : x.live /\ x.admin = p.admin /\ x.forced = p.forced
Enabled == \E x \in since : x.active
Permitted(op, p) ==
    /\ ~(p.forced /\ op \notin ForcedMay)
    /\ op \in AdminOps \cup AdminAccountOps => p.admin
    /\ op \in StepUpOps => \E x \in since : x.live /\ x.elevated

Passed ==
    conn # None /\ conn.q.op \notin PublicOps =>
        /\ conn.at \in {"active", "rights", "target", "authorized", "receiving"} =>
              Sessioned(conn.principal)
        /\ conn.at \in {"rights", "target", "authorized", "receiving"} => Enabled
        /\ conn.at \in {"target", "authorized", "receiving"} =>
              Permitted(conn.q.op, conn.principal)
        /\ conn.at \in {"authorized", "receiving"}
              /\ conn.q.op \in AccountOps \cup AdminAccountOps =>
              conn.principal.admin \/ Resolved(conn.q) = conn.q.who
        /\ conn.at = "answering" /\ conn.result = "unauthorized" => \E x \in since : ~x.live

\* A refusal of the session concerns an operation that needs one.
RefusedSession ==
    conn # None /\ conn.at = "answering" /\ conn.result = "unauthorized" =>
        conn.q.op \notin PublicOps /\ conn.q.op # "unknown"

DispatchInv ==
    /\ TypeOK /\ OneRecord /\ SpoolsRemoved
    /\ kills \in Nat /\ outside \in Nat
    /\ WaitingOnce /\ ServedOnce /\ NoFileYet /\ Entered /\ Passed /\ RefusedSession

----------------------------------------------------------------------------
(* Facts about the tables and the records. *)

Rows == [exists : BOOLEAN, live : BOOLEAN, admin : BOOLEAN, forced : BOOLEAN, active : BOOLEAN,
         elevated : BOOLEAN]

\* What is decided about the caller concerns an account.
LEMMA CallerKnown ==
  ASSUME HelperDispatchAssumption, NEW q \in Asked, TokenSent(q)
  PROVE  /\ q.op \notin PublicOps \cup {"unknown"} => q.who \in Accounts
         /\ q.who # None => q.op \notin PublicOps
BY DEF HelperDispatchAssumption, Asked, TokenSent

LEMMA UnknownNotAllowed == "unknown" \notin Allowed /\ "unknown" \notin PublicOps
BY DEF Allowed, PublicOps, SessionOps, AdminOps, AdminAccountOps, AccountOps

\* Operations on accounts are not public.
LEMMA AccountOpsPrivate == (AccountOps \cup AdminAccountOps) \cap PublicOps = {}
BY DEF PublicOps, AdminAccountOps, AccountOps

\* A connection is not None.
LEMMA ConnectionIsSome ==
  ASSUME HelperDispatchAssumption, NEW c \in Connections
  PROVE  c # None
BY DEF HelperDispatchAssumption

\* The fields of a connection have their types.
LEMMA ConnectionFields ==
  ASSUME NEW c \in Connections
  PROVE  /\ c.q \in Asked /\ c.stage \in {"none", "preflight", "dispatch"}
         /\ c.at \in {"accepted", "authenticate", "active", "rights", "target", "authorized",
                      "receiving", "answering"}
         /\ c.principal \in [admin : BOOLEAN, forced : BOOLEAN] \cup {None}
         /\ c.spool \in 0..2 /\ c.result \in Results \cup {None}
         /\ c = [q |-> c.q, at |-> c.at, stage |-> c.stage, principal |-> c.principal,
                 spool |-> c.spool, result |-> c.result]
BY DEF Connections

\* Between two authorizations the history only grows.
LEMMA HistoryGrows ==
  ASSUME HelperDispatchAssumption, Observed, conn # None, conn' # None,
         conn'.q = conn.q, conn'.stage = conn.stage, conn.q.who # None
  PROVE  since \subseteq since' /\ account'[conn.q.who] \in since'
BY DEF Observed

----------------------------------------------------------------------------
(* The steps of a connection that change nothing but the connection. *)

\* Where a connection is, and that it is one.
LEMMA Served ==
  ASSUME HelperDispatchAssumption, DispatchInv, conn # None
  PROVE  /\ conn \in Connections /\ conn.q \in Asked /\ conn.q.r \in Requests
         /\ TokenSent(conn.q)
         /\ conn.q.op \notin PublicOps \cup {"unknown"} => conn.q.who \in Accounts /\ conn.q.who # None
<1>1. conn \in Connections /\ conn.q \in Asked /\ TokenSent(conn.q)
  BY ConnectionFields DEF DispatchInv, TypeOK, ServedOnce
<1>2. conn.q.r \in Requests
  BY <1>1 DEF Asked
<1>3. None \notin Accounts
  BY DEF HelperDispatchAssumption
<1> QED
  BY <1>1, <1>2, <1>3, CallerKnown

\* The other requests do not notice what one connection does to its own record.
LEMMA OthersWait ==
  ASSUME HelperDispatchAssumption, DispatchInv, conn # None, conn' # None, conn'.q = conn.q,
         UNCHANGED <<backlog, told>>,
         \A r \in Requests \ {conn.q.r} : records'[r] = records[r] /\ effects'[r] = effects[r]
  PROVE  WaitingOnce'
<1>1. conn.q.r \in Requests /\ told[conn.q.r] = "waiting" /\ None # "waiting"
  BY Served DEF DispatchInv, ServedOnce, HelperDispatchAssumption
<1>2. \A i \in 1..Len(backlog) : backlog[i].r \in Requests \ {conn.q.r}
  <2>1. \A i \in 1..Len(backlog) : backlog[i] \in Asked
    BY DEF DispatchInv, WaitingOnce
  <2>2. \A i \in 1..Len(backlog) : backlog[i].r \in Requests
    BY <2>1 DEF Asked
  <2> QED
    BY <2>2 DEF DispatchInv, WaitingOnce
<1>3. \A i \in 1..Len(backlog) : Untouched(backlog[i].r)'
  BY <1>2 DEF DispatchInv, WaitingOnce, Untouched
<1>4. \A r \in Requests : told'[r] = None => records'[r] = 0 /\ effects'[r] = 0
  BY <1>1 DEF DispatchInv, WaitingOnce
<1> QED
  BY <1>3, <1>4 DEF DispatchInv, WaitingOnce, TokenSent

\* A check that is passed.
LEMMA OnwardStep ==
  ASSUME HelperDispatchAssumption, DispatchInv, conn # None, conn.at # "answering",
         conn' \in Connections, conn'.q = conn.q, conn'.spool = conn.spool,
         conn'.at \notin {"accepted", "answering"},
         UNCHANGED <<account, outside, helper, backlog, spools, told, records, effects, kills>>,
         NoFileYet', Entered', Passed'
  PROVE  DispatchInv'
<1>1. conn' # None
  BY ConnectionIsSome
<1>2. TypeOK'
  BY DEF DispatchInv, TypeOK
<1>3. WaitingOnce'
  BY <1>1, OthersWait
<1>4. ServedOnce'
  BY <1>1 DEF DispatchInv, ServedOnce, Untouched, TokenSent
<1>5. OneRecord' /\ RefusedSession'
  BY DEF OneRecord, At, RefusedSession
<1>6. SpoolsRemoved'
  BY <1>1 DEF DispatchInv, SpoolsRemoved
<1>7. kills' \in Nat /\ outside' \in Nat
  BY DEF DispatchInv
<1> QED
  BY <1>2, <1>3, <1>4, <1>5, <1>6, <1>7 DEF DispatchInv

\* A refusal leaves the one record.
LEMMA RefusedStep ==
  ASSUME HelperDispatchAssumption, DispatchInv, Observed, conn # None, conn.at # "answering",
         NEW code \in Results \ {"ok"}, Audited, Answering(code),
         account' \in [Accounts -> Rows],
         UNCHANGED <<outside, helper, backlog, spools, told, effects, kills>>,
         code = "unauthorized" =>
            /\ conn.q.op \notin PublicOps \cup {"unknown"}
            /\ ~account'[conn.q.who].live
  PROVE  DispatchInv'
<1>1. /\ conn \in Connections /\ conn.q.r \in Requests
      /\ conn.q.op \notin PublicOps \cup {"unknown"} => conn.q.who # None
  BY Served
<1>2. conn' = [conn EXCEPT !.at = "answering", !.result = code]
  BY DEF Answering
<1>3. /\ conn' \in Connections /\ conn'.q = conn.q /\ conn'.at = "answering"
      /\ conn'.stage = conn.stage /\ conn'.spool = conn.spool /\ conn'.result = code
  BY <1>1, <1>2 DEF Connections
<1>4. conn' # None
  BY <1>3, ConnectionIsSome
<1>5. records[conn.q.r] = 0 /\ records \in [Requests -> 0..1]
  BY DEF DispatchInv, TypeOK, ServedOnce, Untouched
<1>6. /\ records' \in [Requests -> 0..1] /\ records'[conn.q.r] = 1
      /\ \A r \in Requests \ {conn.q.r} : records'[r] = records[r]
  BY <1>1, <1>5 DEF Audited
<1>7. TypeOK'
  BY <1>3, <1>6 DEF DispatchInv, TypeOK, Rows
<1>8. WaitingOnce'
  BY <1>3, <1>4, <1>6, OthersWait
<1>9. ServedOnce'
  BY <1>3, <1>4 DEF DispatchInv, ServedOnce, TokenSent
<1>10. OneRecord' /\ RefusedSession' /\ NoFileYet' /\ Entered'
  BY <1>3, <1>6 DEF OneRecord, At, RefusedSession, NoFileYet, Entered
<1>11. SpoolsRemoved'
  BY <1>3, <1>4 DEF DispatchInv, SpoolsRemoved
<1>12. Passed'
  <2>1. code = "unauthorized" => \E x \in since' : ~x.live
    BY <1>1, <1>3, <1>4, HistoryGrows
  <2> QED
    BY <1>3, <2>1 DEF Passed
<1>13. kills' \in Nat /\ outside' \in Nat
  BY DEF DispatchInv
<1> QED
  BY <1>7, <1>8, <1>9, <1>10, <1>11, <1>12, <1>13 DEF DispatchInv

\* A connection is closed: its files are gone and it is told its answer.
LEMMA ClosedStep ==
  ASSUME HelperDispatchAssumption, DispatchInv, conn # None,
         NEW outcome \in Results \cup {"transport"}, Closed(outcome),
         \/ UNCHANGED records
         \/ Audited /\ conn.at # "answering"
  PROVE  DispatchInv'
<1>1. conn.q.r \in Requests /\ conn \in Connections
  BY Served
<1>2. conn' = None /\ UNCHANGED <<account, outside, backlog, effects, kills>>
  BY DEF Closed, world
<1>3. /\ told' \in [Requests -> Results \cup {None, "waiting", "transport"}]
      /\ told'[conn.q.r] # None /\ \A r \in Requests \ {conn.q.r} : told'[r] = told[r]
  BY <1>1 DEF Closed, DispatchInv, TypeOK, HelperDispatchAssumption
<1>4. /\ records' \in [Requests -> 0..1]
      /\ \A r \in Requests \ {conn.q.r} : records'[r] = records[r]
  <2>1. CASE UNCHANGED records
    BY <2>1 DEF DispatchInv, TypeOK
  <2>2. CASE Audited /\ conn.at # "answering"
    <3>1. records[conn.q.r] = 0
      BY <2>2 DEF DispatchInv, ServedOnce, Untouched
    <3> QED
      BY <1>1, <2>2, <3>1 DEF Audited, DispatchInv, TypeOK
  <2> QED
    BY <2>1, <2>2
<1>5. helper' \in [up : BOOLEAN, served : 0..MaxServed]
  <2>1. helper \in [up : BOOLEAN, served : 0..MaxServed] /\ helper.served < MaxServed
    BY DEF DispatchInv, TypeOK, ServedOnce
  <2> QED
    BY <2>1 DEF Closed, HelperDispatchAssumption
<1>6. spools' \in Nat /\ spools' <= 2 * kills /\ kills \in Nat
  <2>1. spools \in Nat /\ conn.spool \in 0..2 /\ conn.spool <= spools
    BY <1>1, ConnectionFields DEF DispatchInv, TypeOK, ServedOnce
  <2>2. spools' = spools - conn.spool
    BY DEF Closed
  <2>3. kills \in Nat /\ spools <= 2 * kills + conn.spool
    BY DEF DispatchInv, SpoolsRemoved
  <2> QED
    BY <2>1, <2>2, <2>3
<1>7. TypeOK'
  BY <1>2, <1>3, <1>4, <1>5, <1>6 DEF DispatchInv, TypeOK
<1>8. WaitingOnce'
  <2>1. \A i \in 1..Len(backlog) : backlog[i] \in Asked
    BY DEF DispatchInv, WaitingOnce
  <2>2. \A i \in 1..Len(backlog) : backlog[i].r \in Requests
    BY <2>1 DEF Asked
  <2>3. \A i \in 1..Len(backlog) : backlog[i].r \in Requests \ {conn.q.r}
    BY <2>2 DEF DispatchInv, WaitingOnce
  <2>4. \A i \in 1..Len(backlog) : Untouched(backlog[i].r)'
    BY <1>2, <1>3, <1>4, <2>3 DEF DispatchInv, WaitingOnce, Untouched
  <2>5. \A r \in Requests : told'[r] = None => records'[r] = 0 /\ effects'[r] = 0
    BY <1>2, <1>3, <1>4 DEF DispatchInv, WaitingOnce
  <2> QED
    BY <1>2, <2>4, <2>5 DEF DispatchInv, WaitingOnce, TokenSent
<1>9. SpoolsRemoved' /\ kills' \in Nat /\ outside' \in Nat
  BY <1>2, <1>6 DEF SpoolsRemoved, DispatchInv
<1>10. OneRecord' /\ ServedOnce' /\ NoFileYet' /\ Entered' /\ Passed' /\ RefusedSession'
  BY <1>2 DEF OneRecord, At, ServedOnce, NoFileYet, Entered, Passed, RefusedSession
<1> QED
  BY <1>7, <1>8, <1>9, <1>10 DEF DispatchInv

\* What a connection has shown stays shown while the world moves.
LEMMA PassedStays ==
  ASSUME HelperDispatchAssumption, DispatchInv, Observed, UNCHANGED conn
  PROVE  Passed'
<1> SUFFICES ASSUME conn # None, conn.q.op \notin PublicOps
             PROVE  Passed'
  BY DEF Passed
<1>1. CASE conn.q.op = "unknown"
  <2>1. conn.at \in {"accepted", "answering"}
    BY <1>1, UnknownNotAllowed DEF DispatchInv, Entered
  <2>2. ~(conn.at = "answering" /\ conn.result = "unauthorized")
    BY <1>1 DEF DispatchInv, RefusedSession
  <2> QED
    BY <2>1, <2>2 DEF Passed
<1>2. CASE conn.q.op # "unknown"
  <2>1. since \subseteq since'
    BY <1>2, Served, HistoryGrows
  <2>2. Passed
    BY DEF DispatchInv
  <2>3. Enabled => Enabled'
    BY <2>1 DEF Enabled
  <2>4. (\E x \in since : ~x.live) => (\E x \in since' : ~x.live)
    BY <2>1
  <2>5. Sessioned(conn.principal) => Sessioned(conn.principal)'
    BY <2>1 DEF Sessioned
  <2>6. Permitted(conn.q.op, conn.principal) => Permitted(conn.q.op, conn.principal)'
    BY <2>1 DEF Permitted
  <2> QED
    BY <2>2, <2>3, <2>4, <2>5, <2>6 DEF Passed, Resolved
<1> QED
  BY <1>1, <1>2

\* Root, Maddy's command line and the clock.
LEMMA WorldStep ==
  ASSUME HelperDispatchAssumption, DispatchInv, Observed, account' \in [Accounts -> Rows],
         outside' \in Nat,
         UNCHANGED <<helper, backlog, conn, spools, told, records, effects, kills>>
  PROVE  DispatchInv'
<1>1. TypeOK'
  BY DEF DispatchInv, TypeOK, Rows
<1>2. Passed'
  BY PassedStays
<1>3. WaitingOnce' /\ ServedOnce' /\ NoFileYet' /\ Entered' /\ RefusedSession'
  BY DEF DispatchInv, WaitingOnce, ServedOnce, NoFileYet, Entered, RefusedSession, Untouched, TokenSent
<1>4. OneRecord' /\ SpoolsRemoved' /\ kills' \in Nat
  BY DEF DispatchInv, OneRecord, At, SpoolsRemoved
<1> QED
  BY <1>1, <1>2, <1>3, <1>4 DEF DispatchInv

LEMMA OutsideKeeps ==
  ASSUME HelperDispatchAssumption, DispatchInv, Observed, NEW a \in Accounts,
         \/ SessionExpires(a) \/ StepUpExpires(a) \/ RootSetsRole(a) \/ RootPurges(a)
         \/ MaddyChanges(a)
  PROVE  DispatchInv'
<1>1. account[a] \in Rows /\ account \in [Accounts -> Rows] /\ outside \in Nat
  BY DEF DispatchInv, TypeOK, Rows
<1>2. PICK new \in Rows : OutsideStep(a, new)
  <2>1. CASE SessionExpires(a)
    <3>1. [account[a] EXCEPT !.live = FALSE, !.elevated = FALSE] \in Rows
      BY <1>1 DEF Rows
    <3> QED
      BY <2>1, <3>1 DEF SessionExpires
  <2>2. CASE StepUpExpires(a)
    <3>1. [account[a] EXCEPT !.elevated = FALSE] \in Rows
      BY <1>1 DEF Rows
    <3> QED
      BY <2>2, <3>1 DEF StepUpExpires
  <2>3. CASE RootSetsRole(a)
    <3>1. [account[a] EXCEPT !.admin = ~account[a].admin, !.live = FALSE, !.elevated = FALSE] \in Rows
      BY <1>1 DEF Rows
    <3> QED
      BY <2>3, <3>1 DEF RootSetsRole
  <2>4. CASE RootPurges(a)
    <3>1. [account[a] EXCEPT !.exists = FALSE, !.live = FALSE, !.elevated = FALSE] \in Rows
      BY <1>1 DEF Rows
    <3> QED
      BY <2>4, <3>1 DEF RootPurges
  <2>5. CASE MaddyChanges(a)
    <3>1. [account[a] EXCEPT !.active = ~account[a].active] \in Rows
      BY <1>1 DEF Rows
    <3> QED
      BY <2>5, <3>1 DEF MaddyChanges
  <2> QED
    BY <2>1, <2>2, <2>3, <2>4, <2>5
<1>3. account' \in [Accounts -> Rows] /\ outside' \in Nat
  BY <1>1, <1>2 DEF OutsideStep
<1> QED
  BY <1>2, <1>3, WorldStep DEF OutsideStep

----------------------------------------------------------------------------
(* The steps of the dispatcher. *)

\* A request enters an authorization: the history starts anew.
LEMMA EnterStep ==
  ASSUME HelperDispatchAssumption, DispatchInv, Observed, conn # None,
         conn.at \in {"accepted", "receiving"},
         NEW stage \in {"preflight", "dispatch"}, Enter(stage),
         stage = "preflight" => conn.at = "accepted"
  PROVE  DispatchInv'
<1>1. conn \in Connections
  BY Served
<1>2. CASE Shape(conn.q) # "fits" /\ Refused(Shape(conn.q))
  <2>1. Shape(conn.q) \in {"operation_denied", "invalid_stream"}
    BY <1>2 DEF Shape
  <2>2. account' \in [Accounts -> Rows]
    BY <1>2 DEF Refused, world, DispatchInv, TypeOK, Rows
  <2>3. Shape(conn.q) \in Results \ {"ok"} /\ Shape(conn.q) # "unauthorized"
    BY <2>1 DEF Results
  <2> QED
    BY <1>2, <2>2, <2>3, RefusedStep DEF Refused, world
<1>3. CASE /\ Shape(conn.q) = "fits"
           /\ conn' = [conn EXCEPT
                         !.at = IF conn.q.op \in PublicOps THEN "authorized" ELSE "authenticate",
                         !.stage = stage]
           /\ UNCHANGED <<world, helper, backlog, spools, told, records, effects, kills>>
  <2>1. conn.q.op \in Allowed
    BY <1>3 DEF Shape
  <2>2. /\ conn' \in Connections /\ conn'.q = conn.q /\ conn'.spool = conn.spool
        /\ conn'.at = (IF conn.q.op \in PublicOps THEN "authorized" ELSE "authenticate")
        /\ conn'.stage = stage
    BY <1>1, <1>3 DEF Connections
  <2>3. NoFileYet' /\ Entered' /\ Passed'
    BY <2>1, <2>2 DEF NoFileYet, Entered, Passed, DispatchInv
  <2> QED
    BY <1>3, <2>2, <2>3, OnwardStep DEF world
<1> QED
  BY <1>2, <1>3 DEF Enter

\* A step from one check to the next keeps what was shown before.
LEMMA HistoryKept ==
  ASSUME HelperDispatchAssumption, DispatchInv, Observed, conn # None,
         conn.at \in {"authenticate", "active", "rights", "target"},
         conn' \in Connections, conn'.q = conn.q, conn'.stage = conn.stage
  PROVE  /\ conn.q.op \in Allowed \ PublicOps /\ conn.q.who \in Accounts
         /\ since \subseteq since' /\ account'[conn.q.who] \in since'
<1>1. conn.q.op \in Allowed \ PublicOps /\ conn.q.op # "unknown"
  BY UnknownNotAllowed DEF DispatchInv, Entered
<1>2. conn.q.who \in Accounts /\ conn.q.who # None
  BY <1>1, Served
<1>3. conn' # None
  BY ConnectionIsSome
<1> QED
  BY <1>1, <1>2, <1>3, HistoryGrows

\* A refusal of a check.
LEMMA CheckRefused ==
  ASSUME HelperDispatchAssumption, DispatchInv, Observed, conn # None, conn.at # "answering",
         NEW code \in Results \ {"ok", "unauthorized"}, Refused(code)
  PROVE  DispatchInv'
<1>1. account' \in [Accounts -> Rows]
  BY DEF Refused, world, DispatchInv, TypeOK, Rows
<1> QED
  BY <1>1, RefusedStep DEF Refused, world

LEMMA AuthenticateStep ==
  ASSUME HelperDispatchAssumption, DispatchInv, Observed, Authenticate
  PROVE  DispatchInv'
<1>1. conn # None /\ conn.at = "authenticate" /\ conn \in Connections
  BY Served DEF Authenticate, At
<1>2. conn.q.op \in Allowed \ PublicOps /\ conn.q.op # "unknown"
  BY <1>1, UnknownNotAllowed DEF DispatchInv, Entered
<1>3. conn.q.who \in Accounts
  BY <1>1, <1>2, Served
<1> DEFINE a == account[conn.q.who]
<1>4. account \in [Accounts -> Rows] /\ a \in Rows
  BY <1>3 DEF DispatchInv, TypeOK, Rows
<1>5. CASE a.live
  <2>1. /\ conn' = [conn EXCEPT !.at = "active", !.principal =
                                [admin |-> a.admin, forced |-> a.forced]]
        /\ UNCHANGED <<account, outside, helper, backlog, spools, told, records, effects, kills>>
    BY <1>5 DEF Authenticate, world
  <2>2. [admin |-> a.admin, forced |-> a.forced] \in [admin : BOOLEAN, forced : BOOLEAN]
    BY <1>4 DEF Rows
  <2>3. /\ conn' \in Connections /\ conn'.q = conn.q /\ conn'.spool = conn.spool
        /\ conn'.at = "active" /\ conn'.stage = conn.stage
        /\ conn'.principal.admin = a.admin /\ conn'.principal.forced = a.forced
    BY <1>1, <2>1, <2>2 DEF Connections
  <2>4. a \in since'
    BY <1>1, <2>1, <2>3, HistoryKept
  <2>5. Sessioned(conn.principal)'
    BY <1>5, <2>3, <2>4 DEF Sessioned
  <2>6. NoFileYet' /\ Entered' /\ Passed'
    BY <1>1, <1>2, <2>3, <2>5 DEF NoFileYet, Entered, Passed, DispatchInv
  <2> QED
    BY <1>1, <2>1, <2>3, <2>6, OnwardStep
<1>6. CASE ~a.live
  <2>1. Refused("unauthorized")
    BY <1>6 DEF Authenticate
  <2>2. UNCHANGED account
    BY <2>1 DEF Refused, world
  <2>3. account' \in [Accounts -> Rows] /\ ~account'[conn.q.who].live
    BY <1>4, <1>6, <2>2
  <2>4. "unauthorized" \in Results \ {"ok"}
    BY DEF Results
  <2> QED
    BY <1>1, <1>2, <2>1, <2>3, <2>4, RefusedStep DEF Refused, world
<1> QED
  BY <1>5, <1>6

LEMMA RequireActiveStep ==
  ASSUME HelperDispatchAssumption, DispatchInv, Observed, RequireActive
  PROVE  DispatchInv'
<1>1. conn # None /\ conn.at = "active" /\ conn \in Connections
  BY Served DEF RequireActive, At
<1>2. conn.q.op \in Allowed \ PublicOps /\ conn.q.op # "unknown"
  BY <1>1, UnknownNotAllowed DEF DispatchInv, Entered
<1>3. conn.q.who \in Accounts
  BY <1>1, <1>2, Served
<1>4. account \in [Accounts -> Rows] /\ account[conn.q.who] \in Rows
  BY <1>3 DEF DispatchInv, TypeOK, Rows
<1>5. CASE account[conn.q.who].active
  <2>1. /\ conn' = [conn EXCEPT !.at = "rights"]
        /\ UNCHANGED <<account, outside, helper, backlog, spools, told, records, effects, kills>>
    BY <1>5 DEF RequireActive, Onward, world
  <2>2. /\ conn' \in Connections /\ conn'.q = conn.q /\ conn'.spool = conn.spool
        /\ conn'.at = "rights" /\ conn'.stage = conn.stage /\ conn'.principal = conn.principal
    BY <1>1, <2>1 DEF Connections
  <2>3. since \subseteq since' /\ account[conn.q.who] \in since'
    BY <1>1, <2>1, <2>2, HistoryKept
  <2>4. Sessioned(conn.principal)
    BY <1>1, <1>2 DEF DispatchInv, Passed
  <2>5. Sessioned(conn.principal)' /\ Enabled'
    BY <1>5, <2>2, <2>3, <2>4 DEF Sessioned, Enabled
  <2>6. NoFileYet' /\ Entered' /\ Passed'
    BY <1>1, <1>2, <2>2, <2>5 DEF NoFileYet, Entered, Passed, DispatchInv
  <2> QED
    BY <1>1, <2>1, <2>2, <2>6, OnwardStep
<1>6. CASE ~account[conn.q.who].active
  <2>1. /\ account' = [account EXCEPT ![conn.q.who].live = FALSE, ![conn.q.who].elevated = FALSE]
        /\ Audited /\ Answering("forbidden")
        /\ UNCHANGED <<outside, helper, backlog, spools, told, effects, kills>>
    BY <1>6 DEF RequireActive
  <2>2. account' \in [Accounts -> Rows]
    BY <1>3, <1>4, <2>1 DEF Rows
  <2>3. "forbidden" \in Results \ {"ok"}
    BY DEF Results
  <2> QED
    BY <1>1, <2>1, <2>2, <2>3, RefusedStep
<1> QED
  BY <1>5, <1>6

LEMMA CheckRightsStep ==
  ASSUME HelperDispatchAssumption, DispatchInv, Observed, CheckRights
  PROVE  DispatchInv'
<1>1. conn # None /\ conn.at = "rights" /\ conn \in Connections
  BY Served DEF CheckRights, At
<1>2. {"password_change_required", "forbidden", "step_up_required"} \subseteq
        Results \ {"ok", "unauthorized"}
  BY DEF Results
<1>3. CASE \E code \in {"password_change_required", "forbidden", "step_up_required"} : Refused(code)
  BY <1>1, <1>2, <1>3, CheckRefused
<1>4. CASE /\ ~(conn.principal.forced /\ conn.q.op \notin ForcedMay)
           /\ ~(conn.q.op \in AdminOps \cup AdminAccountOps /\ ~conn.principal.admin)
           /\ ~(conn.q.op \in StepUpOps
                  /\ ~(account[conn.q.who].live /\ account[conn.q.who].elevated))
           /\ Onward("target")
  <2>1. /\ conn' = [conn EXCEPT !.at = "target"]
        /\ UNCHANGED <<account, outside, helper, backlog, spools, told, records, effects, kills>>
    BY <1>4 DEF Onward, world
  <2>2. /\ conn' \in Connections /\ conn'.q = conn.q /\ conn'.spool = conn.spool
        /\ conn'.at = "target" /\ conn'.stage = conn.stage /\ conn'.principal = conn.principal
    BY <1>1, <2>1 DEF Connections
  <2>3. /\ since \subseteq since' /\ account[conn.q.who] \in since'
        /\ conn.q.op \in Allowed \ PublicOps
    BY <1>1, <2>1, <2>2, HistoryKept
  <2>4. Sessioned(conn.principal) /\ Enabled
    BY <1>1, <2>3 DEF DispatchInv, Passed
  <2>5. Sessioned(conn.principal)' /\ Enabled'
    BY <2>2, <2>3, <2>4 DEF Sessioned, Enabled
  <2>6. Permitted(conn.q.op, conn.principal)'
    BY <1>4, <2>2, <2>3 DEF Permitted
  <2>7. NoFileYet' /\ Entered' /\ Passed'
    BY <1>1, <2>2, <2>3, <2>5, <2>6 DEF NoFileYet, Entered, Passed, DispatchInv
  <2> QED
    BY <1>1, <2>1, <2>2, <2>7, OnwardStep
<1> QED
  BY <1>3, <1>4 DEF CheckRights

LEMMA ResolveTargetStep ==
  ASSUME HelperDispatchAssumption, DispatchInv, Observed, ResolveTarget
  PROVE  DispatchInv'
<1>1. conn # None /\ conn.at = "target" /\ conn \in Connections
  BY Served DEF ResolveTarget, At
<1>2. {"invalid_request", "invalid_credentials", "forbidden"} \subseteq
        Results \ {"ok", "unauthorized"}
  BY DEF Results
<1>3. CASE \E code \in {"invalid_request", "invalid_credentials", "forbidden"} : Refused(code)
  BY <1>1, <1>2, <1>3, CheckRefused
<1>4. CASE /\ conn.q.op \in AccountOps \cup AdminAccountOps =>
                conn.principal.admin \/ Resolved(conn.q) = conn.q.who
           /\ Onward("authorized")
  <2>1. /\ conn' = [conn EXCEPT !.at = "authorized"]
        /\ UNCHANGED <<account, outside, helper, backlog, spools, told, records, effects, kills>>
    BY <1>4 DEF Onward, world
  <2>2. /\ conn' \in Connections /\ conn'.q = conn.q /\ conn'.spool = conn.spool
        /\ conn'.at = "authorized" /\ conn'.stage = conn.stage /\ conn'.principal = conn.principal
    BY <1>1, <2>1 DEF Connections
  <2>3. since \subseteq since' /\ conn.q.op \in Allowed \ PublicOps
    BY <1>1, <2>1, <2>2, HistoryKept
  <2>4. Sessioned(conn.principal) /\ Enabled /\ Permitted(conn.q.op, conn.principal)
    BY <1>1, <2>3 DEF DispatchInv, Passed
  <2>5. Sessioned(conn.principal)' /\ Enabled'
    BY <2>2, <2>3, <2>4 DEF Sessioned, Enabled
  <2>6. Permitted(conn.q.op, conn.principal)'
    BY <2>2, <2>3, <2>4 DEF Permitted
  <2>7. NoFileYet' /\ Entered'
    BY <1>1, <2>2, <2>3 DEF NoFileYet, Entered, DispatchInv
  <2>8. Passed'
    BY <1>4, <2>2, <2>5, <2>6 DEF Passed, Resolved
  <2> QED
    BY <1>1, <2>1, <2>2, <2>7, <2>8, OnwardStep
<1> QED
  BY <1>3, <1>4 DEF ResolveTarget

\* A body is stored only behind an authorization.
LEMMA OpenSpoolStep ==
  ASSUME HelperDispatchAssumption, DispatchInv, Observed, OpenSpool
  PROVE  DispatchInv'
<1>1. conn # None /\ conn.at = "authorized" /\ conn \in Connections
  BY Served DEF OpenSpool, At
<1>2. /\ conn' = [conn EXCEPT !.at = "receiving", !.spool = 1] /\ spools' = spools + 1
      /\ UNCHANGED <<account, outside, helper, backlog, told, records, effects, kills>>
  BY DEF OpenSpool, world
<1>3. /\ conn' \in Connections /\ conn'.q = conn.q /\ conn'.spool = 1
      /\ conn'.at = "receiving" /\ conn'.stage = conn.stage /\ conn'.principal = conn.principal
  <2>1. 1 \in 0..2
    OBVIOUS
  <2> QED
    BY <1>1, <1>2, <2>1 DEF Connections
<1>4. conn' # None
  BY <1>3, ConnectionIsSome
<1>5. conn.spool = 0 /\ spools \in Nat /\ kills \in Nat /\ spools <= 2 * kills
  <2>1. conn.spool = 0
    BY <1>1 DEF DispatchInv, NoFileYet, OpenSpool
  <2> QED
    BY <1>1, <2>1 DEF DispatchInv, TypeOK, SpoolsRemoved
<1>6. TypeOK'
  BY <1>2, <1>3, <1>5 DEF DispatchInv, TypeOK
<1>7. WaitingOnce'
  BY <1>1, <1>2, <1>3, <1>4, OthersWait
<1>8. ServedOnce'
  BY <1>1, <1>2, <1>3, <1>5 DEF DispatchInv, ServedOnce, Untouched, TokenSent
<1>9. OneRecord' /\ RefusedSession' /\ NoFileYet' /\ Entered'
  BY <1>1, <1>3 DEF OneRecord, At, RefusedSession, NoFileYet, Entered, DispatchInv
<1>10. SpoolsRemoved'
  BY <1>2, <1>3, <1>4, <1>5 DEF SpoolsRemoved
<1>11. Passed'
  <2> SUFFICES ASSUME conn.q.op \notin PublicOps
               PROVE  Passed'
    BY <1>3 DEF Passed
  <2>1. conn.q.op # "unknown"
    BY <1>1, UnknownNotAllowed DEF DispatchInv, Entered
  <2>2. since \subseteq since'
    BY <1>1, <1>3, <1>4, <2>1, Served, HistoryGrows
  <2>3. /\ Sessioned(conn.principal) /\ Enabled /\ Permitted(conn.q.op, conn.principal)
        /\ conn.q.op \in AccountOps \cup AdminAccountOps =>
              conn.principal.admin \/ Resolved(conn.q) = conn.q.who
    BY <1>1 DEF DispatchInv, Passed
  <2>4. Sessioned(conn.principal)' /\ Enabled'
    BY <1>3, <2>2, <2>3 DEF Sessioned, Enabled
  <2>5. Permitted(conn.q.op, conn.principal)'
    BY <1>3, <2>2, <2>3 DEF Permitted
  <2> QED
    BY <1>3, <2>3, <2>4, <2>5 DEF Passed, Resolved
<1>12. kills' \in Nat /\ outside' \in Nat
  BY <1>2 DEF DispatchInv
<1> QED
  BY <1>6, <1>7, <1>8, <1>9, <1>10, <1>11, <1>12 DEF DispatchInv

\* The accounts stay well formed, whatever a handler does.
LEMMA HandlersTyped ==
  ASSUME DispatchInv, NEW q
  PROVE  AccountAfter(q) \in [Accounts -> Rows]
<1>1. account \in [Accounts -> Rows]
  BY DEF DispatchInv, TypeOK, Rows
<1>2. ASSUME NEW a \in Accounts
      PROVE  /\ [account[a] EXCEPT !.live = FALSE, !.elevated = FALSE] \in Rows
             /\ [account[a] EXCEPT !.live = FALSE, !.elevated = FALSE, !.forced = FALSE] \in Rows
             /\ [account[a] EXCEPT !.elevated = account[a].live] \in Rows
             /\ [account[a] EXCEPT !.live = FALSE, !.elevated = FALSE, !.active = FALSE] \in Rows
  <2>1. account[a] \in Rows
    BY <1>1
  <2>2. [account[a] EXCEPT !.live = FALSE, !.elevated = FALSE] \in Rows
    BY <2>1 DEF Rows
  <2>3. [account[a] EXCEPT !.live = FALSE, !.elevated = FALSE, !.forced = FALSE] \in Rows
    BY <2>1 DEF Rows
  <2>4. [account[a] EXCEPT !.elevated = account[a].live] \in Rows
    BY <2>1 DEF Rows
  <2>5. [account[a] EXCEPT !.live = FALSE, !.elevated = FALSE, !.active = FALSE] \in Rows
    BY <2>1 DEF Rows
  <2> QED
    BY <2>2, <2>3, <2>4, <2>5
<1> QED
  BY <1>1, <1>2 DEF AccountAfter

\* A handler runs once and leaves one record, but for the polling operations.
LEMMA HandleStep ==
  ASSUME HelperDispatchAssumption, DispatchInv, Observed, Handle
  PROVE  DispatchInv'
<1>1. conn # None /\ conn.at = "authorized" /\ conn \in Connections /\ conn.q.r \in Requests
  BY Served DEF Handle, At
<1>2. PICK out \in {0, 1} :
        /\ spools' = spools + out
        /\ conn' = [conn EXCEPT !.at = "answering", !.result = "ok", !.spool = conn.spool + out]
  BY DEF Handle
<1>3. /\ account' = AccountAfter(conn.q)
      /\ effects' = [effects EXCEPT ![conn.q.r] = @ + 1]
      /\ records' = IF conn.q.op \in Unaudited THEN records
                    ELSE [records EXCEPT ![conn.q.r] = @ + 1]
      /\ UNCHANGED <<outside, helper, backlog, told, kills>>
  BY DEF Handle
<1>4. /\ conn.spool \in {0, 1} /\ spools \in Nat /\ kills \in Nat /\ conn.spool <= spools
      /\ spools <= 2 * kills + conn.spool
  BY <1>1, ConnectionFields DEF DispatchInv, TypeOK, SpoolsRemoved, ServedOnce
<1>5. conn.spool + out \in 0..2 /\ "ok" \in Results
  BY <1>4 DEF Results
<1>6. /\ conn' \in Connections /\ conn'.q = conn.q /\ conn'.at = "answering"
      /\ conn'.result = "ok" /\ conn'.spool = conn.spool + out
  BY <1>1, <1>2, <1>5 DEF Connections
<1>7. conn' # None
  BY <1>6, ConnectionIsSome
<1>8. /\ records[conn.q.r] = 0 /\ records \in [Requests -> 0..1]
      /\ effects[conn.q.r] = 0 /\ effects \in [Requests -> 0..1]
  BY <1>1 DEF DispatchInv, TypeOK, ServedOnce, Untouched
<1>9. /\ records' \in [Requests -> 0..1] /\ effects' \in [Requests -> 0..1]
      /\ records'[conn.q.r] = IF conn.q.op \in Unaudited THEN 0 ELSE 1
      /\ \A r \in Requests \ {conn.q.r} : records'[r] = records[r] /\ effects'[r] = effects[r]
  BY <1>1, <1>3, <1>8
<1>10. account' \in [Accounts -> Rows]
  BY <1>3, HandlersTyped
<1>11. TypeOK'
  BY <1>2, <1>3, <1>4, <1>6, <1>9, <1>10 DEF DispatchInv, TypeOK, Rows
<1>12. WaitingOnce'
  BY <1>1, <1>3, <1>6, <1>7, <1>9, OthersWait
<1>13. ServedOnce'
  BY <1>1, <1>2, <1>3, <1>4, <1>5, <1>6 DEF DispatchInv, ServedOnce, TokenSent
<1>14. OneRecord' /\ RefusedSession' /\ NoFileYet' /\ Entered' /\ Passed'
  BY <1>6, <1>9 DEF OneRecord, At, RefusedSession, NoFileYet, Entered, Passed
<1>15. SpoolsRemoved'
  BY <1>2, <1>3, <1>4, <1>6, <1>7 DEF SpoolsRemoved
<1>16. kills' \in Nat /\ outside' \in Nat
  BY <1>3 DEF DispatchInv
<1> QED
  BY <1>11, <1>12, <1>13, <1>14, <1>15, <1>16 DEF DispatchInv

----------------------------------------------------------------------------
(* The life of the helper process, and its clients. *)

\* Everything but the process stays as it is while no connection is served.
LEMMA ProcessStep ==
  ASSUME HelperDispatchAssumption, DispatchInv, conn = None \/ ~helper.up,
         helper' \in [up : BOOLEAN, served : 0..MaxServed],
         UNCHANGED <<account, outside, backlog, conn, spools, told, records, effects, kills>>
  PROVE  DispatchInv'
<1>1. conn = None /\ conn' = None
  BY DEF DispatchInv, ServedOnce
<1>2. TypeOK'
  BY DEF DispatchInv, TypeOK
<1>3. WaitingOnce'
  BY DEF DispatchInv, WaitingOnce, Untouched, TokenSent
<1>4. OneRecord' /\ ServedOnce' /\ NoFileYet' /\ Entered' /\ Passed' /\ RefusedSession'
  BY <1>1 DEF OneRecord, At, ServedOnce, NoFileYet, Entered, Passed, RefusedSession
<1>5. SpoolsRemoved' /\ kills' \in Nat /\ outside' \in Nat
  BY DEF DispatchInv, SpoolsRemoved
<1> QED
  BY <1>2, <1>3, <1>4, <1>5 DEF DispatchInv

LEMMA ActivateStep ==
  ASSUME HelperDispatchAssumption, DispatchInv, Activate \/ Retire
  PROVE  DispatchInv'
<1>1. helper' \in [up : BOOLEAN, served : 0..MaxServed]
  <2>1. 0 \in 0..MaxServed
    BY DEF HelperDispatchAssumption
  <2>2. helper' = [up |-> TRUE, served |-> 0] \/ helper' = [up |-> FALSE, served |-> 0]
    BY DEF Activate, Retire
  <2>3. /\ [up |-> TRUE, served |-> 0] \in [up : BOOLEAN, served : 0..MaxServed]
        /\ [up |-> FALSE, served |-> 0] \in [up : BOOLEAN, served : 0..MaxServed]
    BY <2>1
  <2> QED
    BY <2>2, <2>3
<1> QED
  BY <1>1, ProcessStep DEF Activate, Retire, world

\* The oldest request is taken from the backlog.
LEMMA AcceptStep ==
  ASSUME HelperDispatchAssumption, DispatchInv, Accept
  PROVE  DispatchInv'
<1> DEFINE q == backlog[1]
<1>1. backlog \in Seq(Asked) /\ backlog # <<>>
  BY DEF DispatchInv, WaitingOnce, Accept
<1>2. 1 \in 1..Len(backlog) /\ q \in Asked /\ Head(backlog) = q
  BY <1>1
<1>3. /\ Tail(backlog) \in Seq(Asked) /\ Len(Tail(backlog)) = Len(backlog) - 1
      /\ \A i \in 1..Len(Tail(backlog)) :
            i + 1 \in 1..Len(backlog) /\ i + 1 # 1 /\ Tail(backlog)[i] = backlog[i + 1]
  BY <1>1
<1>4. q.r \in Requests /\ TokenSent(q) /\ Untouched(q.r)
  BY <1>2 DEF DispatchInv, WaitingOnce, Asked
<1> HIDE DEF q
<1>5. /\ conn' = [q |-> q, at |-> "accepted", stage |-> "none", principal |-> None, spool |-> 0,
                  result |-> None]
      /\ backlog' = Tail(backlog)
      /\ UNCHANGED <<account, outside, helper, spools, told, records, effects, kills>>
  BY <1>2 DEF Accept, world
<1>6. /\ conn' \in Connections /\ conn'.q = q /\ conn'.at = "accepted" /\ conn'.stage = "none"
      /\ conn'.spool = 0
  <2>1. 0 \in 0..2
    OBVIOUS
  <2> QED
    BY <1>2, <1>5, <2>1 DEF Connections
<1>7. conn' # None
  BY <1>6, ConnectionIsSome
<1>8. TypeOK'
  BY <1>5, <1>6 DEF DispatchInv, TypeOK
<1> DEFINE Waits(s) == told'[s] = "waiting" /\ records'[s] = 0 /\ effects'[s] = 0
<1>9. WaitingOnce'
  <2>1. \A i \in 1..Len(backlog') : TokenSent(backlog'[i]) /\ Waits(backlog'[i].r)
    <3>1. \A i \in 1..Len(backlog) : TokenSent(backlog[i]) /\ Untouched(backlog[i].r)
      BY DEF DispatchInv, WaitingOnce
    <3>2. \A i \in 1..Len(backlog) : Waits(backlog[i].r)
      BY <1>5, <3>1 DEF Untouched
    <3> QED
      BY <1>3, <1>5, <3>1, <3>2
  <2>2. \A i \in 1..Len(backlog') : backlog'[i].r # conn'.q.r
    BY <1>2, <1>3, <1>5, <1>6 DEF DispatchInv, WaitingOnce, q
  <2>3. \A i, j \in 1..Len(backlog') : backlog'[i].r = backlog'[j].r => i = j
    <3> SUFFICES ASSUME NEW i \in 1..Len(backlog'), NEW j \in 1..Len(backlog'),
                        backlog'[i].r = backlog'[j].r
                 PROVE  i = j
      OBVIOUS
    <3>1. backlog[i + 1].r = backlog[j + 1].r /\ i + 1 \in 1..Len(backlog) /\ j + 1 \in 1..Len(backlog)
      BY <1>3, <1>5
    <3>2. i + 1 = j + 1
      BY <3>1 DEF DispatchInv, WaitingOnce
    <3>3. i \in Int /\ j \in Int
      BY <1>1, <1>3, <1>5
    <3> QED
      BY <3>2, <3>3
  <2>4. \A s \in Requests : told'[s] = None => records'[s] = 0 /\ effects'[s] = 0
    BY <1>5 DEF DispatchInv, WaitingOnce
  <2> QED
    BY <1>3, <1>5, <2>1, <2>2, <2>3, <2>4 DEF WaitingOnce, TokenSent, Untouched
<1>10. ServedOnce'
  <2>1. helper.up /\ helper.served < MaxServed /\ spools \in Nat
    BY DEF Accept, DispatchInv, TypeOK
  <2> QED
    BY <1>4, <1>5, <1>6, <2>1 DEF ServedOnce, Untouched, TokenSent
<1>11. OneRecord' /\ NoFileYet' /\ Entered' /\ Passed' /\ RefusedSession'
  BY <1>6 DEF OneRecord, At, NoFileYet, Entered, Passed, RefusedSession
<1>12. SpoolsRemoved' /\ kills' \in Nat /\ outside' \in Nat
  <2>1. conn = None
    BY DEF Accept
  <2> QED
    BY <1>5, <1>6, <1>7, <2>1 DEF DispatchInv, SpoolsRemoved, TypeOK
<1> QED
  BY <1>8, <1>9, <1>10, <1>11, <1>12 DEF DispatchInv

\* A new request waits behind the others.
LEMMA ConnectStep ==
  ASSUME HelperDispatchAssumption, DispatchInv, Observed, NEW r \in Requests, NEW op \in Ops,
         NEW who \in Accounts \cup {None}, NEW target \in Accounts \cup {None},
         NEW streamed \in BOOLEAN, Connect(r, op, who, target, streamed)
  PROVE  DispatchInv'
<1> DEFINE q == [r |-> r, op |-> op, who |-> who, target |-> target, streamed |-> streamed]
<1>1. q \in Asked /\ q.r = r /\ TokenSent(q)
  BY DEF Asked, TokenSent, Connect
<1>2. told[r] = None /\ told' = [told EXCEPT ![r] = "waiting"] /\ backlog' = Append(backlog, q)
  BY DEF Connect
<1>3. UNCHANGED <<account, outside, helper, conn, spools, records, effects, kills>>
  BY DEF Connect, world
<1> HIDE DEF q
<1>4. backlog \in Seq(Asked) /\ Len(backlog) \in Nat
  BY DEF DispatchInv, WaitingOnce
<1>5. /\ backlog' \in Seq(Asked) /\ Len(backlog') = Len(backlog) + 1
      /\ backlog'[Len(backlog) + 1] = q
      /\ \A i \in 1..Len(backlog) : backlog'[i] = backlog[i]
  BY <1>1, <1>2, <1>4
<1>6. records[r] = 0 /\ effects[r] = 0
  BY <1>2 DEF DispatchInv, WaitingOnce
<1>7. None # "waiting" /\ told \in [Requests -> Results \cup {None, "waiting", "transport"}]
  BY DEF HelperDispatchAssumption, DispatchInv, TypeOK
<1>8. \A i \in 1..Len(backlog) : backlog[i].r # r
  BY <1>2, <1>7 DEF DispatchInv, WaitingOnce, Untouched
<1>9. conn # None => conn.q.r # r
  BY <1>2, <1>7 DEF DispatchInv, ServedOnce
<1>10. TypeOK'
  BY <1>2, <1>3, <1>7 DEF DispatchInv, TypeOK
<1>11. /\ told'[r] = "waiting"
       /\ \A s \in Requests \ {r} : told'[s] = told[s]
  BY <1>2, <1>7
<1> DEFINE Waits(s) == told'[s] = "waiting" /\ records'[s] = 0 /\ effects'[s] = 0
<1>12. WaitingOnce'
  <2>1. \A i \in 1..Len(backlog) : backlog[i].r \in Requests \ {r}
    <3>1. \A i \in 1..Len(backlog) : backlog[i] \in Asked
      BY <1>4
    <3> QED
      BY <1>8, <3>1 DEF Asked
  <2>2. \A i \in 1..Len(backlog) : Waits(backlog[i].r)
    BY <1>3, <1>11, <2>1 DEF DispatchInv, WaitingOnce, Untouched
  <2>3. Waits(r)
    BY <1>3, <1>6, <1>11
  <2>4. \A i \in 1..Len(backlog') : i \in 1..Len(backlog) \/ i = Len(backlog) + 1
    BY <1>4, <1>5
  <2>5. \A i \in 1..Len(backlog') :
          /\ TokenSent(backlog'[i]) /\ Waits(backlog'[i].r)
          /\ conn # None => backlog'[i].r # conn.q.r
    <3> SUFFICES ASSUME NEW i \in 1..Len(backlog')
                 PROVE  /\ TokenSent(backlog'[i]) /\ Waits(backlog'[i].r)
                        /\ conn # None => backlog'[i].r # conn.q.r
      OBVIOUS
    <3>1. CASE i \in 1..Len(backlog)
      <4>1. backlog'[i] = backlog[i]
        BY <1>5, <3>1
      <4>2. TokenSent(backlog[i]) /\ (conn # None => backlog[i].r # conn.q.r)
        BY <3>1 DEF DispatchInv, WaitingOnce
      <4>3. Waits(backlog[i].r)
        BY <2>2, <3>1
      <4> QED
        BY <4>1, <4>2, <4>3
    <3>2. CASE i = Len(backlog) + 1
      BY <1>1, <1>5, <1>9, <2>3, <3>2
    <3> QED
      BY <2>4, <3>1, <3>2
  <2>6. \A i, j \in 1..Len(backlog') : backlog'[i].r = backlog'[j].r => i = j
    BY <1>1, <1>5, <1>8, <2>4 DEF DispatchInv, WaitingOnce
  <2>7. \A s \in Requests : told'[s] = None => records'[s] = 0 /\ effects'[s] = 0
    BY <1>3, <1>6, <1>11 DEF DispatchInv, WaitingOnce
  <2> QED
    BY <1>3, <1>5, <2>5, <2>6, <2>7 DEF WaitingOnce, TokenSent, Untouched
<1>13. ServedOnce'
  <2>1. conn # None => conn.q.r \in Requests \ {r}
    BY <1>9, Served
  <2>2. conn # None => told'[conn.q.r] = told[conn.q.r]
    BY <1>11, <2>1
  <2> QED
    BY <1>3, <2>2 DEF DispatchInv, ServedOnce, Untouched, TokenSent
<1>14. Passed'
  BY <1>3, PassedStays
<1>15. NoFileYet' /\ Entered' /\ RefusedSession'
  BY <1>3 DEF DispatchInv, NoFileYet, Entered, RefusedSession
<1>16. OneRecord' /\ SpoolsRemoved' /\ kills' \in Nat /\ outside' \in Nat
  BY <1>3 DEF DispatchInv, OneRecord, At, SpoolsRemoved
<1> QED
  BY <1>10, <1>12, <1>13, <1>14, <1>15, <1>16 DEF DispatchInv

\* A kill may leave the files of the connection behind.
LEMMA KilledStep ==
  ASSUME HelperDispatchAssumption, DispatchInv, Killed
  PROVE  DispatchInv'
<1>1. conn # None /\ conn.q.r \in Requests /\ conn \in Connections
  BY Served DEF Killed
<1>2. /\ conn' = None /\ kills' = kills + 1 /\ helper' = [up |-> FALSE, served |-> 0]
      /\ UNCHANGED <<account, outside, backlog, spools, records, effects>>
  BY DEF Killed, world
<1>3. /\ told' \in [Requests -> Results \cup {None, "waiting", "transport"}]
      /\ told'[conn.q.r] # None /\ \A r \in Requests \ {conn.q.r} : told'[r] = told[r]
  BY <1>1 DEF Killed, DispatchInv, TypeOK, HelperDispatchAssumption
<1>4. helper' \in [up : BOOLEAN, served : 0..MaxServed]
  <2>1. 0 \in 0..MaxServed
    BY DEF HelperDispatchAssumption
  <2> QED
    BY <1>2, <2>1
<1>5. TypeOK'
  BY <1>2, <1>3, <1>4 DEF DispatchInv, TypeOK
<1>6. WaitingOnce'
  <2>1. \A i \in 1..Len(backlog) : backlog[i] \in Asked
    BY DEF DispatchInv, WaitingOnce
  <2>2. \A i \in 1..Len(backlog) : backlog[i].r \in Requests
    BY <2>1 DEF Asked
  <2>3. \A i \in 1..Len(backlog) : backlog[i].r \in Requests \ {conn.q.r}
    BY <1>1, <2>2 DEF DispatchInv, WaitingOnce
  <2>4. \A i \in 1..Len(backlog) : Untouched(backlog[i].r)'
    BY <1>2, <1>3, <2>3 DEF DispatchInv, WaitingOnce, Untouched
  <2>5. \A r \in Requests : told'[r] = None => records'[r] = 0 /\ effects'[r] = 0
    BY <1>2, <1>3 DEF DispatchInv, WaitingOnce
  <2> QED
    BY <1>2, <2>4, <2>5 DEF DispatchInv, WaitingOnce, TokenSent
<1>7. OneRecord' /\ ServedOnce' /\ NoFileYet' /\ Entered' /\ Passed' /\ RefusedSession'
  BY <1>2 DEF OneRecord, At, ServedOnce, NoFileYet, Entered, Passed, RefusedSession
<1>8. SpoolsRemoved' /\ kills' \in Nat /\ outside' \in Nat
  <2>1. conn.spool \in 0..2 /\ kills \in Nat /\ spools \in Nat /\ spools <= 2 * kills + conn.spool
    BY <1>1, ConnectionFields DEF DispatchInv, SpoolsRemoved, TypeOK
  <2>2. spools <= 2 * (kills + 1)
    BY <2>1
  <2> QED
    BY <1>2, <2>1, <2>2 DEF SpoolsRemoved, DispatchInv
<1> QED
  BY <1>5, <1>6, <1>7, <1>8 DEF DispatchInv

----------------------------------------------------------------------------
LEMMA DispatchInit ==
  ASSUME HelperDispatchAssumption, Init
  PROVE  DispatchInv
<1>1. conn = None /\ backlog = <<>> /\ spools = 0 /\ kills = 0 /\ outside = 0
  BY DEF Init
<1>2. account \in [Accounts -> Rows]
  <2>1. PICK bound \in SUBSET Accounts :
          account = [a \in Accounts |-> [exists |-> TRUE, live |-> TRUE, admin |-> a \in Admins,
                                         forced |-> a \in bound, active |-> TRUE,
                                         elevated |-> FALSE]]
    BY DEF Init
  <2>2. ASSUME NEW a \in Accounts
        PROVE  [exists |-> TRUE, live |-> TRUE, admin |-> a \in Admins, forced |-> a \in bound,
                active |-> TRUE, elevated |-> FALSE] \in Rows
    <3>1. (a \in Admins) \in BOOLEAN /\ (a \in bound) \in BOOLEAN
      OBVIOUS
    <3> QED
      BY <3>1 DEF Rows
  <2> QED
    BY <2>1, <2>2
<1>3. TypeOK
  <2>1. helper \in [up : BOOLEAN, served : 0..MaxServed]
    BY DEF Init, HelperDispatchAssumption
  <2>2. /\ told \in [Requests -> Results \cup {None, "waiting", "transport"}]
        /\ records \in [Requests -> 0..1] /\ effects \in [Requests -> 0..1]
    BY DEF Init
  <2> QED
    BY <1>1, <1>2, <2>1, <2>2 DEF TypeOK, Rows
<1>4. WaitingOnce
  BY DEF Init, WaitingOnce
<1>5. OneRecord /\ ServedOnce /\ NoFileYet /\ Entered /\ Passed /\ RefusedSession
  BY <1>1 DEF OneRecord, At, ServedOnce, NoFileYet, Entered, Passed, RefusedSession
<1>6. SpoolsRemoved
  BY <1>1 DEF SpoolsRemoved
<1> QED
  BY <1>1, <1>3, <1>4, <1>5, <1>6 DEF DispatchInv

LEMMA DispatchStep ==
  ASSUME HelperDispatchAssumption, DispatchInv, [Next]_vars
  PROVE  DispatchInv'
<1>1. CASE UNCHANGED vars
  <2>1. UNCHANGED <<account, helper, backlog, conn, spools, told, records, effects, since, outside,
                    kills>>
    BY <1>1 DEF vars
  <2>2. TypeOK' /\ OneRecord' /\ SpoolsRemoved' /\ kills' \in Nat /\ outside' \in Nat
    BY <2>1 DEF DispatchInv, TypeOK, OneRecord, At, SpoolsRemoved
  <2>3. WaitingOnce' /\ ServedOnce' /\ NoFileYet' /\ Entered' /\ RefusedSession'
    BY <2>1 DEF DispatchInv, WaitingOnce, ServedOnce, NoFileYet, Entered, RefusedSession, Untouched,
                TokenSent
  <2>4. Passed'
    BY <2>1 DEF DispatchInv, Passed, Sessioned, Enabled, Permitted, Resolved
  <2> QED
    BY <2>2, <2>3, <2>4 DEF DispatchInv
<1>2. CASE Next
  <2> SUFFICES ASSUME Observed
               PROVE  DispatchInv'
    BY <1>2 DEF Next
  <2>1. ASSUME BadRequest \/ BodyFails \/ Answer \/ AnswerLost
        PROVE  DispatchInv'
    <3>1. conn # None /\ (conn.at = "answering" => conn.result \in Results)
      BY <2>1 DEF BadRequest, BodyFails, Answer, AnswerLost, At, DispatchInv, ServedOnce
    <3> QED
      BY <2>1, <3>1, ClosedStep DEF BadRequest, BodyFails, Answer, AnswerLost, At
  <2>2. ASSUME ReadRequest
        PROVE  DispatchInv'
    BY <2>2, EnterStep DEF ReadRequest, At
  <2>3. ASSUME BodyReceived
        PROVE  DispatchInv'
    BY <2>3, EnterStep DEF BodyReceived, At
  <2>4. ASSUME HandlerFails
        PROVE  DispatchInv'
    <3>1. "failed" \in Results \ {"ok", "unauthorized"}
      BY DEF Results
    <3> QED
      BY <2>4, <3>1, CheckRefused DEF HandlerFails, At
  <2>5. ASSUME HelperStep
        PROVE  DispatchInv'
    BY <2>1, <2>2, <2>3, <2>4, <2>5, AcceptStep, ActivateStep, AuthenticateStep, RequireActiveStep,
       CheckRightsStep, ResolveTargetStep, OpenSpoolStep, HandleStep
    DEF HelperStep
  <2> QED
    BY <1>2, <2>5, ConnectStep, ActivateStep, KilledStep, OutsideKeeps
    DEF Next, ClientStep, ServerStep
<1> QED
  BY <1>1, <1>2

\* What was shown on the way amounts to the authority that the operation asks for.
LEMMA DispatchSound ==
  ASSUME HelperDispatchAssumption, DispatchInv
  PROVE  RequestsSound
<1>1. ASSUME conn # None, conn.at \in {"authorized", "receiving"}, conn.q.op \notin PublicOps
      PROVE  Authorized(conn.q.op)
  <2>1. /\ Sessioned(conn.principal) /\ Enabled /\ Permitted(conn.q.op, conn.principal)
    BY <1>1 DEF DispatchInv, Passed
  <2>2. PICK x \in since :
          x.live /\ x.admin = conn.principal.admin /\ x.forced = conn.principal.forced
    BY <2>1 DEF Sessioned
  <2>3. /\ x.live /\ (conn.q.op \in AdminOps \cup AdminAccountOps => x.admin)
        /\ ~(x.forced /\ conn.q.op \notin ForcedMay)
    BY <2>1, <2>2 DEF Permitted
  <2>4. (\E y \in since : y.active)
          /\ (conn.q.op \in StepUpOps => \E y \in since : y.live /\ y.elevated)
    BY <2>1 DEF Enabled, Permitted
  <2> QED
    BY <2>3, <2>4 DEF Authorized, Had
<1>2. NoStaleEffect /\ NoUnauthorizedBody
  <2>1. ASSUME conn # None, conn.at \in {"authorized", "receiving"}
        PROVE  Authorized(conn.q.op)
    BY <1>1, <2>1 DEF Authorized
  <2> QED
    BY <2>1 DEF NoStaleEffect, NoUnauthorizedBody, At
<1>3. OwnAccountOnly
  <2> SUFFICES ASSUME conn # None, conn.at = "authorized",
                      conn.q.op \in AccountOps \cup AdminAccountOps
               PROVE  Resolved(conn.q) = conn.q.who \/ Had(LAMBDA x : x.live /\ x.admin)
    BY DEF OwnAccountOnly, At
  <2>1. conn.q.op \notin PublicOps
    BY AccountOpsPrivate
  <2>2. Sessioned(conn.principal) /\ (conn.principal.admin \/ Resolved(conn.q) = conn.q.who)
    BY <2>1 DEF DispatchInv, Passed
  <2> QED
    BY <2>2 DEF Sessioned, Had
<1>4. UnauthorizedIsDead
  BY DEF DispatchInv, UnauthorizedIsDead, At, Passed, RefusedSession, Had
<1> QED
  BY <1>2, <1>3, <1>4 DEF RequestsSound, DispatchInv

\* The helper runs a handler, and stores a body, only for a caller who had all
\* the authority that the operation asks for since the request, or the end of
\* its body, was read; each request leaves one audit record and, unless the
\* helper was killed, no spool file.
THEOREM RequestsAlwaysSound ==
  ASSUME HelperDispatchAssumption
  PROVE  Spec => []RequestsSound
<1>1. Init => DispatchInv
  BY DispatchInit
<1>2. DispatchInv /\ [Next]_vars => DispatchInv'
  BY DispatchStep
<1>3. DispatchInv => RequestsSound
  BY DispatchSound
<1> QED
  BY <1>1, <1>2, <1>3, PTL DEF Spec
=============================================================================
