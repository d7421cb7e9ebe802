---------------------------- MODULE HandlerProofs ----------------------------
(***************************************************************************)
(* Why the handlers of the helper keep their promises, for any addresses,  *)
(* attempts, certificates and faults (HelperProcess).                      *)
(*                                                                         *)
(* Accounts.  A handler knows what it read before it began, and Maddy may  *)
(* have changed since only by what the handler did or by a client that     *)
(* opened something (opened, foreign).  So what an operation still has to  *)
(* take back, and what it may answer, is fixed by its position and its     *)
(* reads; challenges and sessions are revoked before the password changes. *)
(*                                                                         *)
(* Certificates.  Until the first file is put nothing has changed, until   *)
(* the reload Maddy has not, and a restoration puts back what was read of  *)
(* the files: so the answer is true wherever renew stops, as far as they   *)
(* could be read.                                                          *)
(*                                                                         *)
(* Mail.  A request has one call with the helper at a time, and what Maddy *)
(* has done with its mail follows from how far that call has come.  The    *)
(* user repeats only when told that nothing was delivered, so at most one  *)
(* request is active, and all others are dead.                             *)
(***************************************************************************)
EXTENDS HelperProcess, SequenceTheorems, FiniteSetTheorems, TLAPS

----------------------------------------------------------------------------
(* Accounts: positions, types and the inductive invariant. *)

\* The positions of an operation, by what it does there.

Undoing == {"observeC", "observeM", "undoM", "undoC", "finalC", "finalM", "decide"}
Making == {"create", "baseM", "credsCreate", "acctCreate", "verifyC", "verifyM"}
Stages == {"removeC", "removedC", "removeM", "removedM"}
Between == {"idle", "next", "rollback"}

\* The places of each kind of operation.
Placed(kind, pc) ==
    /\ kind = "none" => pc = "idle"
    /\ kind = "create" => pc \in Making \cup Undoing \cup Stages \cup {"provision"}
    /\ kind = "bootstrap" => pc \in Making \cup Undoing \cup Stages \cup {"next", "rollback"}
    /\ kind = "disable" => pc \in {"removeC", "removedC", "revoke"}
    /\ kind = "delete" => pc \in Stages \cup {"revoke", "dropMeta"}
    /\ kind = "reset" => pc \in {"require", "password", "passwordBack"}
    /\ kind = "change" => pc \in {"revokeOwn", "password", "passwordBack", "clear"}

OpKinds == {"none", "create", "bootstrap", "disable", "delete", "reset", "change"}
AllPlaces == Making \cup Undoing \cup Stages \cup Between
             \cup {"provision", "revoke", "dropMeta", "require", "password", "passwordBack",
                   "revokeOwn", "clear"}
YesNo == {"yes", "no"}
Answers == {"none", "failed", "rolled back", "unverified"}
NoUser == CHOOSE u \in Users : TRUE

OpRecords ==
    [kind : OpKinds, pc : AllPlaces, u : Users \cup {NoUser}, rest : SUBSET Users,
     made : Seq(Users), all : SUBSET Users,
     baseC : YesNo, baseM : YesNo, seenC : Lifecycle!Seen, seenM : Lifecycle!Seen, new : BOOLEAN, sound : BOOLEAN,
     answer : Answers]

\* TypeOK with the positions that each operation passes through.
LifeType ==
    /\ cred \in SUBSET Users /\ mbox \in SUBSET Users /\ meta \in SUBSET Users /\ must \in SUBSET Users
    /\ by \in [Users -> {"other", "admin", "user"}]
    /\ chal \in [Users -> SUBSET Lifecycle!Ages] /\ sess \in [Users -> SUBSET Lifecycle!Ages]
    /\ had \in [c : SUBSET Users, m : SUBSET Users]
    /\ op \in OpRecords
    /\ Placed(op.kind, op.pc)
    /\ op.pc \notin Between => op.u \in Users

Creating == op.kind \in {"create", "bootstrap"}
Busy == IF op.pc \in Between THEN {} ELSE {op.u}
Made == {op.made[i] : i \in 1..Len(op.made)}

\* Maddy has of u what it had, but for what clients did.
Clean(u) ==
    \/ u \in foreign
    \/ /\ u \in cred <=> u \in had.c
       /\ u \in opened \cap had.c \/ (u \in mbox <=> u \in had.m)

\* A creation takes away nothing that was there before it.
BaselineKept == Creating => had.c \subseteq cred /\ had.m \subseteq mbox

\* What was read of u before the creation is what was there.
BaselineC(u) == IF op.baseC = "yes" THEN u \in had.c \cup foreign ELSE u \notin had.c
BaselineM(u) ==
    IF op.baseM = "yes" THEN u \in had.m \cup foreign \cup (opened \cap had.c) ELSE u \notin had.m

\* A creation makes only what was missing, and finds what it made.
MakingSound ==
    /\ op.pc \in {"create", "baseM", "credsCreate"} => Clean(op.u)
    /\ op.pc \in (Making \cup Undoing) \ {"create"} => BaselineC(op.u)
    /\ op.pc \in (Making \cup Undoing) \ {"create", "baseM"} => BaselineM(op.u)
    /\ op.pc \in {"acctCreate", "verifyC", "verifyM", "provision"} => op.u \notin had.c
    /\ op.pc \in {"verifyC", "verifyM", "provision"} => op.u \notin had.m
    /\ op.pc \in {"verifyM", "provision"} => op.u \in cred
    /\ op.pc = "provision" => op.u \in mbox

\* What a compensation has verified is undone, and the stages that repair
\* a creation are about what was not there before.
UndoingSound ==
    /\ op.pc \in {"finalM", "decide"} /\ op.seenC = "no" /\ op.baseC = "no" =>
          (op.u \in cred => op.u \in foreign)
    /\ op.pc = "decide" /\ Lifecycle!Verified => Clean(op.u)
    /\ op.pc \in Stages /\ Creating => op.u \notin had.c /\ op.u \notin had.m
    /\ op.pc \in {"removeM", "removedM"} /\ Creating => (op.u \in cred => op.u \in foreign)

\* The bootstrap: addresses are done, in hand or to do; those to do are as they
\* were, and those done are made by it or were there.
BootstrapSound ==
    op.kind = "bootstrap" =>
        /\ op.rest \cup Made \cup Busy \subseteq op.all
        /\ Made \cap (had.c \cup had.m) = {}
        /\ op.sound /\ op.answer # "unverified" => \A v \in op.all \ (Made \cup Busy) : Clean(v)
        /\ op.rest \cap (Made \cup Busy) = {}
        /\ op.pc \in Making \cup Undoing \cup {"next"} => op.sound /\ op.answer = "none"
        /\ op.pc \in Making \cup {"next"} => op.all \ (op.rest \cup Busy) \subseteq cred \cap mbox

\* A password is set when nothing of the old one is left, and one that an
\* administrator chose belongs to an account that has to change it.
PasswordSound ==
    /\ op.pc = "password" =>
          chal[op.u] = {} /\ sess[op.u] = {} /\ (op.kind = "reset" => op.u \in must)
    /\ op.pc = "require" => op.u \in meta
    /\ op.pc \in {"passwordBack", "clear"} /\ op.kind = "change" => by[op.u] # "admin"
    /\ \A u \in cred \ meta : by[u] # "admin"

\* A deletion that has passed a stage has removed what the stage is for.
DeleteSound ==
    op.kind = "delete" =>
        /\ op.pc \in {"revoke", "removeM", "removedM", "dropMeta"} /\ op.u \in cred =>
              op.u \in foreign /\ by[op.u] # "admin"
        /\ op.seenM # "yes" /\ op.pc \in {"removeC", "removedC", "revoke"} /\ op.u \in mbox => op.u \in opened
        /\ op.pc = "dropMeta" /\ op.u \in mbox => op.u \in opened

LifeInv ==
    /\ LifeType /\ BaselineKept /\ MakingSound /\ UndoingSound /\ BootstrapSound
    /\ PasswordSound /\ DeleteSound /\ PasswordsRetired

\* What every step is shown to do.
Good == LifeInv' /\ Lifecycle!StepSound

USE DEF Making, Undoing, Stages, Between, Creating, Lifecycle!Seen, Lifecycle!Ages

----------------------------------------------------------------------------
(* What a step does to the operation. *)

HistoryStill == UNCHANGED <<had, opened, foreign>>
Still == UNCHANGED <<cred, mbox, by, meta, must, chal, sess>>

\* The operation goes on with the same account.
SameTask ==
    /\ op'.kind = op.kind /\ op'.u = op.u /\ op'.rest = op.rest /\ op'.made = op.made
    /\ op'.all = op.all /\ op'.sound = op.sound /\ op'.answer = op.answer
SameReads ==
    /\ op'.baseC = op.baseC /\ op'.baseM = op.baseM /\ op'.seenC = op.seenC /\ op'.seenM = op.seenM

LEMMA Moves ==
    ASSUME op \in OpRecords, NEW pc \in AllPlaces, Lifecycle!Goto(pc)
    PROVE  op' \in OpRecords /\ op'.pc = pc /\ SameTask /\ SameReads
  BY DEF OpRecords, Lifecycle!Goto, SameTask, SameReads

LEMMA IdleIsOp ==
    /\ Lifecycle!Idle \in OpRecords /\ Lifecycle!Idle.pc = "idle" /\ Lifecycle!Idle.kind = "none"
    /\ Lifecycle!Idle.made = << >>
  BY DEF Lifecycle!Idle, OpRecords, NoUser, OpKinds, AllPlaces, YesNo, Answers

\* At idle, only what is about the stores is left to show.
LEMMA Ends ==
    ASSUME LifeInv, op.pc # "idle", HistoryStill, op' = Lifecycle!Idle,
           cred' \in SUBSET Users, mbox' \in SUBSET Users,
           meta' \in SUBSET Users, must' \in SUBSET Users, by' \in [Users -> {"other", "admin", "user"}],
           chal' \in [Users -> SUBSET Lifecycle!Ages], sess' \in [Users -> SUBSET Lifecycle!Ages],
           PasswordsRetired', \A u \in cred' \ meta' : by'[u] # "admin",
           Lifecycle!StepSound
    PROVE  Good
<1>1. op' \in OpRecords /\ op'.pc = "idle" /\ op'.kind = "none"
  BY IdleIsOp
<1>2. LifeType'
  BY <1>1 DEF LifeInv, LifeType, HistoryStill, Placed
<1>3. /\ BaselineKept' /\ MakingSound' /\ UndoingSound' /\ BootstrapSound' /\ PasswordSound'
      /\ DeleteSound'
  BY <1>1 DEF BaselineKept, MakingSound, UndoingSound, BootstrapSound, PasswordSound, DeleteSound
<1> QED
  BY <1>2, <1>3 DEF Good, LifeInv

\* An end that tells of no change, and makes none.
LEMMA Stops ==
    ASSUME LifeInv, op.pc # "idle", Still, HistoryStill, op' = Lifecycle!Idle,
           reply' \notin {"created", "rolled back", "failed"}
    PROVE  Good
<1>1. Lifecycle!StepSound
  BY DEF Still, Lifecycle!StepSound, Lifecycle!TellsTrue, Lifecycle!KeepsBaseline,
     Lifecycle!ForgetsLast
<1>2. PasswordsRetired'
  BY IdleIsOp DEF LifeInv, PasswordsRetired, Still, Lifecycle!PasswordsRetired, Lifecycle!TypeOK,
     Lifecycle!NoneOutlivesPassword, Lifecycle!ResetForcesChange, OpRecords
<1> QED
  BY <1>1, <1>2, Ends DEF LifeInv, LifeType, PasswordSound, Still

\* Changes that concern the account of the operation only.
OwnOnly ==
    /\ cred' \in SUBSET Users /\ mbox' \in SUBSET Users
    /\ \A v \in Users \ {op.u} : (v \in cred' <=> v \in cred) /\ (v \in mbox' <=> v \in mbox)
    /\ Creating => (op.u \in cred \ cred' => op.u \notin had.c) /\ (op.u \in mbox \ mbox' => op.u \notin had.m)

LEMMA OwnIsSound ==
    ASSUME LifeInv, OwnOnly, HistoryStill
    PROVE  /\ Lifecycle!KeepsBaseline
           /\ Creating => had.c \subseteq cred' /\ had.m \subseteq mbox'
           /\ \A v \in Users \ {op.u} : Clean(v) => Clean(v)'
  BY DEF LifeInv, LifeType, OwnOnly, HistoryStill, Lifecycle!KeepsBaseline, BaselineKept, Clean

LEMMA Advances ==
    ASSUME LifeInv, op.pc \notin Between, op'.pc \notin Between, HistoryStill, OwnOnly,
           op' \in OpRecords, SameTask, Placed(op'.kind, op'.pc),
           op'.pc \in Making => op.pc \in Making, op'.pc \in Undoing => op.pc \in Making \cup Undoing,
           meta' = meta, must' \in SUBSET Users, by' \in [Users -> {"other", "admin", "user"}],
           chal' \in [Users -> SUBSET Lifecycle!Ages], sess' \in [Users -> SUBSET Lifecycle!Ages],
           MakingSound', UndoingSound', DeleteSound', PasswordSound', PasswordsRetired'
    PROVE  Good
<1>1. LifeType'
  BY DEF LifeInv, LifeType, OwnOnly, SameTask, HistoryStill
<1>2. BaselineKept' /\ Lifecycle!KeepsBaseline
  BY OwnIsSound DEF SameTask, HistoryStill, BaselineKept
<1>3. BootstrapSound'
  <2>1. Made' = Made /\ Busy' = Busy /\ Busy = {op.u}
    BY DEF Made, Busy, SameTask
  <2>2. ASSUME op.kind = "bootstrap", op.pc \in Making PROVE op.all \ (op.rest \cup Busy) \subseteq cred' \cap mbox'
    BY <2>1, <2>2 DEF LifeInv, LifeType, OpRecords, BootstrapSound, OwnOnly
  <2>3. ASSUME op.kind = "bootstrap", op.sound, op.answer # "unverified", NEW v \in op.all \ (Made \cup Busy) PROVE Clean(v)'
    BY <2>1, <2>3, OwnIsSound DEF LifeInv, LifeType, OpRecords, BootstrapSound
  <2> QED
    BY <2>1, <2>2, <2>3 DEF LifeInv, BootstrapSound, SameTask, HistoryStill
<1>4. Lifecycle!StepSound
  BY <1>2 DEF Lifecycle!StepSound, Lifecycle!TellsTrue, Lifecycle!Ended, Lifecycle!ForgetsLast
<1> QED
  BY <1>1, <1>2, <1>3, <1>4 DEF Good, LifeInv

\* A step that only looks, or fails without an effect, and goes on.
LEMMA Looks ==
    ASSUME LifeInv, op.pc \notin Between, op'.pc \notin Between, HistoryStill, Still,
           op' \in OpRecords, SameTask, Placed(op'.kind, op'.pc),
           op'.pc \in Making => op.pc \in Making, op'.pc \in Undoing => op.pc \in Making \cup Undoing,
           MakingSound', UndoingSound', DeleteSound', PasswordSound'
    PROVE  Good
<1>1. OwnOnly
  BY DEF LifeInv, LifeType, Still, OwnOnly
<1>2. PasswordsRetired'
  BY DEF LifeInv, PasswordsRetired, Still, Lifecycle!PasswordsRetired, Lifecycle!TypeOK,
     Lifecycle!NoneOutlivesPassword, Lifecycle!ResetForcesChange, OpRecords
<1> QED
  BY <1>1, <1>2, Advances DEF LifeInv, LifeType, Still

----------------------------------------------------------------------------
(* The commands of Maddy. *)

LEMMA AtPlace ==
    ASSUME NEW pc, Lifecycle!At(pc)
    PROVE  op.pc = pc /\ HistoryStill
  BY DEF Lifecycle!At, Lifecycle!history, HistoryStill

LEMMA NothingIsStill ==
    ASSUME Lifecycle!Nothing
    PROVE  Still
  BY DEF Lifecycle!Nothing, Lifecycle!maddy, Lifecycle!store, Still

LEMMA InPlace ==
    ASSUME LifeInv
    PROVE  op \in OpRecords /\ (op.pc \notin Between => op.u \in Users)
  BY DEF LifeInv, LifeType

LEMMA MakingCreates ==
    ASSUME LifeInv, op.pc \in Making \cup Undoing \cup {"provision"}
    PROVE  Creating /\ had.c \subseteq cred /\ had.m \subseteq mbox
  BY DEF LifeInv, LifeType, OpRecords, OpKinds, Placed, BaselineKept

\* No session or duty is touched, and what is chosen anew an administrator
\* did not choose.
StoreStill == UNCHANGED <<meta, must, chal, sess>>

LEMMA RetiredStays ==
    ASSUME LifeInv, op' \in OpRecords, StoreStill, cred' \in SUBSET Users, mbox' \in SUBSET Users,
           by' \in [Users -> {"other", "admin", "user"}],
           \A u \in cred' : (u \in cred /\ by'[u] = by[u]) \/ by'[u] # "admin"
    PROVE  PasswordsRetired' /\ \A u \in cred' \ meta' : by'[u] # "admin"
  BY DEF LifeInv, LifeType, PasswordsRetired, PasswordSound, StoreStill, OpRecords,
     Lifecycle!PasswordsRetired, Lifecycle!TypeOK, Lifecycle!NoneOutlivesPassword,
     Lifecycle!ResetForcesChange

\* A command of the creation or the removal of an account, or nothing.
Touched ==
    \/ Lifecycle!CredsCreate(op.u) \/ Lifecycle!AcctCreate(op.u) \/ Still
    \/ Lifecycle!CredsRemove(op.u) /\ (Creating => op.u \notin had.c)
    \/ Lifecycle!AcctRemove(op.u) /\ (Creating => op.u \notin had.m)

LEMMA TouchedOwn ==
    ASSUME LifeInv, Touched, op.u \in Users
    PROVE  /\ OwnOnly /\ StoreStill /\ by' \in [Users -> {"other", "admin", "user"}]
           /\ \A u \in cred' : (u \in cred /\ by'[u] = by[u]) \/ by'[u] # "admin"
  BY DEF LifeInv, LifeType, Touched, OwnOnly, StoreStill, Still, Lifecycle!CredsCreate,
     Lifecycle!AcctCreate, Lifecycle!CredsRemove, Lifecycle!AcctRemove, Lifecycle!store

\* The operation takes its command and goes on.
LEMMA GoesOn ==
    ASSUME LifeInv, op.pc \notin Between, Touched, HistoryStill,
           op' \in OpRecords, SameTask, op'.pc \notin Between, Placed(op.kind, op'.pc),
           op'.pc \in Making => op.pc \in Making, op'.pc \in Undoing => op.pc \in Making \cup Undoing,
           op'.pc \notin {"require", "password", "passwordBack", "clear"},
           MakingSound', UndoingSound', DeleteSound'
    PROVE  Good
<1>1. op.u \in Users
  BY InPlace
<1>2. /\ OwnOnly /\ StoreStill /\ by' \in [Users -> {"other", "admin", "user"}]
      /\ PasswordsRetired' /\ \A u \in cred' \ meta' : by'[u] # "admin"
  BY <1>1, TouchedOwn, RetiredStays DEF OwnOnly
<1>3. PasswordSound'
  BY <1>2 DEF PasswordSound
<1>4. /\ chal' \in [Users -> SUBSET Lifecycle!Ages] /\ sess' \in [Users -> SUBSET Lifecycle!Ages]
      /\ meta' = meta /\ must' \in SUBSET Users
  BY <1>2 DEF StoreStill, LifeInv, LifeType
<1>5. Placed(op'.kind, op'.pc)
  BY DEF SameTask
<1> QED
  BY <1>2, <1>3, <1>4, <1>5, Advances

\* The operation takes its command and ends, telling of no success.
LEMMA Gives ==
    ASSUME LifeInv, op.pc \notin Between, Touched, HistoryStill, op' = Lifecycle!Idle,
           Lifecycle!TellsTrue
    PROVE  Good
<1>1. op.u \in Users /\ op' \in OpRecords
  BY InPlace, IdleIsOp
<1>2. /\ OwnOnly /\ StoreStill /\ by' \in [Users -> {"other", "admin", "user"}]
      /\ PasswordsRetired' /\ \A u \in cred' \ meta' : by'[u] # "admin"
  BY <1>1, TouchedOwn, RetiredStays DEF OwnOnly
<1>3. Lifecycle!StepSound
  BY <1>2, OwnIsSound DEF Lifecycle!StepSound, Lifecycle!ForgetsLast, StoreStill
<1>4. /\ cred' \in SUBSET Users /\ mbox' \in SUBSET Users
      /\ chal' \in [Users -> SUBSET Lifecycle!Ages] /\ sess' \in [Users -> SUBSET Lifecycle!Ages]
      /\ meta' \in SUBSET Users /\ must' \in SUBSET Users
  BY <1>2 DEF StoreStill, OwnOnly, LifeInv, LifeType
<1> QED
  BY <1>2, <1>3, <1>4, Ends

\* The bootstrap turns back: the account at hand is left as it is.
LEMMA TurnsBack ==
    ASSUME LifeInv, op.kind = "bootstrap", op.pc \notin Between, Touched, HistoryStill,
           op' \in OpRecords, op'.pc = "rollback", op'.kind = op.kind, op'.rest = op.rest,
           op'.made = op.made, op'.all = op.all,
           op'.sound /\ op'.answer # "unverified" =>
              op.sound /\ op.answer # "unverified" /\ \A u \in {op.u} : Clean(u)'
    PROVE  Good
<1>1. op.u \in Users
  BY InPlace
<1>2. /\ OwnOnly /\ StoreStill /\ by' \in [Users -> {"other", "admin", "user"}]
      /\ PasswordsRetired' /\ \A u \in cred' \ meta' : by'[u] # "admin"
  BY <1>1, TouchedOwn, RetiredStays DEF OwnOnly
<1>3. LifeType'
  BY <1>2 DEF LifeInv, LifeType, OwnOnly, StoreStill, HistoryStill, Placed
<1>4. BaselineKept' /\ Lifecycle!KeepsBaseline
  BY <1>2, OwnIsSound DEF HistoryStill, BaselineKept
<1>5. MakingSound' /\ UndoingSound' /\ DeleteSound' /\ PasswordSound'
  BY <1>2 DEF MakingSound, UndoingSound, DeleteSound, PasswordSound
<1>6. BootstrapSound'
  <2>1. Made' = Made /\ Busy' = {} /\ Busy = {op.u}
    BY DEF Made, Busy
  <2>2. ASSUME op'.sound, op'.answer # "unverified", NEW v \in op.all \ Made PROVE Clean(v)'
    BY <1>2, <2>1, <2>2, OwnIsSound DEF LifeInv, LifeType, OpRecords, BootstrapSound
  <2> QED
    BY <2>1, <2>2 DEF LifeInv, BootstrapSound, HistoryStill
<1>7. Lifecycle!StepSound
  BY <1>2, <1>4 DEF Lifecycle!StepSound, Lifecycle!TellsTrue, Lifecycle!Ended,
     Lifecycle!ForgetsLast, StoreStill
<1> QED
  BY <1>2, <1>3, <1>4, <1>5, <1>6, <1>7 DEF Good, LifeInv

\* create_account gives up: a request ends, the bootstrap turns back.
LEMMA FailsStep ==
    ASSUME LifeInv, op.pc \in Making \cup Undoing, Still, HistoryStill,
           NEW answer \in {"failed", "rolled back", "unverified"}, Lifecycle!Fails(answer),
           answer # "unverified" => Clean(op.u)
    PROVE  Good
<1>1. Touched /\ \A u \in {op.u} : Clean(u) => Clean(u)'
  BY DEF Touched, Clean, Still, HistoryStill
<1>2. CASE op.kind = "create"
  <2>1. op' = Lifecycle!Idle /\ reply' = answer
    BY <1>2 DEF Lifecycle!Fails, Lifecycle!End
  <2>2. Lifecycle!TellsTrue
    BY <1>2, <2>1 DEF Lifecycle!TellsTrue, Lifecycle!Targets, Clean, Still
  <2> QED
    BY <1>1, <2>1, <2>2, Gives
<1>3. CASE op.kind # "create"
  <2>1. op \in OpRecords /\ op.kind = "bootstrap"
    BY <1>3 DEF LifeInv, LifeType, OpRecords, OpKinds, Placed
  <2>2. op' = [op EXCEPT !.pc = "rollback", !.answer = answer]
    BY <1>3 DEF Lifecycle!Fails
  <2>3. /\ op' \in OpRecords /\ op'.pc = "rollback" /\ op'.kind = op.kind /\ op'.rest = op.rest
        /\ op'.made = op.made /\ op'.all = op.all /\ op'.sound = op.sound /\ op'.answer = answer
    <3>1. "rollback" \in AllPlaces /\ answer \in Answers
      BY DEF AllPlaces, Between, Answers
    <3> QED
      BY <2>1, <2>2, <3>1 DEF OpRecords
  <2>4. op.sound /\ op.answer = "none"
    BY <2>1 DEF LifeInv, BootstrapSound
  <2> QED
    BY <1>1, <2>1, <2>3, <2>4, TurnsBack
<1> QED
  BY <1>2, <1>3

\* A stage of a removal fails, with or without its effect.
LEMMA StageFailsStep ==
    ASSUME LifeInv, op.pc \in Stages, Touched, HistoryStill, Lifecycle!StageFails
    PROVE  Good
<1>1. CASE op.kind = "bootstrap"
  <2>1. op \in OpRecords
    BY InPlace
  <2>2. op' = [op EXCEPT !.pc = "rollback", !.sound = FALSE]
    BY <1>1 DEF Lifecycle!StageFails
  <2>3. /\ op' \in OpRecords /\ op'.pc = "rollback" /\ op'.kind = op.kind /\ op'.rest = op.rest
        /\ op'.made = op.made /\ op'.all = op.all /\ ~op'.sound
    BY <2>1, <2>2 DEF OpRecords, AllPlaces
  <2> QED
    BY <1>1, <2>3, TurnsBack
<1>2. CASE op.kind # "bootstrap"
  <2>1. op' = Lifecycle!Idle /\ reply' \in {"unverified", "error"}
    BY <1>2 DEF Lifecycle!StageFails, Lifecycle!End
  <2> QED
    BY <2>1, Gives DEF Lifecycle!TellsTrue
<1> QED
  BY <1>1, <1>2

----------------------------------------------------------------------------
(* The steps of create_account. *)

LEMMA BaselineCredentialsStep ==
    ASSUME LifeInv, Lifecycle!BaselineCredentials
    PROVE  Good
<1>1. op.pc = "create" /\ HistoryStill /\ Still /\ op \in OpRecords
  BY AtPlace, NothingIsStill, InPlace DEF Lifecycle!BaselineCredentials
<1>2. Clean(op.u)
  BY <1>1 DEF LifeInv, MakingSound
<1>3. CASE Lifecycle!Fails("failed")
  BY <1>1, <1>2, <1>3, FailsStep
<1>4. CASE op' = [op EXCEPT !.pc = "baseM", !.baseC = Lifecycle!Look(op.u \in cred)]
  <2>1. /\ op' \in OpRecords /\ op'.pc = "baseM" /\ SameTask
        /\ op'.baseC = IF op.u \in cred THEN "yes" ELSE "no"
    <3>1. PICK y : y = Lifecycle!Look(op.u \in cred)
      OBVIOUS
    <3>2. y \in YesNo /\ y = (IF op.u \in cred THEN "yes" ELSE "no")
      BY <3>1 DEF Lifecycle!Look, YesNo
    <3>3. "baseM" \in AllPlaces /\ op' = [op EXCEPT !.pc = "baseM", !.baseC = y]
      BY <1>4, <3>1 DEF AllPlaces, Making
    <3> QED
      BY <1>1, <3>2, <3>3 DEF OpRecords, SameTask
  <2>2. BaselineC(op.u)' /\ Clean(op.u)'
    BY <1>1, <1>2, <2>1, MakingCreates DEF Clean, BaselineC, SameTask, Still, HistoryStill
  <2>3. MakingSound' /\ UndoingSound' /\ DeleteSound'
    BY <2>1, <2>2 DEF MakingSound, UndoingSound, DeleteSound
  <2>4. Placed(op.kind, "baseM")
    BY <1>1 DEF LifeInv, LifeType, Placed
  <2> QED
    BY <1>1, <2>1, <2>3, <2>4, GoesOn DEF Touched
<1> QED
  BY <1>3, <1>4 DEF Lifecycle!BaselineCredentials

LEMMA BaselineMailboxesStep ==
    ASSUME LifeInv, Lifecycle!BaselineMailboxes
    PROVE  Good
<1>1. op.pc = "baseM" /\ HistoryStill /\ Still /\ op \in OpRecords
  BY AtPlace, NothingIsStill, InPlace DEF Lifecycle!BaselineMailboxes
<1>2. Clean(op.u) /\ BaselineC(op.u)
  BY <1>1 DEF LifeInv, MakingSound
<1>3. CASE Lifecycle!Fails("failed")
  BY <1>1, <1>2, <1>3, FailsStep
<1>4. CASE op' = [op EXCEPT !.pc = "credsCreate", !.baseM = Lifecycle!Look(op.u \in mbox)]
  <2>1. /\ op' \in OpRecords /\ op'.pc = "credsCreate" /\ SameTask /\ op'.baseC = op.baseC
        /\ op'.baseM = IF op.u \in mbox THEN "yes" ELSE "no"
    <3>1. PICK y : y = Lifecycle!Look(op.u \in mbox)
      OBVIOUS
    <3>2. y \in YesNo /\ y = (IF op.u \in mbox THEN "yes" ELSE "no")
      BY <3>1 DEF Lifecycle!Look, YesNo
    <3>3. "credsCreate" \in AllPlaces /\ op' = [op EXCEPT !.pc = "credsCreate", !.baseM = y]
      BY <1>4, <3>1 DEF AllPlaces, Making
    <3> QED
      BY <1>1, <3>2, <3>3 DEF OpRecords, SameTask
  <2>2. BaselineC(op.u)' /\ BaselineM(op.u)' /\ Clean(op.u)'
    BY <1>1, <1>2, <2>1, MakingCreates DEF Clean, BaselineC, BaselineM, SameTask, Still, HistoryStill
  <2>3. MakingSound' /\ UndoingSound' /\ DeleteSound'
    BY <2>1, <2>2 DEF MakingSound, UndoingSound, DeleteSound
  <2>4. Placed(op.kind, "credsCreate")
    BY <1>1 DEF LifeInv, LifeType, Placed
  <2> QED
    BY <1>1, <2>1, <2>3, <2>4, GoesOn DEF Touched
<1> QED
  BY <1>3, <1>4 DEF Lifecycle!BaselineMailboxes

\* A creation that was begun is undone from where it is.
LEMMA Observes ==
    ASSUME LifeInv, op.pc \in Making \ {"create", "baseM"}, Touched, HistoryStill,
           Lifecycle!Goto("observeC")
    PROVE  Good
<1>1. op \in OpRecords /\ op' \in OpRecords /\ op'.pc = "observeC" /\ SameTask /\ SameReads
  BY InPlace, Moves DEF AllPlaces
<1>2. MakingSound' /\ UndoingSound' /\ DeleteSound' /\ Placed(op.kind, "observeC")
  BY <1>1 DEF LifeInv, LifeType, Placed, MakingSound, UndoingSound, DeleteSound, BaselineC,
     BaselineM, SameTask,
     SameReads, HistoryStill
<1> QED
  BY <1>1, <1>2, GoesOn

LEMMA CreateCredentialsStep ==
    ASSUME LifeInv, Lifecycle!CreateCredentials
    PROVE  Good
<1>1. op.pc = "credsCreate" /\ HistoryStill /\ op \in OpRecords /\ op.u \in Users
  BY AtPlace, InPlace DEF Lifecycle!CreateCredentials
<1>2. \/ Lifecycle!CredsCreate(op.u) /\ Lifecycle!Goto("acctCreate")
      \/ (Lifecycle!CredsCreate(op.u) \/ Lifecycle!Nothing) /\ Lifecycle!Goto("observeC")
  BY DEF Lifecycle!CreateCredentials, Lifecycle!Command
<1>3. Lifecycle!CredsCreate(op.u) \/ Lifecycle!Nothing => Touched
  BY NothingIsStill DEF Touched
<1>4. CASE Lifecycle!CredsCreate(op.u) /\ Lifecycle!Goto("acctCreate")
  <2>1. op' \in OpRecords /\ op'.pc = "acctCreate" /\ SameTask /\ SameReads
    BY <1>1, <1>4, Moves DEF AllPlaces
  <2>2. op.u \notin had.c /\ Placed(op.kind, "acctCreate")
    BY <1>1, <1>4, MakingCreates DEF LifeInv, LifeType, Placed, Lifecycle!CredsCreate
  <2>3. MakingSound' /\ UndoingSound' /\ DeleteSound'
    BY <1>1, <2>1, <2>2 DEF LifeInv, MakingSound, UndoingSound, DeleteSound, BaselineC, BaselineM,
       SameTask, SameReads,
       HistoryStill
  <2> QED
    BY <1>1, <1>3, <1>4, <2>1, <2>2, <2>3, GoesOn
<1> QED
  BY <1>1, <1>2, <1>3, <1>4, Observes

LEMMA CreateMailboxStep ==
    ASSUME LifeInv, Lifecycle!CreateMailbox
    PROVE  Good
<1>1. op.pc = "acctCreate" /\ HistoryStill /\ op \in OpRecords /\ op.u \in Users
  BY AtPlace, InPlace DEF Lifecycle!CreateMailbox
<1>2. \/ Lifecycle!AcctCreate(op.u) /\ Lifecycle!Goto("verifyC")
      \/ (Lifecycle!AcctCreate(op.u) \/ Lifecycle!Nothing) /\ Lifecycle!Goto("observeC")
  BY DEF Lifecycle!CreateMailbox, Lifecycle!Command
<1>3. Lifecycle!AcctCreate(op.u) \/ Lifecycle!Nothing => Touched
  BY NothingIsStill DEF Touched
<1>4. CASE Lifecycle!AcctCreate(op.u) /\ Lifecycle!Goto("verifyC")
  <2>1. op' \in OpRecords /\ op'.pc = "verifyC" /\ SameTask /\ SameReads
    BY <1>1, <1>4, Moves DEF AllPlaces
  <2>2. op.u \notin had.m /\ Placed(op.kind, "verifyC")
    BY <1>1, <1>4, MakingCreates DEF LifeInv, LifeType, Placed, Lifecycle!AcctCreate
  <2>3. MakingSound' /\ UndoingSound' /\ DeleteSound'
    BY <1>1, <2>1, <2>2 DEF LifeInv, MakingSound, UndoingSound, DeleteSound, BaselineC, BaselineM,
       SameTask, SameReads,
       HistoryStill
  <2> QED
    BY <1>1, <1>3, <1>4, <2>1, <2>2, <2>3, GoesOn
<1> QED
  BY <1>1, <1>2, <1>3, <1>4, Observes

LEMMA VerifyCredentialsStep ==
    ASSUME LifeInv, Lifecycle!VerifyCredentials
    PROVE  Good
<1>1. op.pc = "verifyC" /\ HistoryStill /\ op \in OpRecords /\ Still
  BY AtPlace, InPlace, NothingIsStill DEF Lifecycle!VerifyCredentials, Lifecycle!Check
<1>2. (op.u \in cred /\ Lifecycle!Goto("verifyM")) \/ Lifecycle!Goto("observeC")
  BY DEF Lifecycle!VerifyCredentials, Lifecycle!Check
<1>3. CASE op.u \in cred /\ Lifecycle!Goto("verifyM")
  <2>1. op' \in OpRecords /\ op'.pc = "verifyM" /\ SameTask /\ SameReads
    BY <1>1, <1>3, Moves DEF AllPlaces
  <2>2. MakingSound' /\ UndoingSound' /\ DeleteSound' /\ Placed(op.kind, "verifyM")
    BY <1>1, <1>3, <2>1 DEF LifeInv, LifeType, Placed, MakingSound, UndoingSound, DeleteSound,
       BaselineC, BaselineM, SameTask,
       SameReads, Still, HistoryStill
  <2> QED
    BY <1>1, <2>1, <2>2, GoesOn DEF Touched
<1> QED
  BY <1>1, <1>2, <1>3, Observes DEF Touched

\* An address of the bootstrap is done, and the next one may come.
LEMMA VerifyMailboxStep ==
    ASSUME LifeInv, Lifecycle!VerifyMailbox
    PROVE  Good
<1>1. op.pc = "verifyM" /\ HistoryStill /\ op \in OpRecords /\ Still /\ op.u \in Users
  BY AtPlace, InPlace, NothingIsStill DEF Lifecycle!VerifyMailbox, Lifecycle!Check
<1>2. \/ op.u \in mbox /\ op.kind = "create" /\ Lifecycle!Goto("provision")
      \/ /\ op.u \in mbox /\ op.kind # "create"
         /\ op' = [op EXCEPT !.pc = "next", !.made = Append(@, op.u)]
      \/ Lifecycle!Goto("observeC")
  BY DEF Lifecycle!VerifyMailbox, Lifecycle!Check
<1>3. CASE op.u \in mbox /\ op.kind = "create" /\ Lifecycle!Goto("provision")
  <2>1. op' \in OpRecords /\ op'.pc = "provision" /\ SameTask /\ SameReads
    BY <1>1, <1>3, Moves DEF AllPlaces
  <2>2. MakingSound' /\ UndoingSound' /\ DeleteSound' /\ Placed(op.kind, "provision")
    BY <1>1, <1>3, <2>1 DEF LifeInv, LifeType, Placed, MakingSound, UndoingSound, DeleteSound,
       SameTask, Still, HistoryStill
  <2> QED
    BY <1>1, <2>1, <2>2, GoesOn DEF Touched
<1>4. CASE /\ op.u \in mbox /\ op.kind # "create"
           /\ op' = [op EXCEPT !.pc = "next", !.made = Append(@, op.u)]
  <2>1. op.kind = "bootstrap"
    BY <1>1, <1>4 DEF LifeInv, LifeType, OpRecords, OpKinds, Placed
  <2>2. op.made \in Seq(Users) /\ Append(op.made, op.u) \in Seq(Users)
    BY <1>1 DEF OpRecords
  <2>3. /\ op' \in OpRecords /\ op'.pc = "next" /\ op'.kind = op.kind /\ op'.rest = op.rest
        /\ op'.made = Append(op.made, op.u) /\ op'.all = op.all /\ op'.sound = op.sound
        /\ op'.answer = op.answer /\ op'.seenC = op.seenC /\ op'.seenM = op.seenM
    BY <1>1, <1>4, <2>2 DEF OpRecords, AllPlaces
  <2>4. Made' = Made \cup {op.u} /\ Busy' = {} /\ Busy = {op.u}
    BY <1>1, <2>2, <2>3 DEF Made, Busy
  <2>5. op.u \in cred /\ op.u \notin had.c /\ op.u \notin had.m
    BY <1>1 DEF LifeInv, MakingSound
  <2>6. LifeType'
    BY <1>1, <2>1, <2>3 DEF LifeInv, LifeType, Placed, Still, HistoryStill
  <2>7. ASSUME NEW v, Clean(v) PROVE Clean(v)'
    BY <1>1, <2>7 DEF Clean, Still, HistoryStill
  <2>8. BootstrapSound'
    BY <1>1, <1>4, <2>1, <2>3, <2>4, <2>5, <2>7 DEF LifeInv, BootstrapSound, Still, HistoryStill
  <2>9. BaselineKept' /\ MakingSound' /\ UndoingSound' /\ DeleteSound' /\ PasswordSound'
    BY <1>1, <2>1, <2>3 DEF LifeInv, BaselineKept, MakingSound, UndoingSound, DeleteSound,
       PasswordSound, Still,
       HistoryStill
  <2>10. PasswordsRetired'
    BY <1>1, <2>3, RetiredStays DEF LifeInv, LifeType, Still, StoreStill
  <2>11. Lifecycle!StepSound
    BY <1>1, <2>3 DEF Lifecycle!StepSound, Lifecycle!TellsTrue, Lifecycle!KeepsBaseline,
       Lifecycle!Ended, Lifecycle!ForgetsLast, Still
  <2> QED
    BY <2>6, <2>8, <2>9, <2>10, <2>11 DEF Good, LifeInv
<1> QED
  BY <1>1, <1>2, <1>3, <1>4, Observes DEF Touched

----------------------------------------------------------------------------
(* The compensation. *)

LEMMA ObserveCredentialsStep ==
    ASSUME LifeInv, Lifecycle!ObserveCredentials
    PROVE  Good
<1>1. op.pc = "observeC" /\ HistoryStill /\ op \in OpRecords
  BY AtPlace, InPlace DEF Lifecycle!ObserveCredentials
<1>2. PICK seen \in Lifecycle!Seen :
        /\ Lifecycle!Observe(op.u \in cred, seen)
        /\ op' = [op EXCEPT !.pc = "observeM", !.seenC = seen]
  BY DEF Lifecycle!ObserveCredentials
<1>3. Still /\ (seen = "no" => op.u \notin cred) /\ (seen = "yes" => op.u \in cred)
  BY <1>2, NothingIsStill DEF Lifecycle!Observe, Lifecycle!Look
<1>4. /\ op' \in OpRecords /\ op'.pc = "observeM" /\ SameTask /\ op'.baseC = op.baseC
      /\ op'.baseM = op.baseM /\ op'.seenC = seen /\ op'.seenM = op.seenM
  BY <1>1, <1>2 DEF OpRecords, AllPlaces, SameTask
<1>5. MakingSound' /\ UndoingSound' /\ DeleteSound' /\ Placed(op.kind, "observeM")
  BY <1>1, <1>3, <1>4 DEF LifeInv, LifeType, Placed, MakingSound, UndoingSound, DeleteSound,
     BaselineC, BaselineM,
     SameTask, Still, HistoryStill
<1> QED
  BY <1>1, <1>3, <1>4, <1>5, GoesOn DEF Touched

LEMMA ObserveMailboxStep ==
    ASSUME LifeInv, Lifecycle!ObserveMailbox
    PROVE  Good
<1>1. op.pc = "observeM" /\ HistoryStill /\ op \in OpRecords
  BY AtPlace, InPlace DEF Lifecycle!ObserveMailbox
<1>2. PICK seen \in Lifecycle!Seen :
        /\ Lifecycle!Observe(op.u \in mbox, seen)
        /\ op' = [op EXCEPT !.pc = "undoM", !.seenM = seen]
  BY DEF Lifecycle!ObserveMailbox
<1>3. Still /\ (seen = "no" => op.u \notin mbox) /\ (seen = "yes" => op.u \in mbox)
  BY <1>2, NothingIsStill DEF Lifecycle!Observe, Lifecycle!Look
<1>4. /\ op' \in OpRecords /\ op'.pc = "undoM" /\ SameTask /\ op'.baseC = op.baseC
      /\ op'.baseM = op.baseM /\ op'.seenM = seen /\ op'.seenC = op.seenC
  BY <1>1, <1>2 DEF OpRecords, AllPlaces, SameTask
<1>5. MakingSound' /\ UndoingSound' /\ DeleteSound' /\ Placed(op.kind, "undoM")
  BY <1>1, <1>3, <1>4 DEF LifeInv, LifeType, Placed, MakingSound, UndoingSound, DeleteSound,
     BaselineC, BaselineM,
     SameTask, Still, HistoryStill
<1> QED
  BY <1>1, <1>3, <1>4, <1>5, GoesOn DEF Touched

LEMMA UndoMailboxStep ==
    ASSUME LifeInv, Lifecycle!UndoMailbox
    PROVE  Good
<1>1. op.pc = "undoM" /\ HistoryStill /\ op \in OpRecords
  BY AtPlace, InPlace DEF Lifecycle!UndoMailbox
<1>2. /\ Lifecycle!Goto("undoC")
      /\ Lifecycle!Nothing \/ (Lifecycle!AcctRemove(op.u) /\ op.baseM = "no")
  BY DEF Lifecycle!UndoMailbox, Lifecycle!Command, Lifecycle!New
<1>3. op' \in OpRecords /\ op'.pc = "undoC" /\ SameTask /\ SameReads
  BY <1>1, <1>2, Moves DEF AllPlaces
<1>4. Touched
  BY <1>1, <1>2, NothingIsStill DEF Touched, LifeInv, MakingSound, BaselineM
<1>5. MakingSound' /\ UndoingSound' /\ DeleteSound' /\ Placed(op.kind, "undoC")
  BY <1>1, <1>3 DEF LifeInv, LifeType, Placed, MakingSound, UndoingSound, DeleteSound, BaselineC,
     BaselineM,
     SameTask, SameReads, HistoryStill
<1> QED
  BY <1>1, <1>3, <1>4, <1>5, GoesOn

LEMMA UndoCredentialsStep ==
    ASSUME LifeInv, Lifecycle!UndoCredentials
    PROVE  Good
<1>1. op.pc = "undoC" /\ HistoryStill /\ op \in OpRecords
  BY AtPlace, InPlace DEF Lifecycle!UndoCredentials
<1>2. /\ Lifecycle!Goto("finalC")
      /\ Lifecycle!Nothing \/ (Lifecycle!CredsRemove(op.u) /\ op.baseC = "no")
  BY DEF Lifecycle!UndoCredentials, Lifecycle!Command, Lifecycle!New
<1>3. op' \in OpRecords /\ op'.pc = "finalC" /\ SameTask /\ SameReads
  BY <1>1, <1>2, Moves DEF AllPlaces
<1>4. Touched
  BY <1>1, <1>2, NothingIsStill DEF Touched, LifeInv, MakingSound, BaselineC
<1>5. MakingSound' /\ UndoingSound' /\ DeleteSound' /\ Placed(op.kind, "finalC")
  BY <1>1, <1>3 DEF LifeInv, LifeType, Placed, MakingSound, UndoingSound, DeleteSound, BaselineC,
     BaselineM,
     SameTask, SameReads, HistoryStill
<1> QED
  BY <1>1, <1>3, <1>4, <1>5, GoesOn

LEMMA FinalCredentialsStep ==
    ASSUME LifeInv, Lifecycle!FinalCredentials
    PROVE  Good
<1>1. op.pc = "finalC" /\ HistoryStill /\ op \in OpRecords
  BY AtPlace, InPlace DEF Lifecycle!FinalCredentials
<1>2. PICK seen \in Lifecycle!Seen :
        /\ Lifecycle!Observe(op.u \in cred, seen)
        /\ op' = [op EXCEPT !.pc = "finalM", !.new = Lifecycle!CreatedHere, !.seenC = seen]
  BY DEF Lifecycle!FinalCredentials
<1>3. Still /\ (seen = "no" => op.u \notin cred) /\ (seen = "yes" => op.u \in cred)
  BY <1>2, NothingIsStill DEF Lifecycle!Observe, Lifecycle!Look
<1>4. /\ op' \in OpRecords /\ op'.pc = "finalM" /\ SameTask /\ op'.baseC = op.baseC
      /\ op'.baseM = op.baseM /\ op'.seenC = seen /\ op'.seenM = op.seenM
  <2>1. Lifecycle!CreatedHere \in BOOLEAN
    BY DEF Lifecycle!CreatedHere
  <2> QED
    BY <1>1, <1>2, <2>1 DEF OpRecords, AllPlaces, SameTask
<1>5. MakingSound' /\ UndoingSound' /\ DeleteSound' /\ Placed(op.kind, "finalM")
  BY <1>1, <1>3, <1>4 DEF LifeInv, LifeType, Placed, MakingSound, UndoingSound, DeleteSound,
     BaselineC, BaselineM,
     SameTask, Still, HistoryStill
<1> QED
  BY <1>1, <1>3, <1>4, <1>5, GoesOn DEF Touched

LEMMA FinalMailboxStep ==
    ASSUME LifeInv, Lifecycle!FinalMailbox
    PROVE  Good
<1>1. op.pc = "finalM" /\ HistoryStill /\ op \in OpRecords
  BY AtPlace, InPlace DEF Lifecycle!FinalMailbox
<1>2. PICK seen \in Lifecycle!Seen :
        /\ Lifecycle!Observe(op.u \in mbox, seen)
        /\ op' = [op EXCEPT !.pc = "decide", !.seenM = seen]
  BY DEF Lifecycle!FinalMailbox
<1>3. Still /\ (seen = "no" => op.u \notin mbox) /\ (seen = "yes" => op.u \in mbox)
  BY <1>2, NothingIsStill DEF Lifecycle!Observe, Lifecycle!Look
<1>4. /\ op' \in OpRecords /\ op'.pc = "decide" /\ SameTask /\ op'.baseC = op.baseC
      /\ op'.baseM = op.baseM /\ op'.seenM = seen /\ op'.seenC = op.seenC
  BY <1>1, <1>2 DEF OpRecords, AllPlaces, SameTask
<1>5. MakingSound' /\ UndoingSound' /\ DeleteSound' /\ Placed(op.kind, "decide")
  <2>1. BaselineC(op.u) /\ BaselineM(op.u) /\ had.c \subseteq cred /\ had.m \subseteq mbox
    BY <1>1, MakingCreates DEF LifeInv, MakingSound
  <2>2. op.seenC = "no" /\ op.baseC = "no" => (op.u \in cred => op.u \in foreign)
    BY <1>1 DEF LifeInv, UndoingSound
  <2>3. op.seenC = op.baseC /\ seen = op.baseM => Clean(op.u)
    BY <1>1, <1>3, <2>1, <2>2 DEF Clean, BaselineC, BaselineM, OpRecords, YesNo
  <2>4. MakingSound' /\ DeleteSound' /\ Placed(op.kind, "decide")
    BY <1>1, <1>3, <1>4 DEF LifeInv, LifeType, Placed, MakingSound, DeleteSound, BaselineC, BaselineM,
       SameTask, Still, HistoryStill
  <2>5. UndoingSound'
    BY <1>1, <1>3, <1>4, <2>2, <2>3 DEF UndoingSound, Lifecycle!Verified, Clean, SameTask, Still,
       HistoryStill
  <2> QED
    BY <2>4, <2>5
<1> QED
  BY <1>1, <1>3, <1>4, <1>5, GoesOn DEF Touched

LEMMA DecideStep ==
    ASSUME LifeInv, Lifecycle!Decide
    PROVE  Good
<1>1. op.pc = "decide" /\ HistoryStill /\ Still
  BY AtPlace, NothingIsStill DEF Lifecycle!Decide
<1>2. PICK answer \in {"failed", "rolled back", "unverified"} :
        Lifecycle!Fails(answer) /\ (answer # "unverified" => Lifecycle!Verified)
  BY DEF Lifecycle!Decide
<1>3. answer # "unverified" => Clean(op.u)
  BY <1>1, <1>2 DEF LifeInv, UndoingSound
<1> QED
  BY <1>1, <1>2, <1>3, FailsStep

----------------------------------------------------------------------------
(* The stages of a removal. *)

LEMMA StageRemoves ==
    ASSUME LifeInv, op.pc \in Stages,
           \/ Lifecycle!CredsRemove(op.u) \/ Lifecycle!AcctRemove(op.u) \/ Lifecycle!Nothing
    PROVE  Touched
  BY NothingIsStill DEF Touched, LifeInv, UndoingSound

LEMMA DisableCredentialsStep ==
    ASSUME LifeInv, Lifecycle!DisableCredentials
    PROVE  Good
<1>1. op.pc = "removeC" /\ HistoryStill /\ op \in OpRecords
  BY AtPlace, InPlace DEF Lifecycle!DisableCredentials
<1>2. /\ Lifecycle!CredsRemove(op.u) \/ Lifecycle!Nothing
      /\ \/ Lifecycle!Goto("removedC") /\ Lifecycle!CredsRemove(op.u)
         \/ Lifecycle!StageFails
  BY DEF Lifecycle!DisableCredentials, Lifecycle!Command
<1>3. Touched
  BY <1>1, <1>2, StageRemoves
<1>4. CASE Lifecycle!Goto("removedC") /\ Lifecycle!CredsRemove(op.u)
  <2>1. op' \in OpRecords /\ op'.pc = "removedC" /\ SameTask /\ SameReads
    BY <1>1, <1>4, Moves DEF AllPlaces
  <2>2. MakingSound' /\ UndoingSound' /\ DeleteSound' /\ Placed(op.kind, "removedC")
    BY <1>1, <1>4, <2>1 DEF LifeInv, LifeType, Placed, MakingSound, UndoingSound, DeleteSound,
       SameTask, SameReads, HistoryStill,
       Lifecycle!CredsRemove
  <2> QED
    BY <1>1, <1>3, <2>1, <2>2, GoesOn
<1> QED
  BY <1>1, <1>2, <1>3, <1>4, StageFailsStep

LEMMA DisableReadBackStep ==
    ASSUME LifeInv, Lifecycle!DisableReadBack
    PROVE  Good
<1>1. op.pc = "removedC" /\ HistoryStill /\ op \in OpRecords /\ Still
  BY AtPlace, InPlace, NothingIsStill DEF Lifecycle!DisableReadBack, Lifecycle!Check
<1>2. DEFINE to == IF op.kind \in {"disable", "delete"} THEN "revoke" ELSE "removeM"
<1>3. (op.u \notin cred /\ Lifecycle!Goto(to)) \/ Lifecycle!StageFails
  BY DEF Lifecycle!DisableReadBack, Lifecycle!Check
<1>4. CASE op.u \notin cred /\ Lifecycle!Goto(to)
  <2>1. op' \in OpRecords /\ op'.pc = to /\ SameTask /\ SameReads
    BY <1>1, <1>4, Moves DEF AllPlaces
  <2>2. MakingSound' /\ UndoingSound' /\ DeleteSound' /\ Placed(op.kind, to)
    BY <1>1, <1>4, <2>1 DEF LifeInv, LifeType, Placed, OpRecords, OpKinds, MakingSound,
       UndoingSound, DeleteSound, SameTask, SameReads,
       HistoryStill, Still
  <2> QED
    BY <1>1, <2>1, <2>2, GoesOn DEF Touched
<1> QED
  BY <1>1, <1>3, <1>4, StageFailsStep DEF Touched

LEMMA DeleteImapAccountStep ==
    ASSUME LifeInv, Lifecycle!DeleteImapAccount
    PROVE  Good
<1>1. op.pc = "removeM" /\ HistoryStill /\ op \in OpRecords
  BY AtPlace, InPlace DEF Lifecycle!DeleteImapAccount
<1>2. /\ Lifecycle!AcctRemove(op.u) \/ Lifecycle!Nothing
      /\ \/ Lifecycle!Goto("removedM") /\ Lifecycle!AcctRemove(op.u)
         \/ Lifecycle!StageFails
  BY DEF Lifecycle!DeleteImapAccount, Lifecycle!Command
<1>3. Touched
  BY <1>1, <1>2, StageRemoves
<1>4. CASE Lifecycle!Goto("removedM") /\ Lifecycle!AcctRemove(op.u)
  <2>1. op' \in OpRecords /\ op'.pc = "removedM" /\ SameTask /\ SameReads
    BY <1>1, <1>4, Moves DEF AllPlaces
  <2>2. MakingSound' /\ UndoingSound' /\ DeleteSound' /\ Placed(op.kind, "removedM")
    BY <1>1, <1>4, <2>1 DEF LifeInv, LifeType, Placed, MakingSound, UndoingSound, DeleteSound,
       SameTask, SameReads, HistoryStill,
       Lifecycle!AcctRemove
  <2> QED
    BY <1>1, <1>3, <2>1, <2>2, GoesOn
<1> QED
  BY <1>1, <1>2, <1>3, <1>4, StageFailsStep

LEMMA DeleteReadBackStep ==
    ASSUME LifeInv, Lifecycle!DeleteReadBack
    PROVE  Good
<1>1. /\ op.pc = "removedM" /\ HistoryStill /\ op \in OpRecords /\ Still
      /\ op.kind \in {"create", "bootstrap", "delete"}
  <2>1. op.pc = "removedM" /\ HistoryStill /\ op \in OpRecords /\ Still
    BY AtPlace, InPlace, NothingIsStill DEF Lifecycle!DeleteReadBack, Lifecycle!Check
  <2> QED
    BY <2>1 DEF LifeInv, LifeType, OpRecords, OpKinds, Placed
<1>2. \/ op.u \notin mbox /\ op.kind = "create" /\ Lifecycle!End("rolled back")
      \/ op.u \notin mbox /\ op.kind = "bootstrap" /\ Lifecycle!Goto("rollback")
      \/ op.u \notin mbox /\ op.kind = "delete" /\ Lifecycle!Goto("dropMeta")
      \/ Lifecycle!StageFails
  BY <1>1 DEF Lifecycle!DeleteReadBack, Lifecycle!Check
<1>3. Creating /\ op.u \notin mbox => Clean(op.u)
  BY <1>1 DEF LifeInv, UndoingSound, Clean
<1>4. CASE op.u \notin mbox /\ op.kind = "create" /\ Lifecycle!End("rolled back")
  <2>1. Lifecycle!TellsTrue
    BY <1>1, <1>3, <1>4 DEF Lifecycle!TellsTrue, Lifecycle!Targets, Lifecycle!End, Clean, Still
  <2> QED
    BY <1>1, <1>4, <2>1, Gives DEF Lifecycle!End, Touched
<1>5. CASE op.u \notin mbox /\ op.kind = "bootstrap" /\ Lifecycle!Goto("rollback")
  <2>1. op' \in OpRecords /\ op'.pc = "rollback" /\ SameTask /\ SameReads
    BY <1>1, <1>5, Moves DEF AllPlaces
  <2>2. \A u \in {op.u} : Clean(u)'
    BY <1>1, <1>3, <1>5 DEF Clean, Still, HistoryStill
  <2> QED
    BY <1>1, <1>5, <2>1, <2>2, TurnsBack DEF Touched, SameTask
<1>6. CASE op.u \notin mbox /\ op.kind = "delete" /\ Lifecycle!Goto("dropMeta")
  <2>1. op' \in OpRecords /\ op'.pc = "dropMeta" /\ SameTask /\ SameReads
    BY <1>1, <1>6, Moves DEF AllPlaces
  <2>2. MakingSound' /\ UndoingSound' /\ DeleteSound' /\ Placed(op.kind, "dropMeta")
    BY <1>1, <1>6, <2>1 DEF LifeInv, Placed, MakingSound, UndoingSound, DeleteSound, SameTask,
       HistoryStill, Still
  <2> QED
    BY <1>1, <2>1, <2>2, GoesOn DEF Touched
<1> QED
  BY <1>1, <1>2, <1>4, <1>5, <1>6, StageFailsStep DEF Touched

----------------------------------------------------------------------------
(* The transactions of the requests. *)

\* An account that lost its sessions, or a duty that it now has or no longer has.
LEMMA RevokedOwn ==
    ASSUME LifeInv, op.u \in Users, Lifecycle!Revoked(op.u)
    PROVE  /\ chal' \in [Users -> SUBSET Lifecycle!Ages] /\ sess' \in [Users -> SUBSET Lifecycle!Ages]
           /\ chal'[op.u] = {} /\ sess'[op.u] = {}
           /\ \A v \in Users \ {op.u} : chal'[v] = chal[v] /\ sess'[v] = sess[v]
  BY DEF LifeInv, LifeType, Lifecycle!Revoked

MaddyStill == UNCHANGED <<cred, mbox, by>>

LEMMA MaddyIsStill ==
    ASSUME UNCHANGED Lifecycle!maddy
    PROVE  MaddyStill
  BY DEF Lifecycle!maddy, MaddyStill

LEMMA RevokedRetired ==
    ASSUME LifeInv, op.u \in Users, Lifecycle!Revoked(op.u), MaddyStill, meta' = meta, op' \in OpRecords,
           must \subseteq must', must' \subseteq must \cup ({op.u} \cap meta)
    PROVE  PasswordsRetired'
<1>1. /\ chal'[op.u] = {} /\ sess'[op.u] = {}
      /\ \A v \in Users \ {op.u} : chal'[v] = chal[v] /\ sess'[v] = sess[v]
  BY RevokedOwn
<1>2. Lifecycle!TypeOK'
  BY <1>1 DEF LifeInv, LifeType, MaddyStill, OpRecords, PasswordsRetired,
     Lifecycle!PasswordsRetired, Lifecycle!TypeOK
<1>3. Lifecycle!NoneOutlivesPassword' /\ Lifecycle!ResetForcesChange'
  BY <1>1 DEF LifeInv, MaddyStill, PasswordsRetired, Lifecycle!PasswordsRetired,
     Lifecycle!NoneOutlivesPassword,
     Lifecycle!ResetForcesChange
<1> QED
  BY <1>2, <1>3 DEF PasswordsRetired, Lifecycle!PasswordsRetired

\* provision_active_account: the record, or the way back.
LEMMA ProvisionStep ==
    ASSUME LifeInv, Lifecycle!Provision
    PROVE  Good
<1>1. /\ op.pc = "provision" /\ HistoryStill /\ op \in OpRecords /\ MaddyStill /\ op.u \in Users
      /\ op.kind = "create"
  <2>1. op.pc = "provision" /\ HistoryStill /\ op \in OpRecords /\ MaddyStill /\ op.u \in Users
    BY AtPlace, InPlace, MaddyIsStill DEF Lifecycle!Provision
  <2> QED
    BY <2>1 DEF LifeInv, LifeType, OpRecords, OpKinds, Placed
<1>2. CASE /\ op.u \notin meta /\ meta' = meta \cup {op.u} /\ UNCHANGED <<must, chal, sess>>
           /\ Lifecycle!End("created")
  <2>1. op.u \in cred /\ op.u \in mbox /\ by[op.u] # "admin" /\ op' = Lifecycle!Idle
    BY <1>1, <1>2 DEF LifeInv, MakingSound, PasswordSound, Lifecycle!End
  <2>2. op' \in OpRecords
    BY <2>1, IdleIsOp
  <2>3. PasswordsRetired'
    BY <1>1, <1>2, <2>1, <2>2 DEF LifeInv, LifeType, MaddyStill, OpRecords, PasswordsRetired,
       Lifecycle!PasswordsRetired,
       Lifecycle!TypeOK, Lifecycle!NoneOutlivesPassword, Lifecycle!ResetForcesChange
  <2>4. Lifecycle!StepSound
    BY <1>1, <1>2, <2>1 DEF Lifecycle!StepSound, Lifecycle!TellsTrue, Lifecycle!KeepsBaseline,
       Lifecycle!ForgetsLast,
       Lifecycle!Targets, Lifecycle!End, MaddyStill
  <2> QED
    BY <1>1, <1>2, <2>1, <2>3, <2>4, Ends DEF LifeInv, LifeType, MaddyStill, PasswordSound
<1>3. CASE UNCHANGED Lifecycle!store /\ Lifecycle!Goto("removeC")
  <2>1. op' \in OpRecords /\ op'.pc = "removeC" /\ SameTask /\ SameReads
    BY <1>1, <1>3, Moves DEF AllPlaces
  <2>2. Touched
    BY <1>1, <1>3 DEF Touched, Still, MaddyStill, Lifecycle!store
  <2>3. MakingSound' /\ UndoingSound' /\ DeleteSound' /\ Placed(op.kind, "removeC")
    BY <1>1, <2>1 DEF LifeInv, Placed, MakingSound, UndoingSound, DeleteSound, SameTask, HistoryStill
  <2> QED
    BY <1>1, <2>1, <2>2, <2>3, GoesOn
<1> QED
  BY <1>2, <1>3 DEF Lifecycle!Provision

\* An end that leaves everything in place.
LEMMA ErrorStep ==
    ASSUME LifeInv, op.pc # "idle", HistoryStill, Still, Lifecycle!End("error")
    PROVE  Good
  BY Stops DEF Lifecycle!End

LEMMA RevokeDisabledStep ==
    ASSUME LifeInv, Lifecycle!RevokeDisabled
    PROVE  Good
<1>1. /\ op.pc = "revoke" /\ HistoryStill /\ op \in OpRecords /\ op.u \in Users /\ MaddyStill
      /\ meta' = meta /\ must' = must /\ op.kind \in {"disable", "delete"}
  <2>1. /\ op.pc = "revoke" /\ HistoryStill /\ op \in OpRecords /\ op.u \in Users /\ MaddyStill
        /\ meta' = meta /\ must' = must
    BY AtPlace, InPlace DEF Lifecycle!RevokeDisabled, Lifecycle!maddy, MaddyStill
  <2> QED
    BY <2>1 DEF LifeInv, LifeType, OpRecords, OpKinds, Placed
<1>2. DEFINE to == IF op.seenM = "yes" THEN "removeM" ELSE "dropMeta"
<1>3. \/ Lifecycle!Revoked(op.u) /\ op.kind = "disable" /\ Lifecycle!End("done")
      \/ Lifecycle!Revoked(op.u) /\ op.kind = "delete" /\ Lifecycle!Goto(to)
      \/ UNCHANGED <<chal, sess>> /\ Lifecycle!End("error")
  BY <1>1 DEF Lifecycle!RevokeDisabled
<1>4. CASE Lifecycle!Revoked(op.u) /\ op.kind = "disable" /\ Lifecycle!End("done")
  <2>1. op' = Lifecycle!Idle /\ op' \in OpRecords
    BY <1>4, IdleIsOp DEF Lifecycle!End
  <2>2. PasswordsRetired'
    BY <1>1, <1>4, <2>1, RevokedRetired
  <2>3. Lifecycle!StepSound
    BY <1>1, <1>4 DEF Lifecycle!StepSound, Lifecycle!TellsTrue, Lifecycle!KeepsBaseline,
       Lifecycle!ForgetsLast,
       Lifecycle!End, MaddyStill
  <2>4. /\ cred' \in SUBSET Users /\ mbox' \in SUBSET Users /\ meta' \in SUBSET Users /\ must' \in SUBSET Users
        /\ by' \in [Users -> {"other", "admin", "user"}] /\ \A u \in cred' \ meta' : by'[u] # "admin"
    BY <1>1 DEF LifeInv, LifeType, PasswordSound, MaddyStill
  <2> QED
    BY <1>1, <1>4, <2>1, <2>2, <2>3, <2>4, Ends, RevokedOwn
<1>5. CASE Lifecycle!Revoked(op.u) /\ op.kind = "delete" /\ Lifecycle!Goto(to)
  <2>1. op' \in OpRecords /\ op'.pc = to /\ SameTask /\ SameReads
    BY <1>1, <1>5, Moves DEF AllPlaces
  <2>2. PasswordsRetired'
    BY <1>1, <1>5, <2>1, RevokedRetired
  <2>3. OwnOnly /\ by' \in [Users -> {"other", "admin", "user"}] /\ must' \in SUBSET Users
    BY <1>1 DEF LifeInv, LifeType, OwnOnly, MaddyStill
  <2>4. op.seenM # "yes" => (op.u \in mbox => op.u \in opened)
    BY <1>1, <1>5 DEF LifeInv, DeleteSound
  <2>5. MakingSound' /\ UndoingSound' /\ DeleteSound' /\ PasswordSound' /\ Placed(op'.kind, op'.pc)
    BY <1>1, <1>5, <2>1, <2>4 DEF LifeInv, LifeType, Placed, MakingSound, UndoingSound,
       DeleteSound, PasswordSound, SameTask,
       SameReads, HistoryStill, MaddyStill
  <2> QED
    BY <1>1, <1>5, <2>1, <2>2, <2>3, <2>5, RevokedOwn, Advances
<1>6. CASE UNCHANGED <<chal, sess>> /\ Lifecycle!End("error")
  BY <1>1, <1>6, ErrorStep DEF Still, MaddyStill
<1> QED
  BY <1>3, <1>4, <1>5, <1>6

\* delete_account: what goes is already gone from Maddy.
LEMMA DropMetaStep ==
    ASSUME LifeInv, Lifecycle!DropMeta
    PROVE  Good
<1>1. /\ op.pc = "dropMeta" /\ HistoryStill /\ op \in OpRecords /\ op.u \in Users /\ MaddyStill
      /\ op.kind = "delete"
  <2>1. op.pc = "dropMeta" /\ HistoryStill /\ op \in OpRecords /\ op.u \in Users /\ MaddyStill
    BY AtPlace, InPlace, MaddyIsStill DEF Lifecycle!DropMeta
  <2> QED
    BY <2>1 DEF LifeInv, LifeType, OpRecords, OpKinds, Placed
<1>2. CASE /\ meta' = meta \ {op.u} /\ must' = must \ {op.u} /\ Lifecycle!Revoked(op.u)
           /\ Lifecycle!End("done")
  <2>1. op' = Lifecycle!Idle /\ op' \in OpRecords /\ reply' = "done"
    BY <1>2, IdleIsOp DEF Lifecycle!End
  <2>2. /\ chal'[op.u] = {} /\ sess'[op.u] = {}
        /\ \A v \in Users \ {op.u} : chal'[v] = chal[v] /\ sess'[v] = sess[v]
    BY <1>1, <1>2, RevokedOwn
  <2>3. PasswordsRetired'
    BY <1>1, <1>2, <2>1, <2>2 DEF LifeInv, LifeType, MaddyStill, OpRecords, PasswordsRetired,
       Lifecycle!PasswordsRetired,
       Lifecycle!TypeOK, Lifecycle!NoneOutlivesPassword, Lifecycle!ResetForcesChange
  <2>4. /\ op.u \in cred => op.u \in foreign /\ by[op.u] # "admin"
        /\ op.u \in mbox => op.u \in opened
    BY <1>1 DEF LifeInv, DeleteSound
  <2>5. Lifecycle!StepSound
    BY <1>1, <1>2, <2>1, <2>4 DEF Lifecycle!StepSound, Lifecycle!TellsTrue,
       Lifecycle!KeepsBaseline, Lifecycle!ForgetsLast,
       MaddyStill
  <2>6. /\ cred' \in SUBSET Users /\ mbox' \in SUBSET Users /\ meta' \in SUBSET Users /\ must' \in SUBSET Users
        /\ by' \in [Users -> {"other", "admin", "user"}] /\ \A u \in cred' \ meta' : by'[u] # "admin"
    BY <1>1, <1>2, <2>4 DEF LifeInv, LifeType, PasswordSound, MaddyStill
  <2> QED
    BY <1>1, <1>2, <2>1, <2>3, <2>5, <2>6, Ends, RevokedOwn
<1>3. CASE UNCHANGED Lifecycle!store /\ Lifecycle!End("error")
  BY <1>1, <1>3, ErrorStep DEF Still, MaddyStill, Lifecycle!store
<1> QED
  BY <1>2, <1>3 DEF Lifecycle!DropMeta

LEMMA RequireChangeStep ==
    ASSUME LifeInv, Lifecycle!RequireChange
    PROVE  Good
<1>1. /\ op.pc = "require" /\ HistoryStill /\ op \in OpRecords /\ op.u \in Users /\ MaddyStill
      /\ meta' = meta /\ op.kind = "reset"
  <2>1. /\ op.pc = "require" /\ HistoryStill /\ op \in OpRecords /\ op.u \in Users /\ MaddyStill
        /\ meta' = meta
    BY AtPlace, InPlace DEF Lifecycle!RequireChange, Lifecycle!maddy, MaddyStill
  <2> QED
    BY <2>1 DEF LifeInv, LifeType, OpRecords, OpKinds, Placed
<1>2. CASE must' = must \cup {op.u} /\ Lifecycle!Revoked(op.u) /\ Lifecycle!Goto("password")
  <2>1. op' \in OpRecords /\ op'.pc = "password" /\ SameTask /\ SameReads
    BY <1>1, <1>2, Moves DEF AllPlaces
  <2>2. must \subseteq must' /\ must' \subseteq must \cup ({op.u} \cap meta)
    BY <1>1, <1>2 DEF LifeInv, PasswordSound
  <2>3. PasswordsRetired'
    BY <1>1, <1>2, <2>1, <2>2, RevokedRetired
  <2>4. /\ chal' \in [Users -> SUBSET Lifecycle!Ages] /\ sess' \in [Users -> SUBSET Lifecycle!Ages]
        /\ chal'[op.u] = {} /\ sess'[op.u] = {}
    BY <1>1, <1>2, RevokedOwn
  <2>5. OwnOnly /\ by' \in [Users -> {"other", "admin", "user"}] /\ must' \in SUBSET Users
    BY <1>1, <1>2 DEF LifeInv, LifeType, OwnOnly, MaddyStill
  <2>6. MakingSound' /\ UndoingSound' /\ DeleteSound' /\ Placed(op'.kind, op'.pc)
    BY <1>1, <2>1 DEF MakingSound, UndoingSound, DeleteSound, Placed, SameTask
  <2>7. PasswordSound'
    BY <1>1, <1>2, <2>1, <2>4 DEF LifeInv, PasswordSound, SameTask, MaddyStill
  <2> QED
    BY <1>1, <2>1, <2>3, <2>4, <2>5, <2>6, <2>7, Advances
<1>3. CASE UNCHANGED <<must, chal, sess>> /\ Lifecycle!End("error")
  BY <1>1, <1>3, ErrorStep DEF Still, MaddyStill
<1> QED
  BY <1>2, <1>3 DEF Lifecycle!RequireChange

LEMMA RevokeOwnStep ==
    ASSUME LifeInv, Lifecycle!RevokeOwn
    PROVE  Good
<1>1. /\ op.pc = "revokeOwn" /\ HistoryStill /\ op \in OpRecords /\ op.u \in Users /\ MaddyStill
      /\ meta' = meta /\ op.kind = "change"
  <2>1. /\ op.pc = "revokeOwn" /\ HistoryStill /\ op \in OpRecords /\ op.u \in Users /\ MaddyStill
        /\ meta' = meta
    BY AtPlace, InPlace DEF Lifecycle!RevokeOwn, Lifecycle!maddy, MaddyStill
  <2> QED
    BY <2>1 DEF LifeInv, LifeType, OpRecords, OpKinds, Placed
<1>2. CASE must' = must /\ Lifecycle!Revoked(op.u) /\ Lifecycle!Goto("password")
  <2>1. op' \in OpRecords /\ op'.pc = "password" /\ SameTask /\ SameReads
    BY <1>1, <1>2, Moves DEF AllPlaces
  <2>2. must \subseteq must' /\ must' \subseteq must \cup ({op.u} \cap meta)
    BY <1>1, <1>2 DEF LifeInv, PasswordSound
  <2>3. PasswordsRetired'
    BY <1>1, <1>2, <2>1, <2>2, RevokedRetired
  <2>4. /\ chal' \in [Users -> SUBSET Lifecycle!Ages] /\ sess' \in [Users -> SUBSET Lifecycle!Ages]
        /\ chal'[op.u] = {} /\ sess'[op.u] = {}
    BY <1>1, <1>2, RevokedOwn
  <2>5. OwnOnly /\ by' \in [Users -> {"other", "admin", "user"}] /\ must' \in SUBSET Users
    BY <1>1, <1>2 DEF LifeInv, LifeType, OwnOnly, MaddyStill
  <2>6. MakingSound' /\ UndoingSound' /\ DeleteSound' /\ Placed(op'.kind, op'.pc)
    BY <1>1, <2>1 DEF MakingSound, UndoingSound, DeleteSound, Placed, SameTask
  <2>7. PasswordSound'
    BY <1>1, <1>2, <2>1, <2>4 DEF LifeInv, PasswordSound, SameTask, MaddyStill
  <2> QED
    BY <1>1, <2>1, <2>3, <2>4, <2>5, <2>6, <2>7, Advances
<1>3. CASE UNCHANGED <<must, chal, sess>> /\ Lifecycle!End("error")
  BY <1>1, <1>3, ErrorStep DEF Still, MaddyStill
<1> QED
  BY <1>2, <1>3 DEF Lifecycle!RevokeOwn

\* The password changes when no challenge and no session is left, and in a
\* reset the duty is already on record.
LEMMA PasswordChosen ==
    ASSUME LifeInv, op.pc = "password", op' \in OpRecords,
           Lifecycle!CredsPassword(op.u, IF op.kind = "reset" THEN "admin" ELSE "user")
    PROVE  /\ UNCHANGED <<cred, mbox>> /\ StoreStill /\ by' \in [Users -> {"other", "admin", "user"}]
           /\ \A u \in cred' \ meta' : by'[u] # "admin"
           /\ op.kind # "reset" => by'[op.u] # "admin"
           /\ PasswordsRetired'
<1>1. op.u \in Users /\ chal[op.u] = {} /\ sess[op.u] = {} /\ (op.kind = "reset" => op.u \in must)
  BY InPlace DEF LifeInv, PasswordSound
<1>2. /\ UNCHANGED <<cred, mbox>> /\ StoreStill
  BY <1>1 DEF Lifecycle!CredsPassword, Lifecycle!Outdated, StoreStill, LifeInv, LifeType
<1>3. must \subseteq meta
  BY DEF LifeInv, PasswordsRetired, Lifecycle!PasswordsRetired, Lifecycle!TypeOK
<1>4. /\ by' \in [Users -> {"other", "admin", "user"}]
      /\ \A u \in cred' \ meta' : by'[u] # "admin"
      /\ op.kind # "reset" => by'[op.u] # "admin"
      /\ \A u \in Users : by'[u] = "admin" => by[u] = "admin" \/ u \in must
  BY <1>1, <1>2, <1>3 DEF LifeInv, LifeType, PasswordSound, Lifecycle!CredsPassword, StoreStill
<1>5. PasswordsRetired'
  BY <1>2, <1>4 DEF LifeInv, LifeType, StoreStill, OpRecords, PasswordsRetired,
     Lifecycle!PasswordsRetired,
     Lifecycle!TypeOK, Lifecycle!NoneOutlivesPassword, Lifecycle!ResetForcesChange
<1> QED
  BY <1>2, <1>4, <1>5

LEMMA ChangePasswordStep ==
    ASSUME LifeInv, Lifecycle!ChangePassword
    PROVE  Good
<1>1. /\ op.pc = "password" /\ HistoryStill /\ op \in OpRecords /\ op.u \in Users
      /\ op.kind \in {"reset", "change"}
  <2>1. op.pc = "password" /\ HistoryStill /\ op \in OpRecords /\ op.u \in Users
    BY AtPlace, InPlace DEF Lifecycle!ChangePassword
  <2> QED
    BY <2>1 DEF LifeInv, LifeType, OpRecords, OpKinds, Placed
<1>2. DEFINE who == IF op.kind = "reset" THEN "admin" ELSE "user"
<1>3. \/ Lifecycle!CredsPassword(op.u, who) /\ Lifecycle!Goto("passwordBack")
      \/ Lifecycle!CredsPassword(op.u, who) /\ Lifecycle!End("error")
      \/ Lifecycle!Nothing /\ Lifecycle!End("error")
  BY DEF Lifecycle!ChangePassword, Lifecycle!Command
<1>4. CASE Lifecycle!CredsPassword(op.u, who) /\ Lifecycle!Goto("passwordBack")
  <2>1. op' \in OpRecords /\ op'.pc = "passwordBack" /\ SameTask /\ SameReads
    BY <1>1, <1>4, Moves DEF AllPlaces
  <2>2. /\ UNCHANGED <<cred, mbox>> /\ StoreStill /\ by' \in [Users -> {"other", "admin", "user"}]
        /\ \A u \in cred' \ meta' : by'[u] # "admin"
        /\ op.kind # "reset" => by'[op.u] # "admin"
        /\ PasswordsRetired'
    BY <1>1, <1>4, <2>1, PasswordChosen
  <2>3. MakingSound' /\ UndoingSound' /\ DeleteSound' /\ PasswordSound' /\ Placed(op'.kind, op'.pc)
    BY <1>1, <2>1, <2>2 DEF MakingSound, UndoingSound, DeleteSound, PasswordSound, Placed, SameTask
  <2>4. /\ OwnOnly /\ must' \in SUBSET Users /\ meta' = meta
        /\ chal' \in [Users -> SUBSET Lifecycle!Ages] /\ sess' \in [Users -> SUBSET Lifecycle!Ages]
    BY <2>2 DEF LifeInv, LifeType, OwnOnly, StoreStill
  <2> QED
    BY <1>1, <2>1, <2>2, <2>3, <2>4, Advances
<1>5. CASE Lifecycle!CredsPassword(op.u, who) /\ Lifecycle!End("error")
  <2>1. op' = Lifecycle!Idle /\ op' \in OpRecords /\ reply' = "error"
    BY <1>5, IdleIsOp DEF Lifecycle!End
  <2>2. /\ UNCHANGED <<cred, mbox>> /\ StoreStill /\ by' \in [Users -> {"other", "admin", "user"}]
        /\ \A u \in cred' \ meta' : by'[u] # "admin"
        /\ PasswordsRetired'
    BY <1>1, <1>5, <2>1, PasswordChosen
  <2>3. Lifecycle!StepSound
    BY <2>1, <2>2 DEF Lifecycle!StepSound, Lifecycle!TellsTrue, Lifecycle!KeepsBaseline,
       Lifecycle!ForgetsLast, StoreStill
  <2>4. /\ cred' \in SUBSET Users /\ mbox' \in SUBSET Users /\ must' \in SUBSET Users /\ meta' \in SUBSET Users
        /\ chal' \in [Users -> SUBSET Lifecycle!Ages] /\ sess' \in [Users -> SUBSET Lifecycle!Ages]
    BY <2>2 DEF LifeInv, LifeType, StoreStill
  <2> QED
    BY <1>1, <2>1, <2>2, <2>3, <2>4, Ends
<1>6. CASE Lifecycle!Nothing /\ Lifecycle!End("error")
  BY <1>1, <1>6, NothingIsStill, ErrorStep
<1> QED
  BY <1>3, <1>4, <1>5, <1>6

LEMMA PasswordReadBackStep ==
    ASSUME LifeInv, Lifecycle!PasswordReadBack
    PROVE  Good
<1>1. op.pc = "passwordBack" /\ HistoryStill /\ op \in OpRecords /\ Still
  BY AtPlace, InPlace, NothingIsStill DEF Lifecycle!PasswordReadBack, Lifecycle!Check
<1>2. (op.kind # "reset" /\ Lifecycle!Goto("clear")) \/ Lifecycle!End("done") \/ Lifecycle!End("error")
  BY DEF Lifecycle!PasswordReadBack, Lifecycle!Check
<1>3. CASE op.kind # "reset" /\ Lifecycle!Goto("clear")
  <2>1. op.kind = "change"
    BY <1>1, <1>3 DEF LifeInv, LifeType, OpRecords, OpKinds, Placed
  <2>2. op' \in OpRecords /\ op'.pc = "clear" /\ SameTask /\ SameReads
    BY <1>1, <1>3, Moves DEF AllPlaces
  <2>3. MakingSound' /\ UndoingSound' /\ DeleteSound' /\ PasswordSound' /\ Placed(op'.kind, op'.pc)
    BY <1>1, <2>1, <2>2 DEF LifeInv, MakingSound, UndoingSound, DeleteSound, PasswordSound, Placed,
       SameTask, Still
  <2> QED
    BY <1>1, <2>2, <2>3, Looks
<1> QED
  BY <1>1, <1>2, <1>3, Stops DEF Lifecycle!End

LEMMA ClearRequiredStep ==
    ASSUME LifeInv, Lifecycle!ClearRequired
    PROVE  Good
<1>1. /\ op.pc = "clear" /\ HistoryStill /\ op \in OpRecords /\ op.u \in Users /\ MaddyStill
      /\ meta' = meta /\ sess' = sess /\ op.kind = "change"
  <2>1. /\ op.pc = "clear" /\ HistoryStill /\ op \in OpRecords /\ op.u \in Users /\ MaddyStill
        /\ meta' = meta /\ sess' = sess
    BY AtPlace, InPlace DEF Lifecycle!ClearRequired, Lifecycle!maddy, MaddyStill
  <2> QED
    BY <2>1 DEF LifeInv, LifeType, OpRecords, OpKinds, Placed
<1>2. CASE /\ must' = must \ {op.u} /\ chal' = [chal EXCEPT ![op.u] = {}]
           /\ Lifecycle!End("done")
  <2>1. op' = Lifecycle!Idle /\ op' \in OpRecords /\ reply' = "done"
    BY <1>2, IdleIsOp DEF Lifecycle!End
  <2>2. by[op.u] # "admin"
    BY <1>1 DEF LifeInv, PasswordSound
  <2>3. PasswordsRetired'
    BY <1>1, <1>2, <2>1, <2>2 DEF LifeInv, LifeType, MaddyStill, OpRecords, PasswordsRetired,
       Lifecycle!PasswordsRetired,
       Lifecycle!TypeOK, Lifecycle!NoneOutlivesPassword, Lifecycle!ResetForcesChange
  <2>4. Lifecycle!StepSound
    BY <1>1, <1>2, <2>1 DEF Lifecycle!StepSound, Lifecycle!TellsTrue, Lifecycle!KeepsBaseline,
       Lifecycle!ForgetsLast,
       MaddyStill
  <2> QED
    BY <1>1, <1>2, <2>1, <2>3, <2>4, Ends DEF LifeInv, LifeType, MaddyStill, PasswordSound
<1>3. CASE UNCHANGED <<must, chal>> /\ Lifecycle!End("error")
  BY <1>1, <1>3, ErrorStep DEF Still, MaddyStill
<1> QED
  BY <1>2, <1>3 DEF Lifecycle!ClearRequired

----------------------------------------------------------------------------
(* The bootstrap between two addresses. *)

\* A step of the bootstrap that leaves both stores alone.
LEMMA BootstrapLooks ==
    ASSUME LifeInv, op.kind = "bootstrap", op.pc \in {"next", "rollback"}, Still, HistoryStill,
           op' \in OpRecords, op'.kind = "bootstrap", op'.pc # "idle",
           op'.pc \notin Between => op'.u \in Users, Placed("bootstrap", op'.pc),
           BootstrapSound', MakingSound', UndoingSound'
    PROVE  Good
<1>1. LifeType' /\ BaselineKept' /\ PasswordSound' /\ DeleteSound'
  BY DEF LifeInv, LifeType, BaselineKept, PasswordSound, DeleteSound, Still, HistoryStill, Placed
<1>2. PasswordsRetired'
  BY RetiredStays DEF LifeInv, LifeType, Still, StoreStill
<1>3. Lifecycle!StepSound
  BY DEF Lifecycle!StepSound, Lifecycle!TellsTrue, Lifecycle!KeepsBaseline, Lifecycle!Ended,
     Lifecycle!ForgetsLast, Still
<1> QED
  BY <1>1, <1>2, <1>3 DEF Good, LifeInv

LEMMA CleanStays ==
    ASSUME Still, HistoryStill, NEW v, Clean(v)
    PROVE  Clean(v)'
  BY DEF Clean, Still, HistoryStill

LEMMA BootstrapNextStep ==
    ASSUME LifeInv, Lifecycle!BootstrapNext
    PROVE  Good
<1>1. /\ op.pc = "next" /\ HistoryStill /\ op \in OpRecords /\ op.kind = "bootstrap"
      /\ cred' = cred /\ mbox' = mbox
  <2>1. op.pc = "next" /\ HistoryStill /\ op \in OpRecords /\ cred' = cred /\ mbox' = mbox
    BY AtPlace, InPlace DEF Lifecycle!BootstrapNext
  <2> QED
    BY <2>1 DEF LifeInv, LifeType, OpRecords, OpKinds, Placed
<1>2. /\ op.sound /\ op.answer = "none" /\ Busy = {} /\ op.all \ op.rest \subseteq cred \cap mbox
      /\ op.all \subseteq Users
  BY <1>1 DEF LifeInv, BootstrapSound, Busy, OpRecords
<1>3. CASE op.rest # {}
  <2>1. PICK u \in op.rest : op' = [op EXCEPT !.pc = "create", !.u = u, !.rest = @ \ {u}]
    BY <1>3 DEF Lifecycle!BootstrapNext
  <2>2. Still
    BY <1>1, <1>3 DEF Lifecycle!BootstrapNext, Lifecycle!store, Still
  <2>3. u \in Users /\ u \in op.all /\ op.rest \ {u} \in SUBSET Users
    BY <1>1 DEF OpRecords, LifeInv, BootstrapSound
  <2>4. /\ op' \in OpRecords /\ op'.pc = "create" /\ op'.kind = op.kind /\ op'.u = u
        /\ op'.rest = op.rest \ {u} /\ op'.made = op.made /\ op'.all = op.all
        /\ op'.sound = op.sound /\ op'.answer = op.answer
    BY <1>1, <2>1, <2>3 DEF OpRecords, AllPlaces
  <2>5. Made' = Made /\ Busy' = {u} /\ u \notin Made
    BY <1>1, <2>4 DEF Made, Busy, LifeInv, BootstrapSound
  <2>6. \A v \in op.all \ Made : Clean(v) /\ Clean(v)'
    BY <1>1, <1>2, <2>2, CleanStays DEF LifeInv, BootstrapSound
  <2>7. BootstrapSound'
    BY <1>1, <1>2, <2>2, <2>3, <2>4, <2>5, <2>6 DEF LifeInv, BootstrapSound, HistoryStill
  <2>8. MakingSound' /\ UndoingSound'
    BY <2>3, <2>4, <2>5, <2>6 DEF MakingSound, UndoingSound, Clean
  <2>9. Placed("bootstrap", "create")
    BY DEF Placed
  <2> QED
    BY <1>1, <2>2, <2>3, <2>4, <2>7, <2>8, <2>9, BootstrapLooks
<1>4. CASE op.rest = {}
  <2>1. PICK required \in SUBSET op.all :
              /\ by' = [u \in Users |-> IF u \in op.all THEN "other" ELSE by[u]]
              /\ meta' = meta \cup op.all
              /\ must' = (must \ op.all) \cup required
              /\ chal' = [u \in Users |-> IF u \in op.all THEN {} ELSE chal[u]]
              /\ sess' = [u \in Users |-> IF u \in op.all THEN {} ELSE sess[u]]
              /\ Lifecycle!End("created")
    BY <1>4 DEF Lifecycle!BootstrapNext
  <2>2. op' = Lifecycle!Idle /\ op' \in OpRecords /\ reply' = "created"
    BY <2>1, IdleIsOp DEF Lifecycle!End
  <2>3. /\ by' \in [Users -> {"other", "admin", "user"}]
        /\ meta' \in SUBSET Users /\ must' \in SUBSET Users /\ cred' \in SUBSET Users /\ mbox' \in SUBSET Users
        /\ chal' \in [Users -> SUBSET Lifecycle!Ages] /\ sess' \in [Users -> SUBSET Lifecycle!Ages]
        /\ \A u \in cred' \ meta' : by'[u] # "admin"
    BY <1>1, <1>2, <2>1 DEF LifeInv, LifeType, PasswordSound
  <2>4. Lifecycle!TypeOK'
    BY <1>1, <1>2, <2>1, <2>2, <2>3 DEF LifeInv, OpRecords, PasswordsRetired,
       Lifecycle!PasswordsRetired, Lifecycle!TypeOK
  <2>5. Lifecycle!NoneOutlivesPassword' /\ Lifecycle!ResetForcesChange'
    BY <1>1, <1>2, <2>1, <2>3 DEF LifeInv, LifeType, PasswordsRetired, Lifecycle!PasswordsRetired,
       Lifecycle!NoneOutlivesPassword, Lifecycle!ResetForcesChange
  <2>6. Lifecycle!StepSound
    BY <1>1, <1>2, <1>4, <2>1, <2>2 DEF Lifecycle!StepSound, Lifecycle!TellsTrue,
       Lifecycle!KeepsBaseline, Lifecycle!ForgetsLast,
       Lifecycle!Targets
  <2> QED
    BY <1>1, <2>2, <2>3, <2>4, <2>5, <2>6, Ends DEF PasswordsRetired, Lifecycle!PasswordsRetired
<1> QED
  BY <1>3, <1>4

LEMMA BootstrapStoreFailsStep ==
    ASSUME LifeInv, Lifecycle!BootstrapStoreFails
    PROVE  Good
<1>1. /\ op.pc = "next" /\ HistoryStill /\ op \in OpRecords /\ op.kind = "bootstrap" /\ Still
      /\ op' = [op EXCEPT !.pc = "rollback", !.answer = "failed"]
  <2>1. /\ op.pc = "next" /\ HistoryStill /\ op \in OpRecords /\ Still
        /\ op' = [op EXCEPT !.pc = "rollback", !.answer = "failed"]
    BY AtPlace, InPlace, NothingIsStill DEF Lifecycle!BootstrapStoreFails
  <2> QED
    BY <2>1 DEF LifeInv, LifeType, OpRecords, OpKinds, Placed
<1>2. /\ op' \in OpRecords /\ op'.pc = "rollback" /\ op'.kind = op.kind /\ op'.u = op.u
      /\ op'.rest = op.rest /\ op'.made = op.made /\ op'.all = op.all
      /\ op'.sound = op.sound /\ op'.answer = "failed"
  BY <1>1 DEF OpRecords, AllPlaces, Answers
<1>3. Made' = Made /\ Busy' = {} /\ Busy = {}
  BY <1>1, <1>2 DEF Made, Busy
<1>4. \A v \in op.all \ Made : Clean(v)'
  BY <1>1, <1>3, CleanStays DEF LifeInv, BootstrapSound
<1>5. BootstrapSound' /\ MakingSound' /\ UndoingSound' /\ Placed("bootstrap", "rollback")
  BY <1>1, <1>2, <1>3, <1>4 DEF LifeInv, BootstrapSound, MakingSound, UndoingSound, HistoryStill, Placed
<1> QED
  BY <1>1, <1>2, <1>5, BootstrapLooks

\* The last account that was made is next to go, or all are gone.
LEMMA RollbackStep ==
    ASSUME LifeInv, Lifecycle!Rollback
    PROVE  Good
<1>1. /\ op.pc = "rollback" /\ HistoryStill /\ op \in OpRecords /\ op.kind = "bootstrap" /\ Still
  <2>1. op.pc = "rollback" /\ HistoryStill /\ op \in OpRecords /\ Still
    BY AtPlace, InPlace, NothingIsStill DEF Lifecycle!Rollback
  <2> QED
    BY <2>1 DEF LifeInv, LifeType, OpRecords, OpKinds, Placed
<1>2. op.made \in Seq(Users)
  BY <1>1 DEF OpRecords
<1>3. CASE op.made # << >>
  <2>1. op' = [op EXCEPT !.pc = "removeC", !.u = op.made[Len(op.made)], !.made = SubSeq(@, 1, Len(@) - 1)]
    BY <1>3 DEF Lifecycle!Rollback
  <2>2. Len(op.made) \in 1..Len(op.made) /\ op.made[Len(op.made)] \in Users
    BY <1>2, <1>3, EmptySeq
  <2>3. /\ SubSeq(op.made, 1, Len(op.made) - 1) \in Seq(Users)
        /\ Len(SubSeq(op.made, 1, Len(op.made) - 1)) = Len(op.made) - 1
        /\ \A i \in 1..(Len(op.made) - 1) : SubSeq(op.made, 1, Len(op.made) - 1)[i] = op.made[i]
    BY <1>2, <2>2
  <2>4. /\ op' \in OpRecords /\ op'.pc = "removeC" /\ op'.kind = op.kind /\ op'.u = op.made[Len(op.made)]
        /\ op'.rest = op.rest /\ op'.made = SubSeq(op.made, 1, Len(op.made) - 1) /\ op'.all = op.all
        /\ op'.sound = op.sound /\ op'.answer = op.answer
    BY <1>1, <2>1, <2>2, <2>3 DEF OpRecords, AllPlaces
  <2>5. Made' \cup Busy' = Made /\ Busy' = {op'.u} /\ Busy = {}
    <3>1. Busy' = {op'.u} /\ Busy = {} /\ Len(op.made) \in Nat
      BY <1>1, <1>2, <2>4 DEF Busy
    <3>2. Made' = {op.made[i] : i \in 1..(Len(op.made) - 1)}
      BY <2>3, <2>4 DEF Made
    <3>3. Made = {op.made[i] : i \in 1..Len(op.made)}
      BY DEF Made
    <3>4. 1..Len(op.made) = (1..(Len(op.made) - 1)) \cup {Len(op.made)}
      BY <2>2, <3>1
    <3>5. Made = Made' \cup {op'.u}
      BY <2>4, <3>2, <3>3, <3>4
    <3> QED
      BY <3>1, <3>5
  <2>6. op.sound /\ op.answer # "unverified" => \A v \in op.all \ Made : Clean(v)'
    BY <1>1, <2>5, CleanStays DEF LifeInv, BootstrapSound
  <2>7. BootstrapSound'
    BY <1>1, <2>4, <2>5, <2>6 DEF LifeInv, BootstrapSound, HistoryStill
  <2>8. MakingSound' /\ UndoingSound' /\ Placed("bootstrap", "removeC")
    BY <1>1, <2>4, <2>5 DEF LifeInv, BootstrapSound, MakingSound, UndoingSound, HistoryStill, Placed
  <2> QED
    BY <1>1, <2>2, <2>4, <2>7, <2>8, BootstrapLooks
<1>4. CASE op.made = << >>
  <2>1. op' = Lifecycle!Idle /\ op' \in OpRecords /\ reply' = IF op.sound THEN op.answer ELSE "unverified"
    BY <1>4, IdleIsOp DEF Lifecycle!Rollback, Lifecycle!End
  <2>2. Made = {} /\ Busy = {}
    BY <1>1, <1>4 DEF Made, Busy
  <2>3. reply' \in {"rolled back", "failed"} => \A v \in op.all : Clean(v)
    BY <1>1, <2>1, <2>2 DEF LifeInv, BootstrapSound
  <2>4. reply' # "created"
    BY <1>1, <2>1 DEF OpRecords, Answers
  <2>5. Lifecycle!StepSound
    BY <1>1, <2>3, <2>4 DEF Lifecycle!StepSound, Lifecycle!TellsTrue, Lifecycle!KeepsBaseline,
       Lifecycle!ForgetsLast,
       Lifecycle!Targets, Clean, Still
  <2>6. PasswordsRetired'
    BY <1>1, <2>1, RetiredStays DEF LifeInv, LifeType, Still, StoreStill
  <2> QED
    BY <1>1, <2>1, <2>5, <2>6, Ends DEF LifeInv, LifeType, Still, PasswordSound
<1> QED
  BY <1>3, <1>4

----------------------------------------------------------------------------
(* Operations begin, and are cut short. *)

Noted == had' = [c |-> cred, m |-> mbox] /\ opened' = {} /\ foreign' = {}

LEMMA IdleKind ==
    ASSUME LifeInv, op.pc = "idle"
    PROVE  op.kind = "none"
  BY DEF LifeInv, LifeType, OpRecords, OpKinds, Placed

\* What Maddy has is noted down; nothing is changed.
LEMMA Starts ==
    ASSUME LifeInv, op.pc = "idle", Still, Noted, op' \in OpRecords, Placed(op'.kind, op'.pc),
           op'.pc \notin Between => op'.u \in Users,
           MakingSound', UndoingSound', BootstrapSound', PasswordSound', DeleteSound'
    PROVE  Good
<1>1. LifeType' /\ BaselineKept'
  BY DEF LifeInv, LifeType, BaselineKept, Still, Noted
<1>2. PasswordsRetired'
  BY RetiredStays DEF LifeInv, LifeType, Still, StoreStill
<1>3. Lifecycle!StepSound
  BY IdleKind DEF Lifecycle!StepSound, Lifecycle!TellsTrue, Lifecycle!KeepsBaseline,
     Lifecycle!Ended, Lifecycle!ForgetsLast, Still
<1> QED
  BY <1>1, <1>2, <1>3 DEF Good, LifeInv

LEMMA Begins ==
    ASSUME NEW kind \in OpKinds, NEW u \in Users, NEW pc \in AllPlaces, NEW seenC \in YesNo, NEW seenM \in YesNo,
           Lifecycle!Begin(kind, u, pc, seenC, seenM)
    PROVE  /\ op.pc = "idle" /\ Still /\ Noted /\ op' \in OpRecords
           /\ op'.kind = kind /\ op'.u = u /\ op'.pc = pc /\ op'.seenM = seenM
<1>1. op.pc = "idle" /\ Still /\ Noted
  BY NothingIsStill DEF Lifecycle!Begin, Noted
<1>2. Lifecycle!Idle \in OpRecords
  BY IdleIsOp
<1>3. op' = [Lifecycle!Idle EXCEPT !.kind = kind, !.u = u, !.pc = pc, !.seenC = seenC, !.seenM = seenM]
  BY DEF Lifecycle!Begin
<1> QED
  BY <1>1, <1>2, <1>3 DEF OpRecords, YesNo

LEMMA StartRequestStep ==
    ASSUME LifeInv, NEW u \in Users,
           \/ Lifecycle!StartCreate(u) \/ Lifecycle!StartDisable(u) \/ Lifecycle!StartReset(u)
           \/ Lifecycle!StartChange(u) \/ Lifecycle!StartDelete(u)
    PROVE  Good
<1>1. CASE Lifecycle!StartCreate(u)
  <2>1. /\ op.pc = "idle" /\ Still /\ Noted /\ op' \in OpRecords
        /\ op'.kind = "create" /\ op'.u = u /\ op'.pc = "create"
    BY <1>1, Begins DEF Lifecycle!StartCreate, OpKinds, AllPlaces, YesNo
  <2>2. /\ MakingSound' /\ UndoingSound' /\ BootstrapSound' /\ PasswordSound' /\ DeleteSound'
        /\ Placed(op'.kind, op'.pc)
    BY <2>1 DEF LifeInv, MakingSound, UndoingSound, BootstrapSound, PasswordSound, DeleteSound,
       Placed, Clean, Noted, Still
  <2> QED
    BY <2>1, <2>2, Starts
<1>2. CASE Lifecycle!StartDisable(u)
  <2>1. /\ op.pc = "idle" /\ Still /\ Noted /\ op' \in OpRecords
        /\ op'.kind = "disable" /\ op'.u = u /\ op'.pc = "removeC"
    BY <1>2, Begins DEF Lifecycle!StartDisable, OpKinds, AllPlaces, YesNo
  <2>2. /\ MakingSound' /\ UndoingSound' /\ BootstrapSound' /\ PasswordSound' /\ DeleteSound'
        /\ Placed(op'.kind, op'.pc)
    BY <2>1 DEF LifeInv, MakingSound, UndoingSound, BootstrapSound, PasswordSound, DeleteSound,
       Placed, Still
  <2> QED
    BY <2>1, <2>2, Starts
<1>3. CASE Lifecycle!StartReset(u)
  <2>1. /\ op.pc = "idle" /\ Still /\ Noted /\ op' \in OpRecords
        /\ op'.kind = "reset" /\ op'.u = u /\ op'.pc = "require" /\ u \in meta
    BY <1>3, Begins DEF Lifecycle!StartReset, OpKinds, AllPlaces, YesNo
  <2>2. /\ MakingSound' /\ UndoingSound' /\ BootstrapSound' /\ PasswordSound' /\ DeleteSound'
        /\ Placed(op'.kind, op'.pc)
    BY <2>1 DEF LifeInv, MakingSound, UndoingSound, BootstrapSound, PasswordSound, DeleteSound,
       Placed, Still
  <2> QED
    BY <2>1, <2>2, Starts
<1>4. CASE Lifecycle!StartChange(u)
  <2>1. /\ op.pc = "idle" /\ Still /\ Noted /\ op' \in OpRecords
        /\ op'.kind = "change" /\ op'.u = u /\ op'.pc = "revokeOwn"
    BY <1>4, Begins DEF Lifecycle!StartChange, OpKinds, AllPlaces, YesNo
  <2>2. /\ MakingSound' /\ UndoingSound' /\ BootstrapSound' /\ PasswordSound' /\ DeleteSound'
        /\ Placed(op'.kind, op'.pc)
    BY <2>1 DEF LifeInv, MakingSound, UndoingSound, BootstrapSound, PasswordSound, DeleteSound,
       Placed, Still
  <2> QED
    BY <2>1, <2>2, Starts
<1>5. CASE Lifecycle!StartDelete(u)
  <2>1. PICK pc \in AllPlaces, seenC \in YesNo, seenM \in YesNo :
          /\ Lifecycle!Begin("delete", u, pc, seenC, seenM)
          /\ pc = IF u \in cred THEN "removeC" ELSE IF u \in mbox THEN "removeM" ELSE "dropMeta"
          /\ seenM = IF u \in mbox THEN "yes" ELSE "no"
    BY <1>5 DEF Lifecycle!StartDelete, Lifecycle!Look, AllPlaces, YesNo
  <2>2. /\ op.pc = "idle" /\ Still /\ Noted /\ op' \in OpRecords
        /\ op'.kind = "delete" /\ op'.u = u /\ op'.pc = pc /\ op'.seenM = seenM
    BY <2>1, Begins DEF OpKinds
  <2>3. /\ MakingSound' /\ UndoingSound' /\ BootstrapSound' /\ PasswordSound' /\ DeleteSound'
        /\ Placed(op'.kind, op'.pc)
    BY <2>1, <2>2 DEF LifeInv, MakingSound, UndoingSound, BootstrapSound, PasswordSound,
       DeleteSound, Placed, Still
  <2> QED
    BY <2>2, <2>3, Starts
<1> QED
  BY <1>1, <1>2, <1>3, <1>4, <1>5

LEMMA StartBootstrapStep ==
    ASSUME LifeInv, Lifecycle!StartBootstrap
    PROVE  Good
<1>1. op.pc = "idle" /\ Still /\ Noted /\ op \in OpRecords
  BY NothingIsStill, InPlace DEF Lifecycle!StartBootstrap, Noted
<1>2. PICK all \in SUBSET Users \ {{}} : \E new \in SUBSET all :
        IF new \cap (cred \cup mbox) = {} /\ \A u \in all \ new : Lifecycle!Active(u)
        THEN /\ op' = [Lifecycle!Idle EXCEPT !.kind = "bootstrap", !.pc = "next", !.rest = new, !.all = all]
             /\ reply' = "none"
        ELSE reply' = "refused" /\ UNCHANGED op
  BY DEF Lifecycle!StartBootstrap
<1>3. CASE op' = op
  BY <1>1, <1>3, IdleKind, Starts DEF LifeInv, LifeType, MakingSound, UndoingSound, BootstrapSound,
     PasswordSound, DeleteSound,
     Placed, Still
<1>4. CASE op' # op
  <2>1. PICK new \in SUBSET all :
           /\ new \cap (cred \cup mbox) = {} /\ \A u \in all \ new : u \in cred \cap mbox
           /\ op' = [Lifecycle!Idle EXCEPT !.kind = "bootstrap", !.pc = "next", !.rest = new, !.all = all]
    BY <1>2, <1>4 DEF Lifecycle!Active
  <2>2. new \in SUBSET Users /\ all \in SUBSET Users
    OBVIOUS
  <2>3. /\ op' \in OpRecords /\ op'.kind = "bootstrap" /\ op'.pc = "next" /\ op'.rest = new
        /\ op'.all = all /\ op'.made = << >> /\ op'.sound /\ op'.answer = "none"
    <3>1. Lifecycle!Idle.sound /\ Lifecycle!Idle.answer = "none"
      BY DEF Lifecycle!Idle
    <3> QED
      BY <2>1, <2>2, <3>1, IdleIsOp DEF OpRecords, OpKinds, AllPlaces
  <2>4. Made' = {} /\ Busy' = {}
    BY <2>3 DEF Made, Busy
  <2>5. \A v \in all : Clean(v)'
    BY <1>1 DEF Clean, Noted, Still
  <2>6. BootstrapSound'
    BY <1>1, <2>1, <2>3, <2>4, <2>5 DEF BootstrapSound, Still
  <2>7. MakingSound' /\ UndoingSound' /\ PasswordSound' /\ DeleteSound' /\ Placed(op'.kind, op'.pc)
    BY <1>1, <2>3 DEF LifeInv, MakingSound, UndoingSound, PasswordSound, DeleteSound, Placed, Still
  <2> QED
    BY <1>1, <2>3, <2>6, <2>7, Starts
<1> QED
  BY <1>3, <1>4

LEMMA KilledStep ==
    ASSUME LifeInv, Lifecycle!Killed
    PROVE  Good
  BY NothingIsStill, Stops DEF Lifecycle!Killed, Lifecycle!End, Lifecycle!history, HistoryStill

----------------------------------------------------------------------------
(* Signing in, requests, mail clients and Maddy's command line. *)

LEMMA SignInStep ==
    ASSUME LifeInv, NEW u \in Users,
           Lifecycle!PasswordBegin(u) \/ Lifecycle!TotpComplete(u) \/ Lifecycle!RefusedRequest(u)
    PROVE  Good
<1>1. op.pc = "idle" /\ op' = op /\ op \in OpRecords /\ HistoryStill /\ MaddyStill /\ op.kind = "none" /\ must' = must
  BY InPlace, IdleKind DEF Lifecycle!PasswordBegin, Lifecycle!TotpComplete,
     Lifecycle!RefusedRequest, Lifecycle!Quiet,
     Lifecycle!history, Lifecycle!maddy, HistoryStill, MaddyStill
<1>2. /\ meta' \in SUBSET Users /\ meta \subseteq meta' /\ meta' \ meta \subseteq cred
      /\ chal' \in [Users -> SUBSET Lifecycle!Ages] /\ sess' \in [Users -> SUBSET Lifecycle!Ages]
      /\ \A v \in Users \ meta' : chal'[v] = {} /\ sess'[v] = {}
      /\ \A v \in Users : "changed" \notin chal'[v] \cup sess'[v]
  <2>1. /\ \A v \in Users \ meta : chal[v] = {} /\ sess[v] = {}
        /\ \A v \in Users : "changed" \notin chal[v] \cup sess[v]
        /\ meta \in SUBSET Users
        /\ chal \in [Users -> SUBSET Lifecycle!Ages] /\ sess \in [Users -> SUBSET Lifecycle!Ages]
    BY DEF LifeInv, LifeType, PasswordsRetired, Lifecycle!PasswordsRetired, Lifecycle!TypeOK,
       Lifecycle!NoneOutlivesPassword
  <2>2. CASE Lifecycle!PasswordBegin(u)
    BY <2>1, <2>2 DEF Lifecycle!PasswordBegin, Lifecycle!Active
  <2>3. CASE Lifecycle!TotpComplete(u)
    BY <2>1, <2>3 DEF Lifecycle!TotpComplete
  <2>4. CASE Lifecycle!RefusedRequest(u)
    BY <2>1, <2>4 DEF Lifecycle!RefusedRequest, Lifecycle!Revoked
  <2> QED
    BY <2>2, <2>3, <2>4
<1>3. LifeType'
  BY <1>1, <1>2 DEF LifeInv, LifeType, HistoryStill, MaddyStill
<1>4. PasswordsRetired'
  BY <1>1, <1>2 DEF LifeInv, LifeType, OpRecords, PasswordSound, MaddyStill, PasswordsRetired,
     Lifecycle!PasswordsRetired,
     Lifecycle!TypeOK, Lifecycle!NoneOutlivesPassword, Lifecycle!ResetForcesChange
<1>5. BaselineKept' /\ MakingSound' /\ UndoingSound' /\ BootstrapSound' /\ PasswordSound' /\ DeleteSound'
  BY <1>1, <1>2 DEF LifeInv, BaselineKept, MakingSound, UndoingSound, BootstrapSound,
     PasswordSound, DeleteSound, MaddyStill
<1>6. Lifecycle!StepSound
  BY <1>1, <1>2 DEF Lifecycle!StepSound, Lifecycle!TellsTrue, Lifecycle!KeepsBaseline,
     Lifecycle!Ended, Lifecycle!ForgetsLast
<1> QED
  BY <1>3, <1>4, <1>5, <1>6 DEF Good, LifeInv

\* Storage or credentials of others appear at any moment.
LEMMA AppearsStep ==
    ASSUME LifeInv, NEW u \in Users, Lifecycle!ClientOpens(u) \/ Lifecycle!OutsideEnables(u)
    PROVE  Good
<1>1. /\ op' = op /\ had' = had /\ StoreStill /\ op \in OpRecords
      /\ cred \subseteq cred' /\ mbox \subseteq mbox' /\ opened \subseteq opened' /\ foreign \subseteq foreign'
      /\ cred' \ cred \subseteq foreign' /\ mbox' \ mbox \subseteq opened' \cap cred
      /\ cred' \in SUBSET Users /\ mbox' \in SUBSET Users
      /\ by' \in [Users -> {"other", "admin", "user"}]
      /\ \A v \in cred' : (v \in cred /\ by'[v] = by[v]) \/ by'[v] # "admin"
      /\ \A v \in Users : by'[v] = by[v] \/ by'[v] = "other"
  BY InPlace DEF LifeInv, LifeType, StoreStill, Lifecycle!ClientOpens, Lifecycle!OutsideEnables,
     Lifecycle!CredsCreate, Lifecycle!store
<1>2. LifeType'
  BY <1>1 DEF LifeInv, LifeType, StoreStill
<1>3. PasswordsRetired' /\ \A v \in cred' \ meta' : by'[v] # "admin"
  BY <1>1, RetiredStays
<1>4. \A v : Clean(v) => Clean(v)'
  BY <1>1 DEF Clean
<1>5. BaselineKept' /\ BootstrapSound'
  <2>1. Made' = Made /\ Busy' = Busy
    BY <1>1 DEF Made, Busy
  <2> QED
    BY <1>1, <1>4, <2>1 DEF LifeInv, BaselineKept, BootstrapSound
<1>6. MakingSound' /\ UndoingSound'
  BY <1>1, <1>4 DEF LifeInv, MakingSound, UndoingSound, BaselineC, BaselineM, Lifecycle!Verified
<1>7. PasswordSound' /\ DeleteSound'
  <2>1. op.pc \notin Between => op.u \in Users
    BY InPlace
  <2> QED
    BY <1>1, <1>3, <2>1 DEF LifeInv, PasswordSound, DeleteSound, StoreStill
<1>8. Lifecycle!StepSound
  BY <1>1 DEF Lifecycle!StepSound, Lifecycle!TellsTrue, Lifecycle!KeepsBaseline, Lifecycle!Ended,
     Lifecycle!ForgetsLast, StoreStill
<1> QED
  BY <1>2, <1>3, <1>5, <1>6, <1>7, <1>8 DEF Good, LifeInv

----------------------------------------------------------------------------
(* Together. *)

LEMMA LifeInit ==
    ASSUME Lifecycle!Init
    PROVE  LifeInv
<1>1. op = Lifecycle!Idle /\ op \in OpRecords /\ op.pc = "idle" /\ op.kind = "none"
  BY IdleIsOp DEF Lifecycle!Init
<1>2. LifeType
  BY <1>1 DEF Lifecycle!Init, LifeType, Placed
<1>3. PasswordsRetired
  BY <1>1 DEF Lifecycle!Init, OpRecords, PasswordsRetired, Lifecycle!PasswordsRetired, Lifecycle!TypeOK,
     Lifecycle!NoneOutlivesPassword, Lifecycle!ResetForcesChange
<1>4. BaselineKept /\ MakingSound /\ UndoingSound /\ BootstrapSound /\ PasswordSound /\ DeleteSound
  BY <1>1 DEF Lifecycle!Init, BaselineKept, MakingSound, UndoingSound, BootstrapSound,
     PasswordSound, DeleteSound
<1> QED
  BY <1>2, <1>3, <1>4 DEF LifeInv

LEMMA LifeNext ==
    ASSUME LifeInv, Lifecycle!Next
    PROVE  Good
<1>1. CASE Lifecycle!Step
  BY <1>1, BaselineCredentialsStep, BaselineMailboxesStep, CreateCredentialsStep, CreateMailboxStep,
     VerifyCredentialsStep, VerifyMailboxStep, ObserveCredentialsStep, ObserveMailboxStep,
     UndoMailboxStep, UndoCredentialsStep, FinalCredentialsStep, FinalMailboxStep, DecideStep,
     DisableCredentialsStep, DisableReadBackStep, DeleteImapAccountStep, DeleteReadBackStep,
     ProvisionStep, RevokeDisabledStep, DropMetaStep, RequireChangeStep, RevokeOwnStep,
     ChangePasswordStep, PasswordReadBackStep, ClearRequiredStep, BootstrapNextStep,
     BootstrapStoreFailsStep, RollbackStep DEF Lifecycle!Step
<1> QED
  BY <1>1, KilledStep, StartBootstrapStep, StartRequestStep, SignInStep, AppearsStep DEF Lifecycle!Next

LEMMA LifeStutter ==
    ASSUME LifeInv, UNCHANGED Lifecycle!vars
    PROVE  LifeInv'
<1>1. op' = op /\ Still /\ HistoryStill
  BY DEF Lifecycle!vars, Still, HistoryStill
<1>2. PasswordsRetired'
  BY <1>1 DEF LifeInv, Still, PasswordsRetired, Lifecycle!PasswordsRetired, Lifecycle!TypeOK,
     Lifecycle!NoneOutlivesPassword,
     Lifecycle!ResetForcesChange
<1>3. LifeType' /\ BaselineKept' /\ PasswordSound' /\ DeleteSound'
  BY <1>1 DEF LifeInv, LifeType, BaselineKept, PasswordSound, DeleteSound, Still, HistoryStill
<1>4. MakingSound' /\ UndoingSound' /\ BootstrapSound'
  BY <1>1 DEF LifeInv, MakingSound, UndoingSound, BootstrapSound, Made, Busy, Clean, BaselineC,
     BaselineM, Lifecycle!Verified, Still,
     HistoryStill
<1> QED
  BY <1>2, <1>3, <1>4 DEF LifeInv

\* Whatever fails or is interrupted, in whatever order accounts are created,
\* disabled, reset, changed, deleted and imported (helper.py, cli.py, maddy.py):
\* no challenge and no session outlives the password it was obtained with, and
\* an administrator's password has to be changed, for any addresses and bounds.
THEOREM PasswordsAlwaysRetired == Lifecycle!Spec => []PasswordsRetired
<1>1. Lifecycle!Init => LifeInv
  BY LifeInit
<1>2. LifeInv /\ [Lifecycle!Next]_(Lifecycle!vars) => LifeInv'
  BY LifeNext, LifeStutter DEF Good
<1>3. LifeInv => PasswordsRetired
  BY DEF LifeInv
<1> QED
  BY <1>1, <1>2, <1>3, PTL DEF Lifecycle!Spec

\* What the helper and the bootstrap tell of accounts is true of Maddy, a
\* creation removes nothing that was there, and metadata go last.
THEOREM AccountsAlwaysSound == Lifecycle!Spec => AccountsSound
<1>1. Lifecycle!Init => LifeInv
  BY LifeInit
<1>2. LifeInv /\ [Lifecycle!Next]_(Lifecycle!vars) => LifeInv'
  BY LifeNext, LifeStutter DEF Good
<1>3. LifeInv /\ [Lifecycle!Next]_(Lifecycle!vars) => [Lifecycle!StepSound]_(Lifecycle!vars)
  BY LifeNext DEF Good
<1> QED
  BY <1>1, <1>2, <1>3, PTL DEF Lifecycle!Spec, AccountsSound, Lifecycle!AccountsSound

----------------------------------------------------------------------------
(* Certificates: what a call of renew knows where it is.  Up to the first  *)
(* file everything is as it was; then only Maddy is, until it is asked to  *)
(* reload.  The files that are put back are the ones that were there when  *)
(* they were read, and none where one was taken for missing.               *)

Before ==
    {"check", "certbot", "after", "sync", "reload_only", "read_cert", "read_key", "old_cert",
     "old_key", "stage", "put_cert"}
Installing == {"put_key", "verify", "confirm", "reload"}
Restoring == {"undo_stage", "undo_cert", "undo_key", "undo_verify"}

\* The one call of renew, what was deployed when it began, its staged files.
call == me["helper"]
begun == prior["helper"]
fresh == staged["helper"]
Given(k) == IF k \in begun.unseen THEN 0 ELSE begun.dep[k]

\* The files: as they were, or as they were read; none is misread before.
FilesKnown ==
    /\ call.pc \in Before => dep = begun.dep
    /\ call.pc \in Before \ {"old_key", "stage", "put_cert"} => begun.unseen = {}
    /\ call.pc = "old_key" => "key" \notin begun.unseen
    /\ call.pc \in {"clean_up", "reload_old"} => dep.cert = Given("cert") /\ dep.key = Given("key")
    /\ call.pc \in {"old_key", "stage", "put_cert"} \cup Installing \cup Restoring =>
          call.old.cert = Given("cert")
    /\ call.pc \in {"stage", "put_cert"} \cup Installing \cup Restoring =>
          call.old.key = Given("key")
    /\ call.pc = "reload" => dep.cert # 0 /\ dep.cert = dep.key

\* Maddy serves what it served until it is asked to reload.
ServedKnown ==
    /\ call.pc \in Before \cup Installing \cup {"clean_up"} => served = begun.served
    /\ call.pc \in Restoring /\ ~call.late => served = begun.served
    /\ call.pc = "final" /\ dep.cert # 0 /\ dep.cert = dep.key => served = dep.cert

NewFiles == {"new"} \X {"cert", "key"}
\* What of its staged files is left where the call is.
StagedKnown ==
    /\ call.pc \in (Before \ {"put_cert"}) \cup {"idle", "verify", "confirm", "reload", "final"} => fresh = {}
    /\ call.pc \in {"put_cert", "undo_stage", "undo_verify", "clean_up"} => fresh \subseteq NewFiles
    /\ call.pc = "put_key" => fresh \subseteq {<<"new", "key">>}
    /\ call.pc = "undo_key" => fresh \subseteq NewFiles \cup {<<"old", "key">>}
    /\ call.pc \in Restoring /\ call.late => fresh \cap NewFiles = {}
    /\ call.pc = "reload_old" => fresh = {}

DeployInv ==
    /\ Certificates(FALSE)!FailureSound /\ FilesKnown /\ ServedKnown /\ StagedKnown
    /\ call.pc # "idle" => outcome["helper"] = "none"

DeployGood == DeployInv' /\ Certificates(FALSE)!ServesOnSuccess

USE DEF Before, Installing, Restoring, Given, Certificates!Kinds, Certificates!Matched, Certificates!Sound

----------------------------------------------------------------------------
(* What a step does to the call. *)

Gens == 0 .. MaxGen
Pairs == [{"cert", "key"} -> Gens]
Calls == [pc : Certificates(FALSE)!Positions, was : Gens, want : Pairs, old : Pairs, late : BOOLEAN]
MarksStill == UNCHANGED <<outcome, litter, excused>>

\* The types, spelled out for the only deployer of the process.
DeployType ==
    /\ src \in Pairs /\ dep \in Pairs /\ served \in Gens
    /\ timer \in BOOLEAN /\ litter \in BOOLEAN /\ excused \in BOOLEAN
    /\ me \in [{"helper"} -> Calls]
    /\ outcome \in [{"helper"} -> Certificates(FALSE)!Answers]
    /\ staged \in [{"helper"} -> SUBSET ({"new", "old"} \X {"cert", "key"})]
    /\ broken \in 0 .. MaxBroken
    /\ prior \in [{"helper"} -> [dep : Pairs, served : Gens, unseen : SUBSET {"cert", "key"}]]

\* A pair whose files are those that were read is the one that was read.
LEMMA PairAsRead ==
    ASSUME NEW d \in Pairs, NEW b \in Pairs, NEW U,
           d.cert = IF "cert" \in U THEN 0 ELSE b.cert,
           d.key = IF "key" \in U THEN 0 ELSE b.key
    PROVE  d = [k \in {"cert", "key"} |-> IF k \in U THEN 0 ELSE b[k]]
  BY DEF Pairs

LEMMA DeployTyped == Certificates(FALSE)!TypeOK <=> DeployType
  BY DEF DeployType, Certificates!TypeOK, Certificates!Pairs, Pairs, Gens, Calls

LEMMA CertBoundsHold == MaxGen \in Nat \ {0} /\ MaxBroken \in Nat /\ Renamed \subseteq 1 .. MaxGen
  BY HelperBounds DEF Certificates!CertAssumption

LEMMA CallTyped ==
    ASSUME DeployInv
    PROVE  DeployType /\ call \in Calls /\ call.old \in Pairs /\ call.want \in Pairs
  BY DeployTyped DEF DeployInv, Certificates!FailureSound, DeployType, call, Calls

LEMMA PairTyped ==
    ASSUME NEW c \in Gens, NEW k \in Gens
    PROVE  /\ Certificates(FALSE)!Pair(c, k) \in Pairs
           /\ Certificates(FALSE)!Pair(c, k).cert = c /\ Certificates(FALSE)!Pair(c, k).key = k
  BY DEF Certificates!Pair, Pairs

LEMMA CallGoes ==
    ASSUME DeployInv, NEW docker \in BOOLEAN, NEW pc \in Certificates(FALSE)!Positions,
           Certificates(docker)!Goto("helper", pc)
    PROVE  /\ MarksStill /\ me' \in [{"helper"} -> Calls]
           /\ call'.pc = pc /\ call'.old = call.old /\ call'.late = call.late
  BY CallTyped DEF Certificates!Goto, MarksStill, DeployType, call, Calls

LEMMA CallAnswers ==
    ASSUME DeployInv, NEW docker \in BOOLEAN, NEW answer \in Certificates(FALSE)!Answers, NEW left,
           Certificates(docker)!Answer("helper", answer, left)
    PROVE  /\ me' \in [{"helper"} -> Calls] /\ call'.pc = "idle"
           /\ outcome' \in [{"helper"} -> Certificates(FALSE)!Answers] /\ outcome'["helper"] = answer
           /\ staged' \in [{"helper"} -> SUBSET ({"new", "old"} \X {"cert", "key"})] /\ fresh' = {}
           /\ litter' = (litter \/ left # {}) /\ excused' = (excused \/ answer = "rollback_failed")
<1>1. Certificates(docker)!Idle \in Calls /\ Certificates(docker)!Idle.pc = "idle"
  BY CertBoundsHold DEF Certificates!Idle, Certificates!Pair, Certificates!Positions, Calls, Pairs, Gens
<1> QED
  BY <1>1, CallTyped DEF Certificates!Answer, DeployType, call, fresh

LEMMA CallStepsBack ==
    ASSUME DeployInv, NEW docker \in BOOLEAN, NEW late \in BOOLEAN, Certificates(docker)!StepBack("helper", late)
    PROVE  /\ MarksStill /\ me' \in [{"helper"} -> Calls]
           /\ call'.pc = IF docker THEN "undo_stage" ELSE "undo_cert"
           /\ call'.old = call.old /\ call'.late = late
<1>1. (IF docker THEN "undo_stage" ELSE "undo_cert") \in Certificates(FALSE)!Positions
  BY DEF Certificates!Positions
<1> QED
  BY <1>1, CallTyped DEF Certificates!StepBack, MarksStill, DeployType, call, Calls

\* A call goes on.
LEMMA CallMoves ==
    ASSUME DeployInv, call.pc # "idle", call'.pc # "idle", DeployType', MarksStill,
           FilesKnown', ServedKnown', StagedKnown'
    PROVE  DeployGood
<1>1. Certificates(FALSE)!TypeOK'
  BY DeployTyped DEF DeployType, Certificates!TypeOK, Certificates!Pairs, Pairs, Gens, Calls
<1>2. outcome'["helper"] = "none"
  BY DEF DeployInv, MarksStill
<1>3. Certificates(FALSE)!AnswerTrue' /\ Certificates(FALSE)!ServesOnSuccess
  BY <1>2 DEF Certificates!AnswerTrue, Certificates!ServesOnSuccess
<1>4. Certificates(FALSE)!NoLitter'
  BY DEF DeployInv, MarksStill, Certificates!FailureSound, Certificates!NoLitter
<1>5. ASSUME call'.pc \in {"reload_only", "reload", "reload_old"}
      PROVE  (dep'.cert # 0 /\ dep'.cert = dep'.key) \/ dep' = Certificates(FALSE)!AsRead("helper")'
  <2>1. dep' \in Pairs /\ begun'.dep \in Pairs
    BY DEF DeployType, begun
  <2>2. CASE call'.pc = "reload"
    BY <2>2 DEF FilesKnown
  <2>3. CASE call'.pc # "reload"
    <3>1. /\ dep'.cert = IF "cert" \in begun'.unseen THEN 0 ELSE begun'.dep.cert
          /\ dep'.key = IF "key" \in begun'.unseen THEN 0 ELSE begun'.dep.key
      BY <1>5, <2>3 DEF FilesKnown
    <3>2. dep' = [k \in {"cert", "key"} |-> IF k \in begun'.unseen THEN 0 ELSE begun'.dep[k]]
      BY <2>1, <3>1, PairAsRead
    <3> QED
      BY <3>2 DEF Certificates!AsRead, begun
  <2> QED
    BY <2>2, <2>3
<1>6. Certificates(FALSE)!ReloadsWhole'
  BY <1>5 DEF Certificates!ReloadsWhole, call
<1> QED
  BY <1>1, <1>2, <1>3, <1>4, <1>6 DEF DeployGood, DeployInv, Certificates!FailureSound

\* A call ends.
LEMMA CallEnds ==
    ASSUME DeployInv, call'.pc = "idle", fresh' = {}, DeployType',
           Certificates(FALSE)!AnswerTrue', litter' => excused', Certificates(FALSE)!ServesOnSuccess
    PROVE  DeployGood
<1>1. Certificates(FALSE)!TypeOK'
  BY DEF DeployType, Certificates!TypeOK, Certificates!Pairs, Pairs, Gens, Calls
<1>2. FilesKnown' /\ ServedKnown' /\ StagedKnown'
  BY DEF FilesKnown, ServedKnown, StagedKnown
<1>3. Certificates(FALSE)!ReloadsWhole' /\ Certificates(FALSE)!NoLitter'
  BY DEF Certificates!ReloadsWhole, Certificates!NoLitter, call
<1> QED
  BY <1>1, <1>2, <1>3 DEF DeployGood, DeployInv, Certificates!FailureSound

LEMMA BrokenCounted ==
    ASSUME DeployInv, NEW docker \in BOOLEAN, NEW n \in Nat,
           Certificates(docker)!Works \/ Certificates(docker)!Fails(n)
    PROVE  broken' \in 0 .. MaxBroken
  BY CallTyped, CertBoundsHold DEF DeployType, Certificates!Works, Certificates!Fails

\* Nothing but the call has changed; an answer that claims this is true.
LEMMA Refuses ==
    ASSUME DeployInv, NEW docker \in BOOLEAN, Certificates(docker)!Quiet \/ UNCHANGED <<dep, served, timer, prior>>,
           src' \in Pairs, dep = begun.dep, served = begun.served,
           Certificates(docker)!Answer("helper", "refused", {}), broken' \in 0 .. MaxBroken
    PROVE  DeployGood
<1>1. "refused" \in Certificates(FALSE)!Answers
  BY DEF Certificates!Answers
<1>2. /\ me' \in [{"helper"} -> Calls] /\ call'.pc = "idle"
      /\ outcome' \in [{"helper"} -> Certificates(FALSE)!Answers] /\ outcome'["helper"] = "refused"
      /\ staged' \in [{"helper"} -> SUBSET ({"new", "old"} \X {"cert", "key"})] /\ fresh' = {}
      /\ litter' = litter /\ excused' = excused
  <2>1. /\ me' \in [{"helper"} -> Calls] /\ call'.pc = "idle"
        /\ outcome' \in [{"helper"} -> Certificates(FALSE)!Answers] /\ outcome'["helper"] = "refused"
        /\ staged' \in [{"helper"} -> SUBSET ({"new", "old"} \X {"cert", "key"})] /\ fresh' = {}
        /\ litter' = (litter \/ {} # {}) /\ excused' = (excused \/ "refused" = "rollback_failed")
    BY <1>1, CallAnswers
  <2>2. litter \in BOOLEAN /\ excused \in BOOLEAN
    BY CallTyped DEF DeployType
  <2> QED
    BY <2>1, <2>2
<1>3. UNCHANGED <<dep, served, timer, prior>>
  BY DEF Certificates!Quiet
<1>4. DeployType'
  BY <1>2, <1>3, CallTyped DEF DeployType
<1>5. Certificates(FALSE)!AnswerTrue' /\ Certificates(FALSE)!ServesOnSuccess
  BY <1>2, <1>3 DEF Certificates!AnswerTrue, Certificates!ServesOnSuccess, begun
<1>6. litter' => excused'
  BY <1>2 DEF DeployInv, Certificates!FailureSound, Certificates!NoLitter
<1> QED
  BY <1>2, <1>4, <1>5, <1>6, CallEnds

----------------------------------------------------------------------------
(* renew up to the first file. *)

CallStill == UNCHANGED <<dep, served, timer, prior>>

LEMMA QuietIsStill ==
    ASSUME NEW docker \in BOOLEAN, Certificates(docker)!Quiet
    PROVE  CallStill /\ src' = src
  BY DEF Certificates!Quiet, CallStill

\* The call goes on where everything is still as it was.
LEMMA MovesBefore ==
    ASSUME DeployInv, call.pc \in Before \ {"put_cert", "stage", "old_key", "old_cert"}, CallStill, MarksStill,
           src' \in Pairs, staged' = staged, broken' \in 0 .. MaxBroken, me' \in [{"helper"} -> Calls],
           call'.pc \in Before \ {"put_cert", "stage", "old_key"}
    PROVE  DeployGood
<1>1. DeployType'
  BY CallTyped DEF DeployType, CallStill, MarksStill
<1>2. FilesKnown' /\ ServedKnown' /\ StagedKnown'
  BY DEF DeployInv, FilesKnown, ServedKnown, StagedKnown, CallStill, begun, fresh
<1> QED
  BY <1>1, <1>2, CallMoves

LEMMA StartsAsItWas ==
    ASSUME DeployInv, call.pc \in Before
    PROVE  dep = begun.dep /\ served = begun.served
  BY DEF DeployInv, FilesKnown, ServedKnown

LEMMA RenewStep ==
    ASSUME DeployInv, NEW docker \in BOOLEAN, Certificates(docker)!Renew
    PROVE  DeployGood
<1>1. /\ call.pc = "idle" /\ UNCHANGED <<src, dep, served, timer, staged, broken, litter, excused>>
      /\ me' = [me EXCEPT !["helper"].pc = "check"]
      /\ outcome' = [outcome EXCEPT !["helper"] = "none"]
      /\ prior' = [prior EXCEPT !["helper"] = [dep |-> dep, served |-> served, unseen |-> {}]]
  BY DEF Certificates!Renew, Certificates!Start, Certificates!At, call
<1>2. /\ me' \in [{"helper"} -> Calls] /\ call'.pc = "check"
      /\ outcome' \in [{"helper"} -> Certificates(FALSE)!Answers] /\ outcome'["helper"] = "none"
      /\ prior' \in [{"helper"} -> [dep : Pairs, served : Gens, unseen : SUBSET {"cert", "key"}]]
      /\ begun' = [dep |-> dep, served |-> served, unseen |-> {}]
  BY <1>1, CallTyped DEF DeployType, call, begun, Calls, Certificates!Answers, Certificates!Positions
<1>3. DeployType'
  BY <1>1, <1>2, CallTyped DEF DeployType
<1>4. Certificates(FALSE)!TypeOK'
  BY <1>3 DEF DeployType, Certificates!TypeOK, Certificates!Pairs, Pairs, Gens, Calls
<1>5. FilesKnown' /\ ServedKnown' /\ StagedKnown'
  BY <1>1, <1>2 DEF DeployInv, FilesKnown, ServedKnown, StagedKnown, fresh
<1>6. Certificates(FALSE)!AnswerTrue' /\ Certificates(FALSE)!ServesOnSuccess
  BY <1>2 DEF Certificates!AnswerTrue, Certificates!ServesOnSuccess
<1>7. Certificates(FALSE)!ReloadsWhole' /\ Certificates(FALSE)!NoLitter'
  BY <1>1, <1>2 DEF DeployInv, Certificates!FailureSound, Certificates!ReloadsWhole,
     Certificates!NoLitter, call
<1> QED
  BY <1>2, <1>4, <1>5, <1>6, <1>7 DEF DeployGood, DeployInv, Certificates!FailureSound

LEMMA CheckBeforeStep ==
    ASSUME DeployInv, NEW docker \in BOOLEAN, Certificates(docker)!CheckBefore
    PROVE  DeployGood
<1>1. call.pc = "check" /\ CallStill /\ src' = src /\ broken' \in 0 .. MaxBroken
  BY QuietIsStill, BrokenCounted DEF Certificates!CheckBefore, Certificates!At, call
<1>2. CASE /\ me' = [me EXCEPT !["helper"].pc = "certbot", !["helper"].was = src.cert]
           /\ UNCHANGED <<outcome, litter, excused, staged>>
  <2>1. me' \in [{"helper"} -> Calls] /\ call'.pc = "certbot"
    BY <1>2, CallTyped DEF DeployType, Pairs, Calls, call, Certificates!Positions
  <2> QED
    BY <1>1, <1>2, <2>1, MovesBefore, CallTyped DEF DeployType, MarksStill
<1>3. CASE Certificates(docker)!Answer("helper", "refused", {})
  BY <1>1, <1>3, StartsAsItWas, Refuses, CallTyped DEF DeployType, CallStill
<1> QED
  BY <1>2, <1>3 DEF Certificates!CheckBefore

LEMMA RunCertbotStep ==
    ASSUME DeployInv, NEW docker \in BOOLEAN, Certificates(docker)!RunCertbot
    PROVE  DeployGood
<1>1. call.pc = "certbot" /\ CallStill /\ broken' \in 0 .. MaxBroken
  BY BrokenCounted DEF Certificates!RunCertbot, Certificates!At, call, CallStill
<1>2. src' \in Pairs
  <2>1. src \in Pairs /\ src.cert \in Gens
    BY CallTyped DEF DeployType, Pairs
  <2>2. ASSUME src.cert < MaxGen, src' = Certificates(FALSE)!Pair(src.cert + 1, src.cert + 1) PROVE src' \in Pairs
    <3>1. src.cert + 1 \in Gens
      BY <2>1, <2>2, CertBoundsHold DEF Gens
    <3> QED
      BY <2>2, <3>1, PairTyped
  <2>3. src' = src \/ (src.cert < MaxGen /\ src' = Certificates(FALSE)!Pair(src.cert + 1, src.cert + 1))
    BY DEF Certificates!RunCertbot, Certificates!Pair
  <2> QED
    BY <2>1, <2>2, <2>3
<1>3. CASE Certificates(docker)!Goto("helper", "after") /\ UNCHANGED staged
  BY <1>1, <1>2, <1>3, CallGoes, MovesBefore DEF Certificates!Positions
<1>4. CASE Certificates(docker)!Answer("helper", "refused", {})
  BY <1>1, <1>2, <1>4, StartsAsItWas, Refuses DEF CallStill
<1> QED
  BY <1>3, <1>4 DEF Certificates!RunCertbot

LEMMA CheckAfterStep ==
    ASSUME DeployInv, NEW docker \in BOOLEAN, Certificates(docker)!CheckAfter
    PROVE  DeployGood
<1>1. call.pc = "after" /\ CallStill /\ src' = src /\ broken' \in 0 .. MaxBroken /\ src' \in Pairs
  BY QuietIsStill, BrokenCounted, CallTyped DEF Certificates!CheckAfter, Certificates!At, call,
     DeployType
<1>2. CASE Certificates(docker)!Goto("helper", "sync") /\ UNCHANGED staged
  BY <1>1, <1>2, CallGoes, MovesBefore DEF Certificates!Positions
<1>3. CASE Certificates(docker)!Answer("helper", "refused", {})
  BY <1>1, <1>3, StartsAsItWas, Refuses DEF CallStill
<1> QED
  BY <1>2, <1>3 DEF Certificates!CheckAfter

LEMMA CompareStep ==
    ASSUME DeployInv, NEW docker \in BOOLEAN,
           Certificates(docker)!CompareDeployed \/ Certificates(docker)!ContainerStatusFails
    PROVE  DeployGood
<1>1. call.pc = "sync" /\ CallStill /\ src' = src /\ broken' \in 0 .. MaxBroken /\ src' \in Pairs
  BY QuietIsStill, BrokenCounted, CallTyped DEF Certificates!CompareDeployed,
     Certificates!ContainerStatusFails, Certificates!At,
     call, DeployType
<1>2. CASE \E pc \in {"reload_only", "read_cert"} : Certificates(docker)!Goto("helper", pc) /\ UNCHANGED staged
  BY <1>1, <1>2, CallGoes, MovesBefore DEF Certificates!Positions
<1>3. CASE Certificates(docker)!Answer("helper", "refused", {})
  BY <1>1, <1>3, StartsAsItWas, Refuses DEF CallStill
<1> QED
  BY <1>2, <1>3 DEF Certificates!CompareDeployed, Certificates!ContainerStatusFails

LEMMA ReadCertStep ==
    ASSUME DeployInv, NEW docker \in BOOLEAN, Certificates(docker)!ReadCert("helper")
    PROVE  DeployGood
<1>1. /\ call.pc = "read_cert" /\ CallStill /\ src' = src /\ src' \in Pairs /\ MarksStill /\ UNCHANGED <<staged, broken>>
      /\ me' = [me EXCEPT !["helper"].pc = "read_key", !["helper"].want.cert = src.cert]
  BY QuietIsStill, CallTyped DEF Certificates!ReadCert, Certificates!At, call, DeployType, MarksStill
<1>2. [call.want EXCEPT !.cert = src.cert] \in Pairs
  BY CallTyped DEF DeployType, Pairs
<1>3. me' \in [{"helper"} -> Calls] /\ call'.pc = "read_key"
  BY <1>1, <1>2, CallTyped DEF DeployType, Calls, call, Certificates!Positions
<1> QED
  BY <1>1, <1>3, MovesBefore, CallTyped DEF DeployType

LEMMA ReadKeyStep ==
    ASSUME DeployInv, NEW docker \in BOOLEAN, Certificates(docker)!ReadKey("helper")
    PROVE  DeployGood
<1>1. /\ call.pc = "read_key" /\ CallStill /\ src' = src /\ src' \in Pairs /\ broken' \in 0 .. MaxBroken
  BY QuietIsStill, CallTyped DEF Certificates!ReadKey, Certificates!At, call, DeployType
<1>2. DEFINE want == Certificates(FALSE)!Pair(call.want.cert, src.key)
<1>3. CASE /\ me' = [me EXCEPT !["helper"].pc = "old_cert", !["helper"].want = want]
           /\ UNCHANGED <<outcome, staged, litter, excused>>
  <2>1. call.want.cert \in Gens /\ src.key \in Gens
    BY CallTyped DEF DeployType, Pairs
  <2>2. want \in Pairs
    BY <2>1, PairTyped
  <2> HIDE DEF want
  <2>3. me' \in [{"helper"} -> Calls] /\ call'.pc = "old_cert"
    BY <1>3, <2>2, CallTyped DEF DeployType, Calls, call, Certificates!Positions
  <2> QED
    BY <1>1, <1>3, <2>3, MovesBefore DEF MarksStill
<1>4. CASE Certificates(docker)!Answer("helper", "refused", {})
  BY <1>1, <1>4, StartsAsItWas, Refuses DEF CallStill
<1> QED
  BY <1>3, <1>4 DEF Certificates!ReadKey, Certificates!Pair, call

\* A prior file is read as it is, or taken for missing and noted as unseen.
LEMMA OldReadStep ==
    ASSUME DeployInv, NEW docker \in BOOLEAN,
           Certificates(docker)!OldCert("helper") \/ Certificates(docker)!OldKey("helper")
    PROVE  DeployGood
<1>1. UNCHANGED <<src, dep, served, timer>> /\ src' \in Pairs /\ call.pc \in {"old_cert", "old_key"}
  BY CallTyped DEF Certificates!OldCert, Certificates!OldKey, Certificates!OldRead,
     Certificates!At, call, DeployType
<1>2. broken' \in 0 .. MaxBroken
  <2>1. CASE Certificates(docker)!Works \/ Certificates(docker)!Fails(1)
    BY <2>1, BrokenCounted
  <2>2. CASE broken < MaxBroken /\ broken' = broken + 1
    BY <2>2, CallTyped, CertBoundsHold DEF DeployType
  <2> QED
    BY <2>1, <2>2 DEF Certificates!OldCert, Certificates!OldKey, Certificates!OldRead
<1>3. CASE Certificates(docker)!Answer("helper", "refused", {}) /\ prior' = prior
  BY <1>1, <1>2, <1>3, StartsAsItWas, Refuses
<1> DEFINE Reads(kind) ==
      \/ prior' = prior /\ call'.old[kind] = dep[kind]
      \/ prior' = [prior EXCEPT !["helper"].unseen = @ \cup {kind}] /\ call'.old[kind] = 0
<1>4. ASSUME NEW kind \in {"cert", "key"}, Reads(kind)
      PROVE  /\ prior' \in [{"helper"} -> [dep : Pairs, served : Gens, unseen : SUBSET {"cert", "key"}]]
             /\ begun'.dep = begun.dep /\ begun'.served = begun.served
             /\ \/ begun'.unseen = begun.unseen /\ call'.old[kind] = dep[kind]
                \/ begun'.unseen = begun.unseen \cup {kind} /\ call'.old[kind] = 0
  BY <1>4, CallTyped DEF DeployType, begun
<1>5. CASE /\ call.pc = "old_cert" /\ UNCHANGED <<outcome, staged, litter, excused>>
           /\ \E g \in {dep["cert"], 0} :
                 me' = [me EXCEPT !["helper"].pc = "old_key", !["helper"].old["cert"] = g]
           /\ Reads("cert")
  <2>1. PICK g \in {dep["cert"], 0} :
          me' = [me EXCEPT !["helper"].pc = "old_key", !["helper"].old["cert"] = g]
    BY <1>5
  <2>2. [call.old EXCEPT !["cert"] = g] \in Pairs
    BY CallTyped, CertBoundsHold DEF DeployType, Pairs, Gens
  <2>3. me' \in [{"helper"} -> Calls] /\ call'.pc = "old_key"
    BY <2>1, <2>2, CallTyped DEF DeployType, Calls, Pairs, call, Certificates!Positions
  <2>4. DeployType'
    BY <1>1, <1>2, <1>4, <1>5, <2>3, CallTyped DEF DeployType
  <2>5. FilesKnown' /\ ServedKnown' /\ StagedKnown'
    BY <1>1, <1>4, <1>5, <2>3 DEF DeployInv, FilesKnown, ServedKnown, StagedKnown, fresh
  <2> QED
    BY <1>5, <2>3, <2>4, <2>5, CallMoves DEF MarksStill
<1>6. CASE /\ call.pc = "old_key" /\ UNCHANGED <<outcome, staged, litter, excused>>
           /\ \E pc \in {"stage", "put_cert"}, g \in {dep["key"], 0} :
                 me' = [me EXCEPT !["helper"].pc = pc, !["helper"].old["key"] = g]
           /\ Reads("key")
  <2>1. PICK pc \in {"stage", "put_cert"}, g \in {dep["key"], 0} :
          me' = [me EXCEPT !["helper"].pc = pc, !["helper"].old["key"] = g]
    BY <1>6
  <2>2. [call.old EXCEPT !["key"] = g] \in Pairs /\ pc \in Certificates(FALSE)!Positions
    BY CallTyped, CertBoundsHold DEF DeployType, Pairs, Gens, Certificates!Positions
  <2>3. me' \in [{"helper"} -> Calls] /\ call'.pc = pc /\ call'.old.cert = call.old.cert
    BY <2>1, <2>2, CallTyped DEF DeployType, Calls, Pairs, call
  <2>4. DeployType'
    BY <1>1, <1>2, <1>4, <1>6, <2>3, CallTyped DEF DeployType
  <2>5. FilesKnown' /\ ServedKnown' /\ StagedKnown'
    BY <1>1, <1>4, <1>6, <2>3 DEF DeployInv, FilesKnown, ServedKnown, StagedKnown, fresh, NewFiles
  <2> QED
    BY <1>6, <2>3, <2>4, <2>5, CallMoves DEF MarksStill
<1>7. ASSUME NEW pc, NEW next, NEW kind \in {"cert", "key"}, pc # next,
             Certificates(docker)!OldRead("helper", pc, kind, next),
             ~(Certificates(docker)!Answer("helper", "refused", {}) /\ prior' = prior)
      PROVE  /\ call.pc = pc /\ UNCHANGED <<outcome, staged, litter, excused>> /\ Reads(kind)
             /\ \E g \in {dep[kind], 0} :
                   me' = [me EXCEPT !["helper"].pc = next, !["helper"].old[kind] = g]
  BY <1>7, CallTyped DEF Certificates!OldRead, Certificates!At, call, DeployType, Calls, Pairs
<1>8. ASSUME Certificates(docker)!OldCert("helper"),
             ~(Certificates(docker)!Answer("helper", "refused", {}) /\ prior' = prior)
      PROVE  DeployGood
  BY <1>5, <1>7, <1>8 DEF Certificates!OldCert
<1>9. ASSUME Certificates(docker)!OldKey("helper"),
             ~(Certificates(docker)!Answer("helper", "refused", {}) /\ prior' = prior)
      PROVE  DeployGood
  BY <1>6, <1>7, <1>9 DEF Certificates!OldKey
<1> QED
  BY <1>3, <1>8, <1>9

----------------------------------------------------------------------------
(* The files are put in place, and Maddy is asked to load them. *)

\* A call that says its rollback failed, or was killed, claims nothing.
LEMMA GivesUp ==
    ASSUME DeployInv, NEW docker \in BOOLEAN, NEW answer \in {"rollback_failed", "reload_failed", "differs"}, NEW left,
           Certificates(docker)!Answer("helper", answer, left), broken' \in 0 .. MaxBroken,
           src' = src, timer' = timer, prior' = prior, dep' \in Pairs, served' \in Gens,
           answer = "reload_failed" => dep' = begun.dep, answer # "rollback_failed" => left = {}
    PROVE  DeployGood
<1>1. answer \in Certificates(FALSE)!Answers
  BY DEF Certificates!Answers
<1>2. /\ me' \in [{"helper"} -> Calls] /\ call'.pc = "idle"
      /\ outcome' \in [{"helper"} -> Certificates(FALSE)!Answers] /\ outcome'["helper"] = answer
      /\ staged' \in [{"helper"} -> SUBSET ({"new", "old"} \X {"cert", "key"})] /\ fresh' = {}
      /\ litter' = (litter \/ left # {}) /\ excused' = (excused \/ answer = "rollback_failed")
  BY <1>1, CallAnswers
<1>3. litter' \in BOOLEAN /\ excused' \in BOOLEAN /\ (litter' => excused')
  BY <1>2, CallTyped DEF DeployType, DeployInv, Certificates!FailureSound, Certificates!NoLitter
<1>4. DeployType'
  BY <1>2, <1>3, CallTyped DEF DeployType
<1>5. Certificates(FALSE)!AnswerTrue' /\ Certificates(FALSE)!ServesOnSuccess
  BY <1>2 DEF Certificates!AnswerTrue, Certificates!ServesOnSuccess, begun
<1> QED
  BY <1>2, <1>3, <1>4, <1>5, CallEnds

LEMMA ReloadTyped ==
    ASSUME DeployInv, NEW docker \in BOOLEAN, Certificates(docker)!Reloaded \/ served' = served
    PROVE  served' \in Gens
  BY CallTyped DEF DeployType, Pairs, Certificates!Reloaded

LEMMA ReloadOnlyStep ==
    ASSUME DeployInv, NEW docker \in BOOLEAN, Certificates(docker)!ReloadOnly
    PROVE  DeployGood
<1>1. call.pc = "reload_only" /\ UNCHANGED <<src, dep, timer, prior>> /\ broken' \in 0 .. MaxBroken
  BY BrokenCounted DEF Certificates!ReloadOnly, Certificates!Reload, Certificates!At, call
<1>2. served' \in Gens
  BY ReloadTyped DEF Certificates!ReloadOnly, Certificates!Reload
<1>3. CASE Certificates(docker)!Reloaded /\ Certificates(docker)!Goto("helper", "final") /\ UNCHANGED staged
  <2>1. MarksStill /\ me' \in [{"helper"} -> Calls] /\ call'.pc = "final"
    BY <1>3, CallGoes DEF Certificates!Positions
  <2>2. DeployType'
    BY <1>1, <1>2, <1>3, <2>1, CallTyped DEF DeployType, MarksStill
  <2>3. FilesKnown' /\ ServedKnown' /\ StagedKnown'
    BY <1>1, <1>3, <2>1 DEF DeployInv, FilesKnown, ServedKnown, StagedKnown, Certificates!Reloaded,
       fresh
  <2> QED
    BY <1>1, <2>1, <2>2, <2>3, CallMoves
<1>4. CASE Certificates(docker)!Answer("helper", "reload_failed", {})
  BY <1>1, <1>2, <1>4, StartsAsItWas, GivesUp, CallTyped DEF DeployType
<1> QED
  BY <1>3, <1>4 DEF Certificates!ReloadOnly, Certificates!Reload

LEMMA StageStep ==
    ASSUME DeployInv, NEW docker \in BOOLEAN, Certificates(docker)!Stage("helper")
    PROVE  DeployGood
<1>1. call.pc = "stage" /\ CallStill /\ src' = src /\ broken' \in 0 .. MaxBroken
  BY QuietIsStill, BrokenCounted DEF Certificates!Stage, Certificates!At, call
<1>2. /\ staged' \in [{"helper"} -> SUBSET ({"new", "old"} \X {"cert", "key"})]
      /\ fresh' \subseteq NewFiles
  <2>1. fresh = {} /\ staged \in [{"helper"} -> SUBSET ({"new", "old"} \X {"cert", "key"})]
    BY <1>1, CallTyped DEF DeployInv, StagedKnown, DeployType
  <2>2. \/ staged' = staged
        \/ \E S \in SUBSET {"cert", "key"} : staged' = [staged EXCEPT !["helper"] = {"new"} \X S]
    BY DEF Certificates!Stage
  <2>3. CASE staged' = staged
    BY <2>1, <2>3 DEF fresh
  <2>4. ASSUME NEW S \in SUBSET {"cert", "key"}, staged' = [staged EXCEPT !["helper"] = {"new"} \X S]
        PROVE  /\ staged' \in [{"helper"} -> SUBSET ({"new", "old"} \X {"cert", "key"})]
               /\ fresh' \subseteq NewFiles
    <3>1. {"new"} \X S \subseteq {"new"} \X {"cert", "key"}
      OBVIOUS
    <3>2. {"new"} \X S \subseteq {"new", "old"} \X {"cert", "key"}
      OBVIOUS
    <3> QED
      BY <2>1, <2>4, <3>1, <3>2 DEF fresh, NewFiles
  <2> QED
    BY <2>2, <2>3, <2>4
<1>3. CASE Certificates(docker)!Goto("helper", "put_cert")
  <2>1. MarksStill /\ me' \in [{"helper"} -> Calls] /\ call'.pc = "put_cert" /\ call'.old = call.old
    BY <1>3, CallGoes DEF Certificates!Positions
  <2>2. DeployType'
    BY <1>1, <1>2, <2>1, CallTyped DEF DeployType, MarksStill, CallStill
  <2>3. FilesKnown' /\ ServedKnown' /\ StagedKnown'
    BY <1>1, <1>2, <2>1 DEF DeployInv, FilesKnown, ServedKnown, StagedKnown, CallStill, begun
  <2> QED
    BY <1>1, <2>1, <2>2, <2>3, CallMoves
<1>4. CASE Certificates(docker)!StepBack("helper", FALSE)
  <2>1. /\ MarksStill /\ me' \in [{"helper"} -> Calls] /\ call'.old = call.old /\ ~call'.late
        /\ call'.pc \in {"undo_stage", "undo_cert"}
    BY <1>4, CallStepsBack
  <2>2. DeployType'
    BY <1>1, <1>2, <2>1, CallTyped DEF DeployType, MarksStill, CallStill
  <2>3. FilesKnown' /\ ServedKnown' /\ StagedKnown'
    BY <1>1, <1>2, <2>1 DEF DeployInv, FilesKnown, ServedKnown, StagedKnown, CallStill, begun
  <2> QED
    BY <1>1, <2>1, <2>2, <2>3, CallMoves
<1> QED
  BY <1>3, <1>4 DEF Certificates!Stage

\* A file is in place, or the way back begins, with the file in place or not.
LEMMA PutStep ==
    ASSUME DeployInv, NEW docker \in BOOLEAN,
           Certificates(docker)!PutCert("helper") \/ Certificates(docker)!PutKey("helper")
    PROVE  DeployGood
<1>1. /\ call.pc \in {"put_cert", "put_key"} /\ UNCHANGED <<src, served, timer, prior>>
      /\ dep' \in {dep, [dep EXCEPT !["cert"] = call.want["cert"]], [dep EXCEPT !["key"] = call.want["key"]]}
  BY DEF Certificates!PutCert, Certificates!PutKey, Certificates!Put, Certificates!At, call
<1>2. dep' \in Pairs
  BY <1>1, CallTyped DEF DeployType, Pairs
<1>3. broken' \in 0 .. MaxBroken
  <2>1. Certificates(docker)!Works \/ Certificates(docker)!Fails(1) \/ Certificates(docker)!Fails(1 + 1)
    BY DEF Certificates!PutCert, Certificates!PutKey, Certificates!Put, Certificates!CleanUp
  <2> QED
    BY <2>1, BrokenCounted
<1>4. CASE Certificates(docker)!StepBack("helper", FALSE) /\ \E n \in Nat : Certificates(docker)!CleanUp("helper", "new", n)
  <2>1. /\ MarksStill /\ me' \in [{"helper"} -> Calls] /\ call'.old = call.old /\ ~call'.late
        /\ call'.pc \in {"undo_stage", "undo_cert"}
    BY <1>4, CallStepsBack
  <2>2. staged' = staged \/ staged' = [staged EXCEPT !["helper"] = {f \in @ : f[1] # "new"}]
    BY <1>4 DEF Certificates!CleanUp
  <2>3. staged' \in [{"helper"} -> SUBSET ({"new", "old"} \X {"cert", "key"})] /\ fresh' \subseteq fresh
    BY <2>2, CallTyped DEF DeployType, fresh
  <2>4. DeployType'
    BY <1>1, <1>2, <1>3, <2>1, <2>3, CallTyped DEF DeployType, MarksStill
  <2>5. fresh \subseteq NewFiles
    BY <1>1 DEF DeployInv, StagedKnown, NewFiles
  <2>6. FilesKnown' /\ ServedKnown' /\ StagedKnown'
    BY <1>1, <2>1, <2>3, <2>5 DEF DeployInv, FilesKnown, ServedKnown, StagedKnown, begun
  <2> QED
    BY <1>1, <2>1, <2>4, <2>6, CallMoves
<1>5. CASE /\ call.pc = "put_cert" /\ Certificates(docker)!Goto("helper", "put_key")
           /\ staged' = [staged EXCEPT !["helper"] = @ \ {<<"new", "cert">>}]
  <2>1. MarksStill /\ me' \in [{"helper"} -> Calls] /\ call'.pc = "put_key" /\ call'.old = call.old
    BY <1>5, CallGoes DEF Certificates!Positions
  <2>2. /\ staged' \in [{"helper"} -> SUBSET ({"new", "old"} \X {"cert", "key"})]
        /\ fresh' = fresh \ {<<"new", "cert">>}
    BY <1>5, CallTyped DEF DeployType, fresh
  <2>3. fresh' \subseteq {<<"new", "key">>}
    BY <1>5, <2>2 DEF DeployInv, StagedKnown, NewFiles
  <2>4. DeployType'
    BY <1>1, <1>2, <1>3, <2>1, <2>2, CallTyped DEF DeployType, MarksStill
  <2>5. FilesKnown' /\ ServedKnown' /\ StagedKnown'
    BY <1>1, <1>5, <2>1, <2>3 DEF DeployInv, FilesKnown, ServedKnown, StagedKnown, begun
  <2> QED
    BY <1>1, <2>1, <2>4, <2>5, CallMoves
<1>6. CASE /\ call.pc = "put_key" /\ Certificates(docker)!Goto("helper", "verify")
           /\ staged' = [staged EXCEPT !["helper"] = @ \ {<<"new", "key">>}]
  <2>1. MarksStill /\ me' \in [{"helper"} -> Calls] /\ call'.pc = "verify" /\ call'.old = call.old
    BY <1>6, CallGoes DEF Certificates!Positions
  <2>2. /\ staged' \in [{"helper"} -> SUBSET ({"new", "old"} \X {"cert", "key"})]
        /\ fresh' = fresh \ {<<"new", "key">>}
    BY <1>6, CallTyped DEF DeployType, fresh
  <2>3. fresh' = {}
    BY <1>6, <2>2 DEF DeployInv, StagedKnown
  <2>4. DeployType'
    BY <1>1, <1>2, <1>3, <2>1, <2>2, CallTyped DEF DeployType, MarksStill
  <2>5. FilesKnown' /\ ServedKnown' /\ StagedKnown'
    BY <1>1, <1>6, <2>1, <2>3 DEF DeployInv, FilesKnown, ServedKnown, StagedKnown, begun
  <2> QED
    BY <1>1, <2>1, <2>4, <2>5, CallMoves
<1> QED
  BY <1>4, <1>5, <1>6 DEF Certificates!PutCert, Certificates!PutKey, Certificates!Put,
     Certificates!At, call

\* The files are looked at, and the call goes on or back.
LEMMA LookStep ==
    ASSUME DeployInv, NEW docker \in BOOLEAN,
           Certificates(docker)!Verify("helper") \/ Certificates(docker)!Confirm("helper")
    PROVE  DeployGood
<1>1. call.pc \in {"verify", "confirm"} /\ CallStill /\ src' = src /\ broken' \in 0 .. MaxBroken /\ staged' = staged
  BY QuietIsStill, BrokenCounted DEF Certificates!Verify, Certificates!Confirm, Certificates!At, call
<1>2. CASE \E late \in BOOLEAN : Certificates(docker)!StepBack("helper", late)
  <2>1. /\ MarksStill /\ me' \in [{"helper"} -> Calls] /\ call'.old = call.old
        /\ call'.pc \in {"undo_stage", "undo_cert"}
    BY <1>2, CallStepsBack
  <2>2. DeployType'
    BY <1>1, <2>1, CallTyped DEF DeployType, MarksStill, CallStill
  <2>3. FilesKnown' /\ ServedKnown' /\ StagedKnown'
    BY <1>1, <2>1 DEF DeployInv, FilesKnown, ServedKnown, StagedKnown, CallStill, begun, fresh
  <2> QED
    BY <1>1, <2>1, <2>2, <2>3, CallMoves
<1>3. CASE \/ Certificates(docker)!Goto("helper", "confirm")
           \/ Certificates(docker)!FingerprintsMatch /\ Certificates(docker)!Goto("helper", "reload")
  <2>1. /\ MarksStill /\ me' \in [{"helper"} -> Calls] /\ call'.old = call.old
        /\ call'.pc \in {"confirm", "reload"} /\ (call'.pc = "reload" => Certificates(docker)!FingerprintsMatch)
    BY <1>3, CallGoes DEF Certificates!Positions
  <2>2. DeployType'
    BY <1>1, <2>1, CallTyped DEF DeployType, MarksStill, CallStill
  <2>3. FilesKnown' /\ ServedKnown' /\ StagedKnown'
    BY <1>1, <2>1 DEF DeployInv, FilesKnown, ServedKnown, StagedKnown, CallStill, begun, fresh,
       Certificates!FingerprintsMatch
  <2> QED
    BY <1>1, <2>1, <2>2, <2>3, CallMoves
<1> QED
  BY <1>2, <1>3 DEF Certificates!Verify, Certificates!Confirm

LEMMA ReloadNewStep ==
    ASSUME DeployInv, NEW docker \in BOOLEAN, Certificates(docker)!ReloadNew("helper")
    PROVE  DeployGood
<1>1. call.pc = "reload" /\ UNCHANGED <<src, dep, timer, prior>> /\ broken' \in 0 .. MaxBroken /\ staged' = staged
  BY BrokenCounted DEF Certificates!ReloadNew, Certificates!Reload, Certificates!At, call
<1>2. served' \in Gens
  BY ReloadTyped DEF Certificates!ReloadNew, Certificates!Reload
<1>3. CASE Certificates(docker)!Reloaded /\ Certificates(docker)!Goto("helper", "final")
  <2>1. MarksStill /\ me' \in [{"helper"} -> Calls] /\ call'.pc = "final"
    BY <1>3, CallGoes DEF Certificates!Positions
  <2>2. DeployType'
    BY <1>1, <1>2, <2>1, CallTyped DEF DeployType, MarksStill
  <2>3. FilesKnown' /\ ServedKnown' /\ StagedKnown'
    BY <1>1, <1>3, <2>1 DEF DeployInv, FilesKnown, ServedKnown, StagedKnown, Certificates!Reloaded,
       fresh
  <2> QED
    BY <1>1, <2>1, <2>2, <2>3, CallMoves
<1>4. CASE Certificates(docker)!StepBack("helper", TRUE)
  <2>1. /\ MarksStill /\ me' \in [{"helper"} -> Calls] /\ call'.old = call.old /\ call'.late
        /\ call'.pc \in {"undo_stage", "undo_cert"}
    BY <1>4, CallStepsBack
  <2>2. DeployType'
    BY <1>1, <1>2, <2>1, CallTyped DEF DeployType, MarksStill
  <2>3. FilesKnown' /\ ServedKnown' /\ StagedKnown'
    BY <1>1, <2>1 DEF DeployInv, FilesKnown, ServedKnown, StagedKnown, begun, fresh
  <2> QED
    BY <1>1, <2>1, <2>2, <2>3, CallMoves
<1> QED
  BY <1>3, <1>4 DEF Certificates!ReloadNew, Certificates!Reload

LEMMA FinalStep ==
    ASSUME DeployInv, NEW docker \in BOOLEAN, Certificates(docker)!Final("helper")
    PROVE  DeployGood
<1>1. call.pc = "final" /\ CallStill /\ src' = src /\ broken' \in 0 .. MaxBroken
  BY QuietIsStill, BrokenCounted DEF Certificates!Final, Certificates!At, call
<1>2. fresh = {} /\ (dep.cert # 0 /\ dep.cert = dep.key => served = dep.cert)
  BY <1>1 DEF DeployInv, StagedKnown, ServedKnown
<1>3. CASE Certificates(docker)!Answer("helper", "differs", {})
  BY <1>1, <1>3, GivesUp, CallTyped DEF DeployType, CallStill
<1>4. CASE Certificates(docker)!FingerprintsMatch /\ Certificates(docker)!Answer("helper", "ok", {})
  <2>1. "ok" \in Certificates(FALSE)!Answers
    BY DEF Certificates!Answers
  <2>2. /\ me' \in [{"helper"} -> Calls] /\ call'.pc = "idle"
        /\ outcome' \in [{"helper"} -> Certificates(FALSE)!Answers] /\ outcome'["helper"] = "ok"
        /\ staged' \in [{"helper"} -> SUBSET ({"new", "old"} \X {"cert", "key"})] /\ fresh' = {}
        /\ litter' = (litter \/ {} # {}) /\ excused' = (excused \/ "ok" = "rollback_failed")
    BY <1>4, <2>1, CallAnswers
  <2>3. litter' \in BOOLEAN /\ excused' \in BOOLEAN /\ (litter' => excused')
    BY <2>2, CallTyped DEF DeployType, DeployInv, Certificates!FailureSound, Certificates!NoLitter
  <2>4. DeployType'
    BY <1>1, <2>2, <2>3, CallTyped DEF DeployType, CallStill
  <2>5. Certificates(FALSE)!AnswerTrue' /\ Certificates(FALSE)!ServesOnSuccess
    BY <1>2, <1>4, <2>2 DEF Certificates!AnswerTrue, Certificates!ServesOnSuccess,
       Certificates!FingerprintsMatch
  <2> QED
    BY <2>2, <2>3, <2>4, <2>5, CallEnds
<1>5. staged["helper"] = {}
  BY <1>2 DEF fresh
<1> QED
  BY <1>3, <1>4, <1>5 DEF Certificates!Final
----------------------------------------------------------------------------
(* The prior files are put back. *)

\* The way back ends with the files that were read.
LEMMA Restores ==
    ASSUME DeployInv, NEW docker \in BOOLEAN, NEW answer \in {"restored", "restored_reloaded"}, NEW left,
           Certificates(docker)!Answer("helper", answer, left), left = {}, broken' \in 0 .. MaxBroken,
           UNCHANGED <<src, dep, timer, prior>>, served' \in Gens,
           dep.cert = Given("cert"), dep.key = Given("key"),
           answer = "restored" => served' = begun.served,
           answer = "restored_reloaded" => (dep.cert # 0 /\ dep.cert = dep.key => served' = dep.cert)
    PROVE  DeployGood
<1>1. answer \in Certificates(FALSE)!Answers
  BY DEF Certificates!Answers
<1>2. /\ me' \in [{"helper"} -> Calls] /\ call'.pc = "idle"
      /\ outcome' \in [{"helper"} -> Certificates(FALSE)!Answers] /\ outcome'["helper"] = answer
      /\ staged' \in [{"helper"} -> SUBSET ({"new", "old"} \X {"cert", "key"})] /\ fresh' = {}
      /\ litter' = (litter \/ left # {}) /\ excused' = (excused \/ answer = "rollback_failed")
  BY <1>1, CallAnswers
<1>3. litter' \in BOOLEAN /\ excused' \in BOOLEAN /\ (litter' => excused')
  BY <1>2, CallTyped DEF DeployType, DeployInv, Certificates!FailureSound, Certificates!NoLitter
<1>4. DeployType'
  BY <1>2, <1>3, CallTyped DEF DeployType
<1>5. dep' = Certificates(FALSE)!AsRead("helper")'
  <2>1. dep \in Pairs /\ begun.dep \in Pairs
    BY CallTyped DEF DeployType, begun
  <2>2. dep = [k \in {"cert", "key"} |-> IF k \in begun.unseen THEN 0 ELSE begun.dep[k]]
    BY <2>1, PairAsRead
  <2> QED
    BY <2>2 DEF Certificates!AsRead, begun
<1>6. Certificates(FALSE)!AnswerTrue' /\ Certificates(FALSE)!ServesOnSuccess
  BY <1>2, <1>5 DEF Certificates!AnswerTrue, Certificates!ServesOnSuccess, begun
<1> QED
  BY <1>2, <1>3, <1>4, <1>6, CallEnds

LEMMA UndoStageStep ==
    ASSUME DeployInv, NEW docker \in BOOLEAN, Certificates(docker)!UndoStage("helper")
    PROVE  DeployGood
<1>1. call.pc = "undo_stage" /\ CallStill /\ src' = src /\ broken' \in 0 .. MaxBroken
  BY QuietIsStill, BrokenCounted DEF Certificates!UndoStage, Certificates!At, call
<1>2. CASE \E left : Certificates(docker)!Answer("helper", "rollback_failed", left)
  BY <1>1, <1>2, GivesUp, CallTyped DEF DeployType, CallStill
<1>3. CASE /\ Certificates(docker)!Goto("helper", "undo_cert")
           /\ staged' = [staged EXCEPT !["helper"] = @ \cup
                           {<<"old", k>> : k \in {j \in {"cert", "key"} : call.old[j] # 0}}]
  <2>1. /\ MarksStill /\ me' \in [{"helper"} -> Calls] /\ call'.pc = "undo_cert"
        /\ call'.old = call.old /\ call'.late = call.late
    BY <1>3, CallGoes DEF Certificates!Positions
  <2>2. DEFINE again == {<<"old", k>> : k \in {j \in {"cert", "key"} : call.old[j] # 0}}
  <2>3. again \subseteq {"new", "old"} \X {"cert", "key"} /\ again \cap NewFiles = {}
    BY DEF NewFiles
  <2> HIDE DEF again
  <2>4. /\ staged' \in [{"helper"} -> SUBSET ({"new", "old"} \X {"cert", "key"})]
        /\ fresh' = fresh \cup again
    BY <1>3, <2>3, CallTyped DEF DeployType, fresh, again
  <2>5. call.late => fresh' \cap NewFiles = {}
    BY <1>1, <2>3, <2>4 DEF DeployInv, StagedKnown
  <2>6. DeployType'
    BY <1>1, <2>1, <2>4, CallTyped DEF DeployType, MarksStill, CallStill
  <2>7. FilesKnown' /\ ServedKnown' /\ StagedKnown'
    BY <1>1, <2>1, <2>5 DEF DeployInv, FilesKnown, ServedKnown, StagedKnown, CallStill, begun
  <2> QED
    BY <1>1, <2>1, <2>6, <2>7, CallMoves
<1> QED
  BY <1>2, <1>3 DEF Certificates!UndoStage, call

LEMMA UndoFileStep ==
    ASSUME DeployInv, NEW docker \in BOOLEAN,
           Certificates(docker)!UndoCert("helper") \/ Certificates(docker)!UndoKey("helper")
    PROVE  DeployGood
<1>1. /\ call.pc \in {"undo_cert", "undo_key"} /\ UNCHANGED <<src, served, timer, prior>>
      /\ broken' \in 0 .. MaxBroken
      /\ dep' \in {dep, [dep EXCEPT !["cert"] = call.old["cert"]], [dep EXCEPT !["key"] = call.old["key"]]}
  BY BrokenCounted DEF Certificates!UndoCert, Certificates!UndoKey, Certificates!Undo,
     Certificates!At, call
<1>2. dep' \in Pairs
  BY <1>1, CallTyped DEF DeployType, Pairs
<1>3. CASE \E left : Certificates(docker)!Answer("helper", "rollback_failed", left)
  BY <1>1, <1>2, <1>3, GivesUp, CallTyped DEF DeployType
<1>4. CASE /\ call.pc = "undo_cert" /\ Certificates(docker)!Goto("helper", "undo_key")
           /\ staged' = [staged EXCEPT !["helper"] = @ \ {<<"old", "cert">>}]
  <2>1. /\ MarksStill /\ me' \in [{"helper"} -> Calls] /\ call'.pc = "undo_key"
        /\ call'.old = call.old /\ call'.late = call.late
    BY <1>4, CallGoes DEF Certificates!Positions
  <2>2. fresh \subseteq {"new", "old"} \X {"cert", "key"}
    BY CallTyped DEF DeployType, fresh
  <2>3. /\ staged' \in [{"helper"} -> SUBSET ({"new", "old"} \X {"cert", "key"})]
        /\ fresh' = fresh \ {<<"old", "cert">>}
    BY <1>4, CallTyped DEF DeployType, fresh
  <2>4. /\ fresh' \subseteq NewFiles \cup {<<"old", "key">>}
        /\ call.late => fresh' \cap NewFiles = {}
    BY <1>4, <2>2, <2>3 DEF DeployInv, StagedKnown, NewFiles
  <2>5. DeployType'
    BY <1>1, <1>2, <2>1, <2>3, CallTyped DEF DeployType, MarksStill
  <2>6. FilesKnown' /\ ServedKnown' /\ StagedKnown'
    BY <1>1, <1>4, <2>1, <2>4 DEF DeployInv, FilesKnown, ServedKnown, StagedKnown, begun
  <2> QED
    BY <1>1, <2>1, <2>5, <2>6, CallMoves
<1>5. CASE /\ call.pc = "undo_key" /\ Certificates(docker)!Goto("helper", "undo_verify")
           /\ staged' = [staged EXCEPT !["helper"] = @ \ {<<"old", "key">>}]
  <2>1. /\ MarksStill /\ me' \in [{"helper"} -> Calls] /\ call'.pc = "undo_verify"
        /\ call'.old = call.old /\ call'.late = call.late
    BY <1>5, CallGoes DEF Certificates!Positions
  <2>2. fresh \subseteq NewFiles \cup {<<"old", "key">>}
    BY <1>5 DEF DeployInv, StagedKnown
  <2>3. /\ staged' \in [{"helper"} -> SUBSET ({"new", "old"} \X {"cert", "key"})]
        /\ fresh' = fresh \ {<<"old", "key">>}
    BY <1>5, CallTyped DEF DeployType, fresh
  <2>4. /\ fresh' \subseteq NewFiles
        /\ call.late => fresh' \cap NewFiles = {}
    BY <1>5, <2>2, <2>3 DEF DeployInv, StagedKnown
  <2>5. DeployType'
    BY <1>1, <1>2, <2>1, <2>3, CallTyped DEF DeployType, MarksStill
  <2>6. FilesKnown' /\ ServedKnown' /\ StagedKnown'
    BY <1>1, <1>5, <2>1, <2>4 DEF DeployInv, FilesKnown, ServedKnown, StagedKnown, begun
  <2> QED
    BY <1>1, <2>1, <2>5, <2>6, CallMoves
<1> QED
  BY <1>3, <1>4, <1>5 DEF Certificates!UndoCert, Certificates!UndoKey, Certificates!Undo,
     Certificates!At, call

LEMMA UndoVerifyStep ==
    ASSUME DeployInv, NEW docker \in BOOLEAN, Certificates(docker)!UndoVerify("helper")
    PROVE  DeployGood
<1>1. call.pc = "undo_verify" /\ CallStill /\ src' = src /\ broken' \in 0 .. MaxBroken
  BY QuietIsStill, BrokenCounted DEF Certificates!UndoVerify, Certificates!At, call
<1>2. CASE \E left : Certificates(docker)!Answer("helper", "rollback_failed", left)
  BY <1>1, <1>2, GivesUp, CallTyped DEF DeployType, CallStill
<1>3. CASE /\ dep = call.old /\ UNCHANGED staged
           /\ Certificates(docker)!Goto("helper", IF call.late THEN "reload_old" ELSE "clean_up")
  <2>1. /\ MarksStill /\ me' \in [{"helper"} -> Calls]
        /\ call'.pc = IF call.late THEN "reload_old" ELSE "clean_up"
    BY <1>3, CallGoes DEF Certificates!Positions
  <2>2. dep.cert = Given("cert") /\ dep.key = Given("key")
    BY <1>1, <1>3 DEF DeployInv, FilesKnown
  <2>3. DeployType'
    BY <1>1, <1>3, <2>1, CallTyped DEF DeployType, MarksStill, CallStill
  <2>4. call.late => fresh = {}
    BY <1>1 DEF DeployInv, StagedKnown
  <2>5. call.late \in BOOLEAN
    BY CallTyped DEF Calls
  <2>6. FilesKnown' /\ ServedKnown' /\ StagedKnown'
    BY <1>1, <1>3, <2>1, <2>2, <2>4, <2>5 DEF DeployInv, FilesKnown, ServedKnown, StagedKnown,
       CallStill, begun, fresh
  <2> QED
    BY <1>1, <2>1, <2>3, <2>6, CallMoves
<1> QED
  BY <1>2, <1>3 DEF Certificates!UndoVerify, call

LEMMA FinishUndoStep ==
    ASSUME DeployInv, NEW docker \in BOOLEAN, Certificates(docker)!FinishUndo("helper")
    PROVE  DeployGood
<1>1. call.pc = "clean_up" /\ CallStill /\ src' = src /\ broken' \in 0 .. MaxBroken
  BY QuietIsStill, BrokenCounted DEF Certificates!FinishUndo, Certificates!At, call
<1>2. CASE \E left : Certificates(docker)!Answer("helper", "rollback_failed", left)
  BY <1>1, <1>2, GivesUp, CallTyped DEF DeployType, CallStill
<1>3. CASE Certificates(docker)!Answer("helper", "restored", {f \in staged["helper"] : f[1] # "new"})
  <2>1. {f \in staged["helper"] : f[1] # "new"} = {}
    BY <1>1 DEF DeployInv, StagedKnown, fresh, NewFiles
  <2>2. dep.cert = Given("cert") /\ dep.key = Given("key") /\ served = begun.served
    BY <1>1 DEF DeployInv, FilesKnown, ServedKnown
  <2> QED
    BY <1>1, <1>3, <2>1, <2>2, Restores, CallTyped DEF DeployType, CallStill
<1> QED
  BY <1>2, <1>3 DEF Certificates!FinishUndo

LEMMA ReloadOldStep ==
    ASSUME DeployInv, NEW docker \in BOOLEAN, Certificates(docker)!ReloadOld("helper")
    PROVE  DeployGood
<1>1. call.pc = "reload_old" /\ UNCHANGED <<src, dep, timer, prior>> /\ broken' \in 0 .. MaxBroken
  BY BrokenCounted DEF Certificates!ReloadOld, Certificates!Reload, Certificates!At, call
<1>2. served' \in Gens /\ dep.cert = Given("cert") /\ dep.key = Given("key") /\ staged["helper"] = {}
  BY <1>1, ReloadTyped DEF Certificates!ReloadOld, Certificates!Reload, DeployInv, FilesKnown,
     StagedKnown, fresh
<1>3. CASE \E left : Certificates(docker)!Answer("helper", "rollback_failed", left)
  BY <1>1, <1>2, <1>3, GivesUp, CallTyped DEF DeployType
<1>4. CASE Certificates(docker)!Reloaded /\ Certificates(docker)!Answer("helper", "restored_reloaded", staged["helper"])
  <2>1. dep.cert # 0 /\ dep.cert = dep.key => served' = dep.cert
    BY <1>4 DEF Certificates!Reloaded
  <2> QED
    BY <1>1, <1>2, <1>4, <2>1, Restores
<1> QED
  BY <1>3, <1>4 DEF Certificates!ReloadOld, Certificates!Reload

----------------------------------------------------------------------------
(* The process is killed, and what happens outside it. *)

LEMMA DeployKilledStep ==
    ASSUME DeployInv, NEW docker \in BOOLEAN, Certificates(docker)!Crash("helper")
    PROVE  DeployGood
<1>1. CallStill /\ src' = src /\ broken' \in 0 .. MaxBroken /\ excused'
  BY QuietIsStill, CallTyped, CertBoundsHold DEF Certificates!Crash, DeployType
<1>2. Certificates(docker)!Idle \in Calls /\ Certificates(docker)!Idle.pc = "idle"
  BY CertBoundsHold DEF Certificates!Idle, Certificates!Pair, Certificates!Positions, Calls, Pairs, Gens
<1>3. /\ me' \in [{"helper"} -> Calls] /\ call'.pc = "idle"
      /\ outcome' \in [{"helper"} -> Certificates(FALSE)!Answers] /\ outcome'["helper"] = "crashed"
      /\ staged' \in [{"helper"} -> SUBSET ({"new", "old"} \X {"cert", "key"})] /\ fresh' = {}
  BY <1>2, CallTyped DEF Certificates!Crash, DeployType, call, fresh, Certificates!Answers
<1>4. litter' \in BOOLEAN /\ excused' \in BOOLEAN
  BY CallTyped DEF Certificates!Crash, DeployType
<1>5. DeployType'
  BY <1>1, <1>3, <1>4, CallTyped DEF DeployType, CallStill
<1>6. Certificates(FALSE)!AnswerTrue' /\ Certificates(FALSE)!ServesOnSuccess
  BY <1>3 DEF Certificates!AnswerTrue, Certificates!ServesOnSuccess
<1> QED
  BY <1>1, <1>3, <1>5, <1>6, CallEnds

\* Certbot and its timer touch nothing that a call relies on.
LEMMA DeployOutsideStep ==
    ASSUME DeployInv, UNCHANGED <<dep, served, me, outcome, staged, prior, litter, excused>>,
           src' \in Pairs, timer' \in BOOLEAN, broken' \in 0 .. MaxBroken
    PROVE  DeployGood
<1>1. DeployType'
  BY CallTyped DEF DeployType
<1>2. Certificates(FALSE)!TypeOK'
  BY <1>1 DEF DeployType, Certificates!TypeOK, Certificates!Pairs, Pairs, Gens, Calls
<1>3. FilesKnown' /\ ServedKnown' /\ StagedKnown'
  BY DEF DeployInv, FilesKnown, ServedKnown, StagedKnown, call, begun, fresh
<1>4. Certificates(FALSE)!AnswerTrue' /\ Certificates(FALSE)!ServesOnSuccess
  BY DEF DeployInv, Certificates!FailureSound, Certificates!AnswerTrue, Certificates!AsRead,
     Certificates!ServesOnSuccess
<1>5. Certificates(FALSE)!ReloadsWhole' /\ Certificates(FALSE)!NoLitter'
  BY DEF DeployInv, Certificates!FailureSound, Certificates!ReloadsWhole, Certificates!AsRead,
     Certificates!NoLitter
<1>6. call'.pc # "idle" => outcome'["helper"] = "none"
  BY DEF DeployInv, call
<1> QED
  BY <1>2, <1>3, <1>4, <1>5, <1>6 DEF DeployGood, DeployInv, Certificates!FailureSound

LEMMA TimerStep ==
    ASSUME DeployInv, NEW docker \in BOOLEAN,
           \/ Certificates(docker)!TimerKey \/ Certificates(docker)!TimerCert
           \/ Certificates(docker)!TimerDisable
    PROVE  DeployGood
<1>1. /\ src \in Pairs /\ src.cert \in Gens /\ src.key \in Gens /\ timer \in BOOLEAN
      /\ broken \in 0 .. MaxBroken
  BY CallTyped DEF DeployType, Pairs
<1>2. CASE Certificates(docker)!TimerKey
  <2>1. src.key + 1 \in Gens
    BY <1>1, <1>2, CertBoundsHold DEF Certificates!TimerKey, Gens
  <2>2. src' \in Pairs
    BY <1>1, <1>2, <2>1 DEF Certificates!TimerKey, Pairs
  <2> QED
    BY <1>1, <1>2, <2>2, DeployOutsideStep DEF Certificates!TimerKey
<1>3. CASE Certificates(docker)!TimerCert
  <2>1. src' \in Pairs
    BY <1>1, <1>3 DEF Certificates!TimerCert, Pairs
  <2> QED
    BY <1>1, <1>3, <2>1, DeployOutsideStep DEF Certificates!TimerCert
<1>4. CASE Certificates(docker)!TimerDisable
  BY <1>1, <1>4, BrokenCounted, DeployOutsideStep DEF Certificates!TimerDisable
<1> QED
  BY <1>2, <1>3, <1>4

----------------------------------------------------------------------------
(* The certificates' theorems. *)

LEMMA DeployInit ==
    ASSUME NEW docker \in BOOLEAN, Certificates(docker)!Init
    PROVE  DeployInv
<1>1. /\ 0 \in Gens /\ 1 \in Gens /\ 0 \in 0 .. MaxBroken
  BY CertBoundsHold DEF Gens
<1>2. /\ Certificates(docker)!Pair(0, 0) \in Pairs /\ Certificates(docker)!Pair(1, 1) \in Pairs
  BY <1>1 DEF Certificates!Pair, Pairs
<1>3. /\ Certificates(docker)!Idle \in Calls /\ Certificates(docker)!Idle.pc = "idle"
  BY <1>1, <1>2 DEF Certificates!Idle, Certificates!Positions, Calls
<1>4. /\ src \in Pairs /\ dep \in Pairs /\ served \in Gens /\ broken \in 0 .. MaxBroken
      /\ timer \in BOOLEAN /\ litter = FALSE /\ excused \in BOOLEAN
      /\ me = [p \in {"helper"} |-> Certificates(docker)!Idle]
      /\ outcome = [p \in {"helper"} |-> "none"] /\ staged = [p \in {"helper"} |-> {}]
      /\ prior = [p \in {"helper"} |-> [dep |-> dep, served |-> served, unseen |-> {}]]
  BY <1>1, <1>2 DEF Certificates!Init
<1>5. DeployType /\ call.pc = "idle" /\ fresh = {}
  BY <1>3, <1>4 DEF DeployType, call, fresh, Certificates!Answers
<1>6. Certificates(FALSE)!TypeOK
  BY <1>5, DeployTyped
<1>7. FilesKnown /\ ServedKnown /\ StagedKnown
  BY <1>5 DEF FilesKnown, ServedKnown, StagedKnown
<1>8. Certificates(FALSE)!AnswerTrue /\ Certificates(FALSE)!ReloadsWhole /\ Certificates(FALSE)!NoLitter
  BY <1>4, <1>5 DEF Certificates!AnswerTrue, Certificates!ReloadsWhole, Certificates!NoLitter, call
<1> QED
  BY <1>5, <1>6, <1>7, <1>8 DEF DeployInv, Certificates!FailureSound

LEMMA DeployNext ==
    ASSUME DeployInv, NEW docker \in BOOLEAN, Certificates(docker)!Next
    PROVE  DeployGood
<1>1. CASE \/ Certificates(docker)!TimerKey \/ Certificates(docker)!TimerCert
           \/ Certificates(docker)!TimerDisable
  BY <1>1, TimerStep
<1>2. CASE Certificates(docker)!Renew
  BY <1>2, RenewStep
<1>3. CASE Certificates(docker)!HelperStep
  BY <1>3, CheckBeforeStep, RunCertbotStep, CheckAfterStep, CompareStep,
     ReloadOnlyStep DEF Certificates!HelperStep
<1>4. CASE Certificates(docker)!DeployStep("helper")
  BY <1>4, ReadCertStep, ReadKeyStep, OldReadStep, StageStep, PutStep, LookStep, ReloadNewStep,
     FinalStep,
     UndoStageStep, UndoFileStep, UndoVerifyStep, FinishUndoStep,
     ReloadOldStep DEF Certificates!DeployStep
<1>5. CASE Certificates(docker)!Crash("helper")
  BY <1>5, DeployKilledStep
<1> QED
  BY <1>1, <1>2, <1>3, <1>4, <1>5 DEF Certificates!Next

LEMMA DeployStays ==
    ASSUME DeployInv, UNCHANGED certVars
    PROVE  DeployGood
  BY DeployOutsideStep, CallTyped DEF certVars, DeployType

\* Neither property speaks of the way files are put in place.
LEMMA DeployHolds ==
    /\ DeployInv => FailureSound
    /\ Certificates(FALSE)!ServesOnSuccess => ServedOnSuccess
<1>1. ASSUME NEW docker \in BOOLEAN
      PROVE  /\ Certificates(docker)!FailureSound <=> Certificates(FALSE)!FailureSound
             /\ Certificates(docker)!ServesOnSuccess <=> Certificates(FALSE)!ServesOnSuccess
  BY DEF Certificates!FailureSound, Certificates!ServesOnSuccess, Certificates!TypeOK,
     Certificates!Pairs,
     Certificates!Positions, Certificates!Answers, Certificates!AnswerTrue, Certificates!AsRead,
     Certificates!ReloadsWhole, Certificates!NoLitter
<1> QED
  BY <1>1 DEF DeployInv, FailureSound, ServedOnSuccess

(* Natively and in a container, whatever commands and reads fail and wherever the
   helper is killed: what renew answers of a failure is true of the files and of
   Maddy, Maddy is never asked to load a pair half replaced, and no staged key is
   left behind by a call that does not say so.  A container's file whose prior
   content could not be read is the exception: it was taken for missing, so the
   call that says the prior material was restored has removed it. *)
THEOREM FailuresAlwaysSound ==
    ASSUME NEW docker \in BOOLEAN
    PROVE  Certificates(docker)!Spec => []FailureSound
<1>1. Certificates(docker)!Init => DeployInv
  BY DeployInit
<1>2. DeployInv /\ [Certificates(docker)!Next]_(Certificates(docker)!vars) => DeployInv'
  BY DeployNext, DeployStays DEF DeployGood, certVars, Certificates!vars
<1>3. DeployInv => FailureSound
  BY DeployHolds
<1> QED
  BY <1>1, <1>2, <1>3, PTL DEF Certificates!Spec

(* A renewal that reports success leaves Maddy serving the deployed pair,
   whatever the calls before it left half done: renew reloads Maddy also where
   the files agree already. *)
THEOREM SuccessAlwaysServed ==
    ASSUME NEW docker \in BOOLEAN
    PROVE  Certificates(docker)!Spec => SuccessServed
<1>1. Certificates(docker)!Init => DeployInv
  BY DeployInit
<1>2. DeployInv /\ [Certificates(docker)!Next]_(Certificates(docker)!vars) => DeployInv'
  BY DeployNext, DeployStays DEF DeployGood, certVars, Certificates!vars
<1>3. DeployInv /\ [Certificates(docker)!Next]_(Certificates(docker)!vars)
         => [ServedOnSuccess]_certVars
  BY DeployNext, DeployHolds DEF DeployGood, certVars, Certificates!vars
<1> QED
  BY <1>1, <1>2, <1>3, PTL DEF Certificates!Spec, SuccessServed
----------------------------------------------------------------------------
(* Mail that is sent: what is known of each request that sends it, from    *)
(* where it is, where its worker is, and whether the helper has its call.  *)

Waits(r, o) == \E i \in 1 .. Len(queue) : queue[i].r = r /\ queue[i].op = o
Works(r, o) == job # None /\ job.r = r /\ job.op = o
Early(r) == Works(r, "send") /\ job.at # "terminated"

Sending(r) == Waits(r, "send") \/ Works(r, "send")
Saving(r) == Waits(r, "append") \/ Works(r, "append") \/ worker[r].op = "append"
Taken(r) == maddy[r] \in {"accepted", "accepted_part"}
Untouched(r) == ~Sending(r) /\ ~Saving(r) /\ maddy[r] = "nothing"

\* Maddy has not accepted the mail, and nobody will hand it over any more.
Dead(r) == ~Sending(r) /\ maddy[r] \in {"nothing", "refused"}

MayResend == Submit("docker")!MayResend
Active(r) == attempt[r].at # "new" /\ attempt[r].told \notin MayResend
Returned(r, o) == worker[r].op = o /\ worker[r].at = "back"

\* Where a request is says what its worker does; before the delivery nothing
\* of its mail has left.
PlaceKnown(r) ==
    /\ attempt[r].at \in {"new", "reading"} => worker[r].op = None /\ Untouched(r) /\ r \notin mailfile
    /\ attempt[r].at = "preparing" => worker[r].op = "prepare"
    /\ attempt[r].at = "delivering" => worker[r].op = "send"
    /\ attempt[r].at = "saving" => worker[r].op = "append"
    /\ attempt[r].at # "over" => attempt[r].told = None

\* What a worker knows of the call it has made.
WorkerKnown(r) ==
    /\ worker[r].op = "prepare" => Untouched(r) /\ r \notin mailfile
    /\ worker[r].op = "send" => ~Saving(r)
    /\ worker[r].op = "send" /\ worker[r].at = "starting" => Untouched(r)
    /\ Returned(r, "send") /\ worker[r].result = "ok" => Taken(r)
    /\ Returned(r, "append") /\ worker[r].result = "ok" => r \in sent

\* Maddy learns of a mail during its one call, and a copy is saved only after.
MaddyKnown(r) ==
    /\ Waits(r, "send") \/ Early(r) => maddy[r] = "nothing"
    /\ Saving(r) \/ r \in sent => Taken(r)

\* The user is told of what has happened.
ToldKnown(r) ==
    /\ attempt[r].told \in MayResend => worker[r].op = None
    /\ attempt[r].told \in {"delivered", "delivered_and_saved"} => Taken(r)
    /\ attempt[r].told = "delivered_and_saved" => r \in sent

\* The files of a request that is over are gone, or known to be left.
LeftKnown(r) ==
    /\ attempt[r].at = "new" => r \notin uploads
    /\ attempt[r].at = "over" /\ r \notin leaked => r \notin uploads /\ r \notin mailfile
    /\ attempt[r].at = "over" /\ worker[r].op = "prepare" => r \in leaked

\* What only holds where the pipe to a container tells a failure from a doubt.
PipeKnown(r) ==
    /\ maddy[r] \notin {"part", "accepted_part"}
    /\ attempt[r].told \in MayResend => Dead(r)
    /\ Returned(r, "send") /\ worker[r].result \notin {"ok", "smtp_outcome_unknown", "transport"} => Dead(r)

Known(mode, r) ==
    /\ PlaceKnown(r) /\ WorkerKnown(r) /\ MaddyKnown(r) /\ ToldKnown(r) /\ LeftKnown(r)
    /\ mode = "docker" => PipeKnown(r)

\* A mail is handed to the helper once.
OneSend ==
    /\ \A i, j \in 1 .. Len(queue) : queue[i].op = "send" /\ queue[j] = queue[i] => i = j
    /\ job # None /\ job.op = "send" => ~Waits(job.r, "send")

\* All requests but one are dead, or have not begun.
OneActive == \A r, q \in Attempts : Active(r) /\ Active(q) => r = q

MailInv(mode) ==
    /\ Submit("docker")!TypeOK /\ OneSend /\ OneActive
    /\ \A r \in Attempts : Known(mode, r)

----------------------------------------------------------------------------
(* A step concerns one request at most. *)

MailRequests == [at : {"new", "reading", "preparing", "delivering", "saving", "over"},
                 told : Submit("docker")!Tellings \cup {None}]
Workers == [op : Submit("docker")!Works \cup {None},
            at : {None, "running", "starting", "calling", "back"},
            result : {None, "ok", "failed", "transport", "smtp_outcome_unknown"}
                     \cup Submit("docker")!Rejections]
MailCalls == Submit("docker")!Calls
Jobs == Submit("docker")!Jobs
Fates == {"nothing", "whole", "part", "accepted", "accepted_part", "refused"}

MailType ==
    /\ attempt \in [Attempts -> MailRequests] /\ worker \in [Attempts -> Workers]
    /\ uploads \subseteq Attempts /\ mailfile \subseteq Attempts /\ sent \subseteq Attempts
    /\ leaked \subseteq Attempts
    /\ queue \in Seq(MailCalls) /\ job \in Jobs \cup {None}
    /\ maddy \in [Attempts -> Fates]

LEMMA MailTyped == Submit("docker")!TypeOK <=> MailType
  BY DEF MailType, MailRequests, Workers, MailCalls, Jobs, Fates, Submit!TypeOK

LEMMA MailTypedNext == Submit("docker")!TypeOK' <=> MailType'
  BY DEF MailType, MailRequests, Workers, MailCalls, Jobs, Fates, Submit!TypeOK

LEMMA NoneApart ==
    /\ None \notin Jobs /\ None # "prepare" /\ None # "send" /\ None # "append"
    /\ None \notin MayResend /\ None # "delivered" /\ None # "delivered_and_saved"
  BY HelperBounds DEF Submit!SubmissionAssumption, Modes, Jobs, Submit!Works, Submit!Tellings,
     MayResend, Submit!MayResend

Same(q) ==
    /\ attempt'[q] = attempt[q] /\ worker'[q] = worker[q] /\ maddy'[q] = maddy[q]
    /\ (q \in uploads' <=> q \in uploads) /\ (q \in mailfile' <=> q \in mailfile)
    /\ (q \in sent' <=> q \in sent) /\ (q \in leaked' <=> q \in leaked)
    /\ (Waits(q, "send")' <=> Waits(q, "send")) /\ (Waits(q, "append")' <=> Waits(q, "append"))
    /\ (Works(q, "send")' <=> Works(q, "send")) /\ (Works(q, "append")' <=> Works(q, "append"))
    /\ (Early(q)' <=> Early(q))

LEMMA OthersKnown ==
    ASSUME NEW mode \in Modes, NEW q \in Attempts, Known(mode, q), Same(q)
    PROVE  Known(mode, q)'
<1> USE DEF Same, Sending, Saving, Taken, Untouched, Dead, Returned
<1>1. PlaceKnown(q)' /\ WorkerKnown(q)'
  BY DEF Known, PlaceKnown, WorkerKnown
<1>2. MaddyKnown(q)' /\ ToldKnown(q)' /\ LeftKnown(q)'
  BY DEF Known, MaddyKnown, ToldKnown, LeftKnown, MayResend, Submit!MayResend
<1>3. (mode = "docker" => PipeKnown(q))'
  BY DEF Known, PipeKnown, MayResend, Submit!MayResend
<1> QED
  BY <1>1, <1>2, <1>3 DEF Known

LEMMA MailMoves ==
    ASSUME NEW mode \in Modes, MailInv(mode), NEW r \in Attempts, MailType', OneSend',
           \A q \in Attempts \ {r} : Same(q), Known(mode, r)',
           \A q \in Attempts : Active(q)' => Active(q)
    PROVE  MailInv(mode)'
<1>1. \A q \in Attempts : Known(mode, q)'
  BY OthersKnown DEF MailInv
<1>2. OneActive'
  BY DEF MailInv, OneActive
<1> QED
  BY <1>1, <1>2, MailTypedNext DEF MailInv

----------------------------------------------------------------------------
(* The queue at the helper. *)

LEMMA CallQueued ==
    ASSUME queue \in Seq(MailCalls), NEW e \in MailCalls, queue' = Append(queue, e),
           OneSend, job' = job, job # None => job \in Jobs,
           e.op = "send" => ~Waits(e.r, "send") /\ ~Works(e.r, "send")
    PROVE  /\ queue' \in Seq(MailCalls) /\ OneSend'
           /\ \A q, o : Waits(q, o)' <=> Waits(q, o) \/ (e.r = q /\ e.op = o)
<1>1. /\ queue' \in Seq(MailCalls) /\ Len(queue') = Len(queue) + 1 /\ Len(queue) \in Nat
      /\ \A i \in 1 .. Len(queue) : queue'[i] = queue[i] /\ queue[i] \in MailCalls
      /\ queue'[Len(queue) + 1] = e
  OBVIOUS
<1>2. \A q, o : Waits(q, o)' <=> Waits(q, o) \/ (e.r = q /\ e.op = o)
  BY <1>1 DEF Waits
<1>3. \A i, j \in 1 .. Len(queue') : queue'[i].op = "send" /\ queue'[j] = queue'[i] => i = j
  <2> SUFFICES ASSUME NEW i \in 1 .. Len(queue'), NEW j \in 1 .. Len(queue'),
                      queue'[i].op = "send", queue'[j] = queue'[i]
               PROVE  i = j
    OBVIOUS
  <2>1. CASE i \in 1 .. Len(queue) /\ j \in 1 .. Len(queue)
    BY <1>1, <2>1 DEF OneSend
  <2>2. CASE i = Len(queue) + 1 /\ j \in 1 .. Len(queue)
    BY <1>1, <2>2 DEF Waits
  <2>3. CASE j = Len(queue) + 1 /\ i \in 1 .. Len(queue)
    BY <1>1, <2>3 DEF Waits
  <2> QED
    BY <1>1, <2>1, <2>2, <2>3
<1>4. (job # None /\ job.op = "send" => ~Waits(job.r, "send"))'
  BY <1>1, <1>2 DEF OneSend, Works, Waits
<1> QED
  BY <1>1, <1>2, <1>3, <1>4 DEF OneSend

LEMMA CallTaken ==
    ASSUME queue \in Seq(MailCalls), queue # << >>, queue' = Tail(queue), OneSend
    PROVE  /\ queue' \in Seq(MailCalls) /\ Head(queue) \in MailCalls
           /\ \A i, j \in 1 .. Len(queue') : queue'[i].op = "send" /\ queue'[j] = queue'[i] => i = j
           /\ \A q, o : Waits(q, o) <=> Waits(q, o)' \/ (Head(queue).r = q /\ Head(queue).op = o)
           /\ \A r : Head(queue).op = "send" /\ Head(queue).r = r => ~Waits(r, "send")'
<1>1. /\ queue' \in Seq(MailCalls) /\ Len(queue) \in Nat \ {0} /\ Len(queue') = Len(queue) - 1
      /\ Head(queue) = queue[1] /\ Head(queue) \in MailCalls
      /\ \A i \in 1 .. Len(queue') : queue'[i] = queue[i + 1]
      /\ \A i \in 1 .. Len(queue) : queue[i] \in MailCalls
  BY EmptySeq, HeadTailProperties, ElementOfSeq
<1>2. \A i, j \in 1 .. Len(queue') : queue'[i].op = "send" /\ queue'[j] = queue'[i] => i = j
  BY <1>1 DEF OneSend
<1>3. \A q, o : Waits(q, o) <=> Waits(q, o)' \/ (Head(queue).r = q /\ Head(queue).op = o)
  <2> TAKE q, o
  <2>1. ASSUME Waits(q, o) PROVE Waits(q, o)' \/ (Head(queue).r = q /\ Head(queue).op = o)
    <3>1. PICK i \in 1 .. Len(queue) : queue[i].r = q /\ queue[i].op = o
      BY <2>1 DEF Waits
    <3>2. CASE i = 1
      BY <1>1, <3>1, <3>2
    <3>3. CASE i # 1
      <4>1. i - 1 \in 1 .. Len(queue') /\ queue'[i - 1] = queue[i]
        BY <1>1, <3>3
      <4> QED
        BY <3>1, <4>1 DEF Waits
    <3> QED
      BY <3>2, <3>3
  <2>2. ASSUME Waits(q, o)' PROVE Waits(q, o)
    BY <1>1, <2>2 DEF Waits
  <2>3. ASSUME Head(queue).r = q, Head(queue).op = o PROVE Waits(q, o)
    BY <1>1, <2>3 DEF Waits
  <2> QED
    BY <2>1, <2>2, <2>3
<1>4. ASSUME NEW r, Head(queue).op = "send", Head(queue).r = r, Waits(r, "send")' PROVE FALSE
  <2>1. PICK i \in 1 .. Len(queue') : queue'[i].r = r /\ queue'[i].op = "send"
    BY <1>4 DEF Waits
  <2>2. queue[i + 1] = queue[1]
    BY <1>1, <1>4, <2>1 DEF MailCalls, Submit!Calls
  <2> QED
    BY <1>1, <1>4, <2>2 DEF OneSend
<1> QED
  BY <1>1, <1>2, <1>3, <1>4

----------------------------------------------------------------------------
(* Steps of the web process. *)

USE DEF Sending, Saving, Taken, Untouched, Dead, Returned

\* The web process changes what belongs to one request.
WebOnly(r, a, w) ==
    /\ UNCHANGED <<queue, job, maddy, sent>>
    /\ attempt' = [attempt EXCEPT ![r] = a] /\ worker' = [worker EXCEPT ![r] = w]
    /\ uploads' \in SUBSET Attempts /\ mailfile' \in SUBSET Attempts /\ leaked' \in SUBSET Attempts
    /\ \A q \in Attempts \ {r} :
          /\ (q \in uploads' <=> q \in uploads) /\ (q \in mailfile' <=> q \in mailfile)
          /\ (q \in leaked' <=> q \in leaked)

LEMMA WebOnlyView ==
    ASSUME NEW mode \in Modes, MailInv(mode), NEW r \in Attempts,
           NEW a \in MailRequests, NEW w \in Workers, WebOnly(r, a, w)
    PROVE  /\ MailType' /\ OneSend' /\ \A q \in Attempts \ {r} : Same(q)
           /\ attempt'[r] = a /\ worker'[r] = w
           /\ maddy'[r] = maddy[r] /\ (r \in sent' <=> r \in sent)
           /\ \A q, o : (Waits(q, o)' <=> Waits(q, o)) /\ (Works(q, o)' <=> Works(q, o))
           /\ \A q : Early(q)' <=> Early(q)
<1>1. MailType
  BY MailTyped DEF MailInv
<1>2. MailType' /\ attempt'[r] = a /\ worker'[r] = w
  BY <1>1 DEF MailType, WebOnly
<1>3. /\ \A q, o : (Waits(q, o)' <=> Waits(q, o)) /\ (Works(q, o)' <=> Works(q, o))
      /\ \A q : Early(q)' <=> Early(q)
  BY DEF WebOnly, Waits, Works, Early
<1>4. OneSend'
  BY DEF MailInv, OneSend, Waits, WebOnly
<1>5. \A q \in Attempts \ {r} : Same(q)
  BY <1>1, <1>3 DEF Same, WebOnly, MailType
<1> QED
  BY <1>2, <1>3, <1>4, <1>5 DEF WebOnly

\* The request goes on or ends.
LEMMA WebMoves ==
    ASSUME NEW mode \in Modes, MailInv(mode), NEW r \in Attempts,
           NEW a \in MailRequests, NEW w \in Workers, WebOnly(r, a, w),
           attempt[r].at \in {"new", "over"} => a = attempt[r], Known(mode, r)'
    PROVE  MailInv(mode)'
<1>1. MailType
  BY MailTyped DEF MailInv
<1>2. ASSUME NEW q \in Attempts, Active(q)' PROVE Active(q)
  <2>1. CASE q = r
    <3>1. attempt[r].at # "over" => attempt[r].told = None
      BY DEF MailInv, Known, PlaceKnown
    <3>2. None \notin MayResend
      BY NoneApart
    <3> QED
      BY <1>1, <1>2, <2>1, <3>1, <3>2 DEF Active, WebOnly, MailType
  <2>2. CASE q # r
    BY <1>1, <1>2, <2>2 DEF Active, WebOnly, MailType
  <2> QED
    BY <2>1, <2>2
<1> QED
  BY <1>2, WebOnlyView, MailMoves

LEMMA SendStep ==
    ASSUME NEW mode \in Modes, MailInv(mode), NEW r \in Attempts, Submit(mode)!Send(r)
    PROVE  MailInv(mode)'
<1>1. MailType /\ Known(mode, r)
  BY MailTyped DEF MailInv
<1>2. DEFINE a == [attempt[r] EXCEPT !.at = "reading"]
<1>3. a \in MailRequests /\ a.at = "reading" /\ a.told = attempt[r].told /\ worker[r] \in Workers
  BY <1>1 DEF MailType, MailRequests
<1> HIDE DEF a
<1>4. attempt[r].at = "new" /\ WebOnly(r, a, worker[r])
  BY <1>1 DEF a, WebOnly, MailType, Submit!Send, Submit!At, Submit!files
<1>5. Known(mode, r)'
  <2>1. /\ attempt'[r] = a /\ worker'[r] = worker[r] /\ maddy'[r] = maddy[r] /\ (r \in sent' <=> r \in sent)
        /\ \A q, o : (Waits(q, o)' <=> Waits(q, o)) /\ (Works(q, o)' <=> Works(q, o))
        /\ \A q : Early(q)' <=> Early(q)
    BY <1>3, <1>4, WebOnlyView
  <2>2. UNCHANGED <<mailfile, leaked, uploads>>
    BY DEF Submit!Send, Submit!files
  <2> QED
    BY <1>1, <1>3, <1>4, <2>1, <2>2, NoneApart DEF Known, PlaceKnown, WorkerKnown, MaddyKnown,
       ToldKnown, LeftKnown, PipeKnown,
       MayResend, Submit!MayResend
<1>6. MailType' /\ OneSend' /\ \A q \in Attempts \ {r} : Same(q)
  BY <1>3, <1>4, WebOnlyView
<1>7. OneActive'
  <2>1. \A q \in Attempts \ {r} : ~Active(q)
    BY DEF Submit!Send, Active, MayResend, Submit!MayResend
  <2>2. \A q \in Attempts \ {r} : ~Active(q)'
    BY <1>6, <2>1 DEF Active, Same
  <2> QED
    BY <2>2 DEF OneActive
<1>8. \A q \in Attempts : Known(mode, q)'
  BY <1>5, <1>6, OthersKnown DEF MailInv
<1> QED
  BY <1>6, <1>7, <1>8, MailTypedNext DEF MailInv

LEMMA SpoolStep ==
    ASSUME NEW mode \in Modes, MailInv(mode), NEW r \in Attempts, Submit(mode)!SpoolPart(r)
    PROVE  MailInv(mode)'
<1>1. MailType /\ Known(mode, r)
  BY MailTyped DEF MailInv
<1>2. /\ attempt[r] \in MailRequests /\ worker[r] \in Workers /\ attempt[r].at = "reading"
      /\ WebOnly(r, attempt[r], worker[r]) /\ UNCHANGED <<mailfile, leaked>>
  BY <1>1 DEF WebOnly, MailType, Submit!SpoolPart, Submit!At
<1>3. /\ attempt'[r] = attempt[r] /\ worker'[r] = worker[r] /\ maddy'[r] = maddy[r] /\ (r \in sent' <=> r \in sent)
      /\ \A q, o : (Waits(q, o)' <=> Waits(q, o)) /\ (Works(q, o)' <=> Works(q, o))
      /\ \A q : Early(q)' <=> Early(q)
  BY <1>2, WebOnlyView
<1>4. Known(mode, r)'
  BY <1>1, <1>2, <1>3, NoneApart DEF Known, PlaceKnown, WorkerKnown, MaddyKnown, ToldKnown,
     LeftKnown, PipeKnown,
     MayResend, Submit!MayResend
<1> QED
  BY <1>2, <1>4, WebMoves

\* A request that ends removes its files; what becomes of its worker differs.
LEMMA RequestEnds ==
    ASSUME NEW mode \in Modes, MailInv(mode), NEW r \in Attempts, NEW w \in Workers,
           NEW answer \in Submit("docker")!Tellings,
           Submit(mode)!Ended(r, answer), worker' = [worker EXCEPT ![r] = w],
           UNCHANGED <<queue, job, maddy, sent>>, leaked' \in {leaked, leaked \cup {r}},
           attempt[r].at \in {"reading", "preparing", "delivering", "saving"},
           w = worker[r] \/ w.op = None,
           w.op = "prepare" => r \in leaked',
           answer \in MayResend => w.op = None,
           mode = "docker" /\ answer \in MayResend => Dead(r),
           answer \in {"delivered", "delivered_and_saved"} => Taken(r),
           answer = "delivered_and_saved" => r \in sent
    PROVE  MailInv(mode)'
<1>1. MailType /\ Known(mode, r)
  BY MailTyped DEF MailInv
<1>2. DEFINE a == [at |-> "over", told |-> answer]
<1>3. a \in MailRequests /\ a.at = "over" /\ a.told = answer
  BY DEF MailRequests
<1> HIDE DEF a
<1>4. WebOnly(r, a, w) /\ r \notin uploads' /\ r \notin mailfile'
  BY <1>1 DEF a, WebOnly, MailType, Submit!Ended
<1>5. /\ attempt'[r] = a /\ worker'[r] = w /\ maddy'[r] = maddy[r] /\ (r \in sent' <=> r \in sent)
      /\ \A q, o : (Waits(q, o)' <=> Waits(q, o)) /\ (Works(q, o)' <=> Works(q, o))
      /\ \A q : Early(q)' <=> Early(q)
  BY <1>3, <1>4, WebOnlyView
<1>6. PlaceKnown(r)' /\ WorkerKnown(r)' /\ MaddyKnown(r)'
  BY <1>1, <1>3, <1>4, <1>5, NoneApart DEF Known, PlaceKnown, WorkerKnown, MaddyKnown
<1>7. ToldKnown(r)' /\ LeftKnown(r)'
  BY <1>3, <1>4, <1>5 DEF ToldKnown, LeftKnown, MayResend, Submit!MayResend
<1>8. (mode = "docker" => PipeKnown(r))'
  BY <1>1, <1>3, <1>5, NoneApart DEF Known, PipeKnown, MayResend, Submit!MayResend
<1>9. Known(mode, r)'
  BY <1>6, <1>7, <1>8 DEF Known
<1> QED
  BY <1>3, <1>4, <1>9, WebMoves

LEMMA RefusedStep ==
    ASSUME NEW mode \in Modes, MailInv(mode), NEW r \in Attempts, Submit(mode)!RequestRefused(r)
    PROVE  MailInv(mode)'
<1>1. MailType /\ Known(mode, r) /\ attempt[r].at = "reading"
  BY MailTyped DEF MailInv, Submit!RequestRefused, Submit!At
<1>2. worker[r].op = None /\ worker[r] \in Workers /\ worker' = [worker EXCEPT ![r] = worker[r]] /\ Dead(r)
  BY <1>1 DEF Known, PlaceKnown, MailType, Submit!RequestRefused
<1> QED
  BY <1>1, <1>2, RequestEnds, NoneApart DEF Submit!RequestRefused, Submit!Tellings

LEMMA CancelledStep ==
    ASSUME NEW mode \in Modes, MailInv(mode), NEW r \in Attempts, Submit(mode)!Cancelled(r)
    PROVE  MailInv(mode)'
<1>1. MailType /\ Known(mode, r)
  BY MailTyped DEF MailInv
<1>2. worker[r] \in Workers /\ worker' = [worker EXCEPT ![r] = worker[r]]
  BY <1>1 DEF MailType, Submit!Cancelled
<1>3. "cancelled" \notin MayResend
  BY DEF MayResend, Submit!MayResend
<1>4. worker[r].op = "prepare" => r \in leaked'
  BY <1>1, NoneApart DEF Known, PlaceKnown, Submit!Cancelled, Submit!At
<1> QED
  BY <1>2, <1>3, <1>4, RequestEnds DEF Submit!Cancelled, Submit!Tellings

LEMMA IdleWorker ==
    ASSUME NEW mode \in Modes
    PROVE  Submit(mode)!Idle \in Workers /\ Submit(mode)!Idle.op = None
  BY DEF Submit!Idle, Workers, Submit!Works

LEMMA PreparingStep ==
    ASSUME NEW mode \in Modes, MailInv(mode), NEW r \in Attempts, Submit(mode)!StartPreparing(r)
    PROVE  MailInv(mode)'
<1>1. MailType /\ Known(mode, r)
  BY MailTyped DEF MailInv
<1>2. DEFINE a == [attempt[r] EXCEPT !.at = "preparing"]
             w == [op |-> "prepare", at |-> "running", result |-> None]
<1>3. /\ a \in MailRequests /\ a.at = "preparing" /\ a.told = attempt[r].told
      /\ w \in Workers /\ w.op = "prepare"
  BY <1>1 DEF MailType, MailRequests, Workers, Submit!Works
<1> HIDE DEF a, w
<1>4. attempt[r].at = "reading" /\ WebOnly(r, a, w) /\ UNCHANGED <<mailfile, leaked, uploads>>
  BY <1>1 DEF a, w, WebOnly, MailType, Submit!StartPreparing, Submit!At, Submit!files
<1>5. /\ attempt'[r] = a /\ worker'[r] = w /\ maddy'[r] = maddy[r] /\ (r \in sent' <=> r \in sent)
      /\ \A q, o : (Waits(q, o)' <=> Waits(q, o)) /\ (Works(q, o)' <=> Works(q, o))
      /\ \A q : Early(q)' <=> Early(q)
  BY <1>3, <1>4, WebOnlyView
<1>6. Known(mode, r)'
  BY <1>1, <1>3, <1>4, <1>5, NoneApart DEF Known, PlaceKnown, WorkerKnown, MaddyKnown, ToldKnown,
     LeftKnown, PipeKnown,
     MayResend, Submit!MayResend
<1> QED
  BY <1>3, <1>4, <1>6, WebMoves

LEMMA PreparedStep ==
    ASSUME NEW mode \in Modes, MailInv(mode), NEW r \in Attempts, NEW ok \in BOOLEAN, Submit(mode)!PrepareEnds(r, ok)
    PROVE  MailInv(mode)'
<1>1. MailType /\ Known(mode, r) /\ worker[r].op = "prepare" /\ UNCHANGED <<queue, job, maddy, sent, leaked>>
  BY MailTyped DEF MailInv, Submit!PrepareEnds
<1>2. Untouched(r) /\ Dead(r)
  BY <1>1 DEF Known, WorkerKnown
<1>3. CASE attempt[r].at = "preparing" /\ ok
  <2>1. DEFINE a == [attempt[r] EXCEPT !.at = "delivering"]
               w == [op |-> "send", at |-> "starting", result |-> None]
  <2>2. /\ a \in MailRequests /\ a.at = "delivering" /\ a.told = attempt[r].told
        /\ w \in Workers /\ w.op = "send" /\ w.at = "starting"
    BY <1>1 DEF MailType, MailRequests, Workers, Submit!Works
  <2> HIDE DEF a, w
  <2>3. WebOnly(r, a, w) /\ UNCHANGED <<leaked, uploads>>
    BY <1>1, <1>3 DEF a, w, WebOnly, MailType, Submit!PrepareEnds, Submit!At
  <2>4. /\ attempt'[r] = a /\ worker'[r] = w /\ maddy'[r] = maddy[r] /\ (r \in sent' <=> r \in sent)
        /\ \A q, o : (Waits(q, o)' <=> Waits(q, o)) /\ (Works(q, o)' <=> Works(q, o))
        /\ \A q : Early(q)' <=> Early(q)
    BY <2>2, <2>3, WebOnlyView
  <2>5. Known(mode, r)'
    BY <1>1, <1>2, <1>3, <2>2, <2>3, <2>4, NoneApart DEF Known, PlaceKnown, WorkerKnown,
       MaddyKnown, ToldKnown, LeftKnown,
       PipeKnown, MayResend, Submit!MayResend
  <2> QED
    BY <1>3, <2>2, <2>3, <2>5, WebMoves
<1>4. CASE attempt[r].at = "preparing" /\ ~ok
  <2>1. Submit(mode)!Ended(r, "invalid_message") /\ worker' = [worker EXCEPT ![r] = Submit(mode)!Idle]
    BY <1>4 DEF Submit!PrepareEnds, Submit!At
  <2> QED
    BY <1>1, <1>2, <1>4, <2>1, RequestEnds, IdleWorker, NoneApart DEF Submit!Tellings
<1>5. CASE attempt[r].at # "preparing"
  <2>1. /\ attempt[r].at = "over" /\ r \in leaked /\ attempt[r] \in MailRequests
    BY <1>1, <1>5, NoneApart DEF Known, PlaceKnown, LeftKnown, MailType, MailRequests
  <2>2. WebOnly(r, attempt[r], Submit(mode)!Idle) /\ UNCHANGED <<leaked, uploads>>
    BY <1>1, <1>5 DEF WebOnly, MailType, Submit!PrepareEnds, Submit!At
  <2>3. /\ attempt'[r] = attempt[r] /\ worker'[r] = Submit(mode)!Idle /\ maddy'[r] = maddy[r] /\ (r \in sent' <=> r \in sent)
        /\ \A q, o : (Waits(q, o)' <=> Waits(q, o)) /\ (Works(q, o)' <=> Works(q, o))
        /\ \A q : Early(q)' <=> Early(q)
    BY <2>1, <2>2, IdleWorker, WebOnlyView
  <2>4. Known(mode, r)'
    BY <1>1, <1>2, <2>1, <2>2, <2>3, IdleWorker, NoneApart DEF Known, PlaceKnown, WorkerKnown,
       MaddyKnown, ToldKnown, LeftKnown,
       PipeKnown, MayResend, Submit!MayResend
  <2> QED
    BY <2>1, <2>2, <2>4, IdleWorker, WebMoves
<1> QED
  BY <1>3, <1>4, <1>5

----------------------------------------------------------------------------
(* Calls of the helper. *)

\* A call that breaks is over for the worker and nothing else.
LEMMA WorkerBroken ==
    ASSUME NEW mode \in Modes, MailInv(mode), NEW r \in Attempts,
           NEW a \in MailRequests, a = attempt[r], NEW w \in Workers,
           w.op = worker[r].op, w.at = "back", w.result = "transport", WebOnly(r, a, w),
           UNCHANGED <<uploads, mailfile, leaked>>
    PROVE  MailInv(mode)'
<1>1. MailType /\ Known(mode, r)
  BY MailTyped DEF MailInv
<1>2. /\ attempt'[r] = a /\ worker'[r] = w /\ maddy'[r] = maddy[r] /\ (r \in sent' <=> r \in sent)
      /\ \A q, o : (Waits(q, o)' <=> Waits(q, o)) /\ (Works(q, o)' <=> Works(q, o))
      /\ \A q : Early(q)' <=> Early(q)
  BY WebOnlyView
<1>3. Known(mode, r)'
  BY <1>1, <1>2, NoneApart DEF WebOnly, Known, PlaceKnown, WorkerKnown, MaddyKnown, ToldKnown,
     LeftKnown, PipeKnown,
     MayResend, Submit!MayResend
<1> QED
  BY <1>1, <1>3, WebMoves

LEMMA BreaksStep ==
    ASSUME NEW mode \in Modes, MailInv(mode), NEW r \in Attempts,
           worker' = [worker EXCEPT ![r].at = "back", ![r].result = "transport"],
           UNCHANGED <<attempt, uploads, mailfile, queue, job, maddy, sent, leaked>>
    PROVE  MailInv(mode)'
<1>1. MailType /\ attempt[r] \in MailRequests /\ worker[r] \in Workers
  BY MailTyped DEF MailInv, MailType
<1>2. PICK w : w = [worker[r] EXCEPT !.at = "back", !.result = "transport"]
  OBVIOUS
<1>3. w \in Workers /\ w.op = worker[r].op /\ w.at = "back" /\ w.result = "transport"
  BY <1>1, <1>2 DEF Workers
<1>4. WebOnly(r, attempt[r], w)
  BY <1>1, <1>2 DEF WebOnly, MailType
<1> QED
  BY <1>1, <1>3, <1>4, WorkerBroken

LEMMA CallStartsStep ==
    ASSUME NEW mode \in Modes, MailInv(mode), NEW r \in Attempts, Submit(mode)!CallStarts(r)
    PROVE  MailInv(mode)'
<1>1. MailType /\ Known(mode, r) /\ OneSend
  BY MailTyped DEF MailInv
<1>2. /\ worker[r].op \in {"send", "append"} /\ worker[r].at = "starting"
      /\ UNCHANGED <<attempt, uploads, mailfile, job, maddy, sent, leaked>>
  BY DEF Submit!CallStarts, Submit!files
<1>3. CASE r \notin mailfile
  BY <1>2, <1>3, BreaksStep DEF Submit!CallStarts
<1>4. CASE r \in mailfile
  <2>1. DEFINE e == [r |-> r, op |-> worker[r].op]
  <2>2. e \in MailCalls /\ e.r = r /\ e.op = worker[r].op /\ queue' = Append(queue, e)
    BY <1>2, <1>4 DEF MailCalls, Submit!Calls, Submit!CallStarts
  <2> HIDE DEF e
  <2>3. e.op = "send" => ~Waits(e.r, "send") /\ ~Works(e.r, "send")
    BY <1>1, <1>2, <2>2 DEF Known, WorkerKnown
  <2>4. queue \in Seq(MailCalls) /\ (job # None => job \in Jobs)
    BY <1>1 DEF MailType
  <2>5. /\ queue' \in Seq(MailCalls) /\ OneSend'
        /\ \A q, o : Waits(q, o)' <=> Waits(q, o) \/ (r = q /\ worker[r].op = o)
    BY <1>1, <1>2, <2>2, <2>3, <2>4, CallQueued
  <2>6. /\ worker' \in [Attempts -> Workers] /\ worker'[r].op = worker[r].op /\ worker'[r].at = "calling"
        /\ \A q \in Attempts \ {r} : worker'[q] = worker[q]
    <3>1. PICK w : w = [worker[r] EXCEPT !.at = "calling"]
      OBVIOUS
    <3>2. worker \in [Attempts -> Workers] /\ worker[r] \in Workers
      BY <1>1 DEF MailType
    <3>3. w \in Workers /\ w.op = worker[r].op /\ w.at = "calling"
      BY <3>1, <3>2 DEF Workers
    <3>4. worker' = [worker EXCEPT ![r] = w]
      BY <1>4, <3>1, <3>2 DEF Submit!CallStarts
    <3> QED
      BY <3>2, <3>3, <3>4
  <2>7. MailType'
    BY <1>1, <1>2, <2>5, <2>6 DEF MailType
  <2>8. \A q, o : Works(q, o)' <=> Works(q, o)
    BY <1>2 DEF Works
  <2>9. \A q : Early(q)' <=> Early(q)
    BY <1>2, <2>8 DEF Early
  <2>10. \A q \in Attempts \ {r} : Same(q)
    BY <1>2, <2>5, <2>6, <2>8, <2>9 DEF Same
  <2>11. Known(mode, r)'
    BY <1>1, <1>2, <2>5, <2>6, <2>8, <2>9, NoneApart DEF Known, PlaceKnown, WorkerKnown,
       MaddyKnown, ToldKnown, LeftKnown,
       PipeKnown, MayResend, Submit!MayResend
  <2>12. \A q \in Attempts : Active(q)' => Active(q)
    BY <1>2 DEF Active
  <2> QED
    BY <2>5, <2>7, <2>10, <2>11, <2>12, MailMoves
<1> QED
  BY <1>3, <1>4

LEMMA DeliverStep ==
    ASSUME NEW mode \in Modes, MailInv(mode), NEW r \in Attempts, Submit(mode)!DeliverReturns(r)
    PROVE  MailInv(mode)'
<1>1. MailType /\ Known(mode, r) /\ UNCHANGED <<queue, job, maddy, sent, leaked>>
  BY MailTyped DEF MailInv, Submit!DeliverReturns
<1>2. Returned(r, "send") /\ attempt[r] \in MailRequests
  BY <1>1 DEF Submit!DeliverReturns, MailType
<1>3. CASE attempt[r].at # "delivering"
  <2>1. /\ worker' = [worker EXCEPT ![r] = Submit(mode)!Idle] /\ UNCHANGED <<attempt, uploads, mailfile>>
    BY <1>2, <1>3, NoneApart DEF Submit!DeliverReturns, Submit!Awaited, Submit!At, Submit!files
  <2>2. WebOnly(r, attempt[r], Submit(mode)!Idle)
    BY <1>1, <2>1 DEF WebOnly, MailType
  <2>3. /\ attempt'[r] = attempt[r] /\ worker'[r] = Submit(mode)!Idle /\ maddy'[r] = maddy[r] /\ (r \in sent' <=> r \in sent)
        /\ \A q, o : (Waits(q, o)' <=> Waits(q, o)) /\ (Works(q, o)' <=> Works(q, o))
        /\ \A q : Early(q)' <=> Early(q)
    BY <1>2, <2>2, IdleWorker, WebOnlyView
  <2>4. Known(mode, r)'
    BY <1>1, <1>2, <1>3, <2>1, <2>3, IdleWorker, NoneApart DEF Known, PlaceKnown, WorkerKnown,
       MaddyKnown, ToldKnown, LeftKnown,
       PipeKnown, MayResend, Submit!MayResend
  <2> QED
    BY <1>2, <2>2, <2>4, IdleWorker, WebMoves
<1>4. CASE attempt[r].at = "delivering" /\ worker[r].result = "ok"
  <2>1. DEFINE a == [attempt[r] EXCEPT !.at = "saving"]
               w == [op |-> "append", at |-> "starting", result |-> None]
  <2>2. /\ a \in MailRequests /\ a.at = "saving" /\ a.told = attempt[r].told
        /\ w \in Workers /\ w.op = "append" /\ w.at = "starting"
    BY <1>2 DEF MailRequests, Workers, Submit!Works
  <2> HIDE DEF a, w
  <2>3. WebOnly(r, a, w) /\ UNCHANGED <<uploads, mailfile>>
    BY <1>1, <1>2, <1>4 DEF a, w, WebOnly, MailType, Submit!DeliverReturns, Submit!Awaited,
       Submit!At, Submit!files, Submit!Outcome
  <2>4. /\ attempt'[r] = a /\ worker'[r] = w /\ maddy'[r] = maddy[r] /\ (r \in sent' <=> r \in sent)
        /\ \A q, o : (Waits(q, o)' <=> Waits(q, o)) /\ (Works(q, o)' <=> Works(q, o))
        /\ \A q : Early(q)' <=> Early(q)
    BY <2>2, <2>3, WebOnlyView
  <2>5. Taken(r)
    BY <1>1, <1>2, <1>4 DEF Known, WorkerKnown
  <2>6. Known(mode, r)'
    BY <1>1, <1>4, <2>2, <2>3, <2>4, <2>5, NoneApart DEF Known, PlaceKnown, WorkerKnown,
       MaddyKnown, ToldKnown, LeftKnown,
       PipeKnown, MayResend, Submit!MayResend
  <2> QED
    BY <1>4, <2>2, <2>3, <2>6, WebMoves
<1>5. CASE attempt[r].at = "delivering" /\ worker[r].result # "ok"
  <2>1. DEFINE answer == Submit(mode)!Outcome(worker[r].result)
  <2>2. /\ answer \in {"delivery_unconfirmed", "message_not_delivered"}
        /\ answer = "message_not_delivered" => worker[r].result \notin {"ok", "smtp_outcome_unknown", "transport"}
    BY <1>5 DEF Submit!Outcome
  <2>3. Submit(mode)!Ended(r, answer) /\ worker' = [worker EXCEPT ![r] = Submit(mode)!Idle]
    BY <1>2, <1>5, <2>2 DEF Submit!DeliverReturns, Submit!Awaited, Submit!At
  <2> HIDE DEF answer
  <2>4. mode = "docker" /\ answer \in MayResend => Dead(r)
    BY <1>1, <1>2, <2>2 DEF Known, PipeKnown, MayResend, Submit!MayResend
  <2>5. answer \in Submit("docker")!Tellings
    BY <2>2 DEF Submit!Tellings
  <2> QED
    BY <1>1, <1>5, <2>2, <2>3, <2>4, <2>5, RequestEnds, IdleWorker, NoneApart
<1> QED
  BY <1>3, <1>4, <1>5

LEMMA SaveStep ==
    ASSUME NEW mode \in Modes, MailInv(mode), NEW r \in Attempts, Submit(mode)!SaveReturns(r)
    PROVE  MailInv(mode)'
<1>1. /\ MailType /\ Known(mode, r) /\ UNCHANGED <<queue, job, maddy, sent, leaked>>
      /\ worker' = [worker EXCEPT ![r] = Submit(mode)!Idle]
  BY MailTyped DEF MailInv, Submit!SaveReturns
<1>2. Returned(r, "append") /\ attempt[r] \in MailRequests /\ Taken(r)
  BY <1>1 DEF Submit!SaveReturns, MailType, Known, MaddyKnown
<1>3. CASE attempt[r].at # "saving"
  <2>1. UNCHANGED <<attempt, uploads, mailfile>>
    BY <1>2, <1>3, NoneApart DEF Submit!SaveReturns, Submit!Awaited, Submit!At, Submit!files
  <2>2. WebOnly(r, attempt[r], Submit(mode)!Idle)
    BY <1>1, <2>1 DEF WebOnly, MailType
  <2>3. /\ attempt'[r] = attempt[r] /\ worker'[r] = Submit(mode)!Idle /\ maddy'[r] = maddy[r] /\ (r \in sent' <=> r \in sent)
        /\ \A q, o : (Waits(q, o)' <=> Waits(q, o)) /\ (Works(q, o)' <=> Works(q, o))
        /\ \A q : Early(q)' <=> Early(q)
    BY <1>2, <2>2, IdleWorker, WebOnlyView
  <2>4. Known(mode, r)'
    BY <1>1, <1>2, <1>3, <2>1, <2>3, IdleWorker, NoneApart DEF Known, PlaceKnown, WorkerKnown,
       MaddyKnown, ToldKnown, LeftKnown,
       PipeKnown, MayResend, Submit!MayResend
  <2> QED
    BY <1>2, <2>2, <2>4, IdleWorker, WebMoves
<1>4. CASE attempt[r].at = "saving"
  <2>1. DEFINE answer == IF worker[r].result = "ok" THEN "delivered_and_saved" ELSE "delivered"
  <2>2. Submit(mode)!Ended(r, answer)
    BY <1>2, <1>4 DEF Submit!SaveReturns, Submit!Awaited, Submit!At
  <2>3. answer = "delivered_and_saved" => r \in sent
    BY <1>1, <1>2 DEF Known, WorkerKnown
  <2>4. answer \notin MayResend /\ answer \in Submit("docker")!Tellings
    BY DEF MayResend, Submit!MayResend, Submit!Tellings
  <2> HIDE DEF answer
  <2> QED
    BY <1>1, <1>2, <1>4, <2>2, <2>3, <2>4, RequestEnds, IdleWorker, NoneApart
<1> QED
  BY <1>3, <1>4

----------------------------------------------------------------------------
(* The helper and Maddy. *)

LEMMA TakeStep ==
    ASSUME NEW mode \in Modes, MailInv(mode), Submit(mode)!TakeJob
    PROVE  MailInv(mode)'
<1>1. MailType /\ OneSend
  BY MailTyped DEF MailInv
<1>2. /\ job = None /\ queue # << >> /\ queue' = Tail(queue)
      /\ job' = [r |-> Head(queue).r, op |-> Head(queue).op, at |-> "gates"]
      /\ UNCHANGED <<attempt, uploads, mailfile, worker, maddy, sent, leaked>>
  BY DEF Submit!TakeJob, Submit!files
<1>3. /\ queue' \in Seq(MailCalls) /\ Head(queue) \in MailCalls
      /\ \A i, j \in 1 .. Len(queue') : queue'[i].op = "send" /\ queue'[j] = queue'[i] => i = j
      /\ \A q, o : Waits(q, o) <=> Waits(q, o)' \/ (Head(queue).r = q /\ Head(queue).op = o)
      /\ \A r : Head(queue).op = "send" /\ Head(queue).r = r => ~Waits(r, "send")'
  BY <1>1, <1>2, CallTaken DEF MailType
<1>5. PICK r \in Attempts, o \in {"send", "append"} : r = Head(queue).r /\ o = Head(queue).op
  BY <1>3 DEF MailCalls, Submit!Calls
<1>6. job' \in Jobs /\ job' # None /\ job'.r = r /\ job'.op = o /\ job'.at = "gates"
  <2>1. job' \in Jobs /\ job'.r = r /\ job'.op = o /\ job'.at = "gates"
    BY <1>2, <1>5 DEF Jobs, Submit!Jobs
  <2> QED
    BY <2>1, NoneApart
<1>7. MailType'
  BY <1>1, <1>2, <1>3, <1>6 DEF MailType
<1>8. /\ \A q, p : ~Works(q, p) /\ (Works(q, p)' <=> q = r /\ p = o)
      /\ \A q : ~Early(q) /\ (Early(q)' <=> q = r /\ o = "send")
  BY <1>2, <1>6 DEF Works, Early
<1>9. OneSend'
  BY <1>3, <1>5, <1>6 DEF OneSend, Waits
<1>10. /\ \A q, p : Waits(q, p) <=> Waits(q, p)' \/ (r = q /\ o = p)
       /\ o = "send" => ~Waits(r, "send")'
  BY <1>3, <1>5
<1>11. \A q \in Attempts \ {r} : Same(q)
  BY <1>2, <1>8, <1>10 DEF Same
<1>12. Known(mode, r)'
  <2>1. Known(mode, r)
    BY <1>5 DEF MailInv
  <2>2. (Sending(r)' <=> Sending(r)) /\ (Saving(r)' <=> Saving(r))
    BY <1>2, <1>8, <1>10
  <2>3. Waits(r, "send")' \/ Early(r)' => Waits(r, "send")
    BY <1>8, <1>10
  <2> QED
    BY <1>2, <2>1, <2>2, <2>3 DEF Known, PlaceKnown, WorkerKnown, MaddyKnown, ToldKnown, LeftKnown,
       PipeKnown,
       MayResend, Submit!MayResend
<1>13. \A q \in Attempts : Active(q)' => Active(q)
  BY <1>2 DEF Active
<1> QED
  BY <1>5, <1>7, <1>9, <1>11, <1>12, <1>13, MailMoves

MailAnswers == {"ok", "failed", "transport", "smtp_outcome_unknown"} \cup Submit("docker")!Rejections

\* A job ends; Maddy may have got the mail of a job that had not handed it over.
LEMMA JobOver ==
    ASSUME NEW mode \in Modes, MailInv(mode), job # None, NEW result \in MailAnswers, NEW fate \in Fates,
           Submit(mode)!JobEnds(result), maddy' = [maddy EXCEPT ![job.r] = fate],
           job.op = "append" => fate = maddy[job.r] /\ sent' \in {sent, sent \cup {job.r}},
           job.op = "append" /\ result = "ok" => job.r \in sent',
           job.op = "send" => sent' = sent,
           fate # maddy[job.r] => job.at # "terminated" /\ fate = "whole",
           job.op = "send" /\ result = "ok" => fate \in {"accepted", "accepted_part"},
           job.op = "send" /\ mode = "docker" /\ result \notin {"ok", "smtp_outcome_unknown", "transport"} =>
              fate \in {"nothing", "refused"}
    PROVE  MailInv(mode)'
<1>1. MailType /\ OneSend /\ job \in Jobs
  BY MailTyped DEF MailInv, MailType
<1>2. PICK r \in Attempts, o \in {"send", "append"} : r = job.r /\ o = job.op
  BY <1>1 DEF Jobs, Submit!Jobs
<1>3. Known(mode, r)
  BY DEF MailInv
<1>4. Works(r, o) /\ (o = "send" => ~Waits(r, "send"))
  BY <1>1, <1>2 DEF Works, OneSend
<1>5. job' = None /\ UNCHANGED <<attempt, uploads, mailfile, queue, leaked>>
  BY DEF Submit!JobEnds, Submit!files
<1>6. /\ worker' \in [Attempts -> Workers] /\ \A q \in Attempts \ {r} : worker'[q] = worker[q]
      /\ worker'[r].op = worker[r].op
      /\ worker'[r] = worker[r] \/ (worker[r].op = o /\ worker'[r].at = "back" /\ worker'[r].result = result)
  BY <1>1, <1>2 DEF Submit!JobEnds, MailType, Workers, MailAnswers
<1>7. /\ \A q \in Attempts \ {r} : maddy'[q] = maddy[q] /\ (q \in sent' <=> q \in sent)
      /\ maddy' \in [Attempts -> Fates] /\ maddy'[r] = fate /\ sent' \subseteq Attempts
  BY <1>1, <1>2 DEF MailType
<1>8. /\ \A q, p : (Waits(q, p)' <=> Waits(q, p)) /\ ~Works(q, p)' /\ (Works(q, p) <=> q = r /\ p = o)
      /\ \A q : ~Early(q)' /\ (Early(q) <=> q = r /\ o = "send" /\ job.at # "terminated")
  BY <1>2, <1>5 DEF Waits, Works, Early
<1>9. MailType' /\ OneSend'
  BY <1>1, <1>5, <1>6, <1>7 DEF MailType, OneSend, Waits
<1>10. \A q \in Attempts \ {r} : Same(q)
  BY <1>5, <1>6, <1>7, <1>8 DEF Same
<1>11. fate # maddy[r] => Early(r) /\ maddy[r] = "nothing"
  BY <1>2, <1>3, <1>8 DEF Known, MaddyKnown
<1>12. /\ o = "append" => fate = maddy[r] /\ (r \in sent => r \in sent') /\ (result = "ok" => r \in sent')
       /\ o = "send" => (r \in sent' <=> r \in sent)
       /\ fate # maddy[r] => o = "send" /\ fate = "whole"
       /\ o = "send" /\ result = "ok" => fate \in {"accepted", "accepted_part"}
       /\ o = "send" /\ mode = "docker" /\ result \notin {"ok", "smtp_outcome_unknown", "transport"} =>
             fate \in {"nothing", "refused"}
  BY <1>2, <1>11
<1>13. Known(mode, r)'
  <2>1. PlaceKnown(r)'
    BY <1>3, <1>4, <1>5, <1>6 DEF Known, PlaceKnown
  <2>2. WorkerKnown(r)'
    BY <1>3, <1>4, <1>5, <1>6, <1>7, <1>8, <1>11, <1>12 DEF Known, WorkerKnown
  <2>3. MaddyKnown(r)'
    BY <1>3, <1>4, <1>6, <1>7, <1>8, <1>11, <1>12 DEF Known, MaddyKnown
  <2>4. ToldKnown(r)' /\ LeftKnown(r)'
    BY <1>3, <1>5, <1>6, <1>7, <1>11, <1>12 DEF Known, ToldKnown, LeftKnown, MayResend, Submit!MayResend
  <2>5. (mode = "docker" => PipeKnown(r))'
    BY <1>3, <1>4, <1>5, <1>6, <1>7, <1>8, <1>11, <1>12 DEF Known, PipeKnown, MayResend,
       Submit!MayResend
  <2> QED
    BY <2>1, <2>2, <2>3, <2>4, <2>5 DEF Known
<1>14. \A q \in Attempts : Active(q)' => Active(q)
  BY <1>5 DEF Active
<1> QED
  BY <1>3, <1>9, <1>10, <1>13, <1>14, MailMoves

\* The job goes on.
LEMMA JobAdvances ==
    ASSUME NEW mode \in Modes, MailInv(mode), job # None, job.op = "send", job.at # "terminated",
           NEW at \in {"data", "terminated"}, NEW fate \in Fates, Submit(mode)!Advance(at),
           maddy' = [maddy EXCEPT ![job.r] = fate], at = "data" => fate = maddy[job.r],
           fate \in {"nothing", "whole", "part"}, mode = "docker" => fate # "part"
    PROVE  MailInv(mode)'
<1>1. MailType /\ OneSend /\ job \in Jobs
  BY MailTyped DEF MailInv, MailType
<1>2. PICK r \in Attempts : r = job.r
  BY <1>1 DEF Jobs, Submit!Jobs
<1>3. Known(mode, r) /\ Works(r, "send") /\ Early(r)
  BY <1>2 DEF MailInv, Works, Early
<1>4. maddy[r] = "nothing" /\ ~Saving(r) /\ r \notin sent
  BY <1>3 DEF Known, MaddyKnown
<1>5. job' \in Jobs /\ job' # None /\ job'.r = r /\ job'.op = "send" /\ job'.at = at
  <2>1. job' \in Jobs /\ job'.r = r /\ job'.op = "send" /\ job'.at = at
    BY <1>1, <1>2 DEF Jobs, Submit!Jobs, Submit!Advance
  <2> QED
    BY <2>1, NoneApart
<1>6. UNCHANGED <<attempt, uploads, mailfile, worker, queue, sent, leaked>>
  BY DEF Submit!Advance, Submit!files
<1>7. /\ \A q \in Attempts \ {r} : maddy'[q] = maddy[q]
      /\ maddy' \in [Attempts -> Fates] /\ maddy'[r] = fate
  BY <1>1, <1>2 DEF MailType
<1>8. /\ \A q, p : (Waits(q, p)' <=> Waits(q, p)) /\ (Works(q, p)' <=> Works(q, p))
      /\ \A q : (Early(q)' <=> q = r /\ at # "terminated") /\ (Early(q) <=> q = r)
  BY <1>2, <1>5, <1>6 DEF Waits, Works, Early
<1>9. MailType' /\ OneSend'
  BY <1>1, <1>2, <1>5, <1>6, <1>7 DEF MailType, OneSend, Waits
<1>10. \A q \in Attempts \ {r} : Same(q)
  BY <1>6, <1>7, <1>8 DEF Same
<1>11. ~Waits(r, "send")
  BY <1>1, <1>2 DEF OneSend
<1>12. (at = "data" => fate = "nothing") /\ fate \in {"nothing", "whole", "part"}
  BY <1>2, <1>4
<1>13. Known(mode, r)'
  BY <1>3, <1>4, <1>6, <1>7, <1>8, <1>11, <1>12 DEF Known, PlaceKnown, WorkerKnown, MaddyKnown,
     ToldKnown, LeftKnown, PipeKnown,
     MayResend, Submit!MayResend
<1>14. \A q \in Attempts : Active(q)' => Active(q)
  BY <1>6 DEF Active
<1> QED
  BY <1>3, <1>9, <1>10, <1>13, <1>14, MailMoves

LEMMA DecidesStep ==
    ASSUME NEW mode \in Modes, MailInv(mode), NEW r \in Attempts, Submit(mode)!MaddyDecides(r)
    PROVE  MailInv(mode)'
<1>1. MailType /\ Known(mode, r) /\ OneSend
  BY MailTyped DEF MailInv
<1>2. UNCHANGED <<attempt, uploads, mailfile, worker, queue, job, sent, leaked>>
  BY DEF Submit!MaddyDecides, Submit!files
<1>3. maddy[r] \in {"whole", "part"}
  BY DEF Submit!MaddyDecides
<1>4. PICK fate \in {"accepted", "accepted_part", "refused"} :
        maddy' = [maddy EXCEPT ![r] = fate] /\ (fate = "accepted_part" => maddy[r] = "part")
  BY <1>3 DEF Submit!MaddyDecides
<1>5. /\ \A q \in Attempts \ {r} : maddy'[q] = maddy[q]
      /\ maddy' \in [Attempts -> Fates] /\ maddy'[r] = fate
  BY <1>1, <1>4 DEF MailType, Fates
<1>6. /\ \A q, p : (Waits(q, p)' <=> Waits(q, p)) /\ (Works(q, p)' <=> Works(q, p))
      /\ \A q : Early(q)' <=> Early(q)
  BY <1>2 DEF Waits, Works, Early
<1>7. MailType' /\ OneSend'
  BY <1>1, <1>2, <1>5 DEF MailType, OneSend, Waits
<1>8. \A q \in Attempts \ {r} : Same(q)
  BY <1>2, <1>5, <1>6 DEF Same
<1>9. Known(mode, r)'
  BY <1>1, <1>2, <1>3, <1>4, <1>5, <1>6 DEF Known, PlaceKnown, WorkerKnown, MaddyKnown, ToldKnown,
     LeftKnown, PipeKnown,
     MayResend, Submit!MayResend
<1>10. \A q \in Attempts : Active(q)' => Active(q)
  BY <1>2 DEF Active
<1> QED
  BY <1>7, <1>8, <1>9, <1>10, MailMoves

LEMMA HelperServes ==
    ASSUME NEW mode \in Modes, MailInv(mode), Submit(mode)!HelperStep
    PROVE  MailInv(mode)'
<1>1. MailType /\ (job # None => job \in Jobs /\ job.r \in Attempts /\ job.op \in {"send", "append"} /\ Known(mode, job.r))
  BY MailTyped DEF MailInv, MailType, Jobs, Submit!Jobs
<1>2. /\ maddy \in [Attempts -> Fates]
      /\ job # None => maddy = [maddy EXCEPT ![job.r] = maddy[job.r]] /\ maddy[job.r] \in Fates
  BY <1>1 DEF MailType
<1>3. ASSUME job # None, job.op = "send", job.at # "terminated" PROVE maddy[job.r] = "nothing"
  BY <1>1, <1>3 DEF Known, MaddyKnown, Early, Works
<1>4. CASE Submit(mode)!TakeJob
  BY <1>4, TakeStep
<1>5. CASE Submit(mode)!AppendJob
  <2>1. /\ job # None /\ job.op = "append" /\ maddy' = [maddy EXCEPT ![job.r] = maddy[job.r]]
        /\ \/ sent' = sent \cup {job.r} /\ Submit(mode)!JobEnds("ok")
           \/ sent' = sent /\ Submit(mode)!JobEnds("failed")
    BY <1>2, <1>5 DEF Submit!AppendJob
  <2>2. "ok" \in MailAnswers /\ "failed" \in MailAnswers
    BY DEF MailAnswers
  <2> QED
    BY <1>2, <2>1, <2>2, JobOver
<1>6. CASE Submit(mode)!Dialogue
  <2>1. job # None /\ job.op = "send" /\ job.at = "gates" /\ Submit(mode)!Advance("data")
    BY <1>6 DEF Submit!Dialogue, Submit!Smtp
  <2>2. maddy' = [maddy EXCEPT ![job.r] = maddy[job.r]]
    BY <1>2, <1>6, <2>1 DEF Submit!Dialogue
  <2> QED
    BY <1>2, <1>3, <2>1, <2>2, JobAdvances
<1>7. CASE Submit(mode)!DialogueFails
  <2>1. /\ job # None /\ job.op = "send" /\ job.at # "terminated" /\ sent' = sent
        /\ \E code \in Submit("docker")!Rejections : Submit(mode)!JobEnds(code)
    BY <1>7 DEF Submit!DialogueFails, Submit!Smtp, Submit!Rejections
  <2>2. maddy' = [maddy EXCEPT ![job.r] = maddy[job.r]]
    BY <1>2, <1>7, <2>1 DEF Submit!DialogueFails
  <2>3. \A code \in Submit("docker")!Rejections : code \in MailAnswers /\ code # "ok"
    BY DEF MailAnswers, Submit!Rejections
  <2> QED
    BY <1>2, <1>3, <2>1, <2>2, <2>3, JobOver
<1>8. CASE Submit(mode)!WriteData
  <2>1. job # None /\ job.op = "send" /\ job.at = "data" /\ Submit(mode)!Advance("terminated")
    BY <1>8 DEF Submit!WriteData, Submit!Smtp
  <2>2. PICK got \in {"whole", "part"} : maddy' = [maddy EXCEPT ![job.r] = got] /\ (mode = "docker" => got # "part")
    BY <1>8 DEF Submit!WriteData, Modes
  <2>3. got \in Fates
    BY DEF Fates
  <2> QED
    BY <2>1, <2>2, <2>3, JobAdvances
<1>9. CASE Submit(mode)!TerminatorFails
  <2>1. /\ job # None /\ job.op = "send" /\ job.at = "data" /\ sent' = sent
        /\ \E code \in {"internal_error", "smtp_outcome_unknown"} :
              Submit(mode)!JobEnds(code) /\ (mode = "docker" => code = "smtp_outcome_unknown")
    BY <1>9 DEF Submit!TerminatorFails, Submit!Smtp, Modes
  <2>2. PICK got \in {"nothing", "whole"} : maddy' = [maddy EXCEPT ![job.r] = got]
    BY <1>9 DEF Submit!TerminatorFails
  <2>3. got \in Fates /\ "internal_error" \in MailAnswers /\ "smtp_outcome_unknown" \in MailAnswers
    BY DEF Fates, MailAnswers, Submit!Rejections
  <2> QED
    BY <1>3, <2>1, <2>2, <2>3, JobOver
<1>10. CASE Submit(mode)!Reply
  <2>1. /\ job # None /\ job.op = "send" /\ job.at = "terminated" /\ sent' = sent /\ maddy' = maddy
        /\ maddy[job.r] \in {"accepted", "accepted_part", "refused"}
        /\ \E code \in {"smtp_rejection", "ok", "timeout"} :
              /\ Submit(mode)!JobEnds(code)
              /\ code = "ok" => maddy[job.r] # "refused"
              /\ code # "ok" /\ mode = "docker" => maddy[job.r] = "refused"
    BY <1>10 DEF Submit!Reply, Submit!Smtp, Modes
  <2>2. "smtp_rejection" \in MailAnswers /\ "ok" \in MailAnswers /\ "timeout" \in MailAnswers
    BY DEF MailAnswers, Submit!Rejections
  <2> QED
    BY <1>2, <2>1, <2>2, JobOver
<1>11. CASE Submit(mode)!ReplyLost
  <2>1. /\ job # None /\ job.op = "send" /\ job.at = "terminated" /\ sent' = sent /\ maddy' = maddy
        /\ \E code \in {"smtp_outcome_unknown", "timeout"} :
              /\ Submit(mode)!JobEnds(code)
              /\ mode = "docker" => code = "smtp_outcome_unknown"
    BY <1>11 DEF Submit!ReplyLost, Submit!Smtp, Modes
  <2>2. "smtp_outcome_unknown" \in MailAnswers /\ "timeout" \in MailAnswers
    BY DEF MailAnswers, Submit!Rejections
  <2> QED
    BY <1>2, <2>1, <2>2, JobOver
<1>12. CASE Submit(mode)!JobDropped
  <2>1. /\ job # None /\ sent' = sent /\ maddy' = maddy /\ Submit(mode)!JobEnds("transport")
    BY <1>12 DEF Submit!JobDropped
  <2>2. "transport" \in MailAnswers
    BY DEF MailAnswers
  <2> QED
    BY <1>2, <2>1, <2>2, JobOver
<1> QED
  BY <1>4, <1>5, <1>6, <1>7, <1>8, <1>9, <1>10, <1>11, <1>12 DEF Submit!HelperStep

----------------------------------------------------------------------------
(* The theorem of submission. *)

LEMMA MailInit ==
    ASSUME NEW mode \in Modes, Submit(mode)!Init
    PROVE  MailInv(mode)
<1>1. /\ attempt = [r \in Attempts |-> [at |-> "new", told |-> None]]
      /\ uploads = {} /\ mailfile = {} /\ leaked = {}
      /\ worker = [r \in Attempts |-> Submit(mode)!Idle]
      /\ queue = << >> /\ job = None /\ maddy = [r \in Attempts |-> "nothing"] /\ sent = {}
  BY DEF Submit!Init
<1>2. [at |-> "new", told |-> None] \in MailRequests
  BY DEF MailRequests
<1>3. MailType
  BY <1>1, <1>2, IdleWorker DEF MailType, Fates
<1>4. \A q, o : ~Waits(q, o) /\ ~Works(q, o)
  BY <1>1 DEF Waits, Works
<1>5. \A q : ~Early(q)
  BY <1>4 DEF Early
<1>6. OneSend
  BY <1>1 DEF OneSend
<1>7. OneActive
  BY <1>1 DEF OneActive, Active
<1>8. \A r \in Attempts : Known(mode, r)
  BY <1>1, <1>4, <1>5, IdleWorker, NoneApart DEF Known, PlaceKnown, WorkerKnown, MaddyKnown,
     ToldKnown, LeftKnown, PipeKnown
<1> QED
  BY <1>3, <1>6, <1>7, <1>8, MailTyped DEF MailInv

LEMMA MailNext ==
    ASSUME NEW mode \in Modes, MailInv(mode), [Submit(mode)!Next]_(Submit(mode)!vars)
    PROVE  MailInv(mode)'
<1>1. ASSUME NEW r \in Attempts,
             \/ Submit(mode)!Send(r) \/ Submit(mode)!WebStep(r) \/ Submit(mode)!Cancelled(r)
             \/ Submit(mode)!CallBreaks(r) \/ Submit(mode)!MaddyDecides(r)
      PROVE  MailInv(mode)'
  <2>1. CASE Submit(mode)!CallBreaks(r)
    BY <2>1, BreaksStep DEF Submit!CallBreaks, Submit!files
  <2>2. CASE Submit(mode)!WebStep(r)
    BY <2>2, SpoolStep, RefusedStep, PreparingStep, PreparedStep, CallStartsStep, DeliverStep, SaveStep
       DEF Submit!WebStep
  <2> QED
    BY <1>1, <2>1, <2>2, SendStep, CancelledStep, DecidesStep
<1>2. CASE Submit(mode)!HelperStep
  BY <1>2, HelperServes
<1>3. CASE UNCHANGED Submit(mode)!vars
  <2>1. UNCHANGED <<attempt, uploads, mailfile, worker, queue, job, maddy, sent, leaked>>
    BY <1>3 DEF Submit!vars, Submit!files
  <2>2. \A q \in Attempts : Same(q) /\ (Active(q)' => Active(q))
    BY <2>1 DEF Same, Waits, Works, Early, Active
  <2>3. MailType' /\ OneSend'
    BY <2>1, MailTyped DEF MailInv, MailType, OneSend, Waits
  <2>4. \A q \in Attempts : Known(mode, q)'
    BY <2>2, OthersKnown DEF MailInv
  <2>5. OneActive'
    BY <2>2 DEF MailInv, OneActive
  <2> QED
    BY <2>3, <2>4, <2>5, MailTypedNext DEF MailInv
<1> QED
  BY <1>1, <1>2, <1>3 DEF Submit!Next

LEMMA MailHolds ==
    ASSUME NEW mode \in Modes, MailInv(mode), deploymentMode = mode
    PROVE  SubmissionSound
<1>1. ASSUME NEW m \in Modes PROVE Submit(m)!SubmissionSound
  <2>1. Submit(m)!TypeOK
    BY DEF MailInv, Submit!TypeOK, Submit!Calls, Submit!Jobs, Submit!Works, Submit!Tellings,
       Submit!Rejections
  <2>2. Submit(m)!ToldIsTrue
    BY MailTyped DEF MailInv, Known, ToldKnown, MaddyKnown, Submit!ToldIsTrue, Submit!Accepted
  <2>3. Submit(m)!FilesRemoved
    BY DEF MailInv, Known, LeftKnown, Submit!FilesRemoved, Submit!At
  <2> QED
    BY <2>1, <2>2, <2>3 DEF Submit!SubmissionSound
<1>2. ASSUME mode = "docker" PROVE Submit("docker")!AcceptedWhole /\ Submit("docker")!NoDuplicate
  <2>1. \A r \in Attempts : PipeKnown(r)
    BY <1>2 DEF MailInv, Known
  <2>2. Submit("docker")!AcceptedWhole
    BY <2>1 DEF PipeKnown, Submit!AcceptedWhole
  <2>3. ASSUME NEW r \in Submit("docker")!Accepted PROVE Active(r)
    <3>1. r \in Attempts /\ Known(mode, r) /\ PipeKnown(r) /\ Taken(r)
      BY <2>1, <2>3 DEF MailInv, Submit!Accepted
    <3>2. attempt[r].at # "new"
      BY <3>1 DEF Known, PlaceKnown
    <3>3. attempt[r].told \notin MayResend
      BY <3>1 DEF PipeKnown
    <3> QED
      BY <3>2, <3>3 DEF Active
  <2>4. \A r, q \in Submit("docker")!Accepted : r = q
    BY <2>3 DEF MailInv, OneActive, Submit!Accepted
  <2> DEFINE accepted == Submit("docker")!Accepted
  <2> HIDE DEF accepted
  <2>7. Submit("docker")!NoDuplicate <=> Cardinality(accepted) <= 1
    BY DEF Submit!NoDuplicate, Submit!Cardinality, Cardinality, accepted
  <2>5. CASE Submit("docker")!Accepted = {}
    BY <2>7, <2>2, <2>5, FS_EmptySet DEF accepted
  <2>6. CASE Submit("docker")!Accepted # {}
    <3>1. PICK r \in Submit("docker")!Accepted : Submit("docker")!Accepted = {r}
      BY <2>4, <2>6
    <3>2. Cardinality({r}) = 1
      BY FS_Singleton
    <3> QED
      BY <2>7, <2>2, <3>1, <3>2 DEF accepted
  <2> QED
    BY <2>5, <2>6
<1> QED
  BY <1>1, <1>2 DEF SubmissionSound

(* However requests are cancelled, calls break and the dialogue with Maddy
   fails: what a user is told of an accepted mail is true, a copy in Sent is
   one of an accepted mail, and no file stays behind.  Through the pipe to a
   container moreover a mail that is only sent again when its user was told
   that it was not delivered is accepted once at most, and whole. *)
THEOREM SubmissionAlwaysSound ==
    ASSUME NEW mode \in Modes
    PROVE  Submit(mode)!Spec /\ [](deploymentMode = mode) => []SubmissionSound
<1>1. Submit(mode)!Init => MailInv(mode)
  BY MailInit
<1>2. MailInv(mode) /\ [Submit(mode)!Next]_(Submit(mode)!vars) => MailInv(mode)'
  BY MailNext
<1>3. MailInv(mode) /\ deploymentMode = mode => SubmissionSound
  BY MailHolds
<1> QED
  BY <1>1, <1>2, <1>3, PTL DEF Submit!Spec
=============================================================================
