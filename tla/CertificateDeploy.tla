------------------------- MODULE CertificateDeploy -------------------------
(***************************************************************************)
(* Renewal and deployment of the TLS material that Maddy serves.           *)
(*                                                                         *)
(* CertificateManager.renew runs Certbot, compares the certificate of the  *)
(* lineage with the deployed one and, when they differ, replaces the two   *)
(* deployed files one after the other, reads them back, asks Maddy to      *)
(* reload and puts the prior files back when any of that fails.  Natively  *)
(* a file is replaced by os.replace; in a container it is staged with      *)
(* "docker cp" and moved into place.  The helper runs renew under its      *)
(* dispatcher lock.  The Certbot deploy hook runs the same deployment in a *)
(* process of its own, after a renewal that Certbot's timer started, and   *)
(* shares no lock with the helper.                                         *)
(*                                                                         *)
(* A certificate and its private key are named by their generation; a pair *)
(* is usable when both have the same one.  Generation 0 stands for a file  *)
(* that is missing.                                                        *)
(***************************************************************************)
EXTENDS Naturals, FiniteSets

CONSTANTS
    Deployers,  \* the processes that deploy: "helper", and "hook" where installed
    Docker,     \* deployment_mode = "docker"
    Faults,     \* what may go wrong: "command", "read", "crash"
    Renamed,    \* generations whose subject names differ from all the others'
    MaxGen,     \* bound: the last generation Certbot issues
    MaxFaults   \* bound: how many things go wrong in a behaviour

\* What every instance has to give; the MC modules assume it of theirs.
CertAssumption ==
    /\ Deployers \subseteq {"helper", "hook"}
    /\ Docker \in BOOLEAN
    /\ Faults \subseteq {"command", "read", "crash"}
    /\ MaxGen \in Nat \ {0}
    /\ Renamed \subseteq 1 .. MaxGen
    /\ MaxFaults \in Nat

VARIABLES
    src,      \* live_dir: the pair Certbot keeps
    dep,      \* the deployed pair
    served,   \* the generation Maddy has loaded, 0 for none
    timer,    \* whether Certbot's own timer is enabled
    me,       \* each deployer's position and local variables
    told,     \* the answer of each deployer's last call
    staged,   \* files staged beside the deployed ones by the call under way
    faults,   \* how many things went wrong so far
    prior,    \* history: what was deployed and served when a call began, and
              \* which of the files it took for missing
    litter,   \* history: some call ended with staged files left behind
    excused   \* history: some call was killed or said that its rollback failed

vars == <<src, dep, served, timer, me, told, staged, faults, prior, litter, excused>>

Kinds == {"cert", "key"}
Pair(c, k) == [cert |-> c, key |-> k]
Pairs == [Kinds -> 0 .. MaxGen]

(* _validate_pair: both files are there and belong together. *)
Matched(p) == p.cert # 0 /\ p.cert = p.key

(* _inspect: a status without an error, so one that has a fingerprint. *)
Sound(p) == Matched(p)

(* deployment_status: both pairs are sound and have one fingerprint. *)
FingerprintsMatch == Sound(src) /\ Sound(dep) /\ src.cert = dep.cert

(* renew: dns_names and ip_addresses of the certificate before and after. *)
SameNames(g, h) == g = h \/ {g, h} \cap Renamed = {}

Idle == [pc |-> "idle", was |-> 0, want |-> Pair(0, 0), old |-> Pair(0, 0), late |-> FALSE]

Init ==
    /\ src = Pair(1, 1)
    /\ \/ dep = Pair(1, 1) /\ served = 1
       \/ dep = Pair(0, 0) /\ served = 0
    /\ timer = TRUE
    /\ me = [p \in Deployers |-> Idle]
    /\ told = [p \in Deployers |-> "none"]
    /\ staged = [p \in Deployers |-> {}]
    /\ faults = 0
    /\ prior = [p \in Deployers |-> [dep |-> dep, served |-> served, unseen |-> {}]]
    /\ litter = FALSE /\ excused = FALSE

-----------------------------------------------------------------------------
(* Steps of a call.  A command that fails counts against MaxFaults.        *)

At(p, pc) == me[p].pc = pc
Goto(p, pc) == me' = [me EXCEPT ![p].pc = pc] /\ UNCHANGED <<told, litter, excused>>

Works == UNCHANGED faults
Fails(n) == "command" \in Faults /\ faults + n <= MaxFaults /\ faults' = faults + n

(* The call ends with an answer; what it left staged has lost its name. *)
Answer(p, answer, left) ==
    /\ me' = [me EXCEPT ![p] = Idle]
    /\ told' = [told EXCEPT ![p] = answer]
    /\ staged' = [staged EXCEPT ![p] = {}]
    /\ litter' = (litter \/ left # {})
    /\ excused' = (excused \/ answer = "rollback_failed")

Start(p, pc) ==
    /\ At(p, "idle")
    /\ me' = [me EXCEPT ![p].pc = pc]
    /\ told' = [told EXCEPT ![p] = "none"]
    /\ prior' = [prior EXCEPT ![p] = [dep |-> dep, served |-> served, unseen |-> {}]]

(* Nothing but the call's own position changes. *)
Quiet == UNCHANGED <<src, dep, served, timer, prior>>

(* Maddy.reload: Maddy loads the deployed pair if it is usable. *)
Reloaded == served' = IF Matched(dep) THEN dep.cert ELSE served

Reload(p, pc, onOk, onFail) ==
    /\ At(p, pc)
    /\ \/ Works /\ Reloaded /\ onOk
       \/ Fails(1) /\ (Reloaded \/ UNCHANGED served) /\ onFail
    /\ UNCHANGED <<src, dep, timer, prior>>

-----------------------------------------------------------------------------
(* CertificateManager.renew, in the helper.                                *)

Renew ==
    /\ Start("helper", "check")
    /\ UNCHANGED <<src, dep, served, timer, staged, faults, litter, excused>>

(* Renewal profile, source certificate and nginx before Certbot runs. *)
CheckBefore ==
    /\ At("helper", "check")
    /\ \/ /\ Works /\ Sound(src)
          /\ me' = [me EXCEPT !["helper"].pc = "certbot", !["helper"].was = src.cert]
          /\ UNCHANGED <<told, litter, excused, staged>>
       \/ (Fails(1) \/ (Works /\ ~Sound(src))) /\ Answer("helper", "refused", {})
    /\ Quiet

(* certbot renew: not due, or one generation more.  Certbot holds a lock of
   its own, so it fails while the timer's run is replacing the files. *)
RunCertbot ==
    /\ At("helper", "certbot")
    /\ \/ /\ Works /\ Matched(src) /\ Goto("helper", "after")
          /\ \/ UNCHANGED src
             \/ src.cert < MaxGen /\ src' = Pair(src.cert + 1, src.cert + 1)
          /\ UNCHANGED staged
       \/ (Fails(1) \/ (Works /\ ~Matched(src))) /\ Answer("helper", "refused", {}) /\ UNCHANGED src
    /\ UNCHANGED <<dep, served, timer, prior>>

CheckAfter ==
    /\ At("helper", "after")
    /\ LET good == Sound(src) /\ SameNames(me["helper"].was, src.cert)
       IN \/ Works /\ good /\ Goto("helper", "sync") /\ UNCHANGED staged
          \/ (Fails(1) \/ (Works /\ ~good)) /\ Answer("helper", "refused", {})
    /\ Quiet

(* status: the two fingerprints decide; a timer query that cannot be run
   ends the call. *)
CompareDeployed ==
    /\ At("helper", "sync")
    /\ \/ /\ Works /\ UNCHANGED staged
          /\ Goto("helper", IF FingerprintsMatch THEN "reload_only" ELSE "read_cert")
       \/ Fails(1) /\ Answer("helper", "refused", {})
    /\ Quiet

(* The container's files cannot be read: its status is an error, which
   counts as a pair that differs. *)
ContainerStatusFails ==
    /\ Docker /\ At("helper", "sync")
    /\ Fails(1) /\ Goto("helper", "read_cert") /\ UNCHANGED staged
    /\ Quiet

(* Mutant: a pair that is already deployed is not loaded again. *)
MutReloadOnly ==
    /\ At("helper", "reload_only") /\ Goto("helper", "final")
    /\ UNCHANGED <<staged, faults>> /\ Quiet

(* The pair is already deployed: reload anyway, an earlier one may have failed. *)
ReloadOnly ==
    Reload("helper", "reload_only",
           Goto("helper", "final") /\ UNCHANGED staged, Answer("helper", "reload_failed", {}))

-----------------------------------------------------------------------------
(* Certbot's timer and the deploy hook it runs.                            *)

(* The live links are replaced one at a time, the private key first. *)
TimerKey ==
    /\ timer /\ Matched(src) /\ src.cert < MaxGen
    /\ "hook" \in Deployers => At("hook", "idle")
    /\ src' = [src EXCEPT !.key = @ + 1]
    /\ UNCHANGED <<dep, served, timer, me, told, staged, faults, prior, litter, excused>>

TimerCert ==
    /\ src.key # src.cert
    /\ src' = [src EXCEPT !.cert = src.key]
    /\ IF "hook" \in Deployers
       THEN Start("hook", "hook_check")
       ELSE UNCHANGED <<me, told, prior>>
    /\ UNCHANGED <<dep, served, timer, staged, faults, litter, excused>>

(* _verified_source_fingerprint before _deploy_and_reload. *)
HookCheck ==
    /\ At("hook", "hook_check")
    /\ \/ Works /\ Sound(src) /\ Goto("hook", "read_cert") /\ UNCHANGED staged
       \/ Fails(1) /\ Answer("hook", "refused", {})
    /\ Quiet

(* set_timer_enabled(False): disable --now, then read the state back.
   Enabling is always refused. *)
TimerDisable ==
    /\ "helper" \in Deployers => At("helper", "idle")
    /\ timer
    /\ \/ Works /\ timer' = FALSE
       \/ Fails(1) /\ timer' \in BOOLEAN
    /\ UNCHANGED <<src, dep, served, me, told, staged, prior, litter, excused>>

-----------------------------------------------------------------------------
(* _deploy_and_reload with _copy_allowlisted_source or the container       *)
(* adapter's deploy.                                                       *)

ReadCert(p) ==
    /\ At(p, "read_cert")
    /\ me' = [me EXCEPT ![p].pc = "read_key", ![p].want.cert = src.cert]
    /\ UNCHANGED <<told, staged, faults, litter, excused>> /\ Quiet

(* The key is read after the certificate; the pair read must match. *)
ReadKey(p) ==
    /\ At(p, "read_key")
    /\ LET want == Pair(me[p].want.cert, src.key)
       IN IF Matched(want)
          THEN /\ me' = [me EXCEPT ![p].pc = "old_cert", ![p].want = want]
               /\ UNCHANGED <<told, staged, litter, excused>>
          ELSE Answer(p, "refused", {})
    /\ UNCHANGED faults /\ Quiet

(* The prior file.  In a container any nonzero "cat" counts as missing, so a
   file that is there may be taken for one to remove in a rollback. *)
OldRead(p, pc, kind, next) ==
    /\ At(p, pc)
    /\ \/ /\ Works /\ UNCHANGED <<told, staged, prior, litter, excused>>
          /\ me' = [me EXCEPT ![p].pc = next, ![p].old[kind] = dep[kind]]
       \/ /\ Docker /\ "read" \in Faults /\ dep[kind] # 0
          /\ faults < MaxFaults /\ faults' = faults + 1
          /\ me' = [me EXCEPT ![p].pc = next, ![p].old[kind] = 0]
          /\ prior' = [prior EXCEPT ![p].unseen = @ \cup {kind}]
          /\ UNCHANGED <<told, staged, litter, excused>>
       \/ Fails(1) /\ Answer(p, "refused", {}) /\ UNCHANGED prior
    /\ UNCHANGED <<src, dep, served, timer>>

OldCert(p) == OldRead(p, "old_cert", "cert", "old_key")
OldKey(p) == OldRead(p, "old_key", "key", IF Docker THEN "stage" ELSE "put_cert")

(* A failed installation removes what it staged, if it can, and the first
   rollback begins; a failed rollback is the end. *)
CleanUp(p, tok, n) ==
    \/ Fails(n) /\ staged' = [staged EXCEPT ![p] = {f \in @ : f[1] # tok}]
    \/ Docker /\ Fails(n + 1) /\ UNCHANGED staged

StepBack(p, late) ==
    /\ me' = [me EXCEPT ![p].pc = IF Docker THEN "undo_stage" ELSE "undo_cert", ![p].late = late]
    /\ UNCHANGED <<told, litter, excused>>

(* docker cp, chmod and chown of both files, under names of their own. *)
Stage(p) ==
    /\ At(p, "stage")
    /\ \/ /\ Works /\ Goto(p, "put_cert")
          /\ staged' = [staged EXCEPT ![p] = {"new"} \X Kinds]
       \/ /\ StepBack(p, FALSE)
          /\ \/ Fails(1) /\ UNCHANGED staged
             \/ Fails(2) /\ \E S \in SUBSET Kinds : staged' = [staged EXCEPT ![p] = {"new"} \X S]
    /\ Quiet

(* One file moved into place: a command that fails may have done it. *)
Put(p, pc, kind, next) ==
    /\ At(p, pc)
    /\ \/ /\ Works /\ Goto(p, next)
          /\ dep' = [dep EXCEPT ![kind] = me[p].want[kind]]
          /\ staged' = [staged EXCEPT ![p] = @ \ {<<"new", kind>>}]
       \/ /\ CleanUp(p, "new", 1) /\ StepBack(p, FALSE)
          /\ dep' \in {dep, [dep EXCEPT ![kind] = me[p].want[kind]]}
    /\ UNCHANGED <<src, served, timer, prior>>

PutCert(p) == Put(p, "put_cert", "cert", "put_key")
PutKey(p) == Put(p, "put_key", "key", "verify")

(* Mutant: a deployment that fails its own read-back is given up as it is. *)
MutVerify(p) ==
    /\ At(p, "verify")
    /\ \/ Works /\ Matched(dep) /\ Goto(p, "confirm") /\ UNCHANGED staged
       \/ (Fails(1) \/ (Works /\ ~Matched(dep))) /\ Answer(p, "refused", {})
    /\ Quiet

(* Both files are read back and must match; the container adapter also
   compares the fingerprint with the one it read from the lineage. *)
Verify(p) ==
    /\ At(p, "verify")
    /\ LET good == Matched(dep) /\ (Docker => dep.cert = me[p].want.cert)
       IN \/ Works /\ good /\ Goto(p, "confirm")
          \/ (Fails(1) \/ (Works /\ ~good)) /\ StepBack(p, FALSE)
    /\ UNCHANGED staged /\ Quiet

(* Source and deployed status are compared before Maddy is asked to reload. *)
Confirm(p) ==
    /\ At(p, "confirm")
    /\ \/ Works /\ FingerprintsMatch /\ Goto(p, "reload")
       \/ (Fails(1) \/ (Works /\ ~FingerprintsMatch)) /\ StepBack(p, TRUE)
    /\ UNCHANGED staged /\ Quiet

ReloadNew(p) ==
    Reload(p, "reload", Goto(p, "final") /\ UNCHANGED staged, StepBack(p, TRUE) /\ UNCHANGED staged)

(* The last comparison of the two fingerprints. *)
Final(p) ==
    /\ At(p, "final")
    /\ \/ Works /\ Answer(p, IF FingerprintsMatch THEN "ok" ELSE "differs", staged[p])
       \/ Fails(1) /\ Answer(p, "differs", staged[p])
    /\ Quiet

-----------------------------------------------------------------------------
(* Putting the prior files back: restore_prior_material and _restore.      *)

UndoStage(p) ==
    /\ At(p, "undo_stage")
    /\ \/ /\ Works /\ Goto(p, "undo_cert")
          /\ staged' = [staged EXCEPT ![p] = @ \cup
                          {<<"old", k>> : k \in {j \in Kinds : me[p].old[j] # 0}}]
       \/ Fails(1) /\ Answer(p, "rollback_failed", staged[p])
       \/ Fails(2) /\ Answer(p, "rollback_failed", {<<"old", "cert">>})
    /\ Quiet

(* A prior file that was missing is removed again. *)
Undo(p, pc, kind, next) ==
    /\ At(p, pc)
    /\ \/ /\ Works /\ Goto(p, next)
          /\ dep' = [dep EXCEPT ![kind] = me[p].old[kind]]
          /\ staged' = [staged EXCEPT ![p] = @ \ {<<"old", kind>>}]
       \/ /\ dep' \in {dep, [dep EXCEPT ![kind] = me[p].old[kind]]}
          /\ \/ Fails(1) /\ Answer(p, "rollback_failed", {f \in staged[p] : f[1] = "new"})
             \/ Docker /\ Fails(2) /\ Answer(p, "rollback_failed", staged[p])
    /\ UNCHANGED <<src, served, timer, prior>>

UndoCert(p) == Undo(p, "undo_cert", "cert", "undo_key")
UndoKey(p) == Undo(p, "undo_key", "key", "undo_verify")

(* The restored files are read back and compared with the prior ones. *)
UndoVerify(p) ==
    /\ At(p, "undo_verify")
    /\ \/ /\ Works /\ dep = me[p].old
          /\ Goto(p, IF me[p].late THEN "reload_old" ELSE "clean_up") /\ UNCHANGED staged
       \/ (Fails(1) \/ (Works /\ dep # me[p].old)) /\ Answer(p, "rollback_failed", staged[p])
    /\ Quiet

(* deploy: what the failed installation staged is removed once more. *)
FinishUndo(p) ==
    /\ At(p, "clean_up")
    /\ \/ Works /\ Answer(p, "restored", {f \in staged[p] : f[1] # "new"})
       \/ Docker /\ Fails(1) /\ Answer(p, "rollback_failed", staged[p])
    /\ Quiet

(* _deploy_and_reload: the prior material is loaded again. *)
ReloadOld(p) ==
    Reload(p, "reload_old", Answer(p, "restored_reloaded", staged[p]),
           Answer(p, "rollback_failed", staged[p]))

(* The process is killed between two steps. *)
Crash(p) ==
    /\ "crash" \in Faults /\ faults < MaxFaults /\ ~At(p, "idle")
    /\ me' = [me EXCEPT ![p] = Idle]
    /\ told' = [told EXCEPT ![p] = "crashed"]
    /\ staged' = [staged EXCEPT ![p] = {}]
    /\ litter' = (litter \/ staged[p] # {})
    /\ excused' = TRUE
    /\ faults' = faults + 1
    /\ Quiet

-----------------------------------------------------------------------------
HelperStep == CheckBefore \/ RunCertbot \/ CheckAfter \/ CompareDeployed \/ ContainerStatusFails
              \/ ReloadOnly

DeployStep(p) ==
    \/ ReadCert(p) \/ ReadKey(p) \/ OldCert(p) \/ OldKey(p)
    \/ Stage(p) \/ PutCert(p) \/ PutKey(p) \/ Verify(p) \/ Confirm(p) \/ ReloadNew(p) \/ Final(p)
    \/ UndoStage(p) \/ UndoCert(p) \/ UndoKey(p) \/ UndoVerify(p) \/ FinishUndo(p) \/ ReloadOld(p)

Next ==
    \/ TimerKey \/ TimerCert \/ TimerDisable
    \/ "helper" \in Deployers /\ (Renew \/ HelperStep)
    \/ "hook" \in Deployers /\ HookCheck
    \/ \E p \in Deployers : DeployStep(p) \/ Crash(p)

Spec == Init /\ [][Next]_vars

(* A deployer runs what it started, an operator asks the helper again, and
   Certbot completes a renewal it began. *)
FairSpec ==
    /\ Spec
    /\ WF_vars(Renew) /\ WF_vars(HelperStep)
    /\ WF_vars(TimerCert) /\ ("hook" \in Deployers => WF_vars(HookCheck))
    /\ \A p \in Deployers : WF_vars(DeployStep(p))

-----------------------------------------------------------------------------
Positions ==
    {"idle", "check", "certbot", "after", "sync", "reload_only", "hook_check", "read_cert",
     "read_key", "old_cert", "old_key", "stage", "put_cert", "put_key", "verify", "confirm",
     "reload", "final", "undo_stage", "undo_cert", "undo_key", "undo_verify", "clean_up",
     "reload_old"}

Answers ==
    {"none", "ok", "differs", "refused", "reload_failed", "restored", "restored_reloaded",
     "rollback_failed", "crashed"}

(* The deployment's state is well formed at every step of every call. *)
TypeOK ==
    /\ src \in Pairs /\ dep \in Pairs
    /\ served \in 0 .. MaxGen
    /\ timer \in BOOLEAN /\ litter \in BOOLEAN /\ excused \in BOOLEAN
    /\ me \in [Deployers -> [pc : Positions, was : 0 .. MaxGen, want : Pairs, old : Pairs,
                             late : BOOLEAN]]
    /\ told \in [Deployers -> Answers]
    /\ staged \in [Deployers -> SUBSET ({"new", "old"} \X Kinds)]
    /\ faults \in 0 .. MaxFaults
    /\ prior \in [Deployers -> [dep : Pairs, served : 0 .. MaxGen, unseen : SUBSET Kinds]]

(* The prior material as the call read it: a file that it took for missing is
   missing again after a rollback, whatever was there. *)
AsRead(p) == [k \in Kinds |-> IF k \in prior[p].unseen THEN 0 ELSE prior[p].dep[k]]

(* renew's answer is true of the files and of Maddy, as far as the call could
   see: whatever failed on the way, "refused" leaves on disk, file for file, what
   was there when it began, "prior material was restored" what it read then, both
   with Maddy's loaded pair untouched, and "restored and reloaded" leaves Maddy
   with that pair.  A container's file that could not be read is gone. *)
AnswerTrue ==
    \A p \in Deployers :
        /\ told[p] \in {"refused", "reload_failed"} => dep = prior[p].dep
        /\ told[p] \in {"refused", "restored"} => served = prior[p].served
        /\ told[p] \in {"restored", "restored_reloaded"} => dep = AsRead(p)
        /\ told[p] = "restored_reloaded" /\ Matched(dep) => served = dep.cert

(* A renewal that reports success leaves Maddy serving the deployed pair,
   also after earlier calls that were killed between the two files or whose
   reload failed: renew reloads even when the files already agree. *)
ServesOnSuccess ==
    \A p \in Deployers :
        told'[p] = "ok" /\ told[p] # "ok" => Matched(dep) /\ served = dep.cert
SuccessServed == [][ServesOnSuccess]_vars

(* Maddy is never asked to load a pair that this deployment left half replaced:
   at every reload the files match or are exactly the prior ones as they were
   read, so without a file that was there only if it could not be read. *)
ReloadsWhole ==
    \A p \in Deployers :
        me[p].pc \in {"reload_only", "reload", "reload_old"} =>
            Matched(dep) \/ dep = AsRead(p)

(* Private keys staged inside the container outlive a call only when the
   process was killed or the call said that its rollback failed. *)
NoLitter == litter => excused

(* Once nothing fails any more, a helper that is asked again brings source,
   deployed files and Maddy together, whatever earlier failures left. *)
Heals == <>[](Matched(src) /\ dep = src /\ served = src.cert)

(* A deployment that fails leaves things as it says, but for a file it could not
   read before, and nothing half done for Maddy to load or for others to find. *)
FailureSound == TypeOK /\ AnswerTrue /\ ReloadsWhole /\ NoLitter
=============================================================================
