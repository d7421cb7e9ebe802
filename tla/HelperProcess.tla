---------------------------- MODULE HelperProcess ----------------------------
(***************************************************************************)
(* The helper process: the dispatcher, which decides whether a request is  *)
(* served (HelperDispatch), and the handlers that give Maddy several       *)
(* commands: those of accounts (AccountLifecycle), of certificates         *)
(* (CertificateDeploy) and of mail that is sent (Submission, with the web  *)
(* process that asks for it).  A handler runs inside one step of the       *)
(* dispatcher, which waits for it; so they are checked and proved side by  *)
(* side, each with variables of its own.                                   *)
(***************************************************************************)
EXTENDS HelperDispatch

CONSTANTS
    Users,       \* addresses
    Changes,     \* the operations on accounts that are requested
    MaxFaults,   \* bound: failing commands and kills of those
    MaxEnabled,  \* bound: credentials made with Maddy's command line
    MaxGen,      \* bound: the last certificate Certbot issues
    Renamed,     \* the certificates issued for other names
    MaxBroken,   \* bound: failing commands and kills of a deployment
    Attempts     \* requests that send one mail

VARIABLES
    cred, mbox, by, meta, must, chal, sess, op, reply, faults, events, had,
    opened, foreign,
    src, dep, served, timer, me, outcome, staged, broken, prior, litter, excused,
    attempt, uploads, mailfile, worker, queue, job, maddy, sent, leaked,
    deploymentMode  \* how Maddy is reached; read at the start, never changed

lifecycleVars == <<cred, mbox, by, meta, must, chal, sess, op, reply, faults, events,
                   had, opened, foreign>>
certVars == <<src, dep, served, timer, me, outcome, staged, broken, prior, litter,
              excused>>
submissionVars == <<attempt, uploads, mailfile, worker, queue, job, maddy, sent,
                    leaked>>

Lifecycle == INSTANCE AccountLifecycle WITH
    told <- reply, outside <- events, Kinds <- Changes, MaxOutside <- MaxEnabled

\* renew, for either deployment_mode; whoever deploys by the hook of Certbot
\* instead is outside this process.
Certificates(docker) == INSTANCE CertificateDeploy WITH
    told <- outcome, faults <- broken, Deployers <- {"helper"}, Docker <- docker,
    Faults <- {"command", "read", "crash"}, MaxFaults <- MaxBroken

Modes == {"docker", "native"}
Submit(mode) == INSTANCE Submission WITH Transport <- mode

ASSUME HelperBounds ==
    /\ Lifecycle!LifecycleAssumption
    /\ \A docker \in BOOLEAN : Certificates(docker)!CertAssumption
    /\ \A mode \in Modes : Submit(mode)!SubmissionAssumption

-----------------------------------------------------------------------------
(* No challenge or session outlives the password it was obtained with, and one
   chosen by an administrator has to be changed by its user. *)
PasswordsRetired == Lifecycle!PasswordsRetired

(* What is told of a change of accounts is true of Maddy, nothing is removed
   that was there before, and metadata go last. *)
AccountsSound == Lifecycle!AccountsSound

(* What renew answers of a failure is true of the files and of Maddy, which is
   never asked to load a pair half replaced, and no staged key is left behind;
   but a container's file that could not be read before is removed when the
   prior ones are restored, and the answer does not say so. *)
FailureSound == \A docker \in BOOLEAN : Certificates(docker)!FailureSound

(* What the user is told of an accepted mail and its copy in Sent is true and no
   file of a request stays.  Through Docker, Maddy accepts whole mails only, and
   one that is sent again only when its user was told so at most once. *)
SubmissionSound ==
    /\ \A mode \in Modes : Submit(mode)!SubmissionSound
    /\ deploymentMode = "docker" =>
          Submit("docker")!AcceptedWhole /\ Submit("docker")!NoDuplicate

(* A renewal that reports success leaves Maddy serving the deployed pair. *)
ServedOnSuccess == \A docker \in BOOLEAN : Certificates(docker)!ServesOnSuccess
SuccessServed == [][ServedOnSuccess]_certVars
=============================================================================
