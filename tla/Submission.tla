----------------------------- MODULE Submission -----------------------------
(***************************************************************************)
(* Sending one mail: web.py send_message, mail.py deliver_and_save,        *)
(* gateway.py deliver_message and save_sent, helper.py _messages_send with *)
(* the SMTP client, and _messages_append.                                  *)
(*                                                                         *)
(* An attempt is one HTTP request.  The user makes a second attempt at the *)
(* same mail only after being told that the first one was not submitted.   *)
(* A helper call is made by a thread that outlives a cancelled request and *)
(* a client that gives up; the helper serves one job at a time.  Maddy     *)
(* decides on a mail once it has the terminator of DATA, maybe after the   *)
(* SMTP client has stopped waiting.                                        *)
(*                                                                         *)
(* The two transports of the SMTP client fail differently.  The pipe to a  *)
(* Docker container turns every failure into SMTPTransportError and writes *)
(* all bytes.  The native socket does so only when the peer has closed:    *)
(* time-outs and resets are raised as OSError, and a write may take only   *)
(* part of its bytes.                                                      *)
(*                                                                         *)
(* A definition just before another one with the same parameters is a      *)
(* wrong version of it; PROJECT.json lists which property catches which.   *)
(***************************************************************************)
EXTENDS Integers, Sequences, FiniteSets

CONSTANTS
    Attempts,   \* HTTP requests that send the mail
    Transport,  \* "docker" or "native"
    None

\* What a worker does, what a user is told, what the helper does.
Works == {"prepare", "send", "append"}
Tellings ==
    {"refused", "invalid_message", "cancelled", "delivered_and_saved", "delivered",
     "delivery_unconfirmed", "message_not_delivered"}
Calls == [r : Attempts, op : {"send", "append"}]
Jobs == [r : Attempts, op : {"send", "append"}, at : {"gates", "data", "terminated"}]

\* What every instance has to give; the MC modules assume it of theirs.
SubmissionAssumption ==
    /\ Transport \in {"docker", "native"}
    /\ None \notin Works \cup Tellings /\ None \notin Jobs

VARIABLES
    attempt,  \* where each HTTP request is, and what its user was told
    uploads,  \* requests with upload files on disk
    mailfile, \* requests with a prepared message on disk
    worker,   \* the thread that works for each request
    queue,    \* jobs that wait at the helper
    job,      \* the job the helper works on
    maddy,    \* what Maddy made of each attempt
    sent,     \* attempts with a copy in Sent
    leaked    \* history: requests cancelled while their message was prepared

files == <<uploads, mailfile>>
vars == <<attempt, files, worker, queue, job, maddy, sent, leaked>>

Idle == [op |-> None, at |-> None, result |-> None]

Init ==
    /\ attempt = [r \in Attempts |-> [at |-> "new", told |-> None]]
    /\ uploads = {} /\ mailfile = {} /\ leaked = {}
    /\ worker = [r \in Attempts |-> Idle]
    /\ queue = <<>> /\ job = None
    /\ maddy = [r \in Attempts |-> "nothing"] /\ sent = {}

At(r, at) == attempt[r].at = at

----------------------------------------------------------------------------
(* The request: send_message *)

\* What the user may answer with another attempt.
MayResend == {"message_not_delivered", "refused", "invalid_message"}

Send(r) ==
    /\ At(r, "new")
    /\ \A q \in Attempts \ {r} : attempt[q].at # "new" => attempt[q].told \in MayResend
    /\ attempt' = [attempt EXCEPT ![r].at = "reading"]
    /\ UNCHANGED <<files, worker, queue, job, maddy, sent, leaked>>

\* _spool_part
SpoolPart(r) ==
    /\ At(r, "reading") /\ r \notin uploads
    /\ uploads' = uploads \cup {r}
    /\ UNCHANGED <<attempt, mailfile, worker, queue, job, maddy, sent, leaked>>

\* The finally clauses: of deliver_and_save, once there is a prepared message,
\* and of send_message.
Ended(r, told) ==
    /\ attempt' = [attempt EXCEPT ![r] = [at |-> "over", told |-> told]]
    /\ uploads' = uploads \ {r} /\ mailfile' = mailfile \ {r}

\* A bad form, a forbidden sender, or no free slot for mail work.
RequestRefused(r) ==
    /\ At(r, "reading")
    /\ Ended(r, "refused")
    /\ UNCHANGED <<worker, queue, job, maddy, sent, leaked>>

StartPreparing(r) ==
    /\ At(r, "reading")
    /\ attempt' = [attempt EXCEPT ![r].at = "preparing"]
    /\ worker' = [worker EXCEPT ![r] = [op |-> "prepare", at |-> "running", result |-> None]]
    /\ UNCHANGED <<files, queue, job, maddy, sent, leaked>>

\* prepare_message runs in a thread; when the request is gone nobody removes
\* the file.
PrepareEnds(r, ok) ==
    /\ worker[r].op = "prepare"
    /\ IF At(r, "preparing")
       THEN IF ok
            THEN /\ attempt' = [attempt EXCEPT ![r].at = "delivering"]
                 /\ worker' = [worker EXCEPT ![r] = [op |-> "send", at |-> "starting",
                                                     result |-> None]]
                 /\ mailfile' = mailfile \cup {r} /\ uploads' = uploads
            ELSE /\ Ended(r, "invalid_message")
                 /\ worker' = [worker EXCEPT ![r] = Idle]
       ELSE /\ mailfile' = IF ok THEN mailfile \cup {r} ELSE mailfile
            /\ worker' = [worker EXCEPT ![r] = Idle]
            /\ UNCHANGED <<attempt, uploads>>
    /\ UNCHANGED <<queue, job, maddy, sent, leaked>>

\* The browser goes away.  A thread that is preparing or calling is not stopped.
Cancelled(r) ==
    /\ attempt[r].at \in {"reading", "preparing", "delivering", "saving"}
    /\ Ended(r, "cancelled")
    /\ leaked' = IF At(r, "preparing") THEN leaked \cup {r} ELSE leaked
    /\ UNCHANGED <<worker, queue, job, maddy, sent>>

----------------------------------------------------------------------------
(* The calls: deliver_message and save_sent *)

Awaited(r) ==
    \/ worker[r].op = "send" /\ At(r, "delivering")
    \/ worker[r].op = "append" /\ At(r, "saving")

\* _upload opens the prepared file, then sends it.
CallStarts(r) ==
    /\ worker[r].op \in {"send", "append"} /\ worker[r].at = "starting"
    /\ IF r \in mailfile
       THEN /\ queue' = Append(queue, [r |-> r, op |-> worker[r].op])
            /\ worker' = [worker EXCEPT ![r].at = "calling"]
       ELSE /\ queue' = queue
            /\ worker' = [worker EXCEPT ![r].at = "back", ![r].result = "transport"]
    /\ UNCHANGED <<attempt, files, job, maddy, sent, leaked>>

\* The client gives up, or the connection breaks; the helper may still work.
CallBreaks(r) ==
    /\ worker[r].at = "calling"
    /\ worker' = [worker EXCEPT ![r].at = "back", ![r].result = "transport"]
    /\ UNCHANGED <<attempt, files, queue, job, maddy, sent, leaked>>

\* Every error is taken for a rejection.
OutcomeTrustsErrors(result) ==
    CASE result = "ok" -> "delivered"
      [] OTHER -> "message_not_delivered"

\* deliver_message and deliver_and_save: what the user is told.  Every code the
\* helper answers except smtp_outcome_unknown means that Maddy has not accepted.
Outcome(result) ==
    CASE result = "ok" -> "delivered"
      [] result \in {"smtp_outcome_unknown", "transport"} -> "delivery_unconfirmed"
      [] OTHER -> "message_not_delivered"

DeliverReturns(r) ==
    /\ worker[r].op = "send" /\ worker[r].at = "back"
    /\ IF ~Awaited(r)
       THEN /\ worker' = [worker EXCEPT ![r] = Idle] /\ UNCHANGED <<attempt, files>>
       ELSE IF Outcome(worker[r].result) = "delivered"
       THEN /\ attempt' = [attempt EXCEPT ![r].at = "saving"]
            /\ worker' = [worker EXCEPT ![r] = [op |-> "append", at |-> "starting",
                                                result |-> None]]
            /\ UNCHANGED files
       ELSE /\ Ended(r, Outcome(worker[r].result))
            /\ worker' = [worker EXCEPT ![r] = Idle]
    /\ UNCHANGED <<queue, job, maddy, sent, leaked>>

SaveReturns(r) ==
    /\ worker[r].op = "append" /\ worker[r].at = "back"
    /\ worker' = [worker EXCEPT ![r] = Idle]
    /\ IF Awaited(r)
       THEN Ended(r, IF worker[r].result = "ok" THEN "delivered_and_saved" ELSE "delivered")
       ELSE UNCHANGED <<attempt, files>>
    /\ UNCHANGED <<queue, job, maddy, sent, leaked>>

----------------------------------------------------------------------------
(* The helper *)

TakeJob ==
    /\ job = None /\ queue # <<>>
    /\ job' = [r |-> Head(queue).r, op |-> Head(queue).op, at |-> "gates"]
    /\ queue' = Tail(queue)
    /\ UNCHANGED <<attempt, files, worker, maddy, sent, leaked>>

JobEndsSilent(result) ==
    /\ job' = None
    /\ UNCHANGED <<attempt, files, worker, queue, leaked>>

\* The job ends with a result, which reaches the client if it still waits.
JobEnds(result) ==
    /\ job' = None
    /\ worker' = IF worker[job.r].op = job.op /\ worker[job.r].at = "calling"
                 THEN [worker EXCEPT ![job.r].at = "back", ![job.r].result = result]
                 ELSE worker
    /\ UNCHANGED <<attempt, files, queue, leaked>>

AppendJob ==
    /\ job # None /\ job.op = "append"
    /\ \/ sent' = sent \cup {job.r} /\ JobEnds("ok")
       \/ sent' = sent /\ JobEnds("failed")
    /\ UNCHANGED maddy

Smtp(at) == job # None /\ job.op = "send" /\ job.at = at

Advance(at) ==
    /\ job' = [job EXCEPT !.at = at]
    /\ UNCHANGED <<attempt, files, worker, queue, sent, leaked>>

\* Write gates, the connection, AUTH, MAIL FROM and every RCPT TO, up to DATA.
Dialogue ==
    /\ Smtp("gates")
    /\ Advance("data") /\ UNCHANGED maddy

\* A gate, a reply or the transport ends the dialogue before the terminator.
DialogueFails ==
    /\ \E at \in {"gates", "data"} : Smtp(at)
    /\ \E code \in {"writes_disabled", "smtp_authentication_rejection",
                    "smtp_rejection", "smtp_transport", "timeout"} : JobEnds(code)
    /\ UNCHANGED <<maddy, sent>>

\* _write_data and the terminator: Maddy has the mail, or what got through.
WriteData ==
    /\ Smtp("data")
    /\ \E got \in (IF Transport = "native" THEN {"whole", "part"} ELSE {"whole"}) :
            maddy' = [maddy EXCEPT ![job.r] = got]
    /\ Advance("terminated")

\* Writing the terminator fails, maybe after it has got through.
TerminatorFails ==
    /\ Smtp("data")
    /\ \E got \in {"nothing", "whole"} : maddy' = [maddy EXCEPT ![job.r] = got]
    /\ JobEnds(IF Transport = "native" THEN "internal_error" ELSE "smtp_outcome_unknown")
    /\ UNCHANGED sent

MaddyDecides(r) ==
    /\ maddy[r] \in {"whole", "part"}
    /\ \E verdict \in {"accepted", "refused"} :
            maddy' = [maddy EXCEPT ![r] = IF verdict = "accepted" /\ @ = "part"
                                          THEN "accepted_part" ELSE verdict]
    /\ UNCHANGED <<attempt, files, worker, queue, job, sent, leaked>>

\* The reply to the terminator.  After 250 the client says QUIT; a failure of
\* that is ignored, unless the native socket raises it as OSError.
Reply ==
    /\ Smtp("terminated") /\ maddy[job.r] \in {"accepted", "accepted_part", "refused"}
    /\ IF maddy[job.r] = "refused" THEN JobEnds("smtp_rejection")
       ELSE \E quit \in (IF Transport = "native" THEN {"ok", "timeout"} ELSE {"ok"}) :
                JobEnds(quit)
    /\ UNCHANGED <<maddy, sent>>

\* No reply: the peer closed, or the native socket timed out or was reset.
ReplyLost ==
    /\ Smtp("terminated")
    /\ \E code \in (IF Transport = "native" THEN {"smtp_outcome_unknown", "timeout"}
                    ELSE {"smtp_outcome_unknown"}) : JobEnds(code)
    /\ UNCHANGED <<maddy, sent>>

\* The body does not arrive in full, or the request is not authorized.
JobDropped ==
    /\ job # None /\ job.at = "gates"
    /\ JobEnds("transport")
    /\ UNCHANGED <<maddy, sent>>

----------------------------------------------------------------------------
(* Behaviours *)

WebStep(r) ==
    \/ SpoolPart(r) \/ RequestRefused(r) \/ StartPreparing(r)
    \/ \E ok \in BOOLEAN : PrepareEnds(r, ok)
    \/ CallStarts(r) \/ DeliverReturns(r) \/ SaveReturns(r)

HelperStep ==
    \/ TakeJob \/ AppendJob \/ Dialogue \/ DialogueFails \/ WriteData \/ TerminatorFails
    \/ Reply \/ ReplyLost \/ JobDropped

Next ==
    \/ \E r \in Attempts :
        Send(r) \/ WebStep(r) \/ Cancelled(r) \/ CallBreaks(r) \/ MaddyDecides(r)
    \/ HelperStep

Spec == Init /\ [][Next]_vars

\* The event loop and the threads go on; every wait of the helper for Maddy
\* has a deadline.
FairSpec == Spec /\ (\A r \in Attempts : WF_vars(WebStep(r))) /\ WF_vars(HelperStep)

----------------------------------------------------------------------------
(* Properties *)

\* The codes of the helper that are told as "not delivered".
Rejections ==
    {"writes_disabled", "smtp_authentication_rejection", "smtp_rejection", "smtp_transport",
     "timeout", "internal_error"}

TypeOK ==
    /\ attempt \in [Attempts ->
            [at : {"new", "reading", "preparing", "delivering", "saving", "over"},
             told : Tellings \cup {None}]]
    /\ uploads \subseteq Attempts /\ mailfile \subseteq Attempts /\ sent \subseteq Attempts
    /\ leaked \subseteq Attempts
    /\ worker \in [Attempts ->
            [op : Works \cup {None}, at : {None, "running", "starting", "calling", "back"},
             result : {None, "ok", "failed", "transport", "smtp_outcome_unknown"} \cup Rejections]]
    /\ queue \in Seq(Calls) /\ job \in Jobs \cup {None}
    /\ maddy \in [Attempts -> {"nothing", "whole", "part", "accepted", "accepted_part", "refused"}]

Accepted == {r \in Attempts : maddy[r] \in {"accepted", "accepted_part"}}

\* A mail is accepted at most once by Maddy as long as its user sends it again
\* only after being told that it was not submitted.
NoDuplicate == Cardinality(Accepted) <= 1

\* What the user is told of an accepted mail is true, and a copy in Sent means
\* that the mail was accepted.
ToldIsTrue ==
    \A r \in Attempts :
        /\ attempt[r].told \in {"delivered", "delivered_and_saved"} => r \in Accepted
        /\ attempt[r].told = "delivered_and_saved" => r \in sent
        /\ r \in sent => r \in Accepted

\* When a request and its threads are through, none of its files is left,
\* unless it was cancelled while its message was being prepared.
FilesRemoved ==
    \A r \in Attempts : At(r, "over") /\ worker[r].op = None /\ r \notin leaked =>
        r \notin uploads \cup mailfile

\* Maddy accepts whole messages only.
AcceptedWhole == \A r \in Attempts : maddy[r] # "accepted_part"

\* A request that is not cancelled is answered.
EveryAttemptAnswered == \A r \in Attempts : At(r, "reading") ~> At(r, "over")

\* What the user is told holds, and the files of a request go with it.
SubmissionSound == TypeOK /\ ToldIsTrue /\ FilesRemoved
=============================================================================
