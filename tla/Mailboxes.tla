----------------------------- MODULE Mailboxes ------------------------------
(***************************************************************************)
(* What the helper does to whole mailboxes: the deletion of one after its  *)
(* messages were moved (MailboxDelete), and runs of a rule over the mail   *)
(* that is already there (RuleRuns).  mailboxes.delete is refused while a  *)
(* run is active, and accounts do not meet; so the two are checked and     *)
(* proved side by side, each with variables of its own.                    *)
(***************************************************************************)
EXTENDS MailboxDelete

CONSTANTS
    None,
    Msgs, Matching,     \* the messages, and those of them that the rule matches
    Listing,            \* the mailbox names in the order Maddy lists them
    Target, Excluded,   \* the rule's destination; names that a run passes over
    Batch, MaxRuns,     \* the window of a step, the rows of an account
    MaxUid, MaxRenames, MaxBreaks  \* bounds: UIDs, renamings, failures of a run

VARIABLES
    place, uidnext, run, ended, at, draft, work, planned, replaced, renames, failed

runVars == <<place, uidnext, run, ended, at, draft, work, planned, replaced,
             renames, failed>>

Runs == INSTANCE RuleRuns WITH
    pc <- at, faults <- failed, MaxFaults <- MaxBreaks

ASSUME MailboxBounds == Runs!RuleRunsAssumption

-----------------------------------------------------------------------------
(* A completed run left no message behind that matches and was there all
   along, and at most MaxRuns runs of an account are on record. *)
RunsSound == Runs!RunsSound

(* A run files only messages that match and were there when it was planned,
   unless their mailbox was replaced under its name. *)
FilesPlanned == Runs!FilesPlanned
MovesOnlyPlanned == [][FilesPlanned]_runVars
=============================================================================
