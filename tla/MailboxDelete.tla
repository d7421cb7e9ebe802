--------------------------- MODULE MailboxDelete ---------------------------
(***************************************************************************)
(* Deletion of a custom mailbox whose messages are kept:                   *)
(* migrate_and_delete_mailbox renames the mailbox to an unpredictable      *)
(* quarantine name, copies the messages up to a fixed UID to the target,   *)
(* removes just those, checks that nothing else is left and removes the    *)
(* quarantine; when any command fails it tries to rename it back.  Maddy   *)
(* runs every command on its own and a command that fails may have had its *)
(* effect, in whole or in part.  Meanwhile mail is delivered and mail      *)
(* clients create and remove mailboxes.                                    *)
(*                                                                         *)
(* Messages are numbered in the order of their arrival, which is the order *)
(* of their UIDs in the mailbox that is deleted.                           *)
(***************************************************************************)
EXTENDS Naturals, FiniteSets, FiniteSetsExt

CONSTANTS
    Quarantines,  \* the quarantine names, one for each call
    MaxMsgs,      \* bound: messages that arrive in a behaviour
    MaxFaults     \* bound: commands that fail and kills of the helper

\* What every instance has to give; the MC modules assume it of theirs.
DeleteAssumption ==
    /\ MaxMsgs \in Nat /\ MaxFaults \in Nat
    /\ Quarantines \cap {"mailbox", "target"} = {}

VARIABLES
    exist,    \* the names of the mailboxes that exist
    box,      \* the messages under each name
    pc,       \* where the call is
    q,        \* the quarantine name of the last call
    used,     \* the quarantine names that were given out
    anchor,   \* the newest UID of the quarantine, 0 for none
    told,     \* the answer of the last call
    arrived,  \* how many messages have arrived
    faults,   \* how many commands have failed
    had,      \* history: the messages in the mailbox when the call began
    dropped,  \* history: messages a client deleted together with the target
    slipped,  \* history: messages that reached the quarantine after its last check
    stranded  \* history: putting the mailbox back failed, or the helper was killed

vars == <<exist, box, pc, q, used, anchor, told, arrived, faults, had, dropped, slipped, stranded>>

Names == {"mailbox", "target"} \cup Quarantines
history == <<had, dropped, slipped>>
outside == <<arrived, dropped, slipped>>

Init ==
    /\ exist = {"mailbox", "target"}
    /\ \E n \in 0 .. MaxMsgs :
          /\ arrived = n
          /\ box = [m \in Names |-> IF m = "mailbox" THEN 1 .. n ELSE {}]
    /\ pc = "idle" /\ told = "none"
    /\ q \in Quarantines /\ used = {}
    /\ anchor = 0 /\ faults = 0
    /\ had = {} /\ dropped = {} /\ slipped = {} /\ stranded = FALSE

-----------------------------------------------------------------------------
(* What everyone else does to the account.                                 *)

Deliver ==
    /\ arrived < MaxMsgs
    /\ \E n \in {"mailbox", "target"} \cap exist :
          box' = [box EXCEPT ![n] = @ \cup {arrived + 1}]
    /\ arrived' = arrived + 1
    /\ UNCHANGED <<exist, pc, q, used, anchor, told, faults, had, dropped, slipped, stranded>>

(* A delivery that had found the mailbox before it was renamed. *)
DeliverLate ==
    /\ arrived < MaxMsgs /\ pc # "idle" /\ q \in exist
    /\ box' = [box EXCEPT ![q] = @ \cup {arrived + 1}]
    /\ arrived' = arrived + 1
    /\ slipped' = slipped \cup (IF pc \in {"before", "remove"} THEN {arrived + 1} ELSE {})
    /\ UNCHANGED <<exist, pc, q, used, anchor, told, faults, had, dropped, stranded>>

ClientRecreates ==
    /\ pc # "idle" /\ "mailbox" \notin exist
    /\ exist' = exist \cup {"mailbox"}
    /\ UNCHANGED <<box, pc, q, used, anchor, told, arrived, faults, had, dropped, slipped, stranded>>

ClientRemovesTarget ==
    /\ "target" \in exist
    /\ exist' = exist \ {"target"}
    /\ dropped' = dropped \cup box["target"]
    /\ box' = [box EXCEPT !["target"] = {}]
    /\ UNCHANGED <<pc, q, used, anchor, told, arrived, faults, had, slipped, stranded>>

-----------------------------------------------------------------------------
(* The steps of migrate_and_delete_mailbox, one for each command.          *)

Fault == faults < MaxFaults /\ faults' = faults + 1
Fine == UNCHANGED faults
Onward(from, to) == pc = from /\ pc' = to /\ UNCHANGED <<told, stranded>>
Ends(answer, bad) ==
    /\ pc' = "idle" /\ told' = answer
    /\ stranded' = (stranded \/ bad)
Same == UNCHANGED <<q, used, anchor, arrived, had, dropped, slipped>>

(* The mailbox is an ordinary one and the target exists. *)
Eligible == {"mailbox", "target"} \subseteq exist

(* A name that no mailbox has. *)
NewQuarantineNames == Quarantines \ used

(* Checks of the handler and of the mailbox list. *)
Start ==
    /\ pc = "idle"
    /\ \/ /\ Eligible
          /\ \E n \in NewQuarantineNames : q' = n /\ used' = used \cup {n}
          /\ pc' = "rename" /\ told' = "none" /\ had' = box["mailbox"]
       \/ /\ ~Eligible
          /\ told' = "refused"
          /\ UNCHANGED <<pc, q, used, had>>
    /\ UNCHANGED <<exist, box, anchor, faults, stranded>> /\ UNCHANGED outside

(* imap-mboxes rename: refused by Maddy when the new name is taken. *)
Renamed(from, to) ==
    /\ from \in exist /\ to \notin exist
    /\ exist' = (exist \ {from}) \cup {to}
    /\ box' = [box EXCEPT ![to] = box[from], ![from] = {}]

Rename ==
    /\ \/ Fine /\ Renamed("mailbox", q) /\ Onward("rename", "renamed")
       \/ /\ Fault /\ Onward("rename", "restore")
          /\ Renamed("mailbox", q) \/ UNCHANGED <<exist, box>>
    /\ Same

(* A list of the mailboxes decides whether the call goes on. *)
Check(from, to, good) ==
    /\ \/ Fine /\ good /\ Onward(from, to)
       \/ Fine /\ ~good /\ Onward(from, "restore")
       \/ Fault /\ Onward(from, "restore")
    /\ UNCHANGED <<exist, box>>

CheckRenamed ==
    Check("renamed", "anchor", "mailbox" \notin exist /\ {q, "target"} \subseteq exist) /\ Same

(* latest_message_uid of the quarantine. *)
FindAnchor ==
    /\ \/ /\ Fine
          /\ anchor' = IF box[q] = {} THEN 0 ELSE Max(box[q])
          /\ Onward("anchor", IF box[q] = {} THEN "copied" ELSE "copy")
       \/ Fault /\ Onward("anchor", "restore") /\ UNCHANGED anchor
    /\ UNCHANGED <<exist, box, q, used, arrived>> /\ UNCHANGED history

Snapshot == {m \in box[q] : m <= anchor}

Copy ==
    /\ \/ /\ Fine /\ "target" \in exist /\ Onward("copy", "copied")
          /\ box' = [box EXCEPT !["target"] = @ \cup Snapshot]
       \/ /\ Fine /\ "target" \notin exist /\ Onward("copy", "restore")
          /\ UNCHANGED box
       \/ /\ Fault /\ Onward("copy", "restore")
          /\ \E S \in SUBSET Snapshot :
                /\ S = {} \/ "target" \in exist
                /\ box' = [box EXCEPT !["target"] = @ \cup S]
    /\ UNCHANGED exist /\ Same

CheckCopied ==
    /\ Check("copied", IF anchor = 0 THEN "window" ELSE "purge",
             "mailbox" \notin exist /\ {q, "target"} \subseteq exist)
    /\ Same

(* Mutant: everything in the quarantine is removed, not what was copied. *)
MutPurge ==
    /\ Fine /\ Onward("purge", "window")
    /\ box' = [box EXCEPT ![q] = {}]
    /\ UNCHANGED exist /\ Same

(* Only the messages up to the anchor are removed. *)
Purge ==
    /\ \/ /\ Fine /\ Onward("purge", "window")
          /\ box' = [box EXCEPT ![q] = @ \ Snapshot]
       \/ /\ Fault /\ Onward("purge", "restore")
          /\ \E S \in SUBSET Snapshot : box' = [box EXCEPT ![q] = @ \ S]
    /\ UNCHANGED exist /\ Same

CheckWindow == Check("window", "before", box[q] = {}) /\ Same

CheckBefore ==
    Check("before", "remove", "mailbox" \notin exist /\ {q, "target"} \subseteq exist) /\ Same

Removed == exist' = exist \ {q} /\ box' = [box EXCEPT ![q] = {}]

Remove ==
    /\ \/ Fine /\ Removed /\ Onward("remove", "removed")
       \/ /\ Fault /\ Onward("remove", "restore")
          /\ Removed \/ UNCHANGED <<exist, box>>
    /\ Same

CheckRemoved ==
    /\ pc = "removed"
    /\ LET good == "mailbox" \notin exist /\ q \notin exist /\ "target" \in exist
       IN \/ Fine /\ good /\ Ends("deleted", FALSE)
          \/ Fine /\ ~good /\ Onward("removed", "restore")
          \/ Fault /\ Onward("removed", "restore")
    /\ UNCHANGED <<exist, box>> /\ Same

-----------------------------------------------------------------------------
(* _restore_mailbox_quarantine.                                            *)

Restore ==
    /\ pc = "restore"
    /\ \/ Fine /\ "mailbox" \notin exist /\ q \in exist /\ Onward("restore", "unrename")
       \/ Fine /\ ("mailbox" \in exist \/ q \notin exist) /\ Ends("failed", FALSE)
       \/ Fault /\ Ends("failed", TRUE)
    /\ UNCHANGED <<exist, box>> /\ Same

(* Another mailbox may have taken the name since the list was read. *)
RenameBack ==
    /\ pc = "unrename"
    /\ \/ Fine /\ Renamed(q, "mailbox") /\ Ends("failed", FALSE)
       \/ Fine /\ "mailbox" \in exist /\ Ends("failed", FALSE) /\ UNCHANGED <<exist, box>>
       \/ Fault /\ Ends("failed", TRUE) /\ (Renamed(q, "mailbox") \/ UNCHANGED <<exist, box>>)
    /\ Same

Crash ==
    /\ pc # "idle" /\ Fault
    /\ Ends("crashed", TRUE)
    /\ UNCHANGED <<exist, box>> /\ Same

-----------------------------------------------------------------------------
Next ==
    \/ Deliver \/ DeliverLate \/ ClientRecreates \/ ClientRemovesTarget
    \/ Start \/ Rename \/ CheckRenamed \/ FindAnchor \/ Copy \/ CheckCopied \/ Purge
    \/ CheckWindow \/ CheckBefore \/ Remove \/ CheckRemoved
    \/ Restore \/ RenameBack \/ Crash

Spec == Init /\ [][Next]_vars

-----------------------------------------------------------------------------
(* The account and the call are well formed. *)
TypeOK ==
    /\ exist \subseteq Names
    /\ box \in [Names -> SUBSET (1 .. MaxMsgs)]
    /\ \A n \in Names \ exist : box[n] = {}
    /\ pc \in {"idle", "rename", "renamed", "anchor", "copy", "copied", "purge", "window",
               "before", "remove", "removed", "restore", "unrename"}
    /\ q \in Quarantines /\ used \subseteq Quarantines
    /\ anchor \in 0 .. MaxMsgs /\ arrived \in 0 .. MaxMsgs /\ faults \in 0 .. MaxFaults
    /\ told \in {"none", "refused", "deleted", "failed", "crashed"}
    /\ had \cup dropped \cup slipped \subseteq 1 .. MaxMsgs
    /\ stranded \in BOOLEAN

(* migrate_and_delete_mailbox loses no message: whatever fails and whoever
   else is at work, each message that arrived is still under some name of the
   account, unless a client deleted it with the target or it slipped into the
   quarantine between the last look at it and its removal. *)
NoMessageLost ==
    \A m \in (1 .. arrived) \ (dropped \cup slipped) : \E n \in exist : m \in box[n]

(* A deletion that reports success has all messages the mailbox held when it
   was called in the target, the ones a client deleted there apart. *)
DeletedMeansMoved == told = "deleted" => had \ dropped \subseteq box["target"]

(* A deletion that fails leaves the account with a mailbox of that name or
   without the quarantine it made, unless putting it back failed too or the
   helper was killed. *)
FailureRestores ==
    told = "failed" /\ ~stranded => ("mailbox" \in exist \/ q \notin exist)

(* The mail of the account is kept: by a deletion that succeeds, by one that
   fails, and by one that is cut short. *)
MailKept == TypeOK /\ NoMessageLost /\ DeletedMeansMoved /\ FailureRestores
=============================================================================
