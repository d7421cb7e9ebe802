--------------------------- MODULE MailboxProofs ---------------------------
(***************************************************************************)
(* Why the helper loses and skips no mail when it works on whole mailboxes *)
(* (Mailboxes), for any messages, mailboxes, faults and bounds.            *)
(*                                                                         *)
(* Deleting a mailbox.  A quarantine name is new, so a rename covers up    *)
(* nothing; until the copy the quarantine holds all that the mailbox held; *)
(* from the copy on, whatever is left there up to the anchor is in the     *)
(* target too, or went with the target; a late delivery has a UID above    *)
(* the anchor; and once the quarantine was seen empty, only what slipped   *)
(* in is there.                                                            *)
(*                                                                         *)
(* Running a rule.  UIDs only grow, so as long as a mailbox keeps its name *)
(* there is nothing at or below a source's cursor but what was there when  *)
(* the run was planned (Known), and what was planned, matches and has      *)
(* stayed is below a cursor that is yet to come (PlannedCovered).  A step  *)
(* may lower the cursor over what its window has shown: the window ends at *)
(* the cursor because the cursor has kept its rank, and ranks have no gaps *)
(* (WindowIs), so the highest Batch messages are all there is between the  *)
(* next cursor and the present one (Scanned).                              *)
(***************************************************************************)
EXTENDS Mailboxes, SequenceTheorems, FiniteSetTheorems, WellFoundedInduction, TLAPS

-----------------------------------------------------------------------------
(* Deleting a mailbox: the inductive invariant.                            *)

(* UIDs are given out in the order of arrival. *)
Numbered ==
    /\ \A n \in Names : box[n] \subseteq 1 .. arrived
    /\ had \subseteq 1 .. arrived
    /\ anchor <= arrived

(* Every quarantine that exists was given out, and the one of a call that
   has not renamed yet does not exist. *)
NamesFresh ==
    /\ exist \cap Quarantines \subseteq used
    /\ pc # "idle" => q \in used
    /\ pc = "rename" => q \notin exist

(* The call has not answered before it ends. *)
AnswersLast == pc # "idle" => told = "none"

(* Where the messages of the mailbox are while the call goes on. *)
OnTheWay ==
    /\ pc = "rename" => had \subseteq box["mailbox"]
    /\ pc \in {"renamed", "anchor", "copy"} => had \subseteq box[q]
    /\ pc = "copy" => \A m \in had : m <= anchor
    /\ pc \in {"copied", "purge", "window", "before", "remove", "removed"} =>
          had \subseteq box["target"] \cup dropped

(* What the call is about to remove has been copied. *)
CopiedFirst ==
    /\ pc \in {"copied", "purge"} =>
          \A m \in box[q] : m <= anchor => m \in box["target"] \cup dropped
    /\ pc \in {"before", "remove"} => box[q] \subseteq slipped

DeleteInv == MailKept /\ Numbered /\ NamesFresh /\ AnswersLast /\ OnTheWay /\ CopiedFirst

-----------------------------------------------------------------------------
(* A set of UIDs has a largest one, and Max gives it. *)
LEMMA MaxOfUids ==
  ASSUME NEW N \in Nat, NEW S, S \subseteq 1 .. N, S # {}
  PROVE  Max(S) \in S /\ \A m \in S : m <= Max(S)
<1> DEFINE T == {k \in Nat : N - k \in S}
<1>1. T \subseteq Nat
  OBVIOUS
<1>2. T # {}
  <2>1. PICK m \in S : TRUE
    OBVIOUS
  <2>2. m \in 1 .. N /\ N - m \in Nat /\ N - (N - m) = m
    BY <2>1
  <2> QED
    BY <2>1, <2>2
<1>3. \E x \in T : \A y \in T : ~(<<y, x>> \in OpToRel(<, Nat))
  <2> HIDE DEF T
  <2> QED
    BY <1>1, <1>2, NatLessThanWellFounded, WFMin, Zenon
<1>4. PICK x \in T : \A y \in T : ~(y < x)
  BY <1>1, <1>3 DEF OpToRel
<1>5. N - x \in S
  BY <1>4
<1>6. ASSUME NEW m \in S
      PROVE  m <= N - x
  <2>1. m \in 1 .. N /\ N - m \in Nat /\ N - (N - m) = m
    BY <1>6
  <2>2. N - m \in T
    BY <1>6, <2>1
  <2>3. ~(N - m < x)
    BY <1>4, <2>2
  <2> QED
    BY <1>4, <2>1, <2>3
<1>7. \E z \in S : \A m \in S : z >= m
  <2>1. \A m \in S : N - x >= m
    BY <1>5, <1>6
  <2> QED
    BY <1>5, <2>1
<1>8. Max(S) \in S /\ \A m \in S : Max(S) >= m
  BY <1>7, Zenon DEF Max
<1> QED
  BY <1>8

-----------------------------------------------------------------------------
LEMMA DeleteInit ==
  ASSUME DeleteAssumption, Init
  PROVE  DeleteInv
<1>1. PICK n \in 0 .. MaxMsgs :
        /\ arrived = n
        /\ box = [m \in Names |-> IF m = "mailbox" THEN 1 .. n ELSE {}]
  BY DEF Init
<1>2. "mailbox" \in Names /\ "target" \in Names /\ q \in Names
  BY DEF Names, Init
<1>3. TypeOK
  <2>1. 1 .. n \subseteq 1 .. MaxMsgs
    BY DEF DeleteAssumption
  <2>2. box \in [Names -> SUBSET (1 .. MaxMsgs)]
    BY <1>1, <2>1
  <2>3. \A m \in Names \ exist : box[m] = {}
    BY <1>1 DEF Init
  <2>4. anchor \in 0 .. MaxMsgs /\ arrived \in 0 .. MaxMsgs /\ faults \in 0 .. MaxFaults
    BY <1>1 DEF Init, DeleteAssumption
  <2> QED
    BY <2>2, <2>3, <2>4 DEF Init, TypeOK, Names
<1>4. NoMessageLost
  BY <1>1, <1>2 DEF Init, NoMessageLost
<1>5. Numbered
  BY <1>1, <1>2 DEF Init, Numbered, Names
<1>6. NamesFresh
  BY DEF Init, NamesFresh, DeleteAssumption
<1> QED
  BY <1>3, <1>4, <1>5, <1>6
  DEF DeleteInv, MailKept, Init, DeletedMeansMoved, FailureRestores, AnswersLast, OnTheWay, CopiedFirst

-----------------------------------------------------------------------------
(* The names a call uses are three. *)
LEMMA ThreeNames ==
  ASSUME DeleteAssumption, TypeOK
  PROVE  /\ {"mailbox", "target", q} \subseteq Names
         /\ q # "mailbox" /\ q # "target"
         /\ arrived \in Nat /\ anchor \in Nat /\ faults \in Nat
         /\ MaxMsgs \in Nat /\ MaxFaults \in Nat
BY DEF DeleteAssumption, TypeOK, Names

(* A delivery adds to a mailbox that exists. *)
LEMMA DeliverStep ==
  ASSUME DeleteAssumption, DeleteInv, Deliver
  PROVE  DeleteInv'
<1> USE DEF DeleteInv, MailKept
<1>1. /\ {"mailbox", "target", q} \subseteq Names
      /\ q # "mailbox" /\ q # "target"
      /\ arrived \in Nat /\ anchor \in Nat /\ faults \in Nat
      /\ MaxMsgs \in Nat /\ MaxFaults \in Nat
  BY ThreeNames
<1>2. TypeOK'
  BY <1>1 DEF TypeOK, Deliver
<1>3. NoMessageLost'
  BY <1>1 DEF TypeOK, NoMessageLost, Deliver
<1>4. DeletedMeansMoved'
  BY <1>1 DEF TypeOK, DeletedMeansMoved, Deliver
<1>5. FailureRestores'
  BY <1>1 DEF TypeOK, FailureRestores, Deliver
<1>6. Numbered'
  BY <1>1 DEF TypeOK, Numbered, Deliver
<1>7. NamesFresh'
  BY <1>1 DEF TypeOK, NamesFresh, Deliver
<1>8. AnswersLast'
  BY <1>1 DEF TypeOK, AnswersLast, Deliver
<1>9. OnTheWay'
  BY <1>1 DEF TypeOK, OnTheWay, Deliver
<1>10. CopiedFirst'
  BY <1>1 DEF TypeOK, CopiedFirst, Deliver
<1> QED
  BY <1>2, <1>3, <1>4, <1>5, <1>6, <1>7, <1>8, <1>9, <1>10

(* A late delivery has a UID above the anchor. *)
LEMMA DeliverLateStep ==
  ASSUME DeleteAssumption, DeleteInv, DeliverLate
  PROVE  DeleteInv'
<1> USE DEF DeleteInv, MailKept
<1>1. /\ {"mailbox", "target", q} \subseteq Names
      /\ q # "mailbox" /\ q # "target"
      /\ arrived \in Nat /\ anchor \in Nat /\ faults \in Nat
      /\ MaxMsgs \in Nat /\ MaxFaults \in Nat
  BY ThreeNames
<1>2. TypeOK'
  BY <1>1 DEF TypeOK, DeliverLate
<1>3. NoMessageLost'
  BY <1>1 DEF TypeOK, NoMessageLost, DeliverLate
<1>4. DeletedMeansMoved'
  BY <1>1 DEF TypeOK, DeletedMeansMoved, DeliverLate
<1>5. FailureRestores'
  BY <1>1 DEF TypeOK, FailureRestores, DeliverLate
<1>6. Numbered'
  BY <1>1 DEF TypeOK, Numbered, DeliverLate
<1>7. NamesFresh'
  BY <1>1 DEF TypeOK, NamesFresh, DeliverLate
<1>8. AnswersLast'
  BY <1>1 DEF TypeOK, AnswersLast, DeliverLate
<1>9. OnTheWay'
  BY <1>1 DEF TypeOK, OnTheWay, DeliverLate
<1>10. CopiedFirst'
  BY <1>1 DEF TypeOK, CopiedFirst, Numbered, DeliverLate
<1> QED
  BY <1>2, <1>3, <1>4, <1>5, <1>6, <1>7, <1>8, <1>9, <1>10

(* A mailbox that a client makes is empty. *)
LEMMA RecreateStep ==
  ASSUME DeleteAssumption, DeleteInv, ClientRecreates
  PROVE  DeleteInv'
<1> USE DEF DeleteInv, MailKept
<1>1. /\ {"mailbox", "target", q} \subseteq Names
      /\ q # "mailbox" /\ q # "target"
      /\ arrived \in Nat /\ anchor \in Nat /\ faults \in Nat
      /\ MaxMsgs \in Nat /\ MaxFaults \in Nat
  BY ThreeNames
<1>2. TypeOK'
  BY <1>1 DEF TypeOK, ClientRecreates
<1>3. NoMessageLost'
  BY <1>1 DEF TypeOK, NoMessageLost, ClientRecreates
<1>4. DeletedMeansMoved'
  BY <1>1 DEF TypeOK, DeletedMeansMoved, ClientRecreates
<1>5. FailureRestores'
  BY <1>1 DEF TypeOK, FailureRestores, ClientRecreates
<1>6. Numbered'
  BY <1>1 DEF TypeOK, Numbered, ClientRecreates
<1>7. NamesFresh'
  BY <1>1 DEF TypeOK, NamesFresh, DeleteAssumption, ClientRecreates
<1>8. AnswersLast'
  BY <1>1 DEF TypeOK, AnswersLast, ClientRecreates
<1>9. OnTheWay'
  BY <1>1 DEF TypeOK, OnTheWay, ClientRecreates
<1>10. CopiedFirst'
  BY <1>1 DEF TypeOK, CopiedFirst, ClientRecreates
<1> QED
  BY <1>2, <1>3, <1>4, <1>5, <1>6, <1>7, <1>8, <1>9, <1>10

(* What was in the target is noted. *)
LEMMA RemoveTargetStep ==
  ASSUME DeleteAssumption, DeleteInv, ClientRemovesTarget
  PROVE  DeleteInv'
<1> USE DEF DeleteInv, MailKept
<1>1. /\ {"mailbox", "target", q} \subseteq Names
      /\ q # "mailbox" /\ q # "target"
      /\ arrived \in Nat /\ anchor \in Nat /\ faults \in Nat
      /\ MaxMsgs \in Nat /\ MaxFaults \in Nat
  BY ThreeNames
<1>2. TypeOK'
  BY <1>1 DEF TypeOK, ClientRemovesTarget
<1>3. NoMessageLost'
  BY <1>1 DEF TypeOK, NoMessageLost, ClientRemovesTarget
<1>4. DeletedMeansMoved'
  BY <1>1 DEF TypeOK, DeletedMeansMoved, ClientRemovesTarget
<1>5. FailureRestores'
  BY <1>1 DEF TypeOK, FailureRestores, ClientRemovesTarget
<1>6. Numbered'
  BY <1>1 DEF TypeOK, Numbered, ClientRemovesTarget
<1>7. NamesFresh'
  BY <1>1 DEF TypeOK, NamesFresh, ClientRemovesTarget
<1>8. AnswersLast'
  BY <1>1 DEF TypeOK, AnswersLast, ClientRemovesTarget
<1>9. OnTheWay'
  BY <1>1 DEF TypeOK, OnTheWay, ClientRemovesTarget
<1>10. CopiedFirst'
  BY <1>1 DEF TypeOK, CopiedFirst, ClientRemovesTarget
<1> QED
  BY <1>2, <1>3, <1>4, <1>5, <1>6, <1>7, <1>8, <1>9, <1>10

(* A call starts with a name that nobody has. *)
LEMMA StartStep ==
  ASSUME DeleteAssumption, DeleteInv, Start
  PROVE  DeleteInv'
<1> USE DEF DeleteInv, MailKept
<1>1. /\ {"mailbox", "target", q} \subseteq Names
      /\ q # "mailbox" /\ q # "target"
      /\ arrived \in Nat /\ anchor \in Nat /\ faults \in Nat
      /\ MaxMsgs \in Nat /\ MaxFaults \in Nat
  BY ThreeNames
<1>2. TypeOK'
  BY <1>1 DEF TypeOK, Start, Eligible, NewQuarantineNames, outside
<1>3. NoMessageLost'
  BY <1>1 DEF TypeOK, NoMessageLost, Start, Eligible, NewQuarantineNames, outside
<1>4. DeletedMeansMoved'
  BY <1>1 DEF TypeOK, DeletedMeansMoved, Start, Eligible, NewQuarantineNames, outside
<1>5. FailureRestores'
  BY <1>1 DEF TypeOK, FailureRestores, Start, Eligible, NewQuarantineNames, outside
<1>6. Numbered'
  BY <1>1 DEF TypeOK, Numbered, Start, Eligible, NewQuarantineNames, outside
<1>7. NamesFresh'
  BY <1>1 DEF TypeOK, NamesFresh, Start, Eligible, NewQuarantineNames, outside
<1>8. AnswersLast'
  BY <1>1 DEF TypeOK, AnswersLast, Start, Eligible, NewQuarantineNames, outside
<1>9. OnTheWay'
  BY <1>1 DEF TypeOK, OnTheWay, Start, Eligible, NewQuarantineNames, outside
<1>10. CopiedFirst'
  BY <1>1 DEF TypeOK, CopiedFirst, Start, Eligible, NewQuarantineNames, outside
<1> QED
  BY <1>2, <1>3, <1>4, <1>5, <1>6, <1>7, <1>8, <1>9, <1>10

(* The quarantine takes over what the mailbox holds. *)
LEMMA RenameStep ==
  ASSUME DeleteAssumption, DeleteInv, Rename
  PROVE  DeleteInv'
<1> USE DEF DeleteInv, MailKept
<1>1. /\ {"mailbox", "target", q} \subseteq Names
      /\ q # "mailbox" /\ q # "target"
      /\ arrived \in Nat /\ anchor \in Nat /\ faults \in Nat
      /\ MaxMsgs \in Nat /\ MaxFaults \in Nat
  BY ThreeNames
<1>2. TypeOK'
  BY <1>1 DEF TypeOK, Rename, Renamed, Fine, Fault, Onward, Same
<1>3. NoMessageLost'
  BY <1>1 DEF TypeOK, NoMessageLost, Rename, Renamed, Fine, Fault, Onward, Same
<1>4. DeletedMeansMoved'
  BY <1>1 DEF TypeOK, DeletedMeansMoved, Rename, Renamed, Fine, Fault, Onward, Same
<1>5. FailureRestores'
  BY <1>1 DEF TypeOK, FailureRestores, AnswersLast, Rename, Renamed, Fine, Fault, Onward, Same
<1>6. Numbered'
  BY <1>1 DEF TypeOK, Numbered, Rename, Renamed, Fine, Fault, Onward, Same
<1>7. NamesFresh'
  BY <1>1 DEF TypeOK, NamesFresh, Rename, Renamed, Fine, Fault, Onward, Same
<1>8. AnswersLast'
  BY <1>1 DEF TypeOK, AnswersLast, Rename, Renamed, Fine, Fault, Onward, Same
<1>9. OnTheWay'
  BY <1>1 DEF TypeOK, OnTheWay, Rename, Renamed, Fine, Fault, Onward, Same
<1>10. CopiedFirst'
  BY <1>1 DEF TypeOK, CopiedFirst, Rename, Renamed, Fine, Fault, Onward, Same
<1> QED
  BY <1>2, <1>3, <1>4, <1>5, <1>6, <1>7, <1>8, <1>9, <1>10

(* The anchor is the newest UID of the quarantine. *)
LEMMA FindAnchorStep ==
  ASSUME DeleteAssumption, DeleteInv, FindAnchor
  PROVE  DeleteInv'
<1> USE DEF DeleteInv, MailKept
<1>1. /\ {"mailbox", "target", q} \subseteq Names
      /\ q # "mailbox" /\ q # "target"
      /\ arrived \in Nat /\ anchor \in Nat /\ faults \in Nat
      /\ MaxMsgs \in Nat /\ MaxFaults \in Nat
  BY ThreeNames
<1>2. ASSUME box[q] # {}
      PROVE  Max(box[q]) \in box[q] /\ \A m \in box[q] : m <= Max(box[q])
  BY <1>1, <1>2, MaxOfUids DEF TypeOK
<1>3. TypeOK'
  BY <1>1, <1>2 DEF TypeOK, FindAnchor, Fine, Fault, Onward, history
<1>4. NoMessageLost'
  BY <1>1, <1>2 DEF TypeOK, NoMessageLost, FindAnchor, Fine, Fault, Onward, history
<1>5. DeletedMeansMoved'
  BY <1>1, <1>2 DEF TypeOK, DeletedMeansMoved, FindAnchor, Fine, Fault, Onward, history
<1>6. FailureRestores'
  BY <1>1, <1>2 DEF TypeOK, FailureRestores, FindAnchor, Fine, Fault, Onward, history
<1>7. Numbered'
  BY <1>1, <1>2 DEF TypeOK, Numbered, FindAnchor, Fine, Fault, Onward, history
<1>8. NamesFresh'
  BY <1>1, <1>2 DEF TypeOK, NamesFresh, FindAnchor, Fine, Fault, Onward, history
<1>9. AnswersLast'
  BY <1>1, <1>2 DEF TypeOK, AnswersLast, FindAnchor, Fine, Fault, Onward, history
<1>10. OnTheWay'
  BY <1>1, <1>2 DEF TypeOK, OnTheWay, FindAnchor, Fine, Fault, Onward, history
<1>11. CopiedFirst'
  BY <1>1, <1>2 DEF TypeOK, CopiedFirst, FindAnchor, Fine, Fault, Onward, history
<1> QED
  BY <1>3, <1>4, <1>5, <1>6, <1>7, <1>8, <1>9, <1>10, <1>11

(* All up to the anchor is copied, or the call goes back. *)
LEMMA CopyStep ==
  ASSUME DeleteAssumption, DeleteInv, Copy
  PROVE  DeleteInv'
<1> USE DEF DeleteInv, MailKept
<1>1. /\ {"mailbox", "target", q} \subseteq Names
      /\ q # "mailbox" /\ q # "target"
      /\ arrived \in Nat /\ anchor \in Nat /\ faults \in Nat
      /\ MaxMsgs \in Nat /\ MaxFaults \in Nat
  BY ThreeNames
<1>2. TypeOK'
  <2>1. box' \in [Names -> SUBSET (1 .. MaxMsgs)]
    BY <1>1 DEF TypeOK, Copy, Snapshot
  <2>2. \A n \in Names \ exist' : box'[n] = {}
    BY <1>1 DEF TypeOK, Copy, Snapshot
  <2> QED
    BY <1>1, <2>1, <2>2 DEF TypeOK, Copy, Fine, Fault, Onward, Same
<1>3. NoMessageLost'
  BY <1>1 DEF TypeOK, NoMessageLost, Copy, Fine, Fault, Onward, Same, Snapshot
<1>4. DeletedMeansMoved'
  BY <1>1 DEF TypeOK, DeletedMeansMoved, Copy, Fine, Fault, Onward, Same, Snapshot
<1>5. FailureRestores'
  BY <1>1 DEF TypeOK, FailureRestores, Copy, Fine, Fault, Onward, Same, Snapshot
<1>6. Numbered'
  BY <1>1 DEF TypeOK, Numbered, Copy, Fine, Fault, Onward, Same, Snapshot
<1>7. NamesFresh'
  BY <1>1 DEF TypeOK, NamesFresh, Copy, Fine, Fault, Onward, Same, Snapshot
<1>8. AnswersLast'
  BY <1>1 DEF TypeOK, AnswersLast, Copy, Fine, Fault, Onward, Same, Snapshot
<1>9. OnTheWay'
  BY <1>1 DEF TypeOK, OnTheWay, Copy, Fine, Fault, Onward, Same, Snapshot
<1>10. CopiedFirst'
  BY <1>1 DEF TypeOK, CopiedFirst, Copy, Fine, Fault, Onward, Same, Snapshot
<1> QED
  BY <1>2, <1>3, <1>4, <1>5, <1>6, <1>7, <1>8, <1>9, <1>10

(* Only what was copied is removed. *)
LEMMA PurgeStep ==
  ASSUME DeleteAssumption, DeleteInv, Purge
  PROVE  DeleteInv'
<1> USE DEF DeleteInv, MailKept
<1>1. /\ {"mailbox", "target", q} \subseteq Names
      /\ q # "mailbox" /\ q # "target"
      /\ arrived \in Nat /\ anchor \in Nat /\ faults \in Nat
      /\ MaxMsgs \in Nat /\ MaxFaults \in Nat
  BY ThreeNames
<1>2. TypeOK'
  BY <1>1 DEF TypeOK, Purge, Fine, Fault, Onward, Same, Snapshot
<1>3. NoMessageLost'
  BY <1>1 DEF TypeOK, NoMessageLost, CopiedFirst, Purge, Fine, Fault, Onward, Same, Snapshot
<1>4. DeletedMeansMoved'
  BY <1>1 DEF TypeOK, DeletedMeansMoved, Purge, Fine, Fault, Onward, Same, Snapshot
<1>5. FailureRestores'
  BY <1>1 DEF TypeOK, FailureRestores, Purge, Fine, Fault, Onward, Same, Snapshot
<1>6. Numbered'
  BY <1>1 DEF TypeOK, Numbered, Purge, Fine, Fault, Onward, Same, Snapshot
<1>7. NamesFresh'
  BY <1>1 DEF TypeOK, NamesFresh, Purge, Fine, Fault, Onward, Same, Snapshot
<1>8. AnswersLast'
  BY <1>1 DEF TypeOK, AnswersLast, Purge, Fine, Fault, Onward, Same, Snapshot
<1>9. OnTheWay'
  BY <1>1 DEF TypeOK, OnTheWay, Purge, Fine, Fault, Onward, Same, Snapshot
<1>10. CopiedFirst'
  BY <1>1 DEF TypeOK, CopiedFirst, Purge, Fine, Fault, Onward, Same, Snapshot
<1> QED
  BY <1>2, <1>3, <1>4, <1>5, <1>6, <1>7, <1>8, <1>9, <1>10

(* A quarantine that is removed holds at most what slipped in. *)
LEMMA RemoveStep ==
  ASSUME DeleteAssumption, DeleteInv, Remove
  PROVE  DeleteInv'
<1> USE DEF DeleteInv, MailKept
<1>1. /\ {"mailbox", "target", q} \subseteq Names
      /\ q # "mailbox" /\ q # "target"
      /\ arrived \in Nat /\ anchor \in Nat /\ faults \in Nat
      /\ MaxMsgs \in Nat /\ MaxFaults \in Nat
  BY ThreeNames
<1>2. TypeOK'
  BY <1>1 DEF TypeOK, Remove, Removed, Fine, Fault, Onward, Same
<1>3. NoMessageLost'
  BY <1>1 DEF TypeOK, NoMessageLost, CopiedFirst, Remove, Removed, Fine, Fault, Onward, Same
<1>4. DeletedMeansMoved'
  BY <1>1 DEF TypeOK, DeletedMeansMoved, Remove, Removed, Fine, Fault, Onward, Same
<1>5. FailureRestores'
  BY <1>1 DEF TypeOK, FailureRestores, Remove, Removed, Fine, Fault, Onward, Same
<1>6. Numbered'
  BY <1>1 DEF TypeOK, Numbered, Remove, Removed, Fine, Fault, Onward, Same
<1>7. NamesFresh'
  BY <1>1 DEF TypeOK, NamesFresh, Remove, Removed, Fine, Fault, Onward, Same
<1>8. AnswersLast'
  BY <1>1 DEF TypeOK, AnswersLast, Remove, Removed, Fine, Fault, Onward, Same
<1>9. OnTheWay'
  BY <1>1 DEF TypeOK, OnTheWay, Remove, Removed, Fine, Fault, Onward, Same
<1>10. CopiedFirst'
  BY <1>1 DEF TypeOK, CopiedFirst, Remove, Removed, Fine, Fault, Onward, Same
<1> QED
  BY <1>2, <1>3, <1>4, <1>5, <1>6, <1>7, <1>8, <1>9, <1>10

(* A mailbox that is put back covers up no other. *)
LEMMA RenameBackStep ==
  ASSUME DeleteAssumption, DeleteInv, RenameBack
  PROVE  DeleteInv'
<1> USE DEF DeleteInv, MailKept
<1>1. /\ {"mailbox", "target", q} \subseteq Names
      /\ q # "mailbox" /\ q # "target"
      /\ arrived \in Nat /\ anchor \in Nat /\ faults \in Nat
      /\ MaxMsgs \in Nat /\ MaxFaults \in Nat
  BY ThreeNames
<1>2. TypeOK'
  <2>1. stranded' \in BOOLEAN
    BY Zenon DEF TypeOK, RenameBack, Ends
  <2> QED
    BY <1>1, <2>1 DEF TypeOK, RenameBack, Renamed, Fine, Fault, Ends, Same
<1>3. NoMessageLost'
  BY <1>1 DEF TypeOK, NoMessageLost, RenameBack, Renamed, Fine, Fault, Ends, Same
<1>4. DeletedMeansMoved'
  BY <1>1 DEF TypeOK, DeletedMeansMoved, RenameBack, Renamed, Fine, Fault, Ends, Same
<1>5. FailureRestores'
  BY <1>1 DEF TypeOK, FailureRestores, RenameBack, Renamed, Fine, Fault, Ends, Same
<1>6. Numbered'
  BY <1>1 DEF TypeOK, Numbered, RenameBack, Renamed, Fine, Fault, Ends, Same
<1>7. NamesFresh'
  BY <1>1 DEF TypeOK, NamesFresh, DeleteAssumption, RenameBack, Renamed, Fine, Fault, Ends, Same
<1>8. AnswersLast'
  BY <1>1 DEF TypeOK, AnswersLast, RenameBack, Renamed, Fine, Fault, Ends, Same
<1>9. OnTheWay'
  BY <1>1 DEF TypeOK, OnTheWay, RenameBack, Renamed, Fine, Fault, Ends, Same
<1>10. CopiedFirst'
  BY <1>1 DEF TypeOK, CopiedFirst, RenameBack, Renamed, Fine, Fault, Ends, Same
<1> QED
  BY <1>2, <1>3, <1>4, <1>5, <1>6, <1>7, <1>8, <1>9, <1>10

(* A list of the mailboxes changes nothing but where the call is. *)
LEMMA CheckStep ==
  ASSUME DeleteAssumption, DeleteInv, 
         CheckRenamed \/ CheckCopied \/ CheckWindow \/ CheckBefore
  PROVE  DeleteInv'
<1> USE DEF DeleteInv, MailKept
<1>1. /\ {"mailbox", "target", q} \subseteq Names
      /\ q # "mailbox" /\ q # "target"
      /\ arrived \in Nat /\ anchor \in Nat /\ faults \in Nat
      /\ MaxMsgs \in Nat /\ MaxFaults \in Nat
  BY ThreeNames
<1>2. TypeOK'
  BY <1>1 DEF TypeOK, CheckRenamed, CheckCopied, CheckWindow, CheckBefore, Check, Fine, Fault,
     Onward, Same
<1>3. NoMessageLost'
  BY <1>1 DEF TypeOK, NoMessageLost, CheckRenamed, CheckCopied, CheckWindow, CheckBefore, Check,
     Fine, Fault, Onward, Same
<1>4. DeletedMeansMoved'
  BY <1>1 DEF TypeOK, DeletedMeansMoved, CheckRenamed, CheckCopied, CheckWindow, CheckBefore,
     Check, Fine, Fault, Onward, Same
<1>5. FailureRestores'
  BY <1>1 DEF TypeOK, FailureRestores, CheckRenamed, CheckCopied, CheckWindow, CheckBefore, Check,
     Fine, Fault, Onward, Same
<1>6. Numbered'
  BY <1>1 DEF TypeOK, Numbered, CheckRenamed, CheckCopied, CheckWindow, CheckBefore, Check, Fine,
     Fault, Onward, Same
<1>7. NamesFresh'
  BY <1>1 DEF TypeOK, NamesFresh, CheckRenamed, CheckCopied, CheckWindow, CheckBefore, Check, Fine,
     Fault, Onward, Same
<1>8. AnswersLast'
  BY <1>1 DEF TypeOK, AnswersLast, CheckRenamed, CheckCopied, CheckWindow, CheckBefore, Check,
     Fine, Fault, Onward, Same
<1>9. OnTheWay'
  BY <1>1 DEF TypeOK, OnTheWay, CheckRenamed, CheckCopied, CheckWindow, CheckBefore, Check, Fine,
     Fault, Onward, Same
<1>10. CopiedFirst'
  BY <1>1 DEF TypeOK, CopiedFirst, CheckRenamed, CheckCopied, CheckWindow, CheckBefore, Check,
     Fine, Fault, Onward, Same
<1> QED
  BY <1>2, <1>3, <1>4, <1>5, <1>6, <1>7, <1>8, <1>9, <1>10

(* So do the last list, the ones of the restore, and a kill. *)
LEMMA EndStep ==
  ASSUME DeleteAssumption, DeleteInv, 
         CheckRemoved \/ Restore \/ Crash
  PROVE  DeleteInv'
<1> USE DEF DeleteInv, MailKept
<1>1. /\ {"mailbox", "target", q} \subseteq Names
      /\ q # "mailbox" /\ q # "target"
      /\ arrived \in Nat /\ anchor \in Nat /\ faults \in Nat
      /\ MaxMsgs \in Nat /\ MaxFaults \in Nat
  BY ThreeNames
<1>2. TypeOK'
  <2>1. stranded' \in BOOLEAN
    BY Zenon DEF TypeOK, CheckRemoved, Restore, Crash, Onward, Ends
  <2> QED
    BY <1>1, <2>1 DEF TypeOK, CheckRemoved, Restore, Crash, Fine, Fault, Onward, Ends, Same
<1>3. NoMessageLost'
  BY <1>1 DEF TypeOK, NoMessageLost, CheckRemoved, Restore, Crash, Fine, Fault, Onward, Ends, Same
<1>4. DeletedMeansMoved'
  BY <1>1 DEF TypeOK, DeletedMeansMoved, OnTheWay, CheckRemoved, Restore, Crash, Fine, Fault,
     Onward, Ends, Same
<1>5. FailureRestores'
  <2> SUFFICES ASSUME told' = "failed", ~stranded'
               PROVE  "mailbox" \in exist' \/ q' \notin exist'
    BY DEF FailureRestores
  <2>1. CASE CheckRemoved
    BY <2>1 DEF FailureRestores, CheckRemoved, Onward, Ends, Same
  <2>2. CASE Restore
    BY <2>2 DEF FailureRestores, Restore, Onward, Ends, Same
  <2>3. CASE Crash
    BY <2>3 DEF Crash, Ends
  <2> QED
    BY <2>1, <2>2, <2>3
<1>6. Numbered'
  BY <1>1 DEF TypeOK, Numbered, CheckRemoved, Restore, Crash, Fine, Fault, Onward, Ends, Same
<1>7. NamesFresh'
  BY <1>1 DEF TypeOK, NamesFresh, CheckRemoved, Restore, Crash, Fine, Fault, Onward, Ends, Same
<1>8. AnswersLast'
  BY <1>1 DEF TypeOK, AnswersLast, CheckRemoved, Restore, Crash, Fine, Fault, Onward, Ends, Same
<1>9. OnTheWay'
  BY <1>1 DEF TypeOK, OnTheWay, CheckRemoved, Restore, Crash, Fine, Fault, Onward, Ends, Same
<1>10. CopiedFirst'
  BY <1>1 DEF TypeOK, CopiedFirst, CheckRemoved, Restore, Crash, Fine, Fault, Onward, Ends, Same
<1> QED
  BY <1>2, <1>3, <1>4, <1>5, <1>6, <1>7, <1>8, <1>9, <1>10

-----------------------------------------------------------------------------
LEMMA DeleteStep ==
  ASSUME DeleteAssumption, DeleteInv, [Next]_vars
  PROVE  DeleteInv'
<1>1. CASE UNCHANGED vars
  BY <1>1
  DEF vars, DeleteInv, MailKept, TypeOK, NoMessageLost, DeletedMeansMoved, FailureRestores,
      Numbered, NamesFresh, AnswersLast, OnTheWay, CopiedFirst
<1>2. CASE Next
  BY <1>2, DeliverStep, DeliverLateStep, RecreateStep, RemoveTargetStep, StartStep, RenameStep,
     FindAnchorStep, CopyStep, PurgeStep, RemoveStep, RenameBackStep, CheckStep, EndStep
  DEF Next
<1> QED
  BY <1>1, <1>2

(* migrate_and_delete_mailbox keeps the mail of the account, whatever fails
   and whoever else is at work: no message is lost, a success means that the
   target has them all, and a failure that is reported as such leaves no
   quarantine in place of the mailbox. *)
THEOREM MailAlwaysKept ==
  ASSUME DeleteAssumption
  PROVE  Spec => []MailKept
<1>1. Init => DeleteInv
  BY DeleteInit
<1>2. DeleteInv /\ [Next]_vars => DeleteInv'
  BY DeleteStep
<1>3. DeleteInv => MailKept
  BY DEF DeleteInv
<1> QED
  BY <1>1, <1>2, <1>3, PTL DEF Spec

-----------------------------------------------------------------------------
(* Runs of a rule: the inductive invariant.                                *)

Steps == {"anchor", "window", "scanning", "moved"}
Elsewhere == Runs!Elsewhere
source == Runs!Source
open == Runs!FirstOpen(run.sources, run.index)
Windows == [seq : Nat, left : SUBSET (1 .. MaxUid), hits : SUBSET (1 .. MaxUid),
            next : 0 .. MaxUid]
SourceRecords == [box : Runs!Names \ Excluded, cursor : 0 .. MaxUid]

\* A UID is given to one message of a mailbox, and the next one is larger.
Issued ==
    /\ \A m \in Msgs : place[m] # Elsewhere =>
          place[m].box \in DOMAIN uidnext /\ place[m].uid < uidnext[place[m].box]
    /\ \A m, n \in Msgs : place[m] # Elsewhere /\ place[m] = place[n] => m = n
    /\ \A p \in planned : p.at.box \in DOMAIN uidnext /\ p.at.uid < uidnext[p.at.box]

\* A step is made for an active run with something left to scan.
Phases ==
    /\ at = "planning" => ~Runs!Active
    /\ at \in {"finishing", "failing"} \cup Steps => Runs!Active
    /\ at = "finishing" => open > Len(run.sources)
    /\ at \in Steps => open <= Len(run.sources)
    /\ run # None /\ run.status = "completed" => run.index > Len(run.sources)

\* Below the cursor of a source that kept its mailbox there is only what was
\* there when the run was planned.
Known(s) ==
    s.box \notin replaced =>
        /\ s.box \in DOMAIN uidnext /\ s.cursor < uidnext[s.box]
        /\ \A m \in Msgs : place[m].box = s.box /\ place[m].uid <= s.cursor =>
              [msg |-> m, at |-> place[m]] \in planned

SourcesKnown ==
    /\ at = "planning" => \A i \in 1 .. Len(draft.sources) : Known(draft.sources[i])
    /\ Runs!Active => \A i \in 1 .. Len(run.sources) : Known(run.sources[i])

\* What was planned is below the cursor of a source that is yet to be scanned,
\* unless it does not match or has gone.
Covers(sources, i, p) ==
    \E j \in i .. Len(sources) : sources[j].box = p.at.box /\ p.at.uid <= sources[j].cursor
Stayed(p) == p.msg \in Matching /\ place[p.msg] = p.at

PlannedCovered ==
    /\ at = "planning" => \A p \in planned : Covers(draft.sources, 1, p)
    /\ at # "planning" /\ run # None =>
          \A p \in planned : Stayed(p) => Covers(run.sources, run.index, p)

\* A window ends at the cursor; of what was planned, it has left or found all
\* that is above the next cursor.
Scanned ==
    /\ at \in {"scanning", "moved"} => work.next <= source.cursor
    /\ at = "scanning" =>
          /\ \A u \in work.left \cup work.hits : u <= source.cursor
          /\ source.box \notin replaced =>
                \A m \in Msgs :
                    place[m].box = source.box /\ place[m].uid \in work.hits => m \in Matching
          /\ \A p \in planned :
                Stayed(p) /\ p.at.box = source.box /\ p.at.uid <= source.cursor =>
                    p.at.uid <= work.next \/ p.at.uid \in work.left \cup work.hits
    /\ at = "moved" =>
          \A p \in planned :
              Stayed(p) /\ p.at.box = source.box /\ p.at.uid <= source.cursor =>
                  p.at.uid <= work.next

RunInv ==
    /\ Runs!TypeOK /\ Runs!HistoryBounded
    /\ Issued /\ Phases /\ SourcesKnown /\ PlannedCovered /\ Scanned
RunGood == RunInv' /\ FilesPlanned

-----------------------------------------------------------------------------
(* Least and greatest UIDs, ranks and windows.                             *)

\* What the constants are.
LEMMA RunBounds ==
    /\ MaxUid \in Nat /\ MaxRenames \in Nat /\ MaxBreaks \in Nat
    /\ Batch \in Nat /\ Batch >= 1 /\ MaxRuns \in Nat /\ MaxRuns >= 1
    /\ Matching \subseteq Msgs /\ Target \in Runs!Names /\ None \notin Runs!Names
    /\ None \notin Runs!Rows /\ Listing \in Seq(Runs!Names)
  BY MailboxBounds DEF Runs!RuleRunsAssumption

\* A set of numbers has a least one, and Min gives it.
LEMMA MinOfUids ==
    ASSUME NEW N \in Nat, NEW S, S \subseteq 1 .. N, S # {}
    PROVE  Runs!Min(S) \in S /\ \A m \in S : Runs!Min(S) <= m
<1> DEFINE T == {N + 1 - m : m \in S}
<1>1. T \subseteq 1 .. N /\ T # {}
  OBVIOUS
<1>2. Max(T) \in T /\ \A k \in T : k <= Max(T)
  <2> HIDE DEF T
  <2> QED
    BY <1>1, MaxOfUids
<1>3. PICK m \in S : Max(T) = N + 1 - m
  BY <1>2
<1>4. ASSUME NEW k \in S PROVE m <= k
  <2>1. N + 1 - k \in T /\ m \in 1 .. N /\ k \in 1 .. N
    OBVIOUS
  <2>2. N + 1 - k <= N + 1 - m
    BY <1>2, <1>3, <2>1
  <2> QED
    BY <2>1, <2>2
<1>5. \E x \in S : \A y \in S : x =< y
  BY <1>3, <1>4
<1>6. Runs!Min(S) \in S /\ \A y \in S : Runs!Min(S) =< y
  BY <1>5, Zenon DEF Runs!Min
<1> QED
  BY <1>6

\* And a greatest one, which Max gives.
LEMMA MaxOfSeen ==
    ASSUME NEW N \in Nat, NEW S, S \subseteq 1 .. N, S # {}
    PROVE  Runs!Max(S) \in S /\ \A m \in S : m <= Runs!Max(S)
  BY MaxOfUids DEF Runs!Max, Max

\* The first source that is not done.
LEMMA FirstOpenIs ==
    ASSUME NEW sources \in Seq(SourceRecords), NEW i \in 1 .. Len(sources) + 1
    PROVE  LET k == Runs!FirstOpen(sources, i)
           IN  /\ k \in i .. Len(sources) + 1
               /\ k <= Len(sources) => sources[k].cursor # 0
               /\ \A j \in i .. Len(sources) : sources[j].cursor # 0 => k <= j
<1> DEFINE S == {j \in i .. Len(sources) : sources[j].cursor # 0} \cup {Len(sources) + 1}
<1>1. S \subseteq 1 .. Len(sources) + 1 /\ S # {} /\ Len(sources) + 1 \in Nat
  OBVIOUS
<1>2. Runs!Min(S) \in S /\ \A m \in S : Runs!Min(S) <= m
  <2> HIDE DEF S
  <2> QED
    BY <1>1, MinOfUids
<1>3. Runs!FirstOpen(sources, i) = Runs!Min(S)
  BY DEF Runs!FirstOpen
<1> QED
  BY <1>2, <1>3


\* UIDs are positive, and finitely many.
LEMMA UidsAre ==
    ASSUME Runs!TypeOK, NEW b \in Runs!Names
    PROVE  /\ Runs!Uids(b) \subseteq 1 .. MaxUid
           /\ \A S \in SUBSET Runs!Uids(b) : IsFiniteSet(S)
<1>1. \A m \in Msgs : place[m] \in Runs!Place
  BY DEF Runs!TypeOK
<1>2. Runs!Uids(b) \subseteq 1 .. MaxUid
  BY <1>1, RunBounds DEF Runs!Uids, Runs!In, Runs!Place, Runs!Elsewhere
<1>3. IsFiniteSet(1 .. MaxUid)
  BY FS_Interval, RunBounds
<1> QED
  BY <1>2, <1>3, FS_Subset

Upto(b, u) == {v \in Runs!Uids(b) : v <= u}

\* Ranks are numbers.
LEMMA RankIs ==
    ASSUME Runs!TypeOK, NEW b \in Runs!Names, NEW u \in Nat
    PROVE  Runs!Rank(b, u) = Cardinality(Upto(b, u)) /\ Runs!Rank(b, u) \in Nat
<1>1. IsFiniteSet(Upto(b, u))
  BY UidsAre DEF Upto
<1> QED
  BY <1>1, FS_CardinalityType DEF Runs!Rank, Upto, Runs!Cardinality, Cardinality

\* The rank of a UID exceeds that of a smaller one by what lies between.
LEMMA RankBetween ==
    ASSUME Runs!TypeOK, NEW b \in Runs!Names, NEW u \in Nat, NEW v \in Nat, u <= v,
           NEW S, S = {w \in Runs!Uids(b) : w > u /\ w <= v}
    PROVE  Cardinality(S) \in Nat /\ Runs!Rank(b, v) = Runs!Rank(b, u) + Cardinality(S)
<1>1. IsFiniteSet(Upto(b, u)) /\ IsFiniteSet(S)
  BY UidsAre DEF Upto
<1>2. Upto(b, v) = Upto(b, u) \cup S /\ Upto(b, u) \cap S = {}
  BY UidsAre, RunBounds DEF Upto
<1>3. Cardinality({}) = 0
  BY FS_EmptySet
<1>4. Cardinality(Upto(b, v)) = Cardinality(Upto(b, u)) + Cardinality(S) - Cardinality({})
  BY <1>1, <1>2, FS_Union
<1>5. Cardinality(S) \in Nat
  BY <1>1, FS_CardinalityType
<1> QED
  BY <1>3, <1>4, <1>5, RankIs

\* Ranks grow with the UIDs.
LEMMA RankGrows ==
    ASSUME Runs!TypeOK, NEW b \in Runs!Names, NEW u \in Nat, NEW v \in Nat, u <= v
    PROVE  /\ Runs!Rank(b, u) <= Runs!Rank(b, v)
           /\ u < v /\ v \in Runs!Uids(b) => Runs!Rank(b, u) < Runs!Rank(b, v)
<1> DEFINE S == {w \in Runs!Uids(b) : w > u /\ w <= v}
<1>1. Cardinality(S) \in Nat /\ Runs!Rank(b, v) = Runs!Rank(b, u) + Cardinality(S)
  BY RankBetween
<1>2. Runs!Rank(b, u) \in Nat
  BY RankIs
<1>3. u < v /\ v \in Runs!Uids(b) => Cardinality(S) # 0
  <2>1. u < v /\ v \in Runs!Uids(b) => v \in S
    OBVIOUS
  <2>2. IsFiniteSet(S)
    BY UidsAre
  <2> QED
    BY <2>1, <2>2, FS_EmptySet
<1> QED
  BY <1>1, <1>2, <1>3

\* Every sequence number up to that of a UID is the one of some UID.
LEMMA RankReached ==
    ASSUME Runs!TypeOK, NEW b \in Runs!Names, NEW c \in Runs!Uids(b), NEW u \in Runs!Uids(b),
           NEW k \in Nat, Runs!Rank(b, u) <= k, k <= Runs!Rank(b, c)
    PROVE  \E v \in Runs!Uids(b) : Runs!Rank(b, v) = k
<1> DEFINE S == {v \in Runs!Uids(b) : Runs!Rank(b, v) <= k}
<1>1. Runs!Uids(b) \subseteq 1 .. MaxUid /\ MaxUid \in Nat /\ Runs!Uids(b) \subseteq Nat
  BY UidsAre, RunBounds
<1>2. S \subseteq 1 .. MaxUid /\ S # {}
  BY <1>1
<1>3. PICK v \in S : \A m \in S : m <= v
  <2> HIDE DEF S
  <2> QED
    BY <1>1, <1>2, MaxOfUids
<1>4. v \in Runs!Uids(b) /\ v \in Nat /\ c \in Nat /\ Runs!Rank(b, v) \in Nat /\ Runs!Rank(b, v) <= k
  BY <1>1, <1>3, RankIs
<1>5. CASE c <= v
  <2>1. Runs!Rank(b, c) <= Runs!Rank(b, v) /\ Runs!Rank(b, c) \in Nat
    BY <1>4, <1>5, RankGrows, RankIs
  <2> QED
    BY <1>4, <2>1
<1>6. CASE v < c
  <2> DEFINE T == {w \in Runs!Uids(b) : v < w}
  <2>1. T \subseteq 1 .. MaxUid /\ T # {}
    BY <1>1, <1>6
  <2>2. PICK w \in T : \A m \in T : w <= m
    <3> HIDE DEF T
    <3> QED
      BY <1>1, <2>1, MinOfUids
  <2>3. w \in Runs!Uids(b) /\ w \in Nat /\ v < w
    BY <1>1, <2>2
  <2>4. {x \in Runs!Uids(b) : x > v /\ x <= w} = {w}
    BY <1>1, <1>4, <2>2, <2>3
  <2>5. Cardinality({w}) = 1
    BY FS_Singleton
  <2>6. Runs!Rank(b, w) = Runs!Rank(b, v) + 1
    BY <1>4, <2>3, <2>4, <2>5, RankBetween
  <2>7. ~(w <= v)
    BY <1>4, <2>3
  <2>8. w \notin S
    BY <1>3, <2>7
  <2>9. ~(Runs!Rank(b, w) <= k)
    BY <2>3, <2>8
  <2> QED
    BY <1>4, <2>6, <2>9
<1> QED
  BY <1>4, <1>5, <1>6, <1>1

\* The candidates and the next cursor of a window that is trusted divide the
\* UIDs up to the cursor.
LEMMA WindowIs ==
    ASSUME Runs!TypeOK, NEW b \in Runs!Names, NEW c \in Nat, NEW n \in Nat,
           Runs!AnchorHolds(b, c, n), NEW us, us = Runs!Window(b, n)
    PROVE  /\ c \in Runs!Uids(b) /\ us \subseteq Upto(b, c)
           /\ Runs!Candidates(us) \subseteq us
           /\ Runs!NextCursor(us) \in 0 .. c
           /\ \A u \in Upto(b, c) : u \in Runs!Candidates(us) \/ u <= Runs!NextCursor(us)
<1>1. Runs!Uids(b) \subseteq 1 .. MaxUid /\ MaxUid \in Nat /\ Runs!Uids(b) \subseteq Nat
      /\ Batch \in Nat /\ Batch >= 1
  BY UidsAre, RunBounds
<1>2. us \subseteq Runs!Uids(b) /\ us # {} /\ us \subseteq 1 .. MaxUid
  BY <1>1 DEF Runs!AnchorHolds, Runs!Window
<1>3. c \in us /\ (\A u \in us : u <= c) /\ Runs!Rank(b, c) = n
  <2>1. Runs!Max(us) \in us /\ \A u \in us : u <= Runs!Max(us)
    BY <1>1, <1>2, MaxOfSeen
  <2> QED
    BY <2>1 DEF Runs!AnchorHolds
<1>4. us \subseteq Upto(b, c)
  BY <1>2, <1>3 DEF Upto
<1>5. \A u \in Upto(b, c) : Runs!Rank(b, u) \in Nat /\ Runs!Rank(b, u) <= n
                            /\ (u \in us <=> Runs!Rank(b, u) >= n - Batch)
  <2> TAKE u \in Upto(b, c)
  <2>1. u \in Nat /\ u <= c /\ u \in Runs!Uids(b)
    BY <1>1 DEF Upto
  <2>2. Runs!Rank(b, u) \in Nat /\ Runs!Rank(b, u) <= n
    BY <1>3, <2>1, RankIs, RankGrows
  <2> QED
    BY <1>1, <2>1, <2>2 DEF Runs!Window
<1>6. ASSUME NEW u \in us
      PROVE  Runs!Cardinality({v \in us : v > u}) = n - Runs!Rank(b, u)
  <2>1. /\ u \in Upto(b, c) /\ u \in Nat /\ u <= c
        /\ Runs!Rank(b, u) >= n - Batch /\ Runs!Rank(b, u) \in Nat
    BY <1>1, <1>2, <1>4, <1>5 DEF Upto
  <2>2. ASSUME NEW v \in Runs!Uids(b), v > u, v <= c PROVE v \in us
    <3>1. v \in Upto(b, c) /\ v \in Nat
      BY <1>1, <2>2 DEF Upto
    <3>2. Runs!Rank(b, u) <= Runs!Rank(b, v) /\ Runs!Rank(b, v) \in Nat
      BY <2>1, <2>2, <3>1, RankGrows, RankIs
    <3>3. Runs!Rank(b, v) >= n - Batch
      BY <1>1, <2>1, <3>2
    <3> QED
      BY <1>5, <3>1, <3>3
  <2>3. {v \in us : v > u} = {v \in Runs!Uids(b) : v > u /\ v <= c}
    BY <1>2, <1>3, <2>2
  <2>4. Cardinality({v \in us : v > u}) \in Nat
        /\ Runs!Rank(b, c) = Runs!Rank(b, u) + Cardinality({v \in us : v > u})
    BY <2>1, <2>3, RankBetween
  <2>5. Runs!Cardinality({v \in us : v > u}) = Cardinality({v \in us : v > u})
    BY DEF Runs!Cardinality, Cardinality
  <2> QED
    BY <1>3, <2>1, <2>4, <2>5
<1>7. \A u \in us : u \in Runs!Candidates(us) <=> Runs!Rank(b, u) > n - Batch
  <2> TAKE u \in us
  <2>1. u \in Upto(b, c) /\ Runs!Rank(b, u) \in Nat
    BY <1>4, <1>5
  <2>2. u \in Runs!Candidates(us) <=> n - Runs!Rank(b, u) < Batch
    BY <1>6 DEF Runs!Candidates
  <2> QED
    BY <1>1, <2>1, <2>2
<1>8. Runs!Candidates(us) \subseteq us
  BY DEF Runs!Candidates
<1> DEFINE rest == us \ Runs!Candidates(us)
<1>9. \A u \in rest : u \in us /\ Runs!Rank(b, u) = n - Batch
  <2> TAKE u \in rest
  <2>1. u \in us /\ u \in Upto(b, c) /\ ~(Runs!Rank(b, u) > n - Batch)
    BY <1>4, <1>7
  <2> QED
    BY <1>1, <1>5, <2>1
<1>10. rest # {} => Runs!Min(rest) \in rest /\ \A u \in rest : Runs!Min(rest) <= u
  <2>1. rest \subseteq 1 .. MaxUid
    BY <1>2
  <2> HIDE DEF rest
  <2> QED
    BY <1>1, <2>1, MinOfUids
<1>11. Runs!NextCursor(us) = IF rest = {} THEN 0 ELSE Runs!Min(rest)
  BY DEF Runs!NextCursor
<1>12. Runs!NextCursor(us) \in 0 .. c
  <2>1. rest # {} => Runs!Min(rest) \in us
    BY <1>10
  <2>2. rest # {} => Runs!Min(rest) \in 1 .. MaxUid /\ Runs!Min(rest) <= c
    BY <1>2, <1>3, <2>1
  <2> HIDE DEF rest
  <2> QED
    BY <1>11, <2>2
<1>13. ASSUME NEW u \in Upto(b, c), u \notin Runs!Candidates(us) PROVE u <= Runs!NextCursor(us)
  <2>1. u \in Nat /\ u \in Runs!Uids(b) /\ Runs!Rank(b, u) \in Nat
    BY <1>1, <1>5 DEF Upto
  <2>2. ~(Runs!Rank(b, u) > n - Batch)
    <3>1. CASE u \in us
      BY <1>7, <1>13, <3>1
    <3>2. CASE u \notin us
      BY <1>1, <1>5, <2>1, <3>2
    <3> QED
      BY <3>1, <3>2
  <2>3. PICK v \in Runs!Uids(b) : Runs!Rank(b, v) = n - Batch
    <3>1. n - Batch \in Nat /\ Runs!Rank(b, u) <= n - Batch /\ n - Batch <= Runs!Rank(b, c)
      BY <1>1, <1>3, <2>1, <2>2
    <3>2. c \in Runs!Uids(b)
      BY <1>2, <1>3
    <3> QED
      BY <2>1, <3>1, <3>2, RankReached
  <2>4. v \in Nat /\ v <= c
    <3>1. v \in Nat
      BY <1>1
    <3>2. ~(c < v)
      BY <1>1, <1>3, <2>3, <3>1, RankGrows
    <3> QED
      BY <3>1, <3>2
  <2>5. v \in rest
    <3>1. v \in Upto(b, c)
      BY <2>4 DEF Upto
    <3>2. v \in us
      BY <1>1, <1>5, <2>3, <3>1
    <3> QED
      BY <1>1, <1>7, <2>3, <3>2
  <2>6. PICK w \in rest : w = Runs!NextCursor(us)
    <3> HIDE DEF rest
    <3> QED
      BY <1>10, <1>11, <2>5
  <2>7. w \in us /\ w \in Nat /\ w \in Runs!Uids(b) /\ Runs!Rank(b, w) = n - Batch
    BY <1>1, <1>2, <1>9, <2>6
  <2>8. ~(w < u)
    BY <1>1, <2>1, <2>2, <2>7, RankGrows
  <2> QED
    BY <2>1, <2>6, <2>7, <2>8
<1> QED
  BY <1>2, <1>3, <1>4, <1>8, <1>12, <1>13


-----------------------------------------------------------------------------
(* What may happen to mail and mailboxes while a run is under way.         *)

MailTyped ==
    /\ place \in [Msgs -> Runs!Place]
    /\ DOMAIN uidnext \subseteq Runs!Names /\ uidnext \in [DOMAIN uidnext -> 1 .. MaxUid + 1]
    /\ planned \subseteq [msg : Msgs, at : Runs!Place]
    /\ replaced \subseteq Runs!Names /\ renames \in 0 .. MaxRenames

\* No message comes back to where it was, and a mailbox that is not replaced
\* gets new messages at its end only.
MailSafe ==
    /\ MailTyped' /\ Issued'
    /\ replaced \subseteq replaced' /\ planned' \subseteq planned
    /\ \A p \in planned : p.at.box \notin replaced' => p \in planned'
    /\ \A p \in planned' : place'[p.msg] = p.at => place[p.msg] = p.at
    /\ \A b \in DOMAIN uidnext \ replaced' : b \in DOMAIN uidnext' /\ uidnext[b] <= uidnext'[b]
    /\ \A m \in Msgs : \A b \in DOMAIN uidnext \ replaced' :
          place'[m].box = b /\ place'[m].uid < uidnext[b] => place'[m] = place[m]

\* What the types say of places and UIDs.
LEMMA PlacesAre ==
    ASSUME MailTyped
    PROVE  /\ \A m \in Msgs : place[m] \in Runs!Place
           /\ \A m \in Msgs : place[m] # Elsewhere =>
                 place[m].box \in Runs!Names \ Excluded /\ place[m].uid \in 1 .. MaxUid
           /\ \A m \in Msgs : place[m].box \in Runs!Names => place[m] # Elsewhere
           /\ \A p \in planned : p.msg \in Msgs /\ p.at \in Runs!Place
           /\ \A p \in planned : p.at.box \in Runs!Names => p.at.uid \in 1 .. MaxUid /\ p.at # Elsewhere
           /\ \A b \in DOMAIN uidnext : b \in Runs!Names /\ uidnext[b] \in 1 .. MaxUid + 1
           /\ \A m \in Msgs : place[m].uid \in Nat
<1> USE DEF MailTyped, Runs!Place, Runs!Elsewhere, Elsewhere
<1>1. \A m \in Msgs : place[m] \in Runs!Place
  OBVIOUS
<1>2. \A p \in planned : p.msg \in Msgs /\ p.at \in Runs!Place
  OBVIOUS
<1>3. \A x \in Runs!Place : /\ x # Elsewhere => x.box \in Runs!Names \ Excluded /\ x.uid \in 1 .. MaxUid
                            /\ x.box \in Runs!Names => x # Elsewhere
                            /\ x.uid \in Nat
  BY RunBounds
<1> QED
  BY <1>1, <1>2, <1>3 DEF Runs!Place

\* The parts of the invariant that are cited most.
LEMMA RunParts ==
    ASSUME RunInv
    PROVE  /\ MailTyped /\ Issued
           /\ draft.sources \in Seq(SourceRecords) /\ draft.todo \in SUBSET (Runs!Names \ Excluded)
           /\ run # None => run \in Runs!Rows /\ run.sources \in Seq(SourceRecords)
                            /\ run.index \in 1 .. Len(run.sources) + 1
  BY DEF RunInv, MailTyped, Runs!TypeOK, Runs!Rows, Runs!Sources, SourceRecords

\* The source that a step is about.
LEMMA SourceIs ==
    ASSUME RunInv, at \in Steps
    PROVE  /\ Runs!Active /\ run # None /\ open \in run.index .. Len(run.sources)
           /\ open \in 1 .. Len(run.sources)
           /\ source = run.sources[open] /\ source \in SourceRecords /\ source.cursor # 0
           /\ source.cursor \in 1 .. MaxUid /\ source.box \in Runs!Names
           /\ Known(source)
<1>1. Runs!Active /\ run # None /\ open <= Len(run.sources)
  BY DEF RunInv, Phases, Steps, Runs!Active
<1>2. run.sources \in Seq(SourceRecords) /\ run.index \in 1 .. Len(run.sources) + 1
  BY <1>1, RunParts
<1>3. open \in run.index .. Len(run.sources) /\ run.sources[open].cursor # 0
  BY <1>1, <1>2, FirstOpenIs DEF open
<1>4. open \in 1 .. Len(run.sources)
  BY <1>2, <1>3
<1>5. source = run.sources[open] /\ source \in SourceRecords
  BY <1>2, <1>4 DEF source, Runs!Source, open
<1>6. Known(run.sources[open])
  BY <1>1, <1>4 DEF RunInv, SourcesKnown
<1>7. source.cursor \in 1 .. MaxUid /\ source.box \in Runs!Names
  BY <1>3, <1>5, RunBounds DEF SourceRecords
<1>8. Known(source)
  BY <1>5, <1>6
<1> QED
  BY <1>1, <1>3, <1>4, <1>5, <1>7, <1>8

\* What is known of a source, and what has stayed, is so after mail has moved.
LEMMA KnownStays ==
    ASSUME RunInv, MailSafe
    PROVE  /\ \A s \in SourceRecords : Known(s) => Known(s)'
           /\ \A p \in planned' : p \in planned /\ (Stayed(p)' => Stayed(p))
           /\ \A b \in Runs!Names \ replaced' : b \notin replaced
<1>1. MailTyped /\ MailTyped'
  BY RunParts DEF MailSafe
<1>2. ASSUME NEW s \in SourceRecords, Known(s), s.box \notin replaced'
      PROVE  /\ s.box \in DOMAIN uidnext' /\ s.cursor < uidnext'[s.box]
             /\ \A m \in Msgs : place'[m].box = s.box /\ place'[m].uid <= s.cursor =>
                   [msg |-> m, at |-> place'[m]] \in planned'
  <2>1. s.box \in DOMAIN uidnext /\ s.cursor < uidnext[s.box] /\ s.cursor \in Nat
    BY <1>2, RunBounds DEF Known, SourceRecords, MailSafe
  <2>2. s.box \in DOMAIN uidnext' /\ uidnext[s.box] <= uidnext'[s.box]
    BY <1>2, <2>1 DEF MailSafe
  <2>3. uidnext[s.box] \in Nat /\ uidnext'[s.box] \in Nat
    BY <1>1, <2>1, <2>2, RunBounds DEF MailTyped
  <2>4. ASSUME NEW m \in Msgs, place'[m].box = s.box, place'[m].uid <= s.cursor
        PROVE  [msg |-> m, at |-> place'[m]] \in planned'
    <3>1. place'[m].uid \in Nat
      BY <1>1, RunBounds DEF MailTyped, Runs!Place, Runs!Elsewhere
    <3>2. place'[m] = place[m]
      BY <1>2, <2>1, <2>3, <2>4, <3>1 DEF MailSafe
    <3>3. [msg |-> m, at |-> place[m]] \in planned
      BY <1>2, <2>4, <3>2 DEF Known, MailSafe
    <3> QED
      BY <1>2, <2>4, <3>2, <3>3 DEF MailSafe
  <2> QED
    BY <2>1, <2>2, <2>3, <2>4
<1>3. \A s \in SourceRecords : Known(s) => Known(s)'
  BY <1>2 DEF Known
<1>4. \A p \in planned' : p \in planned /\ (Stayed(p)' => Stayed(p))
  BY DEF MailSafe, Stayed
<1> QED
  BY <1>3, <1>4 DEF MailSafe

\* Nothing has happened to mail.
LEMMA MailStill ==
    ASSUME RunInv, UNCHANGED <<place, uidnext, planned, replaced, renames>>
    PROVE  MailSafe
  BY RunParts DEF MailSafe, MailTyped, Issued

\* Messages leave.
LEMMA Departs ==
    ASSUME RunInv, NEW ms, Runs!Depart(ms), UNCHANGED <<uidnext, planned, replaced, renames>>
    PROVE  MailSafe
<1>1. MailTyped /\ Issued
  BY RunParts
<1>2. \A m \in Msgs : place'[m] = IF m \in ms THEN Elsewhere ELSE place[m]
  BY DEF Runs!Depart, Elsewhere, Runs!Elsewhere
<1>3. MailTyped'
  BY <1>1 DEF MailTyped, Runs!Depart, Runs!Place
<1>4. Issued'
  BY <1>1, <1>2 DEF Issued, Elsewhere, Runs!Elsewhere
<1>5. \A p \in planned : p.at # Elsewhere /\ p.msg \in Msgs
  BY <1>1, PlacesAre DEF Issued
<1>6. \A m \in Msgs : \A b \in DOMAIN uidnext : place'[m].box = b => place'[m] = place[m]
  <2>1. \A b \in DOMAIN uidnext : b # Elsewhere.box
    BY <1>1, PlacesAre, RunBounds DEF Elsewhere, Runs!Elsewhere
  <2> QED
    BY <1>2, <2>1
<1>7. \A b \in DOMAIN uidnext : uidnext[b] <= uidnext[b]
  BY <1>1, PlacesAre, RunBounds
<1> QED
  BY <1>2, <1>3, <1>4, <1>5, <1>6, <1>7 DEF MailSafe

\* Mail changes beside the helper.
RunStill == UNCHANGED <<run, ended, at, draft, work, failed>>

\* What mail changes beside the helper leaves the invariant true.
LEMMA BesideRun ==
    ASSUME RunInv, MailSafe, RunStill
    PROVE  RunGood
<1>1. Runs!TypeOK'
  BY DEF RunInv, MailSafe, MailTyped, Runs!TypeOK, RunStill
<1>2. Runs!HistoryBounded'
  BY DEF RunInv, Runs!HistoryBounded, Runs!Active, RunStill, Runs!Final
<1>3. Phases'
  BY DEF RunInv, Phases, Runs!Active, RunStill, open, Runs!FirstOpen
<1>4. /\ draft.sources \in Seq(SourceRecords)
      /\ run # None => run.sources \in Seq(SourceRecords) /\ run.index \in 1 .. Len(run.sources) + 1
  BY RunParts
<1>5. SourcesKnown'
  <2>1. /\ \A i \in 1 .. Len(draft.sources) : draft.sources[i] \in SourceRecords
        /\ Runs!Active => \A i \in 1 .. Len(run.sources) : run.sources[i] \in SourceRecords
    BY <1>4 DEF Runs!Active
  <2>2. draft' = draft /\ run' = run /\ at' = at /\ (Runs!Active' <=> Runs!Active)
    BY DEF RunStill, Runs!Active
  <2> QED
    BY <2>1, <2>2, KnownStays DEF RunInv, SourcesKnown
<1>6. PlannedCovered'
  BY KnownStays DEF RunInv, PlannedCovered, Covers, RunStill
<1>7. source' = source /\ work' = work /\ at' = at
  BY DEF source, Runs!Source, Runs!FirstOpen, RunStill
<1>8. Scanned'
  <2>1. at = "scanning" /\ source.box \notin replaced' =>
            \A m \in Msgs : place'[m].box = source.box /\ place'[m].uid \in work.hits => m \in Matching
    <3>1. SUFFICES ASSUME at = "scanning", source.box \notin replaced', NEW m \in Msgs,
                          place'[m].box = source.box, place'[m].uid \in work.hits
                   PROVE  m \in Matching
      OBVIOUS
    <3>2. source.box \in DOMAIN uidnext /\ source.cursor < uidnext[source.box]
          /\ source.box \notin replaced /\ source.cursor \in Nat
      BY <3>1, SourceIs, KnownStays, RunBounds DEF Known, Steps
    <3>3. place'[m].uid \in Nat /\ place'[m].uid <= source.cursor /\ uidnext[source.box] \in Nat
      <4>1. work.hits \subseteq 1 .. MaxUid /\ uidnext[source.box] \in 1 .. MaxUid + 1
        BY <3>2 DEF RunInv, Runs!TypeOK
      <4>2. \A u \in work.hits : u <= source.cursor
        BY <3>1 DEF RunInv, Scanned
      <4> QED
        BY <3>1, <4>1, <4>2, RunBounds
    <3>4. place'[m] = place[m]
      BY <3>1, <3>2, <3>3 DEF MailSafe
    <3> QED
      BY <3>1, <3>2, <3>4 DEF RunInv, Scanned
  <2>2. \A p \in planned' :
            Stayed(p)' /\ p.at.box = source.box /\ p.at.uid <= source.cursor =>
              /\ at = "scanning" => p.at.uid <= work.next \/ p.at.uid \in work.left \cup work.hits
              /\ at = "moved" => p.at.uid <= work.next
    BY KnownStays DEF RunInv, Scanned
  <2> QED
    BY <1>7, <2>1, <2>2 DEF RunInv, Scanned
<1>9. FilesPlanned
  BY DEF FilesPlanned, Runs!FilesPlanned, Runs!Filed, RunStill
<1> QED
  BY <1>1, <1>2, <1>3, <1>5, <1>6, <1>8, <1>9 DEF RunGood, RunInv, MailSafe


\* A message that arrives gets a UID that nobody has had.
LEMMA ArriveStep ==
    ASSUME RunInv, NEW m \in Msgs, NEW b \in DOMAIN uidnext, Runs!Arrive(m, b)
    PROVE  RunGood
<1>1. MailTyped /\ Issued
  BY RunParts
<1>2. /\ place[m] = Elsewhere /\ b \notin Excluded /\ uidnext[b] <= MaxUid
      /\ place' = [place EXCEPT ![m] = [box |-> b, uid |-> uidnext[b]]]
      /\ uidnext' = [uidnext EXCEPT ![b] = @ + 1]
      /\ planned' = planned /\ replaced' = replaced /\ renames' = renames /\ RunStill
  BY DEF Runs!Arrive, Elsewhere, RunStill, Runs!rows
<1>3. b \in Runs!Names \ Excluded /\ uidnext[b] \in 1 .. MaxUid /\ b # Elsewhere.box
  BY <1>1, <1>2, RunBounds DEF MailTyped, Elsewhere, Runs!Elsewhere
<1>4. /\ place'[m] = [box |-> b, uid |-> uidnext[b]] /\ \A n \in Msgs \ {m} : place'[n] = place[n]
      /\ DOMAIN uidnext' = DOMAIN uidnext
      /\ \A c \in DOMAIN uidnext : uidnext[c] \in Nat
            /\ uidnext'[c] = IF c = b THEN uidnext[b] + 1 ELSE uidnext[c]
  BY <1>1, <1>2, RunBounds DEF MailTyped
<1>5. MailTyped'
  <2>1. [box |-> b, uid |-> uidnext[b]] \in Runs!Place
    BY <1>3 DEF Runs!Place
  <2>2. place' \in [Msgs -> Runs!Place]
    BY <1>1, <1>2, <2>1 DEF MailTyped
  <2>3. uidnext[b] + 1 \in 1 .. MaxUid + 1
    BY <1>3, RunBounds
  <2>4. uidnext' \in [DOMAIN uidnext -> 1 .. MaxUid + 1]
    BY <1>1, <1>2, <2>3 DEF MailTyped
  <2> QED
    BY <1>1, <1>2, <1>4, <2>2, <2>4 DEF MailTyped
<1>6. \A n \in Msgs : place[n] # Elsewhere => place[n].box \in DOMAIN uidnext
                         /\ place[n].uid < uidnext[place[n].box] /\ place[n].uid \in Nat
  BY <1>1, PlacesAre DEF Issued
<1>7. Issued'
  <2>1. \A n \in Msgs : place'[n] # Elsewhere =>
           place'[n].box \in DOMAIN uidnext' /\ place'[n].uid < uidnext'[place'[n].box]
    BY <1>2, <1>3, <1>4, <1>6
  <2>2. \A n \in Msgs \ {m} : place[n] # [box |-> b, uid |-> uidnext[b]]
    BY <1>2, <1>3, <1>6
  <2>3. \A k, n \in Msgs : place'[k] # Elsewhere /\ place'[k] = place'[n] => k = n
    BY <1>1, <1>4, <2>2 DEF Issued
  <2>4. \A p \in planned : /\ p.at.box \in DOMAIN uidnext
                           /\ p.at.uid < uidnext[p.at.box] /\ p.at.uid \in Nat
    BY <1>1, PlacesAre DEF Issued
  <2>5. \A p \in planned : p.at.box \in DOMAIN uidnext' /\ p.at.uid < uidnext'[p.at.box]
    BY <1>4, <2>4
  <2>6. Elsewhere' = Elsewhere
    BY DEF Elsewhere, Runs!Elsewhere
  <2> QED
    BY <1>2, <2>1, <2>3, <2>5, <2>6 DEF Issued
<1>8. \A p \in planned : place'[p.msg] = p.at => place[p.msg] = p.at
  <2>1. \A p \in planned : p.msg \in Msgs /\ p.at.uid < uidnext[p.at.box]
    BY <1>1, PlacesAre DEF Issued
  <2>2. [box |-> b, uid |-> uidnext[b]].uid = uidnext[b] /\ ~(uidnext[b] < uidnext[b])
    BY <1>3
  <2> QED
    BY <1>4, <2>1, <2>2
<1>9. \A n \in Msgs : \A c \in DOMAIN uidnext :
         place'[n].box = c /\ place'[n].uid < uidnext[c] => place'[n] = place[n]
  BY <1>3, <1>4
<1>10. \A c \in DOMAIN uidnext : c \in DOMAIN uidnext' /\ uidnext[c] <= uidnext'[c]
  BY <1>4
<1>11. MailSafe
  BY <1>2, <1>5, <1>7, <1>8, <1>9, <1>10 DEF MailSafe
<1> QED
  BY <1>2, <1>11, BesideRun

\* A message that leaves is nowhere.
LEMMA LeaveStep ==
    ASSUME RunInv, NEW m \in Msgs, Runs!Leave(m)
    PROVE  RunGood
<1>1. Runs!Depart({m}) /\ UNCHANGED <<uidnext, planned, replaced, renames>> /\ RunStill
  BY DEF Runs!Leave, RunStill, Runs!rows
<1> QED
  BY <1>1, Departs, BesideRun

\* What a renaming does to the history.
LEMMA RenamedIs ==
    ASSUME RunInv, NEW b, Runs!Renamed(b)
    PROVE  /\ b \in DOMAIN uidnext /\ b \in Runs!Names /\ replaced' = replaced \cup {b}
           /\ planned' = {p \in planned : p.at.box # b}
           /\ replaced' \subseteq Runs!Names /\ renames' \in 0 .. MaxRenames
           /\ planned' \subseteq [msg : Msgs, at : Runs!Place] /\ RunStill
<1>1. MailTyped
  BY RunParts
<1> QED
  BY <1>1, RunBounds DEF Runs!Renamed, MailTyped, RunStill, Runs!rows

\* A mailbox that is renamed takes its messages and its next UID along.
LEMMA MailboxRenameStep ==
    ASSUME RunInv, NEW b \in Runs!Names, NEW c \in Runs!Names, Runs!MailboxesRename(b, c)
    PROVE  RunGood
<1>1. MailTyped /\ Issued
  BY RunParts
<1>2. /\ b \in DOMAIN uidnext /\ replaced' = replaced \cup {b}
      /\ planned' = {p \in planned : p.at.box # b}
      /\ replaced' \subseteq Runs!Names /\ renames' \in 0 .. MaxRenames
      /\ planned' \subseteq [msg : Msgs, at : Runs!Place] /\ RunStill
  BY RenamedIs DEF Runs!MailboxesRename
<1>3. /\ c \notin DOMAIN uidnext /\ c \notin Excluded /\ b \notin Excluded
      /\ place' = [m \in Msgs |->
                      IF place[m].box = b THEN [box |-> c, uid |-> place[m].uid] ELSE place[m]]
      /\ uidnext' = [d \in (DOMAIN uidnext \ {b}) \cup {c} |->
                        IF d = c THEN uidnext[b] ELSE uidnext[d]]
  BY DEF Runs!MailboxesRename
<1>4. b # c /\ b # None /\ c # None
  BY <1>2, <1>3, RunBounds
<1>5. \A m \in Msgs :
         /\ place[m].box = b => place'[m].box = c /\ place'[m].uid = place[m].uid
         /\ place[m].box # b => place'[m] = place[m]
  <2> TAKE m \in Msgs
  <2>1. place'[m] = IF place[m].box = b THEN [box |-> c, uid |-> place[m].uid] ELSE place[m]
    BY <1>3
  <2>2. /\ [box |-> c, uid |-> place[m].uid].box = c
        /\ [box |-> c, uid |-> place[m].uid].uid = place[m].uid
    OBVIOUS
  <2> QED
    BY <2>1, <2>2
<1>6. /\ \A m \in Msgs : place[m] \in Runs!Place /\ place[m].uid \in Nat
      /\ \A m \in Msgs : place[m].box = b => place[m] # Elsewhere /\ place[m].uid \in 1 .. MaxUid
      /\ \A m \in Msgs : place[m] # Elsewhere =>
            place[m].box \in DOMAIN uidnext /\ place[m].uid < uidnext[place[m].box]
      /\ \A m \in Msgs : place[m].box # c
  <2>1. \A m \in Msgs : place[m].box = c => place[m] # Elsewhere
    BY <1>4 DEF Elsewhere, Runs!Elsewhere
  <2> QED
    BY <1>1, <1>3, <2>1, PlacesAre DEF Issued
<1>7. /\ \A d \in DOMAIN uidnext' : d = c \/ (d \in DOMAIN uidnext /\ d # b)
      /\ uidnext'[c] = uidnext[b] /\ c \in DOMAIN uidnext'
      /\ \A d \in DOMAIN uidnext : d # b => d \in DOMAIN uidnext' /\ uidnext'[d] = uidnext[d]
  BY <1>3, <1>4
<1>8. MailTyped'
  <2>1. \A m \in Msgs : place[m].box = b => [box |-> c, uid |-> place[m].uid] \in Runs!Place
    BY <1>3, <1>6 DEF Runs!Place
  <2>2. place' \in [Msgs -> Runs!Place]
    BY <1>3, <1>6, <2>1
  <2>3. \A d \in DOMAIN uidnext : d \in Runs!Names /\ uidnext[d] \in 1 .. MaxUid + 1
    BY <1>1, PlacesAre
  <2>4. DOMAIN uidnext' \subseteq Runs!Names /\ uidnext' \in [DOMAIN uidnext' -> 1 .. MaxUid + 1]
    BY <1>2, <1>3, <2>3
  <2> QED
    BY <1>2, <2>2, <2>4 DEF MailTyped
<1>9. \A p \in planned : p.msg \in Msgs /\ p.at.box \in DOMAIN uidnext /\ p.at.uid < uidnext[p.at.box]
  BY <1>1, PlacesAre DEF Issued
<1>10. Issued'
  <2>1. Elsewhere' = Elsewhere /\ Elsewhere.box = None
    BY DEF Elsewhere, Runs!Elsewhere
  <2>2. \A m \in Msgs : place'[m] # Elsewhere => place[m] # Elsewhere
    BY <1>5, <1>6
  <2>3. \A m \in Msgs : place'[m] # Elsewhere =>
           place'[m].box \in DOMAIN uidnext' /\ place'[m].uid < uidnext'[place'[m].box]
    <3>1. SUFFICES ASSUME NEW m \in Msgs, place'[m] # Elsewhere
                   PROVE  place'[m].box \in DOMAIN uidnext' /\ place'[m].uid < uidnext'[place'[m].box]
      OBVIOUS
    <3>2. place[m].box \in DOMAIN uidnext /\ place[m].uid < uidnext[place[m].box]
      BY <1>6, <2>2, <3>1
    <3>3. CASE place[m].box = b
      <4>1. place'[m].box = c /\ place'[m].uid = place[m].uid
        BY <1>5, <3>1, <3>3
      <4> QED
        BY <1>7, <3>2, <3>3, <4>1
    <3>4. CASE place[m].box # b
      BY <1>5, <1>7, <3>2, <3>4
    <3> QED
      BY <3>3, <3>4
  <2>4. \A m, n \in Msgs : place'[m] # Elsewhere /\ place'[m] = place'[n] => place[m] = place[n]
    <3>1. \A m \in Msgs : place[m].box = b => place[m] = [box |-> b, uid |-> place[m].uid]
      BY <1>6 DEF Runs!Place, Elsewhere
    <3>2. SUFFICES ASSUME NEW m \in Msgs, NEW n \in Msgs, place'[m] = place'[n]
                   PROVE  place[m] = place[n]
      OBVIOUS
    <3>3. CASE place[m].box = b /\ place[n].box = b
      <4>1. place'[m].uid = place[m].uid /\ place'[n].uid = place[n].uid
        BY <1>5, <3>2, <3>3
      <4> QED
        BY <3>1, <3>2, <3>3, <4>1
    <3>4. CASE place[m].box # b /\ place[n].box # b
      BY <1>5, <3>2, <3>4
    <3>5. CASE ~(place[m].box = b <=> place[n].box = b)
      <4>1. \A k \in Msgs : place'[k].box = c <=> place[k].box = b
        BY <1>5, <1>6
      <4> QED
        BY <3>2, <3>5, <4>1
    <3> QED
      BY <3>3, <3>4, <3>5
  <2>5. \A m, n \in Msgs : place'[m] # Elsewhere /\ place'[m] = place'[n] => m = n
    BY <1>1, <2>2, <2>4 DEF Issued
  <2>6. \A p \in planned' : p.at.box \in DOMAIN uidnext' /\ p.at.uid < uidnext'[p.at.box]
    BY <1>2, <1>7, <1>9
  <2> QED
    BY <2>1, <2>3, <2>5, <2>6 DEF Issued
<1>11. \A p \in planned : place'[p.msg] = p.at => place[p.msg] = p.at
  BY <1>3, <1>5, <1>9
<1>12. \A d \in DOMAIN uidnext \ replaced' : d \in DOMAIN uidnext' /\ uidnext[d] <= uidnext'[d]
  <2>1. \A d \in DOMAIN uidnext : uidnext[d] \in Nat
    BY <1>1, PlacesAre, RunBounds
  <2> QED
    BY <1>2, <1>7, <2>1
<1>13. \A m \in Msgs : \A d \in DOMAIN uidnext \ replaced' :
          place'[m].box = d /\ place'[m].uid < uidnext[d] => place'[m] = place[m]
  BY <1>3, <1>5
<1>14. MailSafe
  BY <1>2, <1>8, <1>10, <1>11, <1>12, <1>13 DEF MailSafe
<1> QED
  BY <1>2, <1>14, BesideRun

\* A mailbox that goes takes its messages along.
LEMMA RenameAwayStep ==
    ASSUME RunInv, NEW b \in Runs!Names, Runs!MailboxesRenameAway(b)
    PROVE  RunGood
<1>1. MailTyped /\ Issued
  BY RunParts
<1>2. /\ b \in DOMAIN uidnext /\ replaced' = replaced \cup {b}
      /\ planned' = {p \in planned : p.at.box # b}
      /\ replaced' \subseteq Runs!Names /\ renames' \in 0 .. MaxRenames
      /\ planned' \subseteq [msg : Msgs, at : Runs!Place] /\ RunStill
  BY RenamedIs DEF Runs!MailboxesRenameAway
<1>3. uidnext' = [d \in DOMAIN uidnext \ {b} |-> uidnext[d]]
  BY DEF Runs!MailboxesRenameAway
<1>4. /\ place' = [m \in Msgs |-> IF place[m].box = b THEN Elsewhere ELSE place[m]]
      /\ \A m \in Msgs : place'[m] = IF place[m].box = b THEN Elsewhere ELSE place[m]
  BY DEF Runs!MailboxesRenameAway, Runs!Depart, Runs!In, Elsewhere, Runs!Elsewhere
<1>5. MailTyped'
  BY <1>1, <1>2, <1>3, <1>4 DEF MailTyped, Runs!Place, Elsewhere
<1>6. \A p \in planned : p.msg \in Msgs /\ p.at.box \in DOMAIN uidnext
                         /\ p.at.uid < uidnext[p.at.box] /\ p.at # Elsewhere
  BY <1>1, PlacesAre DEF Issued
<1>7. Elsewhere' = Elsewhere /\ Elsewhere.box \notin DOMAIN uidnext
  BY <1>1, RunBounds DEF Elsewhere, Runs!Elsewhere, MailTyped
<1>8. Issued'
  BY <1>1, <1>2, <1>3, <1>4, <1>6, <1>7 DEF Issued
<1>9. \A p \in planned : place'[p.msg] = p.at => place[p.msg] = p.at
  BY <1>4, <1>6
<1>10. \A d \in DOMAIN uidnext \ replaced' : d \in DOMAIN uidnext' /\ uidnext[d] <= uidnext'[d]
  <2>1. \A d \in DOMAIN uidnext : uidnext[d] \in Nat
    BY <1>1, PlacesAre, RunBounds
  <2> QED
    BY <1>2, <1>3, <2>1
<1>11. \A m \in Msgs : \A d \in DOMAIN uidnext \ replaced' :
          place'[m].box = d /\ place'[m].uid < uidnext[d] => place'[m] = place[m]
  BY <1>4, <1>7
<1>12. MailSafe
  BY <1>2, <1>5, <1>8, <1>9, <1>10, <1>11 DEF MailSafe
<1> QED
  BY <1>2, <1>12, BesideRun

\* A name that has no mailbox was replaced, or is no source.
LEMMA CreateStep ==
    ASSUME RunInv, NEW b \in Runs!Names, Runs!MailboxesCreate(b)
    PROVE  RunGood
<1>1. MailTyped /\ Issued
  BY RunParts
<1>2. /\ b \notin DOMAIN uidnext
      /\ uidnext' = [d \in DOMAIN uidnext \cup {b} |-> IF d = b THEN 1 ELSE uidnext[d]]
      /\ UNCHANGED <<place, planned, replaced, renames>> /\ RunStill
  BY DEF Runs!MailboxesCreate, RunStill, Runs!rows
<1>3. \A d \in DOMAIN uidnext : d \in DOMAIN uidnext' /\ uidnext'[d] = uidnext[d] /\ uidnext[d] \in Nat
  BY <1>1, <1>2, PlacesAre, RunBounds
<1>4. MailTyped'
  <2>1. 1 \in 1 .. MaxUid + 1
    BY RunBounds
  <2>2. DOMAIN uidnext' \subseteq Runs!Names /\ uidnext' \in [DOMAIN uidnext' -> 1 .. MaxUid + 1]
    BY <1>1, <1>2, <2>1 DEF MailTyped
  <2> QED
    BY <1>1, <1>2, <2>2 DEF MailTyped
<1>5. Issued'
  <2>1. Elsewhere' = Elsewhere
    BY DEF Elsewhere, Runs!Elsewhere
  <2> QED
    BY <1>1, <1>2, <1>3, <2>1 DEF Issued
<1>6. MailSafe
  BY <1>2, <1>3, <1>4, <1>5 DEF MailSafe
<1> QED
  BY <1>2, <1>6, BesideRun



-----------------------------------------------------------------------------
(* Planning a run.                                                         *)

NoChange == UNCHANGED <<place, uidnext, planned, replaced, renames>>

\* Nothing changes for mail, nor for what is known of it.
LEMMA MailSame ==
    ASSUME RunInv, NoChange
    PROVE  /\ MailTyped' /\ Issued'
           /\ \A s : Known(s)' <=> Known(s)
           /\ \A p : Stayed(p)' <=> Stayed(p)
           /\ FilesPlanned
<1>1. MailTyped' /\ Issued'
  BY RunParts DEF NoChange, MailTyped, Issued
<1>2. \A s : Known(s)' <=> Known(s)
  BY DEF NoChange, Known
<1>3. \A p : Stayed(p)' <=> Stayed(p)
  BY DEF NoChange, Stayed
<1>4. FilesPlanned
  BY DEF NoChange, FilesPlanned, Runs!FilesPlanned, Runs!Filed
<1> QED
  BY <1>1, <1>2, <1>3, <1>4

\* No UID of what was planned is 0, so a source with a cursor of 0 covers none.
LEMMA CoversOpen ==
    ASSUME RunInv, NEW sources \in Seq(SourceRecords), NEW i \in 1 .. Len(sources) + 1,
           NEW p \in planned, Covers(sources, i, p)
    PROVE  Covers(sources, Runs!FirstOpen(sources, i), p)
<1>1. PICK j \in i .. Len(sources) : sources[j].box = p.at.box /\ p.at.uid <= sources[j].cursor
  BY DEF Covers
<1>2. p.at.uid \in 1 .. MaxUid
  BY RunParts, PlacesAre DEF Issued
<1>3. sources[j].cursor \in 0 .. MaxUid
  <2>1. sources[j] \in SourceRecords
    OBVIOUS
  <2> QED
    BY <2>1 DEF SourceRecords
<1>4. sources[j].cursor # 0
  <2>1. PICK u, k : u = p.at.uid /\ k = sources[j].cursor
    OBVIOUS
  <2>2. MaxUid \in Nat /\ u \in 1 .. MaxUid /\ k \in 0 .. MaxUid /\ u <= k
    BY <1>1, <1>2, <1>3, <2>1, RunBounds
  <2>3. k # 0
    BY <2>2
  <2> QED
    BY <2>1, <2>3
<1>5. Runs!FirstOpen(sources, i) <= j /\ Runs!FirstOpen(sources, i) \in i .. Len(sources) + 1
  BY <1>4, FirstOpenIs
<1> QED
  BY <1>1, <1>5 DEF Covers

\* A plan starts from nothing.
LEMMA RunCreateStep ==
    ASSUME RunInv, Runs!RulesRunCreate
    PROVE  RunGood
<1>1. /\ at = "idle" /\ ~Runs!Active /\ at' = "planning"
      /\ draft' = [todo |-> DOMAIN uidnext \ Excluded, sources |-> <<>>]
      /\ planned' = {} /\ replaced' = {}
      /\ UNCHANGED <<place, uidnext, run, ended, work, renames, failed>>
  BY DEF Runs!RulesRunCreate, Runs!rows
<1>2. draft' \in [todo : SUBSET (Runs!Names \ Excluded), sources : Runs!Sources]
  <2>1. <<>> \in Runs!Sources
    BY DEF Runs!Sources
  <2>2. DOMAIN uidnext \ Excluded \subseteq Runs!Names \ Excluded
    BY DEF RunInv, Runs!TypeOK
  <2> QED
    BY <1>1, <2>1, <2>2
<1>3. Runs!TypeOK'
  BY <1>1, <1>2 DEF RunInv, Runs!TypeOK
<1>4. Runs!HistoryBounded' /\ (Runs!Active' <=> Runs!Active)
  BY <1>1 DEF RunInv, Runs!HistoryBounded, Runs!Active, Runs!Final
<1>5. Issued'
  BY <1>1, RunParts DEF Issued, Elsewhere, Runs!Elsewhere
<1>6. Phases'
  BY <1>1, <1>4 DEF RunInv, Phases, Steps
<1>7. SourcesKnown' /\ PlannedCovered'
  BY <1>1, <1>4 DEF SourcesKnown, PlannedCovered
<1>8. Scanned'
  BY <1>1 DEF Scanned
<1>9. FilesPlanned
  BY <1>1 DEF FilesPlanned, Runs!FilesPlanned, Runs!Filed
<1> QED
  BY <1>3, <1>4, <1>5, <1>6, <1>7, <1>8, <1>9 DEF RunGood, RunInv

\* The mailbox that is looked at next is one that is left.
LEMMA NextListedIs ==
    ASSUME RunInv, draft.todo # {}
    PROVE  Runs!NextListed \in draft.todo /\ Runs!NextListed \in Runs!Names \ Excluded
<1> DEFINE S == {i \in DOMAIN Listing : Listing[i] \in draft.todo}
<1>1. draft.todo \subseteq Runs!Names \ Excluded
  BY RunParts
<1>2. Len(Listing) \in Nat /\ DOMAIN Listing = 1 .. Len(Listing)
  BY RunBounds
<1>3. S \subseteq 1 .. Len(Listing) /\ S # {}
  BY <1>1, <1>2 DEF Runs!Names
<1>4. Runs!Min(S) \in S
  <2> HIDE DEF S
  <2> QED
    BY <1>2, <1>3, MinOfUids
<1>5. Runs!NextListed = Listing[Runs!Min(S)]
  BY DEF Runs!NextListed
<1> QED
  BY <1>1, <1>4, <1>5

\* The UID of the latest message is below the next one, and no other exceeds it.
LEMMA LatestIs ==
    ASSUME RunInv, NEW b \in DOMAIN uidnext
    PROVE  /\ Runs!LatestUid(b) \in 0 .. MaxUid /\ Runs!LatestUid(b) < uidnext[b]
           /\ \A m \in Runs!In(b) : place[m].uid <= Runs!LatestUid(b)
<1>1. b \in Runs!Names /\ uidnext[b] \in 1 .. MaxUid + 1
  BY RunParts, PlacesAre
<1>2. Runs!Uids(b) \subseteq 1 .. MaxUid
  BY <1>1, UidsAre DEF RunInv
<1>3. CASE Runs!In(b) = {}
  BY <1>1, <1>3, RunBounds DEF Runs!LatestUid
<1>4. CASE Runs!In(b) # {}
  <2>1. Runs!Uids(b) # {} /\ \A m \in Runs!In(b) : place[m].uid \in Runs!Uids(b)
    BY <1>4 DEF Runs!Uids
  <2>2. Runs!LatestUid(b) = Runs!Max(Runs!Uids(b))
    BY <1>4 DEF Runs!LatestUid
  <2>3. Runs!LatestUid(b) \in Runs!Uids(b) /\ \A u \in Runs!Uids(b) : u <= Runs!LatestUid(b)
    BY <1>2, <2>1, <2>2, RunBounds, MaxOfSeen
  <2>4. PICK m \in Msgs : place[m].box = b /\ Runs!LatestUid(b) = place[m].uid
    BY <2>3 DEF Runs!Uids, Runs!In
  <2>5. Runs!LatestUid(b) < uidnext[b]
    BY <1>1, <2>4, RunParts, PlacesAre DEF Issued
  <2> QED
    BY <1>2, <2>1, <2>3, <2>5, RunBounds
<1> QED
  BY <1>3, <1>4

\* A source is planned with all that is in it, below its cursor.
LEMMA PlanStep ==
    ASSUME RunInv, Runs!PlanMailbox
    PROVE  RunGood
<1>0. PICK b, s, found : /\ b = Runs!NextListed
                        /\ s = [box |-> b, cursor |-> Runs!LatestUid(b)]
                        /\ found = {[msg |-> m, at |-> place[m]] : m \in Runs!In(b)}
  OBVIOUS
<1>1. /\ at = "planning" /\ draft.todo # {} /\ b \in DOMAIN uidnext
      /\ draft' = [todo |-> draft.todo \ {b}, sources |-> Append(draft.sources, s)]
      /\ planned' = planned \cup found
      /\ UNCHANGED <<place, uidnext, replaced, renames, run, ended, at, work, failed>>
  BY <1>0 DEF Runs!PlanMailbox, Runs!mail, Runs!rows
<1>2. b \in Runs!Names \ Excluded
  BY <1>0, <1>1, NextListedIs
<1>3. s \in SourceRecords /\ s.box = b /\ s.cursor < uidnext[b]
      /\ \A m \in Msgs : place[m].box = b => place[m].uid <= s.cursor
  BY <1>0, <1>1, <1>2, LatestIs DEF SourceRecords, Runs!In
<1>4. \A p \in found : p.msg \in Msgs /\ p.at \in Runs!Place /\ p.at.box = b /\ p.at = place[p.msg]
                       /\ p \in [msg : Msgs, at : Runs!Place]
  <2>1. \A m \in Msgs : place[m] \in Runs!Place
    BY RunParts, PlacesAre
  <2> QED
    BY <1>0, <2>1 DEF Runs!In
<1>5. \A m \in Msgs : place[m].box = b => [msg |-> m, at |-> place[m]] \in found
  BY <1>0 DEF Runs!In
<1>6. /\ draft.sources \in Seq(SourceRecords)
      /\ draft'.sources \in Seq(SourceRecords) /\ Len(draft'.sources) = Len(draft.sources) + 1
      /\ Len(draft.sources) \in Nat
      /\ \A i \in 1 .. Len(draft.sources) : draft'.sources[i] = draft.sources[i]
      /\ draft'.sources[Len(draft.sources) + 1] = s
  <2>1. draft.sources \in Seq(SourceRecords) /\ draft'.sources = Append(draft.sources, s)
    BY <1>1, RunParts
  <2> QED
    BY <1>3, <2>1
<1>7. MailTyped' /\ Issued'
  <2>1. MailTyped /\ Issued
    BY RunParts
  <2>2. planned' \subseteq [msg : Msgs, at : Runs!Place]
    BY <1>1, <1>4, <2>1 DEF MailTyped
  <2>3. \A p \in found : p.at.box \in DOMAIN uidnext /\ p.at.uid < uidnext[p.at.box]
    <3>1. \A p \in found : place[p.msg] # Elsewhere
      BY <1>2, <1>4, <2>1, PlacesAre
    <3> QED
      BY <1>4, <2>1, <3>1 DEF Issued
  <2> QED
    BY <1>1, <2>1, <2>2, <2>3 DEF MailTyped, Issued, Elsewhere, Runs!Elsewhere
<1>8. Runs!TypeOK'
  <2>1. draft' \in [todo : SUBSET (Runs!Names \ Excluded), sources : Runs!Sources]
    <3>1. draft.todo \ {b} \in SUBSET (Runs!Names \ Excluded)
      BY RunParts
    <3>2. Append(draft.sources, s) \in Runs!Sources
      BY <1>1, <1>6 DEF Runs!Sources, SourceRecords
    <3> QED
      BY <1>1, <3>1, <3>2
  <2> QED
    BY <1>1, <1>7, <2>1 DEF RunInv, Runs!TypeOK, MailTyped
<1>9. Runs!HistoryBounded' /\ Phases' /\ (Runs!Active' <=> Runs!Active) /\ ~Runs!Active
  BY <1>1 DEF RunInv, Runs!HistoryBounded, Phases, Runs!Active, Steps, Runs!Final
<1>10. SourcesKnown'
  <2>1. Known(s)'
    BY <1>1, <1>3, <1>5 DEF Known
  <2>2. PICK sources : sources = draft'.sources
    OBVIOUS
  <2>3. \A i \in 1 .. Len(sources) : Known(sources[i])'
    <3> SUFFICES ASSUME NEW i \in 1 .. Len(sources) PROVE Known(sources[i])'
      OBVIOUS
    <3>1. CASE i \in 1 .. Len(draft.sources)
      <4>1. PICK x : x = draft.sources[i] /\ x = sources[i]
        BY <1>6, <2>2, <3>1
      <4>2. Known(x)
        BY <1>1, <3>1, <4>1 DEF RunInv, SourcesKnown
      <4>3. Known(x)'
        BY <1>1, <4>2 DEF Known
      <4> QED
        BY <4>1, <4>3
    <3>2. CASE i = Len(draft.sources) + 1
      BY <1>6, <2>1, <2>2, <3>2
    <3> QED
      BY <1>6, <2>2, <3>1, <3>2
  <2> QED
    BY <1>9, <2>2, <2>3 DEF SourcesKnown
<1>11. PlannedCovered'
  <2>1. \A p \in planned : Covers(draft'.sources, 1, p)
    BY <1>1, <1>6 DEF RunInv, PlannedCovered, Covers
  <2>2. \A p \in found : Covers(draft'.sources, 1, p)
    <3> TAKE p \in found
    <3>1. p.at.box = s.box /\ p.at.uid <= s.cursor
      BY <1>3, <1>4
    <3>2. Len(draft.sources) + 1 \in 1 .. Len(draft'.sources)
      BY <1>6
    <3> QED
      BY <1>6, <3>1, <3>2 DEF Covers
  <2>3. \A p \in planned' : Covers(draft'.sources, 1, p)
    BY <1>1, <2>1, <2>2
  <2> QED
    BY <1>1, <2>3 DEF PlannedCovered, Covers
<1>12. Scanned' /\ FilesPlanned
  BY <1>1 DEF Scanned, FilesPlanned, Runs!FilesPlanned, Runs!Filed
<1> QED
  BY <1>7, <1>8, <1>9, <1>10, <1>11, <1>12 DEF RunGood, RunInv


\* A plan that fails leaves no run.
LEMMA PlanFailsStep ==
    ASSUME RunInv, Runs!PlanFails
    PROVE  RunGood
<1>1. /\ at = "planning" /\ at' = "idle" /\ draft' = Runs!NoDraft /\ planned' = {}
      /\ UNCHANGED <<place, uidnext, replaced, renames, run, ended, work, failed>>
  BY DEF Runs!PlanFails, Runs!mail, Runs!rows
<1>2. draft' \in [todo : SUBSET (Runs!Names \ Excluded), sources : Runs!Sources]
  BY <1>1 DEF Runs!NoDraft, Runs!Sources
<1>3. Runs!TypeOK'
  BY <1>1, <1>2 DEF RunInv, Runs!TypeOK
<1>4. Runs!HistoryBounded' /\ (Runs!Active' <=> Runs!Active) /\ ~Runs!Active
  BY <1>1 DEF RunInv, Runs!HistoryBounded, Phases, Runs!Active, Runs!Final
<1>5. Issued' /\ Phases' /\ SourcesKnown' /\ PlannedCovered' /\ Scanned'
  BY <1>1, <1>4 DEF RunInv, Issued, Elsewhere, Runs!Elsewhere, Phases, Steps, SourcesKnown,
                    PlannedCovered, Scanned
<1>6. FilesPlanned
  BY <1>1 DEF FilesPlanned, Runs!FilesPlanned, Runs!Filed
<1> QED
  BY <1>3, <1>4, <1>5, <1>6 DEF RunGood, RunInv

\* A new run starts at the first source that has a message.
LEMMA Created ==
    ASSUME RunInv, NEW status \in {"queued", "completed"}, Runs!CreateRun(status),
           ended' \in Nat, ended' + (IF status = "queued" THEN 1 ELSE 0) <= MaxRuns,
           at' \in {"idle", "finishing"},
           at' = "finishing" => status = "queued" /\ run'.index > Len(run'.sources),
           status = "completed" => run'.index > Len(run'.sources)
    PROVE  RunGood
<1>0. PICK sources, index : /\ sources = draft.sources
                            /\ index = Runs!FirstOpen(draft.sources, 1)
  OBVIOUS
<1>1. /\ at = "planning" /\ run' = [status |-> status, sources |-> sources, index |-> index]
      /\ draft' = Runs!NoDraft
      /\ UNCHANGED <<place, uidnext, planned, replaced, renames, work, failed>>
  BY <1>0 DEF Runs!CreateRun, Runs!mail
<1>2. sources \in Seq(SourceRecords) /\ Len(sources) \in Nat /\ 1 \in 1 .. Len(sources) + 1
  BY <1>0, RunParts
<1>3. /\ index \in 1 .. Len(sources) + 1
      /\ index <= Len(sources) => sources[index].cursor # 0
      /\ \A j \in 1 .. Len(sources) : sources[j].cursor # 0 => index <= j
  BY <1>0, <1>2, FirstOpenIs
<1>4. Runs!FirstOpen(sources, index) >= index
  BY <1>2, <1>3, FirstOpenIs
<1>5. /\ MailTyped' /\ Issued' /\ FilesPlanned
      /\ \A s : Known(s)' <=> Known(s)
      /\ \A p : Stayed(p)' <=> Stayed(p)
  BY <1>1, MailSame DEF NoChange
<1>6. run' # None /\ (Runs!Active' <=> status = "queued") /\ run' \in Runs!Rows
  <2>1. run' \in Runs!Rows
    BY <1>1, <1>2, <1>3 DEF Runs!Rows, Runs!Sources, SourceRecords, Runs!Final
  <2> QED
    BY <1>1, <2>1, RunBounds DEF Runs!Active, Runs!Final
<1>7. Runs!TypeOK'
  <2>1. draft' \in [todo : SUBSET (Runs!Names \ Excluded), sources : Runs!Sources]
    BY <1>1 DEF Runs!NoDraft, Runs!Sources
  <2>2. run'.index <= Len(run'.sources) + 1
    BY <1>1, <1>2, <1>3
  <2> QED
    BY <1>1, <1>5, <1>6, <2>1, <2>2 DEF RunInv, Runs!TypeOK, MailTyped
<1>8. Runs!HistoryBounded'
  BY <1>6 DEF Runs!HistoryBounded
<1>9. Phases'
  <2>1. open' = Runs!FirstOpen(sources, index) /\ run'.index = index /\ run'.sources = sources
        /\ run'.status = status
    BY <1>1 DEF open, Runs!FirstOpen
  <2>2. at' = "finishing" => open' > Len(run'.sources)
    <3>1. open' \in index .. Len(sources) + 1
      BY <1>2, <1>3, <2>1, FirstOpenIs
    <3> QED
      BY <1>2, <1>3, <2>1, <3>1
  <2> QED
    BY <1>1, <1>6, <2>1, <2>2 DEF Phases, Steps
<1>10. SourcesKnown'
  <2>1. \A i \in 1 .. Len(sources) : Known(sources[i])
    BY <1>0, <1>1 DEF RunInv, SourcesKnown
  <2>2. \A i \in 1 .. Len(sources) : Known(sources[i])'
    BY <1>5, <2>1
  <2>3. run'.sources = sources
    BY <1>1
  <2> QED
    BY <2>2, <2>3 DEF SourcesKnown
<1>11. PlannedCovered'
  <2>1. \A p \in planned : Covers(sources, index, p)
    BY <1>0, <1>1, <1>2, CoversOpen DEF RunInv, PlannedCovered
  <2>2. run'.sources = sources /\ run'.index = index /\ planned' = planned /\ at' # "planning"
    BY <1>1
  <2> QED
    BY <2>1, <2>2 DEF PlannedCovered, Covers
<1>12. Scanned'
  BY DEF Scanned
<1> QED
  BY <1>5, <1>7, <1>8, <1>9, <1>10, <1>11, <1>12 DEF RunGood, RunInv

\* Old rows make room for a new one.
LEMMA KeptIs ==
    ASSUME NEW n \in Nat
    PROVE  Runs!Kept(n) \in Nat /\ Runs!Kept(n) + 1 <= MaxRuns
<1>1. {n + 1, MaxRuns} \subseteq 1 .. n + 1 + MaxRuns /\ n + 1 + MaxRuns \in Nat
  BY RunBounds
<1>2. \E x \in {n, MaxRuns - 1} : \A y \in {n, MaxRuns - 1} : x =< y
  BY RunBounds
<1>3. Runs!Kept(n) \in {n, MaxRuns - 1} /\ \A y \in {n, MaxRuns - 1} : Runs!Kept(n) =< y
  BY <1>2, Zenon DEF Runs!Kept, Runs!Min
<1> QED
  BY <1>3, RunBounds

\* A run is created queued.
LEMMA CreateRunStep ==
    ASSUME RunInv, Runs!CreateMailRuleRun
    PROVE  RunGood
<1>1. Runs!CreateRun("queued") /\ ended' = Runs!Kept(ended)
      /\ at' = IF run'.index > Len(run'.sources) THEN "finishing" ELSE "idle"
  BY DEF Runs!CreateMailRuleRun
<1>2. ended' \in Nat /\ ended' + 1 <= MaxRuns
  BY <1>1, KeptIs DEF RunInv, Runs!TypeOK
<1> QED
  BY <1>1, <1>2, Created

\* A run with nothing to scan is created completed.
LEMMA CreateWithRunStep ==
    ASSUME RunInv, Runs!CreateMailRuleWithRun
    PROVE  RunGood
<1>1. Runs!Kept(ended) \in Nat /\ Runs!Kept(ended) + 1 <= MaxRuns
  BY KeptIs DEF RunInv, Runs!TypeOK
<1>2. CASE Runs!FirstOpen(draft.sources, 1) > Len(draft.sources)
  <2>1. Runs!CreateRun("completed") /\ ended' = Runs!Kept(ended) + 1 /\ at' = "idle"
    BY <1>2 DEF Runs!CreateMailRuleWithRun
  <2>2. run'.index > Len(run'.sources)
    BY <1>2, <2>1 DEF Runs!CreateRun
  <2>3. ended' \in Nat /\ ended' + 0 <= MaxRuns
    BY <1>1, <2>1
  <2> QED
    BY <2>1, <2>2, <2>3, Created
<1>3. CASE ~(Runs!FirstOpen(draft.sources, 1) > Len(draft.sources))
  <2>1. Runs!CreateRun("queued") /\ ended' = Runs!Kept(ended) /\ at' = "idle"
    BY <1>3 DEF Runs!CreateMailRuleWithRun
  <2> QED
    BY <1>1, <2>1, Created
<1> QED
  BY <1>2, <1>3


-----------------------------------------------------------------------------
(* The steps of a run.                                                     *)

\* The row of the active run is written.
LEMMA Written ==
    ASSUME RunInv, Runs!Active, at # "planning",
           NEW status \in {"running"} \cup Runs!Final, NEW sources \in Seq(SourceRecords),
           NEW index \in 1 .. Len(sources) + 1,
           Runs!UpdateMailRuleRun(status, sources, index), Phases',
           at' \in {"idle", "finishing", "anchor"},
           \A i \in 1 .. Len(sources) : Known(sources[i]),
           \A p \in planned : Stayed(p) => Covers(sources, index, p),
           work' \in {work, Runs!NoWork}, NoChange, UNCHANGED <<draft, failed>>
    PROVE  RunGood
<1>1. /\ run' = [status |-> status, sources |-> sources, index |-> index]
      /\ ended' = IF status \in Runs!Final THEN ended + 1 ELSE ended
  BY DEF Runs!UpdateMailRuleRun
<1>2. /\ MailTyped' /\ Issued' /\ FilesPlanned
      /\ \A s : Known(s)' <=> Known(s)
      /\ \A p : Stayed(p)' <=> Stayed(p)
  BY MailSame
<1>3. run' # None /\ (Runs!Active' <=> status = "running") /\ run' \in Runs!Rows
  <2>1. run' \in Runs!Rows
    BY <1>1 DEF Runs!Rows, Runs!Sources, SourceRecords
  <2> QED
    BY <1>1, <2>1, RunBounds DEF Runs!Active, Runs!Final
<1>4. Runs!TypeOK' /\ Runs!HistoryBounded'
  <2>1. work' \in Windows
    BY RunBounds DEF RunInv, Runs!TypeOK, Runs!NoWork, Windows
  <2>2. run'.index <= Len(run'.sources) + 1
    BY <1>1
  <2>3. ended \in Nat /\ ended + 1 <= MaxRuns
    BY DEF RunInv, Runs!TypeOK, Runs!HistoryBounded
  <2>4. ended' \in Nat /\ ended' + (IF Runs!Active' THEN 1 ELSE 0) <= MaxRuns
    <3>1. CASE status = "running"
      BY <1>1, <1>3, <2>3, <3>1 DEF Runs!Final
    <3>2. CASE status # "running"
      BY <1>1, <1>3, <2>3, <3>2, RunBounds
    <3> QED
      BY <3>1, <3>2
  <2>5. at' \in {"idle", "planning", "finishing", "anchor", "window", "scanning", "moved", "failing"}
    OBVIOUS
  <2> QED
    BY <1>2, <1>3, <2>1, <2>2, <2>4, <2>5 DEF RunInv, Runs!TypeOK, MailTyped, Runs!HistoryBounded,
       Windows
<1>5. SourcesKnown'
  <2>1. \A i \in 1 .. Len(sources) : Known(sources[i])'
    BY <1>2
  <2>2. run'.sources = sources
    BY <1>1
  <2> QED
    BY <2>1, <2>2 DEF SourcesKnown
<1>6. PlannedCovered'
  <2>1. run'.sources = sources /\ run'.index = index /\ planned' = planned
    BY <1>1 DEF NoChange
  <2> QED
    BY <1>2, <2>1 DEF PlannedCovered, Covers
<1>7. Scanned'
  BY DEF Scanned
<1> QED
  BY <1>2, <1>4, <1>5, <1>6, <1>7 DEF RunGood, RunInv

\* The same, its sources as they were.
LEMMA Updated ==
    ASSUME RunInv, Runs!Active, at # "planning",
           NEW status \in {"running"} \cup Runs!Final, NEW index, index \in {run.index, open},
           Runs!UpdateMailRuleRun(status, run.sources, index),
           at' \in {"idle", "finishing", "anchor"},
           at' # "idle" => status = "running" /\ index = run.index,
           at' = "finishing" <=> at' # "idle" /\ open > Len(run.sources),
           status = "completed" => index > Len(run.sources),
           work' \in {work, Runs!NoWork}, NoChange, UNCHANGED <<draft, failed>>
    PROVE  RunGood
<1>0. PICK sources : sources = run.sources
  OBVIOUS
<1>1. run' = [status |-> status, sources |-> sources, index |-> index]
  BY <1>0 DEF Runs!UpdateMailRuleRun
<1>2. /\ run # None /\ sources \in Seq(SourceRecords) /\ Len(sources) \in Nat
      /\ run.index \in 1 .. Len(sources) + 1
  BY <1>0, RunParts DEF Runs!Active
<1>3. open \in run.index .. Len(sources) + 1 /\ index \in 1 .. Len(sources) + 1
  BY <1>0, <1>2, FirstOpenIs DEF open
<1>4. Phases'
  <2>1. open' = Runs!FirstOpen(sources, index) /\ run'.index = index /\ run'.sources = sources
        /\ run'.status = status
    BY <1>1 DEF open, Runs!FirstOpen
  <2>2. at' # "idle" => open' = open
    BY <1>0, <2>1 DEF open
  <2>3. run' # None /\ (Runs!Active' <=> status = "running")
    <3>1. run' \in Runs!Rows
      BY <1>1, <1>2, <1>3 DEF Runs!Rows, Runs!Sources, SourceRecords
    <3> QED
      BY <1>1, <3>1, RunBounds DEF Runs!Active, Runs!Final
  <2> QED
    BY <1>0, <1>2, <1>3, <2>1, <2>2, <2>3 DEF Phases, Steps
<1>5. \A i \in 1 .. Len(sources) : Known(sources[i])
  BY <1>0 DEF RunInv, SourcesKnown
<1>6. \A p \in planned : Stayed(p) => Covers(sources, index, p)
  <2>1. \A p \in planned : Stayed(p) => Covers(sources, run.index, p)
    BY <1>0, <1>2 DEF RunInv, PlannedCovered
  <2> QED
    BY <1>0, <1>2, <2>1, CoversOpen DEF open
<1> QED
  BY <1>0, <1>2, <1>3, <1>4, <1>5, <1>6, Written

\* A step starts with the first open source.
LEMMA StepStarts ==
    ASSUME RunInv, Runs!RulesRunStep
    PROVE  RunGood
<1>1. /\ at = "idle" /\ Runs!Active /\ Runs!UpdateMailRuleRun("running", run.sources, run.index)
      /\ at' = IF open > Len(run.sources) THEN "finishing" ELSE "anchor"
      /\ NoChange /\ UNCHANGED <<draft, work, failed>>
  BY DEF Runs!RulesRunStep, Runs!mail, NoChange, open
<1> QED
  BY <1>1, Updated

\* A run is finished when no source is open.
LEMMA FinishStep ==
    ASSUME RunInv, Runs!FinishRun
    PROVE  RunGood
<1>1. /\ at = "finishing" /\ Runs!UpdateMailRuleRun("completed", run.sources, open)
      /\ at' = "idle" /\ NoChange /\ UNCHANGED <<draft, work, failed>>
  BY DEF Runs!FinishRun, Runs!mail, NoChange, open
<1>2. Runs!Active /\ open > Len(run.sources)
  BY <1>1 DEF RunInv, Phases
<1>3. "completed" \in Runs!Final
  BY DEF Runs!Final
<1> QED
  BY <1>1, <1>2, <1>3, Updated

\* A run that fails has ended.
LEMMA FailStep ==
    ASSUME RunInv, Runs!FailRun
    PROVE  RunGood
<1>1. /\ at = "failing" /\ Runs!UpdateMailRuleRun("failed", run.sources, open)
      /\ at' = "idle" /\ work' = Runs!NoWork /\ NoChange /\ UNCHANGED <<draft, failed>>
  BY DEF Runs!FailRun, Runs!mail, NoChange, open
<1>2. Runs!Active /\ "failed" \in Runs!Final
  BY <1>1 DEF RunInv, Phases, Runs!Final
<1> QED
  BY <1>1, <1>2, Updated

\* A run that is cancelled has ended.
LEMMA CancelStep ==
    ASSUME RunInv, Runs!RulesRunCancel
    PROVE  RunGood
<1>1. /\ at = "idle" /\ Runs!Active /\ Runs!UpdateMailRuleRun("cancelled", run.sources, run.index)
      /\ NoChange /\ UNCHANGED <<at, draft, work, failed>>
  BY DEF Runs!RulesRunCancel, Runs!mail, NoChange
<1>2. "cancelled" \in Runs!Final
  BY DEF Runs!Final
<1> QED
  BY <1>1, <1>2, Updated

\* The row stays as it is, and so does all mail: what is left to show of the
\* next state is about its window.
LEMMA Worked ==
    ASSUME RunInv, NoChange, UNCHANGED <<run, ended, draft>>, failed' \in 0 .. MaxBreaks,
           at \in Steps, at' \in Steps \cup {"failing"},
           work' \in Windows,
           Scanned'
    PROVE  RunGood
<1>1. /\ MailTyped' /\ Issued' /\ FilesPlanned
      /\ \A s : Known(s)' <=> Known(s)
      /\ \A p : Stayed(p)' <=> Stayed(p)
  BY MailSame
<1>2. Runs!TypeOK' /\ Runs!HistoryBounded' /\ (Runs!Active' <=> Runs!Active) /\ open' = open
  BY <1>1 DEF RunInv, Runs!TypeOK, MailTyped, Runs!HistoryBounded, Runs!Active, Runs!Final, open,
              Runs!FirstOpen, Steps, Windows
<1>3. Phases'
  BY <1>2 DEF RunInv, Phases, Steps
<1>4. SourcesKnown'
  BY <1>1, <1>2 DEF RunInv, SourcesKnown, Steps
<1>5. PlannedCovered'
  BY <1>1 DEF RunInv, PlannedCovered, Covers, NoChange, Steps
<1> QED
  BY <1>1, <1>2, <1>3, <1>4, <1>5 DEF RunGood, RunInv


\* The cursor has a rank.
LEMMA ResolveStep ==
    ASSUME RunInv, Runs!ResolveCursor
    PROVE  RunGood
<1>1. /\ at = "anchor" /\ at' = "window"
      /\ work' = [Runs!NoWork EXCEPT !.seq = Runs!Rank(source.box, source.cursor)]
      /\ NoChange /\ UNCHANGED <<run, ended, draft, failed>>
  BY DEF Runs!ResolveCursor, Runs!mail, Runs!rows, NoChange, source
<1>2. Runs!Rank(source.box, source.cursor) \in Nat
  <2>1. source.box \in Runs!Names /\ source.cursor \in Nat
    BY <1>1, SourceIs, RunBounds DEF Steps
  <2> QED
    BY <2>1, RankIs DEF RunInv
<1>3. work' \in Windows
  BY <1>1, <1>2, RunBounds DEF Runs!NoWork, Windows
<1>4. Scanned'
  BY <1>1 DEF Scanned
<1> QED
  BY <1>1, <1>3, <1>4, Worked DEF RunInv, Runs!TypeOK, Steps

\* The source stays the same.
LEMMA SourceSame ==
    ASSUME UNCHANGED run
    PROVE  source' = source
  BY DEF source, Runs!Source, Runs!FirstOpen

\* The window holds all messages from the next cursor to the present one.
LEMMA FetchStep ==
    ASSUME RunInv, Runs!FetchWindow
    PROVE  RunGood
<1>0. PICK b, c, us : b = source.box /\ c = source.cursor /\ us = Runs!Window(b, work.seq)
  OBVIOUS
<1>1. /\ at = "window" /\ at' = "scanning" /\ Runs!AnchorHolds(b, c, work.seq)
      /\ work' = [seq |-> 0, left |-> Runs!Candidates(us), hits |-> {}, next |-> Runs!NextCursor(us)]
      /\ NoChange /\ UNCHANGED <<run, ended, draft, failed>>
  BY <1>0 DEF Runs!FetchWindow, Runs!mail, Runs!rows, NoChange, source
<1>2. b \in Runs!Names /\ c \in 1 .. MaxUid /\ c \in Nat /\ work.seq \in Nat
  <2>1. at \in Steps
    BY <1>1 DEF Steps
  <2>2. b \in Runs!Names /\ c \in 1 .. MaxUid
    BY <1>0, <2>1, SourceIs
  <2> QED
    BY <2>2, RunBounds DEF RunInv, Runs!TypeOK
<1>3. /\ us \subseteq Upto(b, c) /\ Runs!Candidates(us) \subseteq us
      /\ Runs!NextCursor(us) \in 0 .. c
      /\ \A u \in Upto(b, c) : u \in Runs!Candidates(us) \/ u <= Runs!NextCursor(us)
  BY <1>0, <1>1, <1>2, WindowIs DEF RunInv
<1>4. Upto(b, c) \subseteq 1 .. MaxUid /\ \A u \in Upto(b, c) : u <= c
  BY <1>2, UidsAre DEF Upto, RunInv
<1>5. Runs!Candidates(us) \subseteq 1 .. MaxUid /\ Runs!NextCursor(us) \in 0 .. MaxUid
      /\ \A u \in Runs!Candidates(us) : u <= c
  BY <1>2, <1>3, <1>4, RunBounds
<1>6. work' \in Windows
  BY <1>1, <1>5 DEF Windows
<1>7. Scanned'
  <2>1. source'.box = b /\ source'.cursor = c
    BY <1>0, <1>1, SourceSame
  <2>2. work'.next = Runs!NextCursor(us) /\ work'.left = Runs!Candidates(us) /\ work'.hits = {}
    BY <1>1
  <2>3. work'.next <= c
    BY <1>2, <1>3, <2>2
  <2>4. \A p \in planned : Stayed(p) /\ p.at.box = b /\ p.at.uid <= c =>
            p.at.uid <= work'.next \/ p.at.uid \in work'.left \cup work'.hits
    <3> TAKE p \in planned
    <3>1. Stayed(p) /\ p.at.box = b /\ p.at.uid <= c => p.at.uid \in Upto(b, c)
      <4>1. p.msg \in Msgs
        BY RunParts DEF MailTyped
      <4> QED
        BY <4>1 DEF Stayed, Upto, Runs!Uids, Runs!In
    <3> QED
      BY <1>3, <2>2, <3>1
  <2>5. planned' = planned /\ \A p : Stayed(p)' <=> Stayed(p)
    BY <1>1, MailSame DEF NoChange
  <2> QED
    BY <1>1, <1>5, <2>1, <2>2, <2>3, <2>4, <2>5 DEF Scanned
<1> QED
  BY <1>1, <1>6, <1>7, Worked DEF RunInv, Runs!TypeOK, Steps

\* One message has the UID that is looked at.
LEMMA ScanStep ==
    ASSUME RunInv, Runs!ScanMessage
    PROVE  RunGood
<1>0. PICK b, c, u : b = source.box /\ c = source.cursor /\ u = Runs!Max(work.left)
  OBVIOUS
<1>1. /\ at = "scanning" /\ at' = at /\ work.left # {}
      /\ NoChange /\ UNCHANGED <<run, ended, draft, failed>>
  BY DEF Runs!ScanMessage, Runs!mail, Runs!rows, NoChange
<1>2. PICK m \in Msgs : /\ place[m].box = b /\ place[m].uid = u
                        /\ work' = [work EXCEPT !.left = @ \ {u},
                                                !.hits = IF m \in Matching THEN @ \cup {u} ELSE @]
  BY <1>0 DEF Runs!ScanMessage, Runs!In, source
<1>3. /\ work \in Windows
      /\ b \in Runs!Names /\ c \in 1 .. MaxUid
  BY <1>0, <1>1, SourceIs DEF Steps, RunInv, Runs!TypeOK, Windows
<1>4. u \in work.left /\ u \in 1 .. MaxUid
  BY <1>0, <1>1, <1>3, RunBounds, MaxOfSeen DEF Windows
<1>5. /\ work'.left = work.left \ {u} /\ work'.next = work.next
      /\ work'.hits = IF m \in Matching THEN work.hits \cup {u} ELSE work.hits
      /\ work' \in Windows
  BY <1>2, <1>3, <1>4 DEF Windows
<1>6. \A n \in Msgs : place[n].box = b /\ place[n].uid = u => n = m
  <2> TAKE n \in Msgs
  <2>1. \A k \in Msgs : place[k].box = b =>
           place[k] # Elsewhere /\ place[k] = [box |-> b, uid |-> place[k].uid]
    BY <1>3, RunParts, PlacesAre DEF Runs!Place, Elsewhere
  <2> QED
    BY <1>2, <2>1, RunParts DEF Issued
<1>7. Scanned'
  <2>1. source'.box = b /\ source'.cursor = c
    BY <1>0, <1>1, SourceSame
  <2>2. /\ work.next <= c /\ \A v \in work.left \cup work.hits : v <= c
        /\ b \notin replaced =>
              \A n \in Msgs : place[n].box = b /\ place[n].uid \in work.hits => n \in Matching
        /\ \A p \in planned : Stayed(p) /\ p.at.box = b /\ p.at.uid <= c =>
              p.at.uid <= work.next \/ p.at.uid \in work.left \cup work.hits
    BY <1>0, <1>1 DEF RunInv, Scanned
  <2>3. \A v \in work'.left \cup work'.hits : v <= c
    BY <1>4, <1>5, <2>2
  <2>4. b \notin replaced =>
            \A n \in Msgs : place[n].box = b /\ place[n].uid \in work'.hits => n \in Matching
    BY <1>5, <1>6, <2>2
  <2>5. \A p \in planned : Stayed(p) /\ p.at.box = b /\ p.at.uid <= c =>
            p.at.uid <= work'.next \/ p.at.uid \in work'.left \cup work'.hits
    <3> TAKE p \in planned
    <3>1. Stayed(p) /\ p.at.box = b /\ p.at.uid = u => m \in Matching
      BY <1>6, RunParts, PlacesAre DEF Stayed
    <3> QED
      BY <1>5, <2>2, <3>1
  <2>6. planned' = planned /\ place' = place /\ replaced' = replaced /\ \A p : Stayed(p)' <=> Stayed(p)
    BY <1>1, MailSame DEF NoChange
  <2> QED
    BY <1>1, <1>5, <2>1, <2>2, <2>3, <2>4, <2>5, <2>6 DEF Scanned
<1> QED
  BY <1>1, <1>5, <1>7, Worked DEF RunInv, Runs!TypeOK, Steps

\* What a step moves was found in its window.
LEMMA Moved ==
    ASSUME RunInv, at = "scanning", NEW ms \in SUBSET Runs!Selected, Runs!Depart(ms),
           UNCHANGED <<uidnext, planned, replaced, renames, run, ended, draft, work>>,
           failed' \in 0 .. MaxBreaks, at' \in {"moved", "failing"},
           at' = "moved" => work.left = {} /\ ms = Runs!Selected
    PROVE  RunGood
<1>0. PICK s : s = source
  OBVIOUS
<1>1. MailSafe
  BY Departs
<1>2. /\ s \in SourceRecords /\ Known(s) /\ s.box \in Runs!Names /\ s.cursor \in 1 .. MaxUid
      /\ Runs!Active
  BY <1>0, SourceIs DEF Steps
<1>3. /\ \A m \in Msgs : place'[m] = IF m \in ms THEN Elsewhere ELSE place[m]
      /\ \A m \in ms : m \in Msgs /\ place[m].box = s.box /\ place[m].uid \in work.hits
      /\ \A m \in Msgs : place[m].box = s.box /\ place[m].uid \in work.hits => m \in Runs!Selected
  BY <1>0 DEF Runs!Depart, Elsewhere, Runs!Elsewhere, Runs!Selected, Runs!In, source
<1>4. /\ work.next <= s.cursor /\ \A u \in work.left \cup work.hits : u <= s.cursor
      /\ s.box \notin replaced =>
            \A m \in Msgs : place[m].box = s.box /\ place[m].uid \in work.hits => m \in Matching
      /\ \A p \in planned : Stayed(p) /\ p.at.box = s.box /\ p.at.uid <= s.cursor =>
            p.at.uid <= work.next \/ p.at.uid \in work.left \cup work.hits
  BY <1>0 DEF RunInv, Scanned
<1>5. FilesPlanned
  <2>1. SUFFICES ASSUME NEW m \in Msgs, place'[m] # place[m], place[m].box \notin replaced
                 PROVE  m \in Matching /\ [msg |-> m, at |-> place[m]] \in planned
    BY DEF FilesPlanned, Runs!FilesPlanned, Runs!Filed, Runs!Eligible
  <2>2. m \in ms
    BY <1>3, <2>1
  <2>3. place[m].box = s.box /\ place[m].uid \in work.hits /\ s.box \notin replaced
    BY <1>3, <2>1, <2>2
  <2> QED
    BY <1>2, <1>4, <2>3 DEF Known
<1>6. Runs!TypeOK' /\ Runs!HistoryBounded' /\ Runs!Active' /\ open' = open
  BY <1>1, <1>2 DEF RunInv, Runs!TypeOK, MailSafe, MailTyped, Runs!HistoryBounded, Runs!Active,
                    Runs!Final, open, Runs!FirstOpen
<1>7. Phases'
  BY <1>6 DEF RunInv, Phases, Steps
<1>8. SourcesKnown'
  <2>1. \A i \in 1 .. Len(run.sources) : run.sources[i] \in SourceRecords /\ Known(run.sources[i])
    BY <1>2, RunParts DEF RunInv, SourcesKnown, Runs!Active
  <2> QED
    BY <1>1, <2>1, KnownStays DEF SourcesKnown
<1>9. PlannedCovered'
  BY <1>1, KnownStays DEF RunInv, PlannedCovered, Covers
<1>10. Scanned'
  <2>1. source' = s /\ work' = work
    BY <1>0, SourceSame
  <2>2. at' = "moved" => \A p \in planned' :
            Stayed(p)' /\ p.at.box = s.box /\ p.at.uid <= s.cursor => p.at.uid <= work.next
    <3>1. SUFFICES ASSUME at' = "moved", NEW p \in planned', Stayed(p)', p.at.box = s.box,
                          p.at.uid <= s.cursor, p.at.uid \in work.hits
                   PROVE  FALSE
      BY <1>1, <1>4, KnownStays
    <3>2. p.msg \in Msgs /\ p.at # Elsewhere /\ place[p.msg] = p.at /\ place'[p.msg] = p.at
      BY <1>1, <1>2, <3>1, KnownStays, RunParts, PlacesAre DEF Stayed
    <3>3. p.msg \in ms
      BY <1>3, <3>1, <3>2
    <3> QED
      BY <1>3, <3>2, <3>3
  <2> QED
    BY <1>4, <2>1, <2>2 DEF Scanned
<1> QED
  BY <1>1, <1>5, <1>6, <1>7, <1>8, <1>9, <1>10 DEF RunGood, RunInv, MailSafe

\* The matching messages of the window are moved.
LEMMA MoveStep ==
    ASSUME RunInv, Runs!MoveMatched
    PROVE  RunGood
<1>1. /\ at = "scanning" /\ work.left = {} /\ at' = "moved"
      /\ UNCHANGED <<uidnext, planned, replaced, renames, run, ended, draft, work, failed>>
  BY DEF Runs!MoveMatched, Runs!rows
<1>2. Runs!Depart(Runs!Selected)
  <2>1. CASE work.hits = {}
    <3>1. Runs!Selected = {} /\ place' = place
      BY <2>1 DEF Runs!MoveMatched, Runs!Selected
    <3>2. place = [m \in Msgs |-> place[m]]
      BY DEF RunInv, Runs!TypeOK
    <3> QED
      BY <3>1, <3>2 DEF Runs!Depart
  <2>2. CASE work.hits # {}
    BY <2>2 DEF Runs!MoveMatched
  <2> QED
    BY <2>1, <2>2
<1> QED
  BY <1>1, <1>2, Moved DEF RunInv, Runs!TypeOK

\* A command that fails moves nothing.
LEMMA FailsStep ==
    ASSUME RunInv, Runs!CommandFails
    PROVE  RunGood
<1>1. /\ at \in Steps /\ at' = "failing"
      /\ NoChange /\ UNCHANGED <<run, ended, draft, work, failed>>
  BY DEF Runs!CommandFails, Runs!Stale, Runs!mail, Runs!rows, NoChange, Steps
<1>2. Scanned'
  BY <1>1 DEF Scanned
<1> QED
  BY <1>1, <1>2, Worked DEF RunInv, Runs!TypeOK, Windows

\* A command that breaks moves nothing, or a part of what was found.
LEMMA BreaksStep ==
    ASSUME RunInv, Runs!CommandBreaks
    PROVE  RunGood
<1>1. /\ at \in {"anchor", "window", "scanning"} /\ at \in Steps /\ at' = "failing"
      /\ failed' \in 0 .. MaxBreaks
      /\ UNCHANGED <<uidnext, run, ended, draft, work, planned, replaced, renames>>
  BY RunBounds DEF Runs!CommandBreaks, Runs!rows, Steps, RunInv, Runs!TypeOK
<1>2. CASE UNCHANGED place
  <2>1. NoChange /\ Scanned'
    BY <1>1, <1>2 DEF NoChange, Scanned
  <2> QED
    BY <1>1, <2>1, Worked DEF RunInv, Runs!TypeOK, Windows
<1>3. CASE at = "scanning" /\ \E ms \in SUBSET Runs!Selected : Runs!Depart(ms)
  BY <1>1, <1>3, Moved
<1> QED
  BY <1>2, <1>3 DEF Runs!CommandBreaks

\* The next cursor is not above the present one, and what was planned and is
\* above it has gone or does not match.
LEMMA StoreStep ==
    ASSUME RunInv, Runs!StoreProgress
    PROVE  RunGood
<1>0. PICK i, sources, index, status :
         /\ i = open /\ sources = [run.sources EXCEPT ![i].cursor = work.next]
         /\ index = Runs!FirstOpen(sources, i)
         /\ status = IF index > Len(sources) THEN "completed" ELSE "running"
  OBVIOUS
<1>1. /\ at = "moved" /\ Runs!UpdateMailRuleRun(status, sources, index)
      /\ at' = "idle" /\ work' = Runs!NoWork /\ NoChange /\ UNCHANGED <<draft, failed>>
  BY <1>0 DEF Runs!StoreProgress, Runs!mail, NoChange, open
<1>2. /\ Runs!Active /\ run # None /\ i \in 1 .. Len(run.sources)
      /\ source = run.sources[i] /\ source.cursor \in 1 .. MaxUid
      /\ run.sources \in Seq(SourceRecords) /\ run.index \in 1 .. Len(run.sources) + 1
  BY <1>0, <1>1, SourceIs, RunParts DEF Steps
<1>3. work.next \in 0 .. MaxUid /\ work.next <= source.cursor
  BY <1>1 DEF RunInv, Runs!TypeOK, Scanned
<1>4. /\ sources \in Seq(SourceRecords) /\ Len(sources) = Len(run.sources)
      /\ \A j \in 1 .. Len(sources) : j # i => sources[j] = run.sources[j]
      /\ sources[i].box = source.box /\ sources[i].cursor = work.next
      /\ i \in 1 .. Len(sources) + 1
  <2>1. \A x \in SourceRecords : [x EXCEPT !.cursor = work.next] \in SourceRecords
    BY <1>3 DEF SourceRecords
  <2>2. run.sources[i] \in SourceRecords
    BY <1>2
  <2>3. [run.sources[i] EXCEPT !.cursor = work.next].box = source.box
        /\ [run.sources[i] EXCEPT !.cursor = work.next].cursor = work.next
    BY <1>2, <2>2 DEF SourceRecords
  <2>4. sources = [run.sources EXCEPT ![i] = [run.sources[i] EXCEPT !.cursor = work.next]]
    BY <1>0
  <2> QED
    BY <1>2, <2>1, <2>2, <2>3, <2>4
<1>5. index \in i .. Len(sources) + 1 /\ index \in 1 .. Len(sources) + 1
  <2>1. index \in i .. Len(sources) + 1
    BY <1>0, <1>4, FirstOpenIs
  <2>2. Len(sources) \in Nat /\ i \in Nat /\ i >= 1
    BY <1>2, <1>4
  <2> QED
    BY <2>1, <2>2
<1>6. \A j \in 1 .. Len(sources) : Known(sources[j])
  <2> TAKE j \in 1 .. Len(sources)
  <2>1. Known(run.sources[j])
    BY <1>2, <1>4 DEF RunInv, SourcesKnown
  <2>2. CASE j # i
    BY <1>4, <2>1, <2>2
  <2>3. CASE j = i
    <3>1. Known(source) /\ sources[j].box = source.box /\ sources[j].cursor = work.next
      BY <1>2, <1>4, <2>1, <2>3
    <3>2. \A m \in Msgs : place[m].uid \in Nat
      BY RunParts, PlacesAre
    <3>3. source.box \notin replaced => uidnext[source.box] \in Nat
      BY <3>1, RunParts, PlacesAre, RunBounds DEF Known
    <3>4. MaxUid \in Nat /\ source.cursor \in Nat /\ work.next \in Nat
      BY <1>2, <1>3, RunBounds
    <3>5. ASSUME source.box \notin replaced
          PROVE  /\ source.box \in DOMAIN uidnext /\ work.next < uidnext[source.box]
                 /\ \A m \in Msgs : place[m].box = source.box /\ place[m].uid <= work.next =>
                       [msg |-> m, at |-> place[m]] \in planned
      <4>1. /\ source.box \in DOMAIN uidnext /\ source.cursor < uidnext[source.box]
            /\ \A m \in Msgs : place[m].box = source.box /\ place[m].uid <= source.cursor =>
                  [msg |-> m, at |-> place[m]] \in planned
        BY <3>1, <3>5 DEF Known
      <4>2. work.next < uidnext[source.box]
        BY <1>3, <3>3, <3>4, <3>5, <4>1
      <4>3. ASSUME NEW m \in Msgs, place[m].uid <= work.next
            PROVE  place[m].uid <= source.cursor
        BY <1>3, <3>2, <3>4, <4>3
      <4> QED
        BY <4>1, <4>2, <4>3
    <3> QED
      BY <3>1, <3>5 DEF Known
  <2> QED
    BY <2>2, <2>3
<1>7. \A p \in planned : Stayed(p) => Covers(sources, index, p)
  <2>1. SUFFICES ASSUME NEW p \in planned, Stayed(p) PROVE Covers(sources, i, p)
    BY <1>0, <1>4, CoversOpen
  <2>2. Covers(run.sources, i, p)
    BY <1>0, <1>1, <1>2, <2>1, CoversOpen DEF RunInv, PlannedCovered, open
  <2>3. PICK j \in i .. Len(run.sources) :
           run.sources[j].box = p.at.box /\ p.at.uid <= run.sources[j].cursor
    BY <2>2 DEF Covers
  <2>4. CASE j # i
    BY <1>2, <1>4, <2>3, <2>4 DEF Covers
  <2>5. CASE j = i
    <3>1. p.at.uid <= work.next
      BY <1>1, <1>2, <2>1, <2>3, <2>5 DEF RunInv, Scanned
    <3> QED
      BY <1>2, <1>4, <2>3, <2>5, <3>1 DEF Covers
  <2> QED
    BY <2>4, <2>5
<1>8. Phases'
  <2>1. run' = [status |-> status, sources |-> sources, index |-> index]
    BY <1>1 DEF Runs!UpdateMailRuleRun
  <2> QED
    BY <1>0, <1>1, <2>1 DEF Phases, Steps
<1>9. status \in {"running"} \cup Runs!Final
  BY <1>0 DEF Runs!Final
<1> QED
  BY <1>1, <1>2, <1>4, <1>5, <1>6, <1>7, <1>8, <1>9, Written

\* What was read for a plan is forgotten with it.
LEMMA CrashStep ==
    ASSUME RunInv, Runs!Crash
    PROVE  RunGood
<1>1. /\ at' = "idle" /\ draft' = Runs!NoDraft /\ work' = Runs!NoWork
      /\ planned' = IF at = "planning" THEN {} ELSE planned
      /\ failed' \in 0 .. MaxBreaks
      /\ UNCHANGED <<place, uidnext, replaced, renames, run, ended>>
  BY RunBounds DEF Runs!Crash, Runs!mail, Runs!rows, RunInv, Runs!TypeOK
<1>2. /\ draft' \in [todo : SUBSET (Runs!Names \ Excluded), sources : Runs!Sources]
      /\ work' \in Windows
  BY <1>1, RunBounds DEF Runs!NoDraft, Runs!NoWork, Runs!Sources, Windows
<1>3. Runs!TypeOK' /\ Runs!HistoryBounded' /\ (Runs!Active' <=> Runs!Active)
  <2>1. planned' \subseteq [msg : Msgs, at : Runs!Place]
    BY <1>1 DEF RunInv, Runs!TypeOK
  <2> QED
    BY <1>1, <1>2, <2>1 DEF RunInv, Runs!TypeOK, Runs!HistoryBounded, Runs!Active, Runs!Final, Windows
<1>4. Issued' /\ Phases' /\ Scanned' /\ FilesPlanned
  BY <1>1 DEF RunInv, Issued, Elsewhere, Runs!Elsewhere, Phases, Steps, Scanned, FilesPlanned,
              Runs!FilesPlanned, Runs!Filed
<1>5. SourcesKnown'
  <2>1. Runs!Active => planned' = planned
    BY <1>1 DEF RunInv, Phases
  <2>2. Runs!Active => \A i \in 1 .. Len(run.sources) : Known(run.sources[i])'
    BY <1>1, <2>1 DEF RunInv, SourcesKnown, Known
  <2> QED
    BY <1>1, <1>3, <2>2 DEF SourcesKnown
<1>6. PlannedCovered'
  BY <1>1 DEF RunInv, PlannedCovered, Covers, Stayed
<1> QED
  BY <1>3, <1>4, <1>5, <1>6 DEF RunGood, RunInv


-----------------------------------------------------------------------------
(* What follows.                                                           *)

\* No run, no mail.
LEMMA RunStarts == Runs!Init => RunInv
<1> SUFFICES ASSUME Runs!Init PROVE RunInv
  OBVIOUS
<1>1. /\ place = [m \in Msgs |-> Elsewhere] /\ run = None /\ ended = 0 /\ at = "idle"
      /\ draft = Runs!NoDraft /\ work = Runs!NoWork /\ planned = {} /\ replaced = {}
      /\ renames = 0 /\ failed = 0
      /\ \E bs \in SUBSET Runs!Names : uidnext = [b \in bs |-> 1]
  BY DEF Runs!Init, Elsewhere
<1>2. Runs!TypeOK
  <2>1. DOMAIN uidnext \subseteq Runs!Names /\ uidnext \in [DOMAIN uidnext -> 1 .. MaxUid + 1]
    BY <1>1, RunBounds
  <2>2. place \in [Msgs -> Runs!Place]
    BY <1>1 DEF Runs!Place, Elsewhere
  <2>3. draft \in [todo : SUBSET (Runs!Names \ Excluded), sources : Runs!Sources]
    BY <1>1 DEF Runs!NoDraft, Runs!Sources
  <2>4. work \in Windows
    BY <1>1, RunBounds DEF Runs!NoWork, Windows
  <2> QED
    BY <1>1, <2>1, <2>2, <2>3, <2>4, RunBounds DEF Runs!TypeOK, Windows
<1>3. Runs!HistoryBounded
  BY <1>1, RunBounds DEF Runs!HistoryBounded, Runs!Active
<1>4. Issued /\ Phases /\ SourcesKnown /\ PlannedCovered /\ Scanned
  BY <1>1 DEF Issued, Phases, Steps, SourcesKnown, PlannedCovered, Scanned, Runs!Active
<1> QED
  BY <1>2, <1>3, <1>4 DEF RunInv

\* Every step keeps the invariant and moves planned mail only.
LEMMA RunStep == RunInv /\ [Runs!Next]_runVars => RunGood
<1> SUFFICES ASSUME RunInv, [Runs!Next]_runVars PROVE RunGood
  OBVIOUS
<1>1. CASE \E b \in DOMAIN uidnext, m \in Msgs : Runs!Arrive(m, b)
  BY <1>1, ArriveStep
<1>2. CASE \E m \in Msgs : Runs!Leave(m)
  BY <1>2, LeaveStep
<1>3. CASE \E b, c \in Runs!Names : Runs!MailboxesRename(b, c)
  BY <1>3, MailboxRenameStep
<1>4. CASE \E b \in Runs!Names : Runs!MailboxesRenameAway(b) \/ Runs!MailboxesCreate(b)
  BY <1>4, RenameAwayStep, CreateStep
<1>5. CASE Runs!RulesRunCreate
  BY <1>5, RunCreateStep
<1>6. CASE Runs!RulesRunStep
  BY <1>6, StepStarts
<1>7. CASE Runs!RulesRunCancel
  BY <1>7, CancelStep
<1>8. CASE Runs!CommandBreaks
  BY <1>8, BreaksStep
<1>9. CASE Runs!Crash
  BY <1>9, CrashStep
<1>10. CASE Runs!HelperStep
  <2>1. CASE Runs!PlanMailbox
    BY <2>1, PlanStep
  <2>2. CASE Runs!PlanFails
    BY <2>2, PlanFailsStep
  <2>3. CASE Runs!CreateMailRuleRun
    BY <2>3, CreateRunStep
  <2>4. CASE Runs!CreateMailRuleWithRun
    BY <2>4, CreateWithRunStep
  <2>5. CASE Runs!FinishRun
    BY <2>5, FinishStep
  <2>6. CASE Runs!ResolveCursor
    BY <2>6, ResolveStep
  <2>7. CASE Runs!FetchWindow
    BY <2>7, FetchStep
  <2>8. CASE Runs!ScanMessage
    BY <2>8, ScanStep
  <2>9. CASE Runs!MoveMatched
    BY <2>9, MoveStep
  <2>10. CASE Runs!StoreProgress
    BY <2>10, StoreStep
  <2>11. CASE Runs!CommandFails
    BY <2>11, FailsStep
  <2>12. CASE Runs!FailRun
    BY <2>12, FailStep
  <2> QED
    BY <1>10, <2>1, <2>2, <2>3, <2>4, <2>5, <2>6, <2>7, <2>8, <2>9, <2>10, <2>11, <2>12
       DEF Runs!HelperStep
<1>11. CASE UNCHANGED runVars
  <2>1. NoChange /\ RunStill
    BY <1>11 DEF runVars, NoChange, RunStill
  <2>2. MailSafe
    BY <2>1, MailStill DEF NoChange
  <2> QED
    BY <2>1, <2>2, BesideRun
<1> QED
  BY <1>1, <1>2, <1>3, <1>4, <1>5, <1>6, <1>7, <1>8, <1>9, <1>10, <1>11 DEF Runs!Next

\* A completed run has no source left that could cover what was planned.
LEMMA RunInvIsSound == RunInv => RunsSound
<1> SUFFICES ASSUME RunInv PROVE RunsSound
  OBVIOUS
<1>1. ASSUME run # None, run.status = "completed", at = "idle", NEW p \in planned, p.msg \in Matching
      PROVE  place[p.msg] # p.at
  <2>1. run.index > Len(run.sources) /\ run.index \in Nat /\ Len(run.sources) \in Nat
    BY <1>1, RunParts DEF RunInv, Phases
  <2>2. ~Covers(run.sources, run.index, p)
    BY <2>1 DEF Covers
  <2> QED
    BY <1>1, <2>2 DEF RunInv, PlannedCovered, Stayed
<1> QED
  BY <1>1 DEF RunInv, RunsSound, Runs!RunsSound, Runs!NoneSkipped

(* A run reported as completed left no message behind that its rule matches    *)
(* and that was in its mailbox all the time, and an account has at most        *)
(* MaxRuns runs on record, for any mailboxes, any size of a window and however *)
(* mail, renames and failures fall between the commands of a step.             *)
THEOREM RunsAlwaysSound == Runs!Spec => []RunsSound
<1>1. RunInv /\ [Runs!Next]_(Runs!vars) => RunInv'
  BY RunStep DEF RunGood, Runs!vars, runVars
<1> QED
  BY <1>1, RunStarts, RunInvIsSound, PTL DEF Runs!Spec

(* A run moves only mail that its rule matches and that has been where it is   *)
(* since the run was planned; mailboxes replaced under their name are excepted *)
(* (move_messages takes the UIDs of the window, whatever has changed since).   *)
THEOREM OnlyPlannedMoved == Runs!Spec => MovesOnlyPlanned
<1>1. RunInv /\ [Runs!Next]_(Runs!vars) => RunInv' /\ [FilesPlanned]_runVars
  BY RunStep DEF RunGood, Runs!vars, runVars
<1> QED
  BY <1>1, RunStarts, PTL DEF Runs!Spec, MovesOnlyPlanned
=============================================================================
