------------------------------ MODULE SmtpData ------------------------------
(***************************************************************************)
(* The body of DATA as helper.py writes it (SMTPSubmissionClient           *)
(* _write_data): bytes are read one after the other, every line end        *)
(* becomes CR LF and a dot that begins a line is doubled.  What the        *)
(* receiver makes of the output is defined by positions, not by a scan, so *)
(* that it can serve as the reference.                                     *)
(*                                                                         *)
(* Bytes other than CR, LF and the dot are treated alike and are one       *)
(* symbol.  The chunks in which the message is read and written do not     *)
(* reset the scan and are left out.                                        *)
(*                                                                         *)
(* A definition just before another one with the same parameters is a      *)
(* wrong version of it; PROJECT.json lists which property catches which.   *)
(***************************************************************************)
EXTENDS Integers, Sequences

CONSTANT MaxLength  \* longest message

\* What every instance has to give; the MC modules assume it of theirs.
MaxLengthAssumption == MaxLength \in Nat

Bytes == {"CR", "LF", ".", "x"}

VARIABLES
    message,      \* the bytes read so far
    output,       \* the bytes written so far
    atLineStart, pendingCr,
    done

vars == <<message, output, atLineStart, pendingCr, done>>

Init ==
    /\ message = <<>> /\ output = <<>>
    /\ atLineStart = TRUE /\ pendingCr = FALSE /\ done = FALSE

CRLF == <<"CR", "LF">>

\* What is emitted for one byte that begins a line or not; CR is held back.
Emitted(b, start) ==
    CASE b = "CR" -> <<>>
      [] b = "LF" -> CRLF
      [] b \notin {"CR", "LF"} -> IF start /\ b = "." THEN <<".", b>> ELSE <<b>>

\* A held CR is emitted as a line end first, and an LF right after it is not a
\* second one.
ReadLosingStart(b) ==
    /\ ~done /\ Len(message) < MaxLength
    /\ message' = Append(message, b)
    /\ output' = output \o (IF pendingCr THEN CRLF ELSE <<>>)
                        \o (IF pendingCr /\ b = "LF" THEN <<>> ELSE Emitted(b, atLineStart))
    /\ pendingCr' = (b = "CR")
    /\ atLineStart' = IF b = "CR" THEN atLineStart ELSE b = "LF"
    /\ UNCHANGED done

Read(b) ==
    /\ ~done /\ Len(message) < MaxLength
    /\ message' = Append(message, b)
    /\ LET start == pendingCr \/ atLineStart
       IN  /\ output' = output \o (IF pendingCr THEN CRLF ELSE <<>>)
                               \o (IF pendingCr /\ b = "LF" THEN <<>> ELSE Emitted(b, start))
           /\ pendingCr' = (b = "CR")
           /\ atLineStart' = IF b = "CR" THEN start ELSE b = "LF"
    /\ UNCHANGED done

\* The last line gets its line end; a message has at least one byte.
Finish ==
    /\ ~done /\ message # <<>> /\ done' = TRUE
    /\ output' = IF pendingCr \/ ~atLineStart THEN output \o CRLF ELSE output
    /\ UNCHANGED <<message, atLineStart, pendingCr>>

Next == (\E b \in Bytes : Read(b)) \/ Finish

Spec == Init /\ [][Next]_vars

----------------------------------------------------------------------------
(* The reference: lines by position *)

Kept(s, Keep(_)) ==
    LET kept == SelectSeq([i \in 1..Len(s) |-> i], Keep)
    IN  [i \in 1..Len(kept) |-> s[kept[i]]]

\* CR LF, CR and LF each end a line.
Lines(s) ==
    LET logical == Kept(s, LAMBDA i : ~(s[i] = "CR" /\ i < Len(s) /\ s[i + 1] = "LF"))
    IN  [i \in 1..Len(logical) |-> IF logical[i] \in {"CR", "LF"} THEN "NL" ELSE logical[i]]

Starts(l, i) == i = 1 \/ (i > 1 /\ l[i - 1] = "NL")

\* RFC 5321 4.5.2: the receiver removes the first dot of a line.
Unstuffed(l) == Kept(l, LAMBDA i : ~(l[i] = "." /\ Starts(l, i)))

Terminated(l) == IF l # <<>> /\ l[Len(l)] = "NL" THEN l ELSE Append(l, "NL")

----------------------------------------------------------------------------
(* Properties *)

TypeOK ==
    /\ message \in Seq(Bytes) /\ output \in Seq(Bytes)
    /\ atLineStart \in BOOLEAN /\ pendingCr \in BOOLEAN /\ done \in BOOLEAN
    /\ output # <<>> /\ done => output[Len(output)] = "LF"

\* The receiver, having removed what was stuffed, has the message, with its
\* line ends normalised.
ReceiverHasMessage == done => Unstuffed(Lines(output)) = Terminated(Lines(message))

\* The message cannot end DATA by itself: no line of the output is a single
\* dot, and neither CR nor LF occurs alone.
NoEarlyEnd ==
    /\ LET l == Lines(output)
       IN  \A i \in DOMAIN l : l[i] = "." /\ Starts(l, i) => i < Len(l) /\ l[i + 1] # "NL"
    /\ \A i \in DOMAIN output :
        /\ output[i] = "CR" => i < Len(output) /\ output[i + 1] = "LF"
        /\ output[i] = "LF" => i > 1 /\ output[i - 1] = "CR"

\* What is sent is the message, the whole message and nothing else.
DataExact == TypeOK /\ ReceiverHasMessage /\ NoEarlyEnd
=============================================================================
