----------------------------- MODULE RecordFile -----------------------------
(***************************************************************************)
(* One durable record: write_record under a byte budget, then any number   *)
(* of read_record under the same budget.                                   *)
(*                                                                         *)
(* The budget counts the newline that ends a record, which the encoder     *)
(* does not produce, and a reader asks for one byte more than the budget,  *)
(* to notice a file that grew after its length was read.                   *)
(***************************************************************************)
EXTENDS Naturals

CONSTANTS
  Limit,        \* the budget: MAX_HEADER_BYTES or MAX_INSTANCES_BYTES
  Sizes,        \* lengths of encoded records
  MaxForeign,   \* bound: length of the file that a change from outside leaves
  MaxChanges    \* bound: how often the file is changed from outside

ASSUME RecordAssumption ==
  /\ Limit \in Nat \ {0}
  /\ Sizes \subseteq Nat \ {0}
  /\ MaxForeign \in Nat
  /\ MaxChanges \in Nat

VARIABLES
  size,       \* the encoded length of the record that is written
  encoded,    \* how much of it BoundedWriter has taken
  remaining,  \* BoundedWriter's remaining
  writer,     \* where write_record is, or how it ended
  file,       \* the bytes of the file: how many, and what follows the record
  changes,    \* what MaxChanges bounds
  reader      \* where read_record is, or how it ended

recordVars == <<size, encoded, remaining, writer, file, changes, reader>>

WriterEnds == {"written", "tooLarge", "failed"}
ReaderEnds == {"accepted", "refusedLength", "malformed", "failed"}

\* A file is its length, and what its bytes after the record are to a JSON
\* parser: nothing or blanks, or anything else.
Files == [length : Nat, tail : {"blank", "other"}]

RecordTypeOK ==
  /\ size \in Sizes
  /\ encoded \in 0 .. size
  /\ remaining \in 0 .. Limit
  /\ writer \in {"encoding"} \cup WriterEnds
  /\ file \in Files
  /\ changes \in 0 .. MaxChanges
  /\ reader \in {"idle", "metadata", "bytes"} \cup ReaderEnds

RecordInit ==
  /\ size \in Sizes
  /\ encoded = 0
  /\ remaining = Limit
  /\ writer = "encoding"
  /\ file = [length |-> 0, tail |-> "blank"]
  /\ changes = 0
  /\ reader = "idle"

-----------------------------------------------------------------------------
(* The writer.  The encoder hands over chunks of any length.               *)

Take(n) ==
  /\ encoded' = encoded + n
  /\ remaining' = remaining - n
  /\ file' = [file EXCEPT !.length = @ + n]

\* A chunk that fits goes to the buffered writer.
AcceptChunk ==
  /\ writer = "encoding"
  /\ \E n \in 1 .. size - encoded : n <= remaining /\ Take(n)
  /\ UNCHANGED <<size, writer, changes, reader>>

\* A chunk that does not fit stops the encoder, whose own error is dropped.
RefuseChunk ==
  /\ writer = "encoding"
  /\ size - encoded > remaining
  /\ writer' = "tooLarge"
  /\ UNCHANGED <<size, encoded, remaining, file, changes, reader>>

\* Mutant of Finish: the newline does not count.
FinishUncounted ==
  /\ writer = "encoding"
  /\ encoded = size
  /\ writer' = "written"
  /\ file' = [file EXCEPT !.length = @ + 1]
  /\ UNCHANGED <<size, encoded, remaining, changes, reader>>

\* The record is complete: its newline must fit as well.
Finish ==
  /\ writer = "encoding"
  /\ encoded = size
  /\ IF remaining = 0
       THEN writer' = "tooLarge" /\ UNCHANGED <<remaining, file>>
       ELSE /\ writer' = "written"
            /\ remaining' = remaining - 1
            /\ file' = [file EXCEPT !.length = @ + 1]
  /\ UNCHANGED <<size, encoded, changes, reader>>

\* The operating system refuses a write, and the file keeps what went before.
WriteFails ==
  /\ writer = "encoding"
  /\ writer' = "failed"
  /\ UNCHANGED <<size, encoded, remaining, file, changes, reader>>

-----------------------------------------------------------------------------
(* The reader.                                                             *)

Least(m, n) == IF m < n THEN m ELSE n

BeginRead ==
  /\ writer = "written"
  /\ reader \notin {"metadata", "bytes"}
  /\ reader' = "metadata"
  /\ UNCHANGED <<size, encoded, remaining, writer, file, changes>>

\* The length in the metadata is checked before anything is read.
CheckMetadata ==
  /\ reader = "metadata"
  /\ reader' = IF file.length > Limit THEN "refusedLength" ELSE "bytes"
  /\ UNCHANGED <<size, encoded, remaining, writer, file, changes>>

\* Mutant of Taken: a read takes what the budget allows, and no more.
TakenInBudget == Least(file.length, Limit)

\* How many bytes a read takes: one beyond the budget shows that there are
\* more than the budget allows.
Taken == Least(file.length, Limit + 1)

\* What read_bounded_record makes of the file as it is now.  A record that is
\* cut short, or followed by more than blanks, is not one JSON value.
Verdict ==
  IF Taken > Limit THEN "refusedLength"
  ELSE IF Taken >= size /\ file.tail = "blank" THEN "accepted"
  ELSE "malformed"

ReadBytes ==
  /\ reader = "bytes"
  /\ reader' = Verdict
  /\ UNCHANGED <<size, encoded, remaining, writer, file, changes>>

\* The metadata, the file or its bytes cannot be read.
ReadFails ==
  /\ reader \in {"metadata", "bytes"}
  /\ reader' = "failed"
  /\ UNCHANGED <<size, encoded, remaining, writer, file, changes>>

\* Another program changes a written file, which no caller may allow and a
\* reader survives.
ChangeRecord ==
  /\ writer = "written"
  /\ changes < MaxChanges
  /\ \E n \in 0 .. MaxForeign, t \in {"blank", "other"} :
       file' = [length |-> n, tail |-> t]
  /\ changes' = changes + 1
  /\ UNCHANGED <<size, encoded, remaining, writer, reader>>

WriterNext == AcceptChunk \/ RefuseChunk \/ Finish \/ WriteFails
ReaderNext == CheckMetadata \/ ReadBytes \/ ReadFails
RecordNext == WriterNext \/ BeginRead \/ ReaderNext \/ ChangeRecord

RecordSpec == RecordInit /\ [][RecordNext]_recordVars

-----------------------------------------------------------------------------
(***************************************************************************)
(* Writer and reader agree on the budget, at its boundary too: a record    *)
(* is too large exactly when it and its newline exceed the budget, and one *)
(* that was written is never refused by a reader that finds it unchanged.  *)
(***************************************************************************)
BudgetsAgree ==
  /\ writer = "tooLarge" => size + 1 > Limit
  /\ writer = "written" => size + 1 <= Limit
  /\ reader \in {"refusedLength", "malformed"} => changes > 0

(***************************************************************************)
(* A reader accepts only what it read to its end within the budget: a file *)
(* that outgrows the budget, or is cut or replaced, after its length was   *)
(* read is noticed.                                                        *)
(***************************************************************************)
AcceptsOnlyWholeRecords ==
  [][reader' = "accepted" /\ reader # "accepted"
       => /\ size <= file.length
          /\ file.length <= Limit
          /\ file.tail = "blank"]_recordVars
=============================================================================
