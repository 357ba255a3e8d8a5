--------------------------- MODULE EvidenceOutput ---------------------------
(***************************************************************************)
(* What a command writes to standard output, from the records and the      *)
(* artifact of a capture to the device behind standard output:             *)
(* capture, list, find and show, Store::copy_evidence, and the exit status *)
(* that cli::run makes of their result.                                    *)
(*                                                                         *)
(* The module extends RecordFile: the record read before anything is       *)
(* written, and again before every range, is the one that it models.  Lost *)
(* output is the hard case.  Rust's standard output keeps the bytes after  *)
(* the last newline until the process ends, when nobody looks at the       *)
(* result of writing them.                                                 *)
(***************************************************************************)
EXTENDS RecordFile, SequencesExt

CONSTANTS
  Width,         \* bits of an offset: 64 in the code
  Lengths,       \* declared lengths of the artifact
  CopyBuffer,    \* COPY_BUFFER_BYTES
  TailCapacity,  \* what standard output keeps of an unfinished line
  MaxRows,       \* bound: rows that list or find prints
  MaxBodies      \* bound: LLVM bodies of one instance

ASSUME OutputAssumption ==
  /\ Width \in Nat
  /\ CopyBuffer \in Nat \ {0}
  /\ TailCapacity \in Nat \ {0}
  /\ Lengths \subseteq 0 .. 2 ^ Width - 1
  /\ MaxRows \in Nat /\ MaxBodies \in Nat

VARIABLES
  declared,   \* the artifact's length in the manifest
  newlines,   \* the offsets at which its bytes are newlines
  stored,     \* the length of its file now
  command,    \* what was asked, once it is
  todo,       \* what the command still has to write
  position,   \* the offset at which the open artifact is read
  left,       \* what copy_evidence_bytes still has to copy
  pc,         \* the next step
  kept,       \* the unfinished line that standard output keeps
  device,     \* the device behind it
  arrived,    \* what that device took
  result      \* how the command ended

outputVars == <<declared, newlines, stored, command, todo, position, left, pc,
                kept, device, arrived, result>>
vars == <<recordVars, outputVars>>

-----------------------------------------------------------------------------
(* Bytes.  A byte of the artifact is its offset, so that every one differs *)
(* from the others; the bytes of text are a letter and a newline, which    *)
(* are no offsets.                                                         *)

Numbers == 0 .. 2 ^ Width - 1
Letter == 2 ^ Width
Newline == 2 ^ Width + 1

IsNewline(byte) == byte = Newline \/ byte \in newlines

Slice(start, length) == [i \in 1 .. length |-> start + i - 1]

\* A line of a row; rows of the code have several, and end with a newline.
Row == <<Letter, Newline>>

-----------------------------------------------------------------------------
(* Ranges.  A claim is the pair of numbers in a record or in a caller's    *)
(* hands; ByteRange::new refuses it when the sum does not fit.             *)

Claims == [start : Numbers, length : Numbers]

\* Mutant of Fits: the sum is not checked, and wraps.
FitsUnchecked(claim) == claim \in Claims

Fits(claim) == claim.start + claim.length < 2 ^ Width
End(range) == (range.start + range.length) % 2 ^ Width

\* The rule of the manifest, and again of copy_evidence, for one artifact.
WithinArtifact(range) == End(range) <= declared

\* What decoding the manifest accepts of the ranges it holds.
ValidClaims(claims) ==
  \A i \in DOMAIN claims : Fits(claims[i]) /\ WithinArtifact(claims[i])

-----------------------------------------------------------------------------
(* Commands, and what each of them writes, item by item.                   *)

Text(bytes) == [kind |-> "text", bytes |-> bytes]
Copy(claim) == [kind |-> "range", claim |-> claim]
NoTime == [kind |-> "noTime"]

Commands ==
       [form : {"capture"}, rows : {<<"dated">>, <<"undated">>}]
  \cup [form : {"list"}, rows : SeqOf({"dated", "undated"}, MaxRows)]
  \cup [form : {"find"}, rows : SeqOf({"dated"}, MaxRows), truncated : {FALSE}]
  \cup [form : {"find"}, rows : SeqOf({"dated"}, MaxRows) \ {<<>>},
        truncated : {TRUE}]
  \cup [form : {"source", "copy"}, claims : TupleOf(Claims, 1)]
  \cup [form : {"llvm"}, claims : SeqOf(Claims, MaxBodies) \ {<<>>}]
  \cup [form : {"unavailable"}]

\* The capture that was made or reused.  Its completion time may not be one
\* that RFC 3339 can express.
CaptureItems(row) == IF row = "undated" THEN <<NoTime>> ELSE <<Text(Row)>>

\* list_captures: a heading, then a blank line before every capture.
ListItems(rows) ==
  IF rows = <<>> THEN <<Text(Row)>>
  ELSE <<Text(Row)>> \o
       FlattenSeq([i \in DOMAIN rows |->
         IF rows[i] = "undated" THEN CaptureItems(rows[i])
         ELSE <<Text(<<Newline>>)>> \o CaptureItems(rows[i])])

\* find_instances: a blank line between instances, and the total if there
\* are more than the limit.
FindItems(rows, truncated) ==
  IF rows = <<>> THEN <<Text(Row)>>
  ELSE FlattenSeq([i \in DOMAIN rows |->
         IF i = 1 THEN <<Text(Row)>>
         ELSE <<Text(<<Newline>>), Text(Row)>>])
       \o (IF truncated THEN <<Text(<<Newline>>), Text(Row)>> ELSE <<>>)

\* show_llvm: a newline before every body but the first.
LlvmItems(claims) ==
  FlattenSeq([i \in DOMAIN claims |->
    IF i = 1 THEN <<Copy(claims[i])>>
    ELSE <<Text(<<Newline>>), Copy(claims[i])>>])

Items(c) ==
  CASE c.form = "capture" -> CaptureItems(c.rows[1])
    [] c.form = "list" -> ListItems(c.rows)
    [] c.form = "find" -> FindItems(c.rows, c.truncated)
    [] c.form = "llvm" -> LlvmItems(c.claims)
    [] c.form \in {"source", "copy"} -> <<Copy(c.claims[1])>>
    [] OTHER -> <<>>

-----------------------------------------------------------------------------
(* Standard output, which the standard library provides.                   *)

\* What follows the last newline of a chunk.
AfterNewline(chunk) ==
  LET ends == {0} \cup {i \in DOMAIN chunk : IsNewline(chunk[i])}
      end == CHOOSE i \in ends : \A j \in ends : j <= i
  IN SubSeq(chunk, end + 1, Len(chunk))

\* What a line writer keeps after a chunk: the unfinished line, unless it is
\* too long to keep.
KeptAfter(chunk) ==
  LET rest == AfterNewline(chunk) IN
  IF Len(rest) >= TailCapacity THEN <<>>
  ELSE IF rest = chunk /\ Len(kept) + Len(chunk) <= TailCapacity
       THEN kept \o chunk
  ELSE rest

\* The device takes all of some bytes, or it is closed or full and takes the
\* first few of them.
DeviceTakes(bytes, ok) ==
  \/ /\ ok
     /\ device = "open"
     /\ arrived' = arrived \o bytes
     /\ UNCHANGED device
  \/ /\ ~ok
     /\ bytes # <<>>
     /\ \/ device = "open" /\ device' \in {"closed", "full"}
        \/ device # "open" /\ UNCHANGED device
     /\ \E n \in 0 .. Len(bytes) - 1 :
          /\ device = "open" \/ n = 0
          /\ arrived' = arrived \o SubSeq(bytes, 1, n)

\* write_all of a chunk to standard output.
WriteAll(chunk, ok) ==
  LET all == kept \o chunk
      keeps == KeptAfter(chunk)
      through == SubSeq(all, 1, Len(all) - Len(keeps))
  IN \/ ok /\ through = <<>> /\ kept' = all /\ UNCHANGED <<device, arrived>>
     \/ through # <<>> /\ DeviceTakes(through, ok)
        /\ kept' = IF ok THEN keeps ELSE <<>>

-----------------------------------------------------------------------------
Failures == {"io", "store", "badRange", "unavailable", "noTime", "full"}
Results == {"none", "ok", "closed"} \cup Failures

\* cli::run treats a closed pipe as normal completion.
Succeeded == result \in {"ok", "closed"}

Artifact == <<declared, newlines>>
Stdout == <<kept, device, arrived>>

Init ==
  /\ RecordInit
  /\ declared \in Lengths
  /\ newlines \in SUBSET (0 .. declared - 1)
  /\ stored = declared
  /\ command = [form |-> "none"]
  /\ todo = <<>>
  /\ position = 0 /\ left = 0
  /\ pc = "idle"
  /\ kept = <<>> /\ device = "open" /\ arrived = <<>>
  /\ result = "none"

Return(how) ==
  /\ pc' = "ended"
  /\ result' = how

\* A command starts.  The reading ones read the records first; `capture' has
\* its record at hand, and a caller of copy_evidence first needs a range.
Ask(c) ==
  /\ pc = "idle"
  /\ writer = "written"
  /\ command' = c
  /\ \/ /\ c.form \notin {"capture", "copy"}
        /\ BeginRead
        /\ pc' = "resolve" /\ UNCHANGED <<todo, result>>
     \/ /\ c.form = "capture" \/ (c.form = "copy" /\ Fits(c.claims[1]))
        /\ pc' = "items" /\ todo' = Items(c) /\ UNCHANGED <<recordVars, result>>
     \/ /\ c.form = "copy" /\ ~Fits(c.claims[1])
        /\ Return("badRange") /\ UNCHANGED <<recordVars, todo>>
  /\ UNCHANGED <<Artifact, stored, position, left, Stdout>>

\* What stops read_instances, or nothing: the record, the rules of the
\* manifest, or an artifact of another length.
Refusal ==
  IF reader = "failed" THEN "io"
  ELSE IF \/ reader # "accepted"
          \/ command.form \in {"source", "llvm"} /\ ~ValidClaims(command.claims)
          \/ command.form # "list" /\ stored # declared
  THEN "store"
  ELSE "none"

\* The records are read, and say whether there is anything to show.
Resolve ==
  /\ pc = "resolve"
  /\ reader \in ReaderEnds
  /\ CASE Refusal # "none" -> Return(Refusal) /\ UNCHANGED todo
       [] Refusal = "none" /\ command.form = "unavailable" ->
            Return("unavailable") /\ UNCHANGED todo
       [] OTHER ->
            pc' = "items" /\ todo' = Items(command) /\ UNCHANGED result
  /\ UNCHANGED <<recordVars, Artifact, stored, command, position, left, Stdout>>

\* Mutant of Write: every failure to write is taken for a closed pipe.
WriteOrClosed(chunk) ==
  \/ WriteAll(chunk, TRUE) /\ UNCHANGED <<pc, result>>
  \/ WriteAll(chunk, FALSE) /\ Return("closed")

\* One write_all, and what its failure makes of the command.
Write(chunk) ==
  \/ WriteAll(chunk, TRUE) /\ UNCHANGED <<pc, result>>
  \/ WriteAll(chunk, FALSE) /\ Return(device')

WriteText ==
  /\ pc = "items"
  /\ todo # <<>> /\ Head(todo).kind = "text"
  /\ Write(Head(todo).bytes)
  /\ todo' = Tail(todo)
  /\ UNCHANGED <<recordVars, Artifact, stored, command, position, left>>

\* CaptureOutput::new refuses a time after earlier captures are printed.
RefuseTime ==
  /\ pc = "items"
  /\ todo # <<>> /\ Head(todo).kind = "noTime"
  /\ Return("noTime")
  /\ UNCHANGED <<recordVars, Artifact, stored, command, todo, position, left, Stdout>>

\* copy_evidence reads the records again.
BeginCopy ==
  /\ pc = "items"
  /\ todo # <<>> /\ Head(todo).kind = "range"
  /\ BeginRead
  /\ pc' = "open"
  /\ UNCHANGED <<Artifact, stored, command, todo, position, left, Stdout, result>>

\* It checks the range against the declared length, and opens the artifact.
OpenArtifact ==
  /\ pc = "open"
  /\ reader \in ReaderEnds
  /\ LET range == Head(todo).claim IN
     IF Refusal # "none" \/ ~WithinArtifact(range)
       THEN /\ Return(IF Refusal # "none" THEN Refusal ELSE "store")
            /\ UNCHANGED <<todo, position, left>>
       ELSE /\ pc' = "copy"
            /\ todo' = Tail(todo)
            /\ position' = range.start
            /\ left' = range.length
            /\ UNCHANGED result
  /\ UNCHANGED <<recordVars, Artifact, stored, command, Stdout>>

\* read_exact finds the file too short for the next chunk.
PrematureEnd ==
  /\ pc = "copy"
  /\ left > 0
  /\ position + Least(left, CopyBuffer) > stored
  /\ Return("io")
  /\ UNCHANGED <<recordVars, Artifact, stored, command, todo, position, left, Stdout>>

\* Mutant of CopyChunk: the last chunk is written with the rest of the buffer.
CopyBufferful ==
  /\ pc = "copy"
  /\ left > 0
  /\ LET count == Least(left, CopyBuffer) IN
       /\ position + count <= stored
       /\ Write(Slice(position, CopyBuffer))
       /\ position' = position + count
       /\ left' = left - count
  /\ UNCHANGED <<recordVars, Artifact, stored, command, todo>>

CopyChunk ==
  /\ pc = "copy"
  /\ left > 0
  /\ LET count == Least(left, CopyBuffer) IN
       /\ position + count <= stored
       /\ Write(Slice(position, count))
       /\ position' = position + count
       /\ left' = left - count
  /\ UNCHANGED <<recordVars, Artifact, stored, command, todo>>

\* The artifact cannot be opened or read.
ArtifactFails ==
  /\ pc = "copy"
  /\ Return("io")
  /\ UNCHANGED <<recordVars, Artifact, stored, command, todo, position, left, Stdout>>

FinishCopy ==
  /\ pc = "copy"
  /\ left = 0
  /\ pc' = "items"
  /\ UNCHANGED <<recordVars, Artifact, stored, command, todo, position, left, Stdout, result>>

Complete ==
  /\ pc = "items"
  /\ todo = <<>>
  /\ Return("ok")
  /\ UNCHANGED <<recordVars, Artifact, stored, command, todo, position, left, Stdout>>

\* The process ends: standard output writes what it kept, and nobody learns
\* whether it could.
Exit ==
  /\ pc = "ended"
  /\ pc' = "exited"
  /\ kept' = <<>>
  /\ IF kept = <<>> THEN UNCHANGED <<device, arrived>>
     ELSE \E ok \in BOOLEAN : DeviceTakes(kept, ok)
  /\ UNCHANGED <<recordVars, Artifact, stored, command, todo, position, left, result>>

\* Another program changes the length of the artifact.
ChangeArtifact ==
  /\ writer = "written"
  /\ changes < MaxChanges
  /\ stored' \in Numbers \ {stored}
  /\ changes' = changes + 1
  /\ UNCHANGED <<size, encoded, remaining, writer, file, reader>>
  /\ UNCHANGED <<Artifact, command, todo, position, left, pc, Stdout, result>>

Next ==
  \/ (WriterNext \/ ReaderNext \/ ChangeRecord) /\ UNCHANGED outputVars
  \/ \E c \in Commands : Ask(c)
  \/ Resolve
  \/ WriteText
  \/ RefuseTime
  \/ BeginCopy
  \/ OpenArtifact
  \/ PrematureEnd
  \/ CopyChunk
  \/ ArtifactFails
  \/ FinishCopy
  \/ Complete
  \/ Exit
  \/ ChangeArtifact

Spec == Init /\ [][Next]_vars

-----------------------------------------------------------------------------
Bytes == 0 .. Newline

\* What every variable holds in any state of the record and of the command.
TypeOK ==
  /\ RecordTypeOK
  /\ declared \in Lengths /\ stored \in Numbers
  /\ newlines \subseteq Numbers
  /\ command \in Commands \cup {[form |-> "none"]}
  /\ position \in 0 .. 2 ^ Width
  /\ left \in Numbers
  /\ pc \in {"idle", "resolve", "items", "open", "copy", "ended", "exited"}
  /\ device \in {"open", "closed", "full"}
  /\ {kept, arrived} \subseteq Seq(Bytes)
  /\ result \in Results

(* What a command should write, said without its loops: blocks, with an    *)
(* empty line or a newline between any two.                                *)
Blocks(c) ==
  CASE c.form = "capture" -> IF c.rows = <<"dated">> THEN <<Row>> ELSE <<>>
    [] c.form = "list" ->
         LET dated == {n \in 0 .. Len(c.rows) : \A i \in 1 .. n : c.rows[i] = "dated"}
         IN [i \in {n + 1 : n \in dated} |-> Row]
    [] c.form = "find" ->
         [i \in 1 .. Len(c.rows) + (IF c.truncated \/ c.rows = <<>> THEN 1 ELSE 0)
            |-> Row]
    [] c.form \in {"source", "llvm", "copy"} ->
         [i \in DOMAIN c.claims |-> Slice(c.claims[i].start, c.claims[i].length)]
    [] OTHER -> <<>>

Joined(blocks) ==
  FlattenSeq([i \in DOMAIN blocks |-> (IF i = 1 THEN <<>> ELSE <<Newline>>) \o blocks[i]])

Expected == Joined(Blocks(command))

\* A claim that holds of the declared length, in unbounded arithmetic.
Exact(claim) == claim.start + claim.length <= declared
Exacts == "claims" \in DOMAIN command => \A i \in DOMAIN command.claims : Exact(command.claims[i])

(***************************************************************************)
(* Whatever fails, and wherever, what reached standard output is a prefix  *)
(* of what the command should show: no byte is missing, doubled or out of  *)
(* place, within a range, between bodies and between rows.                 *)
(***************************************************************************)
OutputIsPrefix == IsPrefix(arrived \o kept, Expected)

(***************************************************************************)
(* The result says what happened to the output.  A command that ends well  *)
(* has written everything, to the device or to the line that standard      *)
(* output keeps; a device that fails is never mistaken for a store that    *)
(* fails, nor a full device for a closed pipe.                             *)
(***************************************************************************)
ResultIsTrue ==
  /\ result = "ok" /\ pc = "ended" => arrived \o kept = Expected
  /\ result = "ok" /\ pc = "exited" /\ device = "open" => arrived = Expected
  /\ result = "closed" => device = "closed"
  /\ result = "full" => device = "full"
  /\ pc = "ended" /\ device # "open" => result \in {"closed", "full"}

(***************************************************************************)
(* A range is refused exactly when its end, computed without overflow,     *)
(* lies behind the artifact's end, although the code computes in Width     *)
(* bits: none other is ever copied from, an empty one at the end included, *)
(* and a capture that nobody changed is refused for no other reason.       *)
(***************************************************************************)
RangesAreExact ==
  /\ pc = "copy" => position + left <= declared
  /\ result = "ok" => Exacts
  /\ result \in {"store", "badRange"} => ~Exacts \/ changes > 0

(***************************************************************************)
(* cli::run exits with success for a closed pipe and for nothing else that *)
(* keeps output from the device.  This does not hold: the line that        *)
(* standard output keeps is written after the status is decided.           *)
(***************************************************************************)
SuccessIsShown ==
  /\ pc = "exited" /\ command.form # "copy"
  /\ Succeeded /\ device # "closed"
  => arrived = Expected
=============================================================================
