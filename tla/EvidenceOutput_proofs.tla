------------------------ MODULE EvidenceOutput_proofs ------------------------
(***************************************************************************)
(* Record budgets and ranges, for every budget, every set of record sizes, *)
(* every width of offsets and every command: writer and reader agree on    *)
(* what is too large, only whole records are accepted, and a range is      *)
(* refused exactly when unbounded arithmetic refuses it.                   *)
(*                                                                         *)
(* Then what arrives at standard output, for every command, every artifact *)
(* and every size of the buffers, whatever fails: a prefix of what the     *)
(* command should show, and all of it if the command says so.              *)
(*                                                                         *)
(* The items of a command are flattened sequences of items; SequenceLemmas *)
(* says what FlattenSeq returns.                                           *)
(***************************************************************************)
EXTENDS EvidenceOutput, SequenceLemmas

\* While the encoder runs, what it has written and what is left of the budget
\* are the whole budget, and nobody else has the file.
Encoding ==
  writer = "encoding" =>
    /\ encoded + remaining = Limit
    /\ file = [length |-> encoded, tail |-> "blank"]

\* Nobody reads or changes a record that is not written.
Unpublished == writer # "written" => reader = "idle" /\ changes = 0

\* A record that nobody has changed is the encoding and its newline.
Whole ==
  writer = "written" /\ changes = 0 => file = [length |-> size + 1, tail |-> "blank"]

IInv == RecordTypeOK /\ Encoding /\ Unpublished /\ Whole /\ BudgetsAgree

-----------------------------------------------------------------------------
\* A read takes all of a file within the budget, and more than the budget of
\* any other: the byte in excess is always seen.
LEMMA ExcessIsSeen ==
  ASSUME file \in Files
  PROVE  /\ Taken \in Nat
         /\ Taken > Limit <=> file.length > Limit
         /\ Taken <= Limit => Taken = file.length
<1>1. file.length \in Nat /\ Limit \in Nat
  BY RecordAssumption DEF Files
<1> QED
  BY <1>1 DEF Taken, Least

LEMMA InitEstablishes == RecordInit => IInv
BY RecordAssumption
   DEF RecordInit, IInv, RecordTypeOK, Encoding, Unpublished, Whole, BudgetsAgree,
       Files, WriterEnds, ReaderEnds

\* The writer's steps: the budget shrinks with what is encoded, so it is used
\* up exactly when the record and its newline do not fit.
LEMMA WriterPreserves ==
  ASSUME IInv, WriterNext
  PROVE  IInv'
<1> USE RecordAssumption
<1>1. CASE AcceptChunk
  <2>1. PICK n \in 1 .. size - encoded : n <= remaining /\ Take(n)
    BY <1>1 DEF AcceptChunk
  <2>2. /\ writer = "encoding" /\ UNCHANGED <<size, writer, changes, reader>>
        /\ size \in Nat /\ encoded \in Nat /\ remaining \in Nat /\ Limit \in Nat
        /\ file = [length |-> encoded, tail |-> "blank"]
        /\ encoded + remaining = Limit
    BY <1>1 DEF AcceptChunk, IInv, RecordTypeOK, Encoding
  <2>3. n \in Nat /\ n <= size - encoded
    BY <2>2
  <2>4. /\ encoded' = encoded + n /\ remaining' = remaining - n
        /\ file' = [length |-> encoded + n, tail |-> "blank"]
    BY <2>1, <2>2 DEF Take
  <2> QED
    BY <2>1, <2>2, <2>3, <2>4
       DEF IInv, RecordTypeOK, Encoding, Unpublished, Whole, BudgetsAgree, Files,
           WriterEnds, ReaderEnds
<1>2. CASE RefuseChunk
  BY <1>2 DEF RefuseChunk, IInv, RecordTypeOK, Encoding, Unpublished, Whole,
              BudgetsAgree, Files, WriterEnds, ReaderEnds
<1>3. CASE Finish
  BY <1>3 DEF Finish, IInv, RecordTypeOK, Encoding, Unpublished, Whole,
              BudgetsAgree, Files, WriterEnds, ReaderEnds
<1>4. CASE WriteFails
  BY <1>4 DEF WriteFails, IInv, RecordTypeOK, Encoding, Unpublished, Whole,
              BudgetsAgree, Files, WriterEnds, ReaderEnds
<1> QED
  BY <1>1, <1>2, <1>3, <1>4 DEF WriterNext

\* The reader's steps: an unchanged record is as long as the budget allows, at
\* both places where its length is looked at.
LEMMA ReaderPreserves ==
  ASSUME IInv, BeginRead \/ ReaderNext
  PROVE  IInv'
<1> USE RecordAssumption
<1>1. CASE BeginRead
  BY <1>1 DEF BeginRead, IInv, RecordTypeOK, Encoding, Unpublished, Whole,
              BudgetsAgree, Files, WriterEnds, ReaderEnds
<1>2. CASE CheckMetadata
  BY <1>2 DEF CheckMetadata, IInv, RecordTypeOK, Encoding, Unpublished, Whole,
              BudgetsAgree, Files, WriterEnds, ReaderEnds
<1>3. CASE ReadBytes
  <2>1. /\ reader = "bytes" /\ reader' = Verdict
        /\ UNCHANGED <<size, encoded, remaining, writer, file, changes>>
        /\ writer = "written"
    BY <1>3 DEF ReadBytes, IInv, Unpublished
  <2>2. Verdict \in ReaderEnds
    BY DEF Verdict, ReaderEnds
  <2>3. changes = 0 => Verdict = "accepted"
    <3>1. SUFFICES ASSUME changes = 0
                   PROVE  Verdict = "accepted"
      OBVIOUS
    <3>2. /\ file \in Files /\ file.tail = "blank" /\ file.length = size + 1
          /\ size \in Nat /\ Limit \in Nat /\ size + 1 <= Limit
      BY <2>1, <3>1 DEF IInv, RecordTypeOK, Whole, BudgetsAgree
    <3>3. Taken = size + 1
      BY <3>2, ExcessIsSeen
    <3> QED
      BY <3>2, <3>3 DEF Verdict
  <2>4. changes \in Nat
    BY DEF IInv, RecordTypeOK
  <2> QED
    BY <2>1, <2>2, <2>3, <2>4
       DEF IInv, RecordTypeOK, Encoding, Unpublished, Whole, BudgetsAgree, WriterEnds,
           ReaderEnds
<1>4. CASE ReadFails
  BY <1>4 DEF ReadFails, IInv, RecordTypeOK, Encoding, Unpublished, Whole,
              BudgetsAgree, Files, WriterEnds, ReaderEnds
<1> QED
  BY <1>1, <1>2, <1>3, <1>4 DEF ReaderNext

\* A change from outside, of the record or of an artifact, is counted.
LEMMA ChangePreserves ==
  ASSUME IInv, ChangeRecord \/ ChangeArtifact
  PROVE  IInv'
<1> USE RecordAssumption
<1>1. /\ writer = "written" /\ changes < MaxChanges /\ changes' = changes + 1
      /\ UNCHANGED <<size, encoded, remaining, writer, reader>>
      /\ file' \in Files
  BY DEF ChangeRecord, ChangeArtifact, IInv, RecordTypeOK, Files
<1>2. changes \in Nat /\ changes' \in 0 .. MaxChanges /\ changes' > 0
  BY <1>1 DEF IInv, RecordTypeOK
<1> QED
  BY <1>1, <1>2 DEF IInv, RecordTypeOK, Encoding, Unpublished, Whole, BudgetsAgree,
                    WriterEnds, ReaderEnds

LEMMA StutterPreserves ==
  ASSUME IInv, UNCHANGED recordVars
  PROVE  IInv'
BY DEF IInv, recordVars, RecordTypeOK, Encoding, Unpublished, Whole, BudgetsAgree, Files

\* What a command does to the record is one of those steps, or nothing.
LEMMA StepOfTheRecord ==
  ASSUME [Next]_vars
  PROVE  WriterNext \/ BeginRead \/ ReaderNext \/ ChangeRecord \/ ChangeArtifact
           \/ UNCHANGED recordVars
<1>1. CASE UNCHANGED vars
  BY <1>1 DEF vars
<1>2. CASE \E c \in Commands : Ask(c)
  BY <1>2 DEF Ask
<1>3. CASE \/ Resolve \/ WriteText \/ RefuseTime \/ OpenArtifact \/ PrematureEnd
           \/ CopyChunk \/ ArtifactFails \/ FinishCopy \/ Complete \/ Exit
  BY <1>3 DEF Resolve, WriteText, RefuseTime, OpenArtifact, PrematureEnd, CopyChunk,
              ArtifactFails, FinishCopy, Complete, Exit
<1>4. CASE BeginCopy
  BY <1>4 DEF BeginCopy
<1> QED
  BY <1>1, <1>2, <1>3, <1>4 DEF Next

-----------------------------------------------------------------------------
\* The invariant holds in every behaviour of every command.
LEMMA Invariance == Spec => []IInv
<1>1. Init => IInv
  BY InitEstablishes DEF Init
<1>2. IInv /\ [Next]_vars => IInv'
  BY StepOfTheRecord, WriterPreserves, ReaderPreserves, ChangePreserves,
     StutterPreserves
<1> QED
  BY <1>1, <1>2, PTL DEF Spec

(***************************************************************************)
(* Whatever the budget and the record, the writer refuses exactly what no  *)
(* reader would accept, up to the newline, and a reader refuses no record  *)
(* that is as it was written.                                              *)
(***************************************************************************)
THEOREM BudgetsAlwaysAgree == Spec => []BudgetsAgree
<1>1. IInv => BudgetsAgree
  BY DEF IInv
<1> QED
  BY <1>1, Invariance, PTL

(***************************************************************************)
(* No step accepts a record that is longer than the budget, cut short, or  *)
(* followed by anything but blanks, whenever it was changed.               *)
(***************************************************************************)
THEOREM AcceptedAreWhole == Spec => AcceptsOnlyWholeRecords
<1> DEFINE A == reader' = "accepted" /\ reader # "accepted"
                  => /\ size <= file.length
                     /\ file.length <= Limit
                     /\ file.tail = "blank"
<1>1. IInv /\ [Next]_vars => [A]_recordVars
  <2>1. SUFFICES ASSUME IInv, [Next]_vars, reader' = "accepted", reader # "accepted"
                 PROVE  /\ size <= file.length
                        /\ file.length <= Limit
                        /\ file.tail = "blank"
    OBVIOUS
  <2>2. ReadBytes
    BY <2>1, StepOfTheRecord
       DEF WriterNext, AcceptChunk, RefuseChunk, Finish, WriteFails, Take, BeginRead,
           ReaderNext, CheckMetadata, ReadFails, ChangeRecord, ChangeArtifact, recordVars
  <2>3. Verdict = "accepted"
    BY <2>1, <2>2 DEF ReadBytes
  <2>4. ~(Taken > Limit) /\ Taken >= size /\ file.tail = "blank"
    BY <2>3 DEF Verdict
  <2>5. file \in Files /\ size \in Nat /\ Limit \in Nat /\ file.length \in Nat
    BY <2>1, RecordAssumption DEF IInv, RecordTypeOK, Files
  <2>6. file.length <= Limit /\ Taken = file.length
    BY <2>4, <2>5, ExcessIsSeen
  <2> QED
    BY <2>4, <2>5, <2>6
<1>2. []IInv /\ [][Next]_vars => [][A]_recordVars
  BY <1>1, PTL
<1> QED
  BY <1>2, Invariance, PTL DEF Spec, AcceptsOnlyWholeRecords

-----------------------------------------------------------------------------
(* Ranges.  From the records to the copy, a range is checked three times:  *)
(* when it is made, when the manifest is decoded, and when it is copied.   *)

ClaimsOf(c) ==
  IF "claims" \in DOMAIN c THEN {c.claims[i] : i \in DOMAIN c.claims} ELSE {}

\* What a command may have to write.
Writable(c) ==
  {Text(Row), Text(<<Newline>>), NoTime} \cup {Copy(claim) : claim \in ClaimsOf(c)}

Asked ==
  /\ pc # "idle" => command \in Commands
  /\ pc = "resolve" => command.form \notin {"capture", "copy"}
  /\ pc \in {"idle", "resolve", "items", "open", "copy"} => result = "none"
  /\ device \in {"open", "closed", "full"}

\* What is left to write; the copy of a range that a caller has is all that
\* its command writes.
Pending ==
  /\ todo \in Seq(Writable(command))
  /\ pc \in {"idle", "resolve"} => todo = <<>>
  /\ pc = "open" => todo # <<>> /\ Head(todo).kind = "range"
  /\ pc # "idle" /\ command.form = "copy" => todo \in {<<>>, <<Copy(command.claims[1])>>}

\* Ranges of the manifest lie within the artifact before anything is written;
\* a caller's range does once it is copied.
Checked ==
  /\ pc \in {"items", "open", "copy"} =>
       \A claim \in ClaimsOf(command) :
         Fits(claim) /\ (command.form # "copy" => Exact(claim))
  /\ pc \in {"items", "copy"} /\ command.form = "copy" /\ todo = <<>> => Exacts

Lengthy ==
  /\ {declared, stored, position, left} \subseteq Nat
  /\ declared < 2 ^ Width
  /\ changes = 0 => stored = declared

OutputInv == Asked /\ Pending /\ Checked /\ Lengthy /\ RangesAreExact

\* A number of Width bits, and a sum that fits.
LEMMA WidthFacts ==
  ASSUME NEW start \in Numbers, NEW length \in Numbers
  PROVE  /\ start \in Nat /\ length \in Nat
         /\ start + length < 2 ^ Width =>
              (start + length) % 2 ^ Width = start + length
<1>1. start \in Nat /\ length \in Nat
  BY OutputAssumption DEF Numbers
<1>2. start + length < 2 ^ Width => (start + length) % 2 ^ Width = start + length
  BY <1>1, OutputAssumption
<1> QED
  BY <1>1, <1>2

\* The two checks of a claim, together, are the exact one.
LEMMA ChecksAreExact ==
  ASSUME NEW claim \in Claims, Lengthy
  PROVE  /\ claim.start \in Nat /\ claim.length \in Nat
         /\ Fits(claim) /\ WithinArtifact(claim) <=> Exact(claim)
<1>1. claim.start \in Numbers /\ claim.length \in Numbers
  BY DEF Claims
<1>2. claim.start \in Nat /\ claim.length \in Nat
  BY <1>1, WidthFacts
<1>3. Fits(claim) => End(claim) = claim.start + claim.length
  BY <1>1, WidthFacts DEF Fits, End
<1>4. Exact(claim) => Fits(claim)
  BY <1>2, OutputAssumption DEF Exact, Fits, Lengthy
<1> QED
  BY <1>2, <1>3, <1>4 DEF WithinArtifact, Exact

LEMMA ClaimsOfCommands ==
  ASSUME NEW c \in Commands
  PROVE  /\ ClaimsOf(c) \subseteq Claims
         /\ "claims" \in DOMAIN c <=> c.form \in {"source", "copy", "llvm"}
         /\ c.form \in {"source", "copy"} => ClaimsOf(c) = {c.claims[1]}
         /\ c.form = "capture" => c.rows \in {<<"dated">>, <<"undated">>}
         /\ c.form = "list" => c.rows \in Seq({"dated", "undated"})
         /\ c.form = "find" => c.rows \in Seq({"dated"}) /\ c.truncated \in BOOLEAN
         /\ c.form = "llvm" => c.claims \in Seq(Claims)
<1>1. ASSUME NEW S, NEW n \in Nat, NEW s \in SeqOf(S, n)
      PROVE  s \in Seq(S)
  BY <1>1 DEF SeqOf
<1>2. CASE c \in [form : {"capture"}, rows : {<<"dated">>, <<"undated">>}]
  BY <1>2 DEF ClaimsOf
<1>3. CASE c \in [form : {"list"}, rows : SeqOf({"dated", "undated"}, MaxRows)]
  BY <1>1, <1>3, OutputAssumption DEF ClaimsOf
<1>4. CASE c \in [form : {"find"}, rows : SeqOf({"dated"}, MaxRows), truncated : {FALSE}]
           \/ c \in [form : {"find"}, rows : SeqOf({"dated"}, MaxRows) \ {<<>>},
                     truncated : {TRUE}]
  BY <1>1, <1>4, OutputAssumption DEF ClaimsOf
<1>5. CASE c \in [form : {"source", "copy"}, claims : TupleOf(Claims, 1)]
  BY <1>5 DEF ClaimsOf, TupleOf
<1>6. CASE c \in [form : {"llvm"}, claims : SeqOf(Claims, MaxBodies) \ {<<>>}]
  <2>1. c.form = "llvm" /\ c.claims \in Seq(Claims) /\ DOMAIN c = {"form", "claims"}
    BY <1>1, <1>6, OutputAssumption
  <2> QED
    BY <2>1 DEF ClaimsOf
<1>7. CASE c \in [form : {"unavailable"}]
  BY <1>7 DEF ClaimsOf
<1> QED
  BY <1>2, <1>3, <1>4, <1>5, <1>6, <1>7 DEF Commands

\* Each command writes text and the ranges that it was asked for.
LEMMA ItemsAreWritable ==
  ASSUME NEW c \in Commands
  PROVE  /\ Items(c) \in Seq(Writable(c))
         /\ c.form = "copy" => Items(c) = <<Copy(c.claims[1])>>
<1> DEFINE W == Writable(c)
<1>1. Text(Row) \in W /\ Text(<<Newline>>) \in W /\ NoTime \in W
  BY DEF Writable
<1>2. \A claim \in ClaimsOf(c) : Copy(claim) \in W
  BY DEF Writable
<1> HIDE DEF W
<1>3. ASSUME NEW x \in W, NEW y \in W
      PROVE  <<x>> \in Seq(W) /\ <<x, y>> \in Seq(W) /\ <<x>> \o <<y>> \in Seq(W)
  BY <1>3
<1>4. CASE c.form = "capture"
  <2>1. Items(c) = CaptureItems(c.rows[1])
    BY <1>4 DEF Items
  <2> QED
    BY <1>1, <1>3, <1>4, <2>1 DEF CaptureItems, W
<1>5. CASE c.form = "list"
  <2> DEFINE rows == c.rows
             Part(i) == IF rows[i] = "undated" THEN CaptureItems(rows[i])
                        ELSE <<Text(<<Newline>>)>> \o CaptureItems(rows[i])
             parts == [i \in DOMAIN rows |-> Part(i)]
  <2>1. rows \in Seq({"dated", "undated"})
    BY <1>5, ClaimsOfCommands
  <2>2. \A row : CaptureItems(row) \in {<<NoTime>>, <<Text(Row)>>}
    BY DEF CaptureItems
  <2>3. \A i \in DOMAIN rows : Part(i) \in Seq(W)
    BY <1>1, <1>3, <2>2
  <2>4. parts \in Seq(Seq(W))
    <3> HIDE DEF Part
    <3>1. Len(rows) \in Nat /\ parts \in [1 .. Len(rows) -> Seq(W)]
      BY <2>1, <2>3
    <3> HIDE DEF parts
    <3> QED
      BY <3>1, SequenceOfFunction
  <2>5. Items(c) = IF rows = <<>> THEN <<Text(Row)>> ELSE <<Text(Row)>> \o FlattenSeq(parts)
    BY <1>5 DEF Items, ListItems
  <2> HIDE DEF parts
  <2>6. FlattenSeq(parts) \in Seq(W)
    BY <2>4, FlattenedType
  <2>7. <<Text(Row)>> \in Seq(W) /\ <<Text(Row)>> \o FlattenSeq(parts) \in Seq(W)
    BY <1>1, <1>3, <2>6, ConcatProperties
  <2> QED
    BY <1>5, <2>5, <2>7 DEF W
<1>6. CASE c.form = "find"
  <2> DEFINE rows == c.rows
             Part(i) ==
               IF i = 1 THEN <<Text(Row)>> ELSE <<Text(<<Newline>>), Text(Row)>>
             parts == [i \in DOMAIN rows |-> Part(i)]
             last == IF c.truncated THEN <<Text(<<Newline>>), Text(Row)>> ELSE <<>>
  <2>1. rows \in Seq({"dated"})
    BY <1>6, ClaimsOfCommands
  <2>2. \A i \in DOMAIN rows : Part(i) \in Seq(W)
    BY <1>1, <1>3
  <2>3. parts \in Seq(Seq(W))
    <3> HIDE DEF Part
    <3>1. Len(rows) \in Nat /\ parts \in [1 .. Len(rows) -> Seq(W)]
      BY <2>1, <2>2
    <3> HIDE DEF parts
    <3> QED
      BY <3>1, SequenceOfFunction
  <2>4. Items(c) = IF rows = <<>> THEN <<Text(Row)>> ELSE FlattenSeq(parts) \o last
    BY <1>6 DEF Items, FindItems
  <2> HIDE DEF parts
  <2>5. FlattenSeq(parts) \in Seq(W)
    BY <2>3, FlattenedType
  <2>6. last \in Seq(W)
    BY <1>1, <1>3
  <2>7. <<Text(Row)>> \in Seq(W) /\ FlattenSeq(parts) \o last \in Seq(W)
    BY <1>1, <1>3, <2>5, <2>6, ConcatProperties
  <2> QED
    BY <1>6, <2>4, <2>7 DEF W
<1>7. CASE c.form = "llvm"
  <2> DEFINE claims == c.claims
             Part(i) == IF i = 1 THEN <<Copy(claims[i])>>
                        ELSE <<Text(<<Newline>>), Copy(claims[i])>>
             parts == [i \in DOMAIN claims |-> Part(i)]
  <2>1. claims \in Seq(Claims) /\ \A i \in DOMAIN claims : claims[i] \in ClaimsOf(c)
    BY <1>7, ClaimsOfCommands DEF ClaimsOf
  <2>2. \A i \in DOMAIN claims : Part(i) \in Seq(W)
    BY <1>1, <1>2, <1>3, <2>1
  <2>3. parts \in Seq(Seq(W))
    <3> HIDE DEF Part
    <3>1. Len(claims) \in Nat /\ parts \in [1 .. Len(claims) -> Seq(W)]
      BY <2>1, <2>2
    <3> HIDE DEF parts
    <3> QED
      BY <3>1, SequenceOfFunction
  <2>4. Items(c) = FlattenSeq(parts)
    BY <1>7 DEF Items, LlvmItems
  <2> HIDE DEF parts
  <2> QED
    BY <1>7, <2>3, <2>4, FlattenedType DEF W
<1>8. CASE c.form \in {"source", "copy"}
  <2>1. Items(c) = <<Copy(c.claims[1])>> /\ c.claims[1] \in ClaimsOf(c)
    BY <1>8, ClaimsOfCommands DEF Items
  <2> QED
    BY <1>2, <1>3, <2>1 DEF W
<1>9. CASE c.form = "unavailable"
  <2>1. /\ c.form # "capture" /\ c.form # "list" /\ c.form # "find"
        /\ c.form # "llvm" /\ c.form \notin {"source", "copy"}
    BY <1>9
  <2>2. Items(c) = <<>>
    BY <2>1, Zenon DEF Items
  <2> QED
    BY <2>2, <1>9
<1> QED
  BY <1>4, <1>5, <1>6, <1>7, <1>8, <1>9 DEF Commands

LEMMA ExactClaims == Exacts <=> \A claim \in ClaimsOf(command) : Exact(claim)
BY DEF Exacts, ClaimsOf

\* What a state has when no step touched the ranges.
LEMMA RangesKept ==
  ASSUME UNCHANGED <<declared, command>>
  PROVE  /\ Exacts' <=> Exacts
         /\ ClaimsOf(command') = ClaimsOf(command)
         /\ Writable(command') = Writable(command)
         /\ \A claim : Exact(claim)' <=> Exact(claim)
BY DEF Exacts, Exact

LEMMA OutputInitially ==
  ASSUME Init
  PROVE  OutputInv
<1>1. /\ declared \in Numbers /\ stored = declared
      /\ declared \in Nat /\ declared < 2 ^ Width
  BY OutputAssumption DEF Init, Numbers
<1>2. /\ pc = "idle" /\ result = "none" /\ device = "open"
      /\ todo = <<>> /\ position = 0 /\ left = 0
  BY DEF Init
<1> QED
  BY <1>1, <1>2 DEF OutputInv, Asked, Pending, Checked, Lengthy, RangesAreExact

\* The record's own steps, and a change of the artifact.
LEMMA RecordKeepsOutput ==
  ASSUME IInv, OutputInv,
         (WriterNext \/ ReaderNext \/ ChangeRecord) /\ UNCHANGED outputVars
  PROVE  OutputInv'
<1>1. changes' = changes \/ changes' = changes + 1
  BY DEF WriterNext, AcceptChunk, RefuseChunk, Finish, WriteFails, ReaderNext,
         CheckMetadata, ReadBytes, ReadFails, ChangeRecord
<1>2. changes \in Nat
  BY DEF IInv, RecordTypeOK
<1>3. UNCHANGED <<declared, newlines, stored, command, todo, position, left, pc, kept,
                  device, arrived, result>>
  BY DEF outputVars
<1>4. changes' = 0 => changes = 0
  BY <1>1, <1>2
<1>5. changes > 0 => changes' > 0
  BY <1>1, <1>2
<1> QED
  BY <1>3, <1>4, <1>5, RangesKept
     DEF OutputInv, Asked, Pending, Checked, Lengthy, RangesAreExact, Fits

LEMMA ArtifactChangeKeepsOutput ==
  ASSUME IInv, OutputInv, ChangeArtifact
  PROVE  OutputInv'
<1>1. changes \in Nat /\ changes' = changes + 1 /\ stored' \in Numbers
  BY DEF IInv, RecordTypeOK, ChangeArtifact
<1>2. changes' > 0 /\ changes' # 0 /\ stored' \in Nat
  BY <1>1, OutputAssumption DEF Numbers
<1>3. UNCHANGED <<declared, newlines, command, todo, position, left, pc, kept,
                  device, arrived, result>>
  BY DEF ChangeArtifact, Artifact, Stdout
<1> QED
  BY <1>2, <1>3, RangesKept
     DEF OutputInv, Asked, Pending, Checked, Lengthy, RangesAreExact, Fits

LEMMA StutterKeepsOutput ==
  ASSUME OutputInv, UNCHANGED vars
  PROVE  OutputInv'
<1>1. UNCHANGED <<changes, declared, newlines, stored, command, todo, position, left, pc,
                  kept, device, arrived, result>>
  BY DEF vars, recordVars, outputVars
<1> QED
  BY <1>1, RangesKept
     DEF OutputInv, Asked, Pending, Checked, Lengthy, RangesAreExact, Fits

\* A failed write leaves a device that is closed or full.
LEMMA WriteOutcomes ==
  ASSUME NEW chunk, device \in {"open", "closed", "full"}, Write(chunk)
  PROVE  /\ device' \in {"open", "closed", "full"}
         /\ \/ UNCHANGED <<pc, result>>
            \/ pc' = "ended" /\ result' \in {"closed", "full"}
<1>1. ASSUME NEW bytes, NEW ok, DeviceTakes(bytes, ok)
      PROVE  /\ device' \in {"open", "closed", "full"}
             /\ ~ok => device' \in {"closed", "full"}
  BY <1>1 DEF DeviceTakes
<1>2. ASSUME NEW ok, WriteAll(chunk, ok)
      PROVE  /\ device' \in {"open", "closed", "full"}
             /\ ~ok => device' \in {"closed", "full"}
  BY <1>1, <1>2 DEF WriteAll
<1> QED
  BY <1>2 DEF Write, Return

\* A command that has ended keeps what was shown of it, and one that stops for
\* another reason than the ranges claims nothing of them.
LEMMA EndingKeepsOutput ==
  ASSUME OutputInv, pc' = "ended", result' \notin {"ok", "store", "badRange"},
         device' \in {"open", "closed", "full"}, pc # "idle",
         todo' = todo \/ todo' = Tail(todo), todo # <<>> \/ todo' = todo,
         left' \in Nat, position' \in Nat,
         UNCHANGED <<changes, declared, stored, command>>
  PROVE  OutputInv'
<1>1. /\ todo' \in Seq(Writable(command))
      /\ command.form = "copy" => todo' \in {<<>>, <<Copy(command.claims[1])>>}
  BY DEF OutputInv, Pending
<1> QED
  BY <1>1, RangesKept
     DEF OutputInv, Asked, Pending, Checked, Lengthy, RangesAreExact, Fits

\* What stops a command says whether its ranges are in order, when the record and
\* the artifact are as they were.
LEMMA RefusalFacts ==
  ASSUME IInv, OutputInv, reader \in ReaderEnds, command \in Commands
  PROVE  /\ Refusal \in {"none", "io", "store"}
         /\ Refusal = "store" => ~Exacts \/ changes > 0
         /\ Refusal = "none" /\ command.form \in {"source", "llvm"} =>
              \A claim \in ClaimsOf(command) : Fits(claim) /\ Exact(claim)
<1>1. /\ changes \in Nat
      /\ reader \in {"refusedLength", "malformed"} => changes > 0
      /\ changes = 0 => stored = declared
      /\ Lengthy
  BY DEF IInv, RecordTypeOK, BudgetsAgree, OutputInv, Lengthy
<1>2. command.form \in {"source", "llvm"} =>
        /\ ClaimsOf(command) = {command.claims[i] : i \in DOMAIN command.claims}
        /\ ClaimsOf(command) \subseteq Claims
  BY ClaimsOfCommands DEF ClaimsOf
<1>3. command.form \in {"source", "llvm"} =>
        (ValidClaims(command.claims) <=>
           \A claim \in ClaimsOf(command) : Fits(claim) /\ WithinArtifact(claim))
  BY <1>2 DEF ValidClaims
<1>4. command.form \in {"source", "llvm"} =>
        /\ ValidClaims(command.claims) =>
             \A claim \in ClaimsOf(command) : Fits(claim) /\ Exact(claim)
        /\ ~ValidClaims(command.claims) => ~Exacts
  BY <1>1, <1>2, <1>3, ChecksAreExact, ExactClaims
<1>5. CASE Refusal = "store"
  <2>1. \/ reader # "accepted" /\ reader # "failed"
        \/ command.form \in {"source", "llvm"} /\ ~ValidClaims(command.claims)
        \/ stored # declared
    BY <1>5 DEF Refusal
  <2> QED
    BY <1>1, <1>4, <1>5, <2>1 DEF ReaderEnds
<1>6. CASE Refusal = "none"
  BY <1>4, <1>6 DEF Refusal
<1> QED
  BY <1>5, <1>6 DEF Refusal

LEMMA AskKeepsOutput ==
  ASSUME IInv, OutputInv, NEW c \in Commands, Ask(c)
  PROVE  OutputInv'
<1>1. /\ pc = "idle" /\ command' = c /\ todo = <<>> /\ result = "none"
      /\ UNCHANGED <<changes, declared, stored, position, left, device>>
  BY DEF Ask, OutputInv, Asked, Pending, Artifact, Stdout, BeginRead, recordVars
<1>2. Lengthy /\ Lengthy' /\ changes \in Nat
  BY <1>1 DEF OutputInv, Lengthy, IInv, RecordTypeOK
<1>3. CASE c.form \notin {"capture", "copy"} /\ pc' = "resolve" /\ UNCHANGED <<todo, result>>
  <2>1. todo' = <<>> /\ result' = "none"
    BY <1>1, <1>3
  <2> QED
    BY <1>1, <1>2, <1>3, <2>1
       DEF OutputInv, Asked, Pending, Checked, RangesAreExact
<1>4. CASE /\ c.form = "capture" \/ (c.form = "copy" /\ Fits(c.claims[1]))
           /\ pc' = "items" /\ todo' = Items(c) /\ UNCHANGED result
  <2>1. /\ todo' \in Seq(Writable(c))
        /\ c.form = "copy" => todo' = <<Copy(c.claims[1])>> /\ todo' # <<>>
    <3>1. /\ Items(c) \in Seq(Writable(c))
          /\ c.form = "copy" => Items(c) = <<Copy(c.claims[1])>>
      BY ItemsAreWritable
    <3>2. todo' = Items(c)
      BY <1>4
    <3> DEFINE item == Copy(c.claims[1])
    <3>3. c.form = "copy" => todo' = <<item>>
      BY <3>1, <3>2, Zenon
    <3> HIDE DEF item
    <3>4. c.form = "copy" => todo' # <<>>
      BY <3>3
    <3> QED
      BY <3>1, <3>2, <3>3, <3>4, Zenon DEF item
  <2>2. \A claim \in ClaimsOf(c) : Fits(claim) /\ c.form = "copy"
    BY <1>4, ClaimsOfCommands DEF ClaimsOf
  <2>3. Asked'
    BY <1>1, <1>4 DEF OutputInv, Asked
  <2>4. Pending'
    <3>1. Writable(command') = Writable(c) /\ pc' = "items" /\ command' = c
      BY <1>1, <1>4
    <3> QED
      BY <2>1, <3>1 DEF Pending
  <2>5. Checked' /\ RangesAreExact'
    BY <1>1, <1>4, <2>1, <2>2 DEF OutputInv, Checked, Asked, RangesAreExact, Fits
  <2> QED
    BY <1>2, <2>3, <2>4, <2>5 DEF OutputInv
<1>5. CASE /\ c.form = "copy" /\ ~Fits(c.claims[1])
           /\ Return("badRange") /\ UNCHANGED todo
  <2>1. c.claims[1] \in Claims /\ c.claims[1] \in ClaimsOf(c)
    BY <1>5, ClaimsOfCommands
  <2>2. ~Exact(c.claims[1])
    BY <1>2, <1>5, <2>1, ChecksAreExact
  <2>3. ~Exact(c.claims[1])'
    BY <1>1, <2>2 DEF Exact
  <2>4. ~Exacts'
    <3>1. c.claims[1] \in ClaimsOf(command')
      BY <1>1, <2>1
    <3>2. Exacts' <=> \A claim \in ClaimsOf(command') : Exact(claim)'
      BY DEF Exacts, ClaimsOf, Exact
    <3> QED
      BY <2>3, <3>1, <3>2 DEF Exact
  <2>5. pc' = "ended" /\ result' = "badRange" /\ todo' = <<>>
    BY <1>1, <1>5 DEF Return
  <2> QED
    BY <1>1, <1>2, <2>4, <2>5
       DEF OutputInv, Asked, Pending, Checked, RangesAreExact
<1> QED
  BY <1>3, <1>4, <1>5 DEF Ask

LEMMA ResolveKeepsOutput ==
  ASSUME IInv, OutputInv, Resolve
  PROVE  OutputInv'
<1>1. /\ pc = "resolve" /\ todo = <<>> /\ command \in Commands /\ result = "none"
      /\ command.form \notin {"capture", "copy"}
      /\ reader \in ReaderEnds
      /\ UNCHANGED <<changes, declared, stored, command, position, left, device>>
  BY DEF Resolve, OutputInv, Asked, Pending, Artifact, Stdout, recordVars
<1>2. Lengthy' /\ changes \in Nat
  BY <1>1 DEF OutputInv, Lengthy, IInv, RecordTypeOK
<1>3. CASE Refusal # "none" /\ Return(Refusal) /\ UNCHANGED todo
  <2>1. /\ result' \in {"io", "store"} /\ pc' = "ended" /\ todo' = <<>>
        /\ result' = "store" => ~Exacts \/ changes > 0
    BY <1>1, <1>3, RefusalFacts DEF Return
  <2> QED
    BY <1>1, <1>2, <2>1, RangesKept
       DEF OutputInv, Asked, Pending, Checked, RangesAreExact
<1>4. CASE Return("unavailable") /\ UNCHANGED todo
  <2>1. result' = "unavailable" /\ pc' = "ended" /\ todo' = <<>>
    BY <1>1, <1>4 DEF Return
  <2> QED
    BY <1>1, <1>2, <2>1, RangesKept
       DEF OutputInv, Asked, Pending, Checked, RangesAreExact
<1>5. CASE /\ Refusal = "none" /\ command.form # "unavailable"
           /\ pc' = "items" /\ todo' = Items(command) /\ UNCHANGED result
  <2>1. todo' \in Seq(Writable(command))
    BY <1>1, <1>5, ItemsAreWritable
  <2>2. \A claim \in ClaimsOf(command) :
           Fits(claim) /\ (command.form # "copy" => Exact(claim))
    BY <1>1, <1>5, RefusalFacts, ClaimsOfCommands DEF ClaimsOf
  <2> QED
    BY <1>1, <1>2, <1>5, <2>1, <2>2, RangesKept
       DEF OutputInv, Asked, Pending, Checked, RangesAreExact, Fits
<1> QED
  <2>1. \/ Refusal # "none" /\ Return(Refusal) /\ UNCHANGED todo
        \/ Return("unavailable") /\ UNCHANGED todo
        \/ /\ Refusal = "none" /\ command.form # "unavailable"
           /\ pc' = "items" /\ todo' = Items(command) /\ UNCHANGED result
    BY Zenon DEF Resolve
  <2> QED
    BY <1>3, <1>4, <1>5, <2>1

\* The steps that end a command and write nothing.
LEMMA StopKeepsOutput ==
  ASSUME IInv, OutputInv, RefuseTime \/ PrematureEnd \/ ArtifactFails
  PROVE  OutputInv'
<1>1. /\ pc' = "ended" /\ result' \in {"noTime", "io"} /\ pc # "idle"
      /\ UNCHANGED <<changes, declared, stored, command, todo, position, left, device>>
  BY DEF RefuseTime, PrematureEnd, ArtifactFails, Return, Artifact, Stdout, recordVars
<1>2. left \in Nat /\ position \in Nat /\ device \in {"open", "closed", "full"}
  BY DEF OutputInv, Asked, Lengthy
<1> QED
  BY <1>1, <1>2, EndingKeepsOutput

\* Writing text, of which the ranges that are left do not depend.
LEMMA WriteTextKeepsOutput ==
  ASSUME IInv, OutputInv, WriteText
  PROVE  OutputInv'
<1>1. /\ pc = "items" /\ todo # <<>> /\ todo' = Tail(todo) /\ Head(todo).kind = "text"
      /\ UNCHANGED <<changes, declared, stored, command, position, left>>
      /\ Write(Head(todo).bytes)
  BY DEF WriteText, Artifact, recordVars
<1>2. device \in {"open", "closed", "full"} /\ left \in Nat /\ position \in Nat
  BY DEF OutputInv, Asked, Lengthy
<1>3. /\ device' \in {"open", "closed", "full"}
      /\ UNCHANGED <<pc, result>> \/ (pc' = "ended" /\ result' \in {"closed", "full"})
  BY <1>1, <1>2, WriteOutcomes
<1>4. CASE pc' = "ended" /\ result' \in {"closed", "full"}
  BY <1>1, <1>2, <1>3, <1>4, EndingKeepsOutput
<1>5. CASE UNCHANGED <<pc, result>>
  <2>1. todo \in Seq(Writable(command))
    BY DEF OutputInv, Pending
  <2>2. todo' \in Seq(Writable(command))
    BY <1>1, <2>1
  \* The command of a caller's range writes that range and no text.
  <2>3. command.form # "copy"
    <3>1. SUFFICES ASSUME command.form = "copy" PROVE FALSE
      OBVIOUS
    <3>2. todo = <<Copy(command.claims[1])>>
      BY <1>1, <3>1 DEF OutputInv, Pending
    <3>3. Head(todo).kind = "range"
      BY <3>2 DEF Copy
    <3> QED
      BY <1>1, <3>3
  <2> QED
    BY <1>1, <1>3, <1>5, <2>2, <2>3, RangesKept
       DEF OutputInv, Asked, Pending, Checked, Lengthy, RangesAreExact, Fits
<1> QED
  BY <1>3, <1>4, <1>5

LEMMA BeginCopyKeepsOutput ==
  ASSUME IInv, OutputInv, BeginCopy
  PROVE  OutputInv'
<1>1. /\ pc = "items" /\ pc' = "open" /\ todo # <<>> /\ Head(todo).kind = "range"
      /\ UNCHANGED <<changes, declared, stored, command, todo, position, left, device,
                     result>>
  BY DEF BeginCopy, BeginRead, Artifact, Stdout
<1> QED
  BY <1>1, RangesKept
     DEF OutputInv, Asked, Pending, Checked, Lengthy, RangesAreExact, Fits

\* The third check, which is the first against the artifact for a caller's range.
LEMMA OpenKeepsOutput ==
  ASSUME IInv, OutputInv, OpenArtifact
  PROVE  OutputInv'
<1> DEFINE range == Head(todo).claim
<1>1. /\ pc = "open" /\ reader \in ReaderEnds /\ command \in Commands
      /\ todo \in Seq(Writable(command)) /\ todo # <<>> /\ Head(todo).kind = "range"
      /\ UNCHANGED <<changes, declared, stored, command, device>>
      /\ result = "none" /\ device \in {"open", "closed", "full"}
      /\ left \in Nat /\ position \in Nat /\ Lengthy
  BY DEF OpenArtifact, OutputInv, Asked, Pending, Lengthy, Artifact, Stdout, recordVars
<1>2. range \in ClaimsOf(command) /\ range \in Claims /\ Fits(range)
  <2>1. Head(todo) \in Writable(command)
    BY <1>1
  <2>2. PICK claim \in ClaimsOf(command) : Head(todo) = Copy(claim)
    BY <1>1, <2>1 DEF Writable, Text, NoTime
  <2>3. range \in ClaimsOf(command)
    <3>1. Copy(claim).claim = claim
      BY DEF Copy
    <3> QED
      BY <2>2, <3>1
  <2>4. Fits(range)
    BY <1>1, <2>3 DEF OutputInv, Checked
  <2> QED
    BY <1>1, <2>3, <2>4, ClaimsOfCommands
<1>3. /\ range.start \in Nat /\ range.length \in Nat
      /\ WithinArtifact(range) <=> Exact(range)
  BY <1>1, <1>2, ChecksAreExact
<1>4. CASE Refusal # "none" \/ ~WithinArtifact(range)
  <2>1. /\ pc' = "ended" /\ UNCHANGED <<todo, position, left>>
        /\ result' = IF Refusal # "none" THEN Refusal ELSE "store"
    BY <1>4 DEF OpenArtifact, Return
  <2>2. result' \in {"io", "store"} /\ (result' = "store" => ~Exacts \/ changes > 0)
    BY <1>1, <1>2, <1>3, <1>4, <2>1, RefusalFacts, ExactClaims
  <2> QED
    BY <1>1, <2>1, <2>2, RangesKept
       DEF OutputInv, Asked, Pending, Checked, Lengthy, RangesAreExact, Fits
<1>5. CASE Refusal = "none" /\ WithinArtifact(range)
  <2>1. /\ pc' = "copy" /\ todo' = Tail(todo) /\ position' = range.start
        /\ left' = range.length /\ UNCHANGED result
    BY <1>5 DEF OpenArtifact
  <2>2. /\ todo' \in Seq(Writable(command))
        /\ command.form = "copy" => todo' = <<>>
    BY <1>1, <2>1 DEF OutputInv, Pending
  <2>3. Exact(range) /\ position' + left' <= declared
    BY <1>3, <1>5, <2>1 DEF Exact
  <2>4. command.form = "copy" => Exacts
    BY <1>1, <1>2, <2>3, ExactClaims, ClaimsOfCommands
  <2>5. position' \in Nat /\ left' \in Nat
    BY <1>3, <2>1
  <2>6. Asked' /\ Lengthy'
    BY <1>1, <2>1, <2>5 DEF OutputInv, Asked, Lengthy
  <2>7. Pending' /\ Checked' /\ RangesAreExact'
    BY <1>1, <2>1, <2>2, <2>3, <2>4, RangesKept
       DEF OutputInv, Pending, Checked, RangesAreExact, Fits
  <2> QED
    BY <2>6, <2>7 DEF OutputInv
<1> QED
  BY <1>4, <1>5

\* The copy moves on within the range.
LEMMA CopyKeepsOutput ==
  ASSUME IInv, OutputInv, CopyChunk
  PROVE  OutputInv'
<1> DEFINE count == Least(left, CopyBuffer)
<1>1. /\ pc = "copy" /\ Write(Slice(position, count))
      /\ position' = position + count /\ left' = left - count
      /\ UNCHANGED <<changes, declared, stored, command, todo>>
      /\ left \in Nat /\ position \in Nat /\ position + left <= declared
      /\ declared \in Nat /\ device \in {"open", "closed", "full"}
  BY DEF CopyChunk, OutputInv, Asked, Lengthy, RangesAreExact, Artifact, recordVars
<1>2. count \in Nat /\ count <= left
  BY <1>1, OutputAssumption DEF Least
<1> HIDE DEF count
<1>3. /\ position' \in Nat /\ left' \in Nat /\ position' + left' <= declared
  BY <1>1, <1>2
<1>4. /\ device' \in {"open", "closed", "full"}
      /\ UNCHANGED <<pc, result>> \/ (pc' = "ended" /\ result' \in {"closed", "full"})
  BY <1>1, WriteOutcomes
<1>5. CASE pc' = "ended" /\ result' \in {"closed", "full"}
  BY <1>1, <1>3, <1>4, <1>5, EndingKeepsOutput
<1>6. CASE UNCHANGED <<pc, result>>
  BY <1>1, <1>3, <1>4, <1>6, RangesKept
     DEF OutputInv, Asked, Pending, Checked, Lengthy, RangesAreExact, Fits
<1> QED
  BY <1>4, <1>5, <1>6

LEMMA FinishKeepsOutput ==
  ASSUME IInv, OutputInv, FinishCopy
  PROVE  OutputInv'
<1>1. /\ pc = "copy" /\ pc' = "items"
      /\ UNCHANGED <<changes, declared, stored, command, todo, position, left, device,
                     result>>
  BY DEF FinishCopy, Artifact, Stdout, recordVars
<1> QED
  BY <1>1, RangesKept
     DEF OutputInv, Asked, Pending, Checked, Lengthy, RangesAreExact, Fits

LEMMA CompleteKeepsOutput ==
  ASSUME IInv, OutputInv, Complete
  PROVE  OutputInv'
<1>1. /\ pc = "items" /\ todo = <<>> /\ pc' = "ended" /\ result' = "ok"
      /\ UNCHANGED <<changes, declared, stored, command, todo, position, left, device>>
  BY DEF Complete, Return, Artifact, Stdout, recordVars
<1>2. Exacts
  BY <1>1, ExactClaims DEF OutputInv, Checked
<1> QED
  BY <1>1, <1>2, RangesKept
     DEF OutputInv, Asked, Pending, Checked, Lengthy, RangesAreExact, Fits

LEMMA ExitKeepsOutput ==
  ASSUME IInv, OutputInv, Exit
  PROVE  OutputInv'
<1>1. /\ pc = "ended" /\ pc' = "exited"
      /\ UNCHANGED <<changes, declared, stored, command, todo, position, left, result>>
  BY DEF Exit, Artifact, recordVars
<1>2. device' \in {"open", "closed", "full"}
  BY DEF Exit, DeviceTakes, OutputInv, Asked
<1> QED
  BY <1>1, <1>2, RangesKept
     DEF OutputInv, Asked, Pending, Checked, Lengthy, RangesAreExact, Fits

LEMMA OutputStep ==
  ASSUME IInv, OutputInv, [Next]_vars
  PROVE  OutputInv'
<1>1. CASE (WriterNext \/ ReaderNext \/ ChangeRecord) /\ UNCHANGED outputVars
  BY <1>1, RecordKeepsOutput
<1>2. CASE \E c \in Commands : Ask(c)
  BY <1>2, AskKeepsOutput
<1>3. CASE Resolve
  BY <1>3, ResolveKeepsOutput
<1>4. CASE WriteText
  BY <1>4, WriteTextKeepsOutput
<1>5. CASE RefuseTime \/ PrematureEnd \/ ArtifactFails
  BY <1>5, StopKeepsOutput
<1>6. CASE BeginCopy
  BY <1>6, BeginCopyKeepsOutput
<1>7. CASE OpenArtifact
  BY <1>7, OpenKeepsOutput
<1>8. CASE CopyChunk
  BY <1>8, CopyKeepsOutput
<1>9. CASE FinishCopy
  BY <1>9, FinishKeepsOutput
<1>10. CASE Complete
  BY <1>10, CompleteKeepsOutput
<1>11. CASE Exit
  BY <1>11, ExitKeepsOutput
<1>12. CASE ChangeArtifact
  BY <1>12, ArtifactChangeKeepsOutput
<1>13. CASE UNCHANGED vars
  BY <1>13, StutterKeepsOutput
<1> QED
  BY <1>1, <1>2, <1>3, <1>4, <1>5, <1>6, <1>7, <1>8, <1>9, <1>10, <1>11,
     <1>12, <1>13 DEF Next

(***************************************************************************)
(* For every width of offsets, every artifact and every command, whatever  *)
(* fails: nothing is copied from beyond the artifact, no command succeeds  *)
(* over a range that does not lie in it, and one that does is refused only *)
(* after a change from outside.  The checks of ByteRange::new, of the      *)
(* manifest and of copy_evidence wrap or add up to the exact one.          *)
(***************************************************************************)
THEOREM RangesAlwaysExact == Spec => []RangesAreExact
<1>1. Init => OutputInv
  BY OutputInitially
<1>2. IInv /\ OutputInv /\ [Next]_vars => OutputInv'
  BY OutputStep
<1>3. OutputInv => RangesAreExact
  BY DEF OutputInv
<1> QED
  BY <1>1, <1>2, <1>3, Invariance, PTL DEF Spec

-----------------------------------------------------------------------------
(* What the items of a command show.                                       *)

Shown(item) ==
  IF item.kind = "text" THEN item.bytes
  ELSE IF item.kind = "range" THEN Slice(item.claim.start, item.claim.length)
  ELSE <<>>

ShownEach(items) == [i \in DOMAIN items |-> Shown(items[i])]

Rendered(items) == FlattenSeq(ShownEach(items))

Showable(T) == \A item \in T : Shown(item) \in Seq(Int)

LEMMA ShownOf ==
  ASSUME NEW T, Showable(T), NEW s \in Seq(T)
  PROVE  ShownEach(s) \in Seq(Seq(Int)) /\ Len(ShownEach(s)) = Len(s)
<1> DEFINE shown == [i \in DOMAIN s |-> Shown(s[i])]
<1>1. Len(s) \in Nat /\ DOMAIN s = 1 .. Len(s) /\ \A i \in 1 .. Len(s) : s[i] \in T
  BY LenProperties, ElementOfSeq
<1>2. shown \in [1 .. Len(s) -> Seq(Int)]
  BY <1>1 DEF Showable
<1> HIDE DEF shown
<1>3. shown \in Seq(Seq(Int)) /\ Len(shown) = Len(s)
  BY <1>1, <1>2, SequenceOfFunction
<1> QED
  BY <1>3 DEF shown, ShownEach

LEMMA RenderedEmpty == Rendered(<<>>) = <<>>
<1> DEFINE shown == [i \in DOMAIN <<>> |-> Shown(<<>>[i])]
<1>1. shown = <<>>
  OBVIOUS
<1> HIDE DEF shown
<1>2. FlattenSeq(shown) = <<>>
  BY <1>1 DEF FlattenSeq
<1> QED
  BY <1>2 DEF Rendered, ShownEach, shown

LEMMA RenderedType ==
  ASSUME NEW T, Showable(T), NEW s \in Seq(T)
  PROVE  Rendered(s) \in Seq(Int)
BY ShownOf, FlattenedType DEF Rendered

LEMMA RenderedConcat ==
  ASSUME NEW T, Showable(T), NEW s \in Seq(T), NEW t \in Seq(T)
  PROVE  ShownEach(s \o t) = ShownEach(s) \o ShownEach(t)
<1> DEFINE a == ShownEach(s)
           b == ShownEach(t)
           c == ShownEach(s \o t)
<1>1. /\ Len(s) \in Nat /\ Len(t) \in Nat
      /\ DOMAIN s = 1 .. Len(s) /\ DOMAIN t = 1 .. Len(t)
      /\ s \o t \in Seq(T) /\ Len(s \o t) = Len(s) + Len(t)
      /\ DOMAIN (s \o t) = 1 .. Len(s) + Len(t)
      /\ \A i \in 1 .. Len(s) + Len(t) :
           (s \o t)[i] = IF i <= Len(s) THEN s[i] ELSE t[i - Len(s)]
  BY LenProperties, ConcatProperties
<1>2. /\ a \in Seq(Seq(Int)) /\ Len(a) = Len(s)
      /\ b \in Seq(Seq(Int)) /\ Len(b) = Len(t)
      /\ c \in Seq(Seq(Int)) /\ Len(c) = Len(s) + Len(t)
  BY <1>1, ShownOf
<1>3. \A i \in 1 .. Len(s) + Len(t) :
        (a \o b)[i] = IF i <= Len(s) THEN a[i] ELSE b[i - Len(s)]
  <2> HIDE DEF a, b
  <2> QED
    BY <1>2, ConcatProperties
<1>4. a \o b \in Seq(Seq(Int)) /\ Len(a \o b) = Len(s) + Len(t)
  <2> HIDE DEF a, b
  <2>1. a \o b \in Seq(Seq(Int)) /\ Len(a \o b) = Len(a) + Len(b)
    BY <1>2, ConcatProperties
  <2> QED
    BY <1>2, <2>1
<1>5. ASSUME NEW i \in 1 .. Len(s) + Len(t)
      PROVE  c[i] = (a \o b)[i]
  <2>1. c[i] = Shown((s \o t)[i])
    BY <1>1 DEF ShownEach
  <2>2. CASE i <= Len(s)
    <3>1. i \in 1 .. Len(s)
      BY <1>1, <2>2
    <3>2. a[i] = Shown(s[i]) /\ (s \o t)[i] = s[i]
      BY <1>1, <2>2, <3>1 DEF ShownEach
    <3> QED
      BY <1>3, <2>1, <2>2, <3>2
  <2>3. CASE ~(i <= Len(s))
    <3>1. i - Len(s) \in 1 .. Len(t)
      BY <1>1, <2>3
    <3>2. b[i - Len(s)] = Shown(t[i - Len(s)]) /\ (s \o t)[i] = t[i - Len(s)]
      BY <1>1, <2>3, <3>1 DEF ShownEach
    <3> QED
      BY <1>3, <2>1, <2>3, <3>2
  <2> QED
    BY <2>2, <2>3
<1> HIDE DEF a, b, c
<1>6. c = a \o b
  BY <1>2, <1>4, <1>5, SeqEqual
<1> QED
  BY <1>6 DEF a, b, c

LEMMA RenderedAppend ==
  ASSUME NEW T, Showable(T), NEW s \in Seq(T), NEW item \in T
  PROVE  Rendered(s \o <<item>>) = Rendered(s) \o Shown(item)
<1> DEFINE a == ShownEach(s)
           b == ShownEach(<<item>>)
<1>1. <<item>> \in Seq(T) /\ Shown(item) \in Seq(Int)
  BY DEF Showable
<1>2. b = <<Shown(item)>>
  BY DEF ShownEach
<1>3. Rendered(s \o <<item>>) = FlattenSeq(a \o b)
  BY <1>1, RenderedConcat DEF Rendered
<1>4. a \in Seq(Seq(Int)) /\ Rendered(s) = FlattenSeq(a)
  BY ShownOf DEF Rendered
<1> HIDE DEF a, b
<1> QED
  BY <1>1, <1>2, <1>3, <1>4, FlattenAppend

LEMMA RenderedStarts ==
  ASSUME NEW T, Showable(T), NEW s \in Seq(T), NEW t \in Seq(T)
  PROVE  Starts(Rendered(s), Rendered(s \o t), Int)
<1> DEFINE a == ShownEach(s)
           b == ShownEach(t)
<1>1. Rendered(s \o t) = FlattenSeq(a \o b)
  BY RenderedConcat DEF Rendered
<1>2. a \in Seq(Seq(Int)) /\ b \in Seq(Seq(Int)) /\ Rendered(s) = FlattenSeq(a)
  BY ShownOf DEF Rendered
<1> HIDE DEF a, b
<1> QED
  BY <1>1, <1>2, FlattenStarts

\* Whatever went before, every part shows its block.
PartsShow(parts, blocks, T) ==
  \A i \in 1 .. Len(parts) : \A s \in Seq(T) :
    Rendered(s \o parts[i]) = Rendered(s) \o blocks[i]

\* Parts that show a block each, one after the other, show the blocks.
LEMMA RenderedParts ==
  ASSUME NEW T, Showable(T),
         NEW parts \in Seq(Seq(T)), NEW blocks \in Seq(Seq(Int)),
         Len(parts) = Len(blocks), PartsShow(parts, blocks, T)
  PROVE  Rendered(FlattenSeq(parts)) = FlattenSeq(blocks)
<1>1. CASE parts = <<>>
  <2>1. blocks = <<>> /\ Len(parts) = 0 /\ Len(blocks) = 0
    BY <1>1, EmptySeq
  <2>2. FlattenSeq(parts) = <<>> /\ FlattenSeq(blocks) = <<>>
    BY <1>1, <2>1 DEF FlattenSeq
  <2> QED
    BY <2>2, RenderedEmpty
<1>2. CASE parts # <<>>
  <2> DEFINE n == Len(parts)
  <2>1. PICK f \in [0 .. n -> Seq(T)] :
          /\ f[0] = <<>>
          /\ \A i \in 1 .. n : f[i] = f[i - 1] \o parts[i]
          /\ FlattenSeq(parts) = f[n]
    BY Flattening
  <2>2. n \in Nat /\ n # 0
    BY <1>2, EmptySeq, LenProperties
  <2>3. blocks # <<>> /\ Len(blocks) = n
    BY <2>2, EmptySeq
  <2> HIDE DEF n
  <2> DEFINE g == [i \in 0 .. n |-> Rendered(f[i])]
  <2>4. \A i \in 0 .. n : Rendered(f[i]) \in Seq(Int)
    BY RenderedType
  <2>5. g \in [0 .. n -> Seq(Int)] /\ \A i \in 0 .. n : g[i] = Rendered(f[i])
    BY <2>4
  <2> HIDE DEF g
  <2>6. g[0] = <<>>
    BY <2>1, <2>2, <2>5, RenderedEmpty
  <2>7. ASSUME NEW i \in 1 .. n
        PROVE  g[i] = g[i - 1] \o blocks[i]
    <3>1. i - 1 \in 0 .. n /\ i \in 0 .. n
      BY <2>2
    <3>2. f[i - 1] \in Seq(T) /\ f[i] = f[i - 1] \o parts[i]
      BY <2>1, <3>1
    <3>3. Rendered(f[i - 1] \o parts[i]) = Rendered(f[i - 1]) \o blocks[i]
      BY <3>2 DEF n, PartsShow
    <3> QED
      BY <2>5, <3>1, <3>2, <3>3
  <2>8. FlattenSeq(blocks) = g[n]
    <3>1. g \in [0 .. Len(blocks) -> Seq(Int)]
          /\ \A i \in 1 .. Len(blocks) : g[i] = g[i - 1] \o blocks[i]
      BY <2>3, <2>5, <2>7
    <3>2. FlattenSeq(blocks) = g[Len(blocks)]
      BY <2>3, <2>6, <3>1, FlattenIterates
    <3> QED
      BY <2>3, <3>2
  <2> QED
    BY <2>1, <2>2, <2>5, <2>8
<1> QED
  BY <1>1, <1>2

LEMMA PairConcat ==
  ASSUME NEW T, NEW x \in T, NEW y \in T
  PROVE  <<x>> \o <<y>> = <<x, y>>
<1>1. /\ <<x>> \in Seq(T) /\ <<y>> \in Seq(T) /\ <<x, y>> \in Seq(T)
      /\ Len(<<x>>) = 1 /\ Len(<<y>>) = 1 /\ Len(<<x, y>>) = 2
      /\ <<x>>[1] = x /\ <<y>>[1] = y /\ <<x, y>>[1] = x /\ <<x, y>>[2] = y
  OBVIOUS
<1> DEFINE a == <<x>>
           b == <<y>>
           c == <<x, y>>
<1> HIDE DEF a, b, c
<1>2. /\ a \o b \in Seq(T) /\ Len(a \o b) = 2
      /\ \A i \in 1 .. 2 : (a \o b)[i] = IF i <= 1 THEN a[i] ELSE b[i - 1]
  BY <1>1, ConcatProperties DEF a, b
<1>3. (a \o b)[1] = x /\ (a \o b)[2] = y
  BY <1>1, <1>2 DEF a, b
<1>4. c \in Seq(T) /\ Len(c) = 2 /\ c[1] = x /\ c[2] = y
  BY <1>1 DEF c
<1>5. \A i \in 1 .. 2 : (a \o b)[i] = c[i]
  <2>1. \A i \in 1 .. 2 : i = 1 \/ i = 2
    OBVIOUS
  <2> QED
    BY <1>3, <1>4, <2>1, Zenon
<1>6. a \o b = c
  BY <1>2, <1>4, <1>5, SeqEqual
<1> QED
  BY <1>6 DEF a, b, c

\* A newline, and then an item.
LEMMA RenderedSeparated ==
  ASSUME NEW T, Showable(T), Text(<<Newline>>) \in T, NEW item \in T, NEW s \in Seq(T)
  PROVE  Rendered(s \o <<Text(<<Newline>>), item>>)
           = Rendered(s) \o (<<Newline>> \o Shown(item))
<1> DEFINE x == Text(<<Newline>>)
<1>1. Shown(x) = <<Newline>>
  BY DEF Shown, Text
<1>2. x \in T
  OBVIOUS
<1> HIDE DEF x
<1>3. <<x, item>> = <<x>> \o <<item>> /\ <<x>> \in Seq(T) /\ <<item>> \in Seq(T)
  BY <1>2
<1>4. s \o <<x, item>> = (s \o <<x>>) \o <<item>> /\ s \o <<x>> \in Seq(T)
  <2>1. Groups(s, <<x>>, <<item>>, T)
    BY <1>3, Grouping
  <2> QED
    BY <1>3, <2>1, Zenon DEF Groups
<1>5. Rendered(s \o <<x, item>>) = (Rendered(s) \o Shown(x)) \o Shown(item)
  BY <1>2, <1>4, RenderedAppend
<1>6. Rendered(s) \in Seq(Int) /\ Shown(x) \in Seq(Int) /\ Shown(item) \in Seq(Int)
  BY <1>2, RenderedType DEF Showable
<1>7. (Rendered(s) \o Shown(x)) \o Shown(item) = Rendered(s) \o (Shown(x) \o Shown(item))
  <2>1. Groups(Rendered(s), Shown(x), Shown(item), Int)
    BY <1>6, Grouping
  <2> QED
    BY <2>1 DEF Groups
<1> QED
  BY <1>1, <1>5, <1>7, Zenon DEF x

JoinEach(blocks) ==
  [i \in DOMAIN blocks |-> (IF i = 1 THEN <<>> ELSE <<Newline>>) \o blocks[i]]

LEMMA JoinEachFacts ==
  ASSUME NEW blocks \in Seq(Seq(Int))
  PROVE  /\ JoinEach(blocks) \in Seq(Seq(Int))
         /\ Len(JoinEach(blocks)) = Len(blocks)
         /\ \A i \in 1 .. Len(blocks) :
              JoinEach(blocks)[i] = IF i = 1 THEN blocks[i] ELSE <<Newline>> \o blocks[i]
<1> DEFINE Joint(i) == (IF i = 1 THEN <<>> ELSE <<Newline>>) \o blocks[i]
           joined == [i \in DOMAIN blocks |-> Joint(i)]
<1>1. /\ Len(blocks) \in Nat /\ DOMAIN blocks = 1 .. Len(blocks)
      /\ \A i \in 1 .. Len(blocks) : blocks[i] \in Seq(Int)
  BY LenProperties, ElementOfSeq
<1>2. <<Newline>> \in Seq(Int) /\ <<>> \in Seq(Int)
  BY OutputAssumption DEF Newline
<1>3. \A i \in 1 .. Len(blocks) :
        Joint(i) \in Seq(Int) /\ Joint(i) = IF i = 1 THEN blocks[i] ELSE <<Newline>> \o blocks[i]
  BY <1>1, <1>2, ConcatProperties, ConcatEmptySeq
<1>4. JoinEach(blocks) = joined
  BY DEF JoinEach
<1> HIDE DEF Joint
<1>5. joined \in [1 .. Len(blocks) -> Seq(Int)] /\ \A i \in 1 .. Len(blocks) : joined[i] = Joint(i)
  BY <1>1, <1>3
<1> HIDE DEF joined
<1>6. joined \in Seq(Seq(Int)) /\ Len(joined) = Len(blocks)
  BY <1>1, <1>5, SequenceOfFunction
<1> QED
  BY <1>3, <1>4, <1>5, <1>6

LEMMA JoinedIsFlat == \A blocks : Joined(blocks) = FlattenSeq(JoinEach(blocks))
BY DEF Joined, JoinEach

LEMMA JoinedType ==
  ASSUME NEW blocks \in Seq(Seq(Int))
  PROVE  Joined(blocks) \in Seq(Int)
BY JoinEachFacts, JoinedIsFlat, FlattenedType

\* Items with a newline between any two show their blocks, joined.
LEMMA RenderedJoined ==
  ASSUME NEW T, Showable(T), Text(<<Newline>>) \in T,
         NEW items \in Seq(T), NEW parts \in Seq(Seq(T)),
         NEW blocks \in Seq(Seq(Int)),
         Len(parts) = Len(items), Len(blocks) = Len(items),
         \A i \in 1 .. Len(items) :
           /\ parts[i] = IF i = 1 THEN <<items[i]>> ELSE <<Text(<<Newline>>), items[i]>>
           /\ Shown(items[i]) = blocks[i]
  PROVE  Rendered(FlattenSeq(parts)) = Joined(blocks)
<1> DEFINE joints == JoinEach(blocks)
<1>1. /\ joints \in Seq(Seq(Int)) /\ Len(joints) = Len(items)
      /\ \A i \in 1 .. Len(items) :
           joints[i] = IF i = 1 THEN blocks[i] ELSE <<Newline>> \o blocks[i]
  BY JoinEachFacts
<1>2. ASSUME NEW i \in 1 .. Len(parts), NEW s \in Seq(T)
      PROVE  Rendered(s \o parts[i]) = Rendered(s) \o joints[i]
  <2>1. items[i] \in T /\ Shown(items[i]) = blocks[i]
    BY <1>2, ElementOfSeq
  <2>2. CASE i = 1
    <3>1. parts[i] = <<items[i]>> /\ joints[i] = blocks[i]
      BY <1>1, <1>2, <2>2
    <3>2. Rendered(s \o <<items[i]>>) = Rendered(s) \o Shown(items[i])
      BY <1>2, <2>1, RenderedAppend
    <3> QED
      BY <2>1, <3>1, <3>2, Zenon
  <2>3. CASE i # 1
    <3>1. parts[i] = <<Text(<<Newline>>), items[i]>> /\ joints[i] = <<Newline>> \o blocks[i]
      BY <1>1, <1>2, <2>3
    <3>2. Rendered(s \o <<Text(<<Newline>>), items[i]>>)
            = Rendered(s) \o (<<Newline>> \o Shown(items[i]))
      BY <1>2, <2>1, RenderedSeparated
    <3> QED
      BY <2>1, <3>1, <3>2, Zenon
  <2> QED
    BY <2>2, <2>3
<1>3. Joined(blocks) = FlattenSeq(joints)
  BY JoinedIsFlat
<1> HIDE DEF joints
<1>4. Len(parts) = Len(joints) /\ PartsShow(parts, joints, T)
  BY <1>1, <1>2 DEF PartsShow
<1>5. Rendered(FlattenSeq(parts)) = FlattenSeq(joints)
  BY <1>1, <1>4, RenderedParts
<1> QED
  BY <1>3, <1>5

-----------------------------------------------------------------------------
(* What the commands write.                                                *)

LEMMA SliceFacts ==
  ASSUME NEW start \in Int, NEW length \in Nat
  PROVE  /\ Slice(start, length) \in Seq(Int) /\ Len(Slice(start, length)) = length
         /\ \A i \in 1 .. length : Slice(start, length)[i] = start + i - 1
<1> DEFINE slice == Slice(start, length)
<1>1. slice \in [1 .. length -> Int] /\ \A i \in 1 .. length : slice[i] = start + i - 1
  BY DEF Slice
<1> HIDE DEF slice
<1>2. slice \in Seq(Int) /\ Len(slice) = length
  BY <1>1, SequenceOfFunction
<1> QED
  BY <1>1, <1>2 DEF slice

LEMMA TextFacts ==
  /\ Row \in Seq(Int) /\ <<Newline>> \in Seq(Int)
  /\ Shown(Text(Row)) = Row /\ Shown(NoTime) = <<>>
  /\ Shown(Text(<<Newline>>)) = <<Newline>>
<1>1. 2 ^ Width \in Int
  BY OutputAssumption
<1>2. Row \in Seq(Int) /\ <<Newline>> \in Seq(Int)
  BY <1>1 DEF Row, Letter, Newline
<1> QED
  BY <1>2 DEF Shown, Text, NoTime

LEMMA ItemsAreShowable ==
  ASSUME NEW c \in Commands
  PROVE  Showable(Writable(c))
<1>1. SUFFICES ASSUME NEW item \in Writable(c)
               PROVE  Shown(item) \in Seq(Int)
  BY DEF Showable
<1>2. CASE item \in {Text(Row), Text(<<Newline>>), NoTime}
  BY <1>2, TextFacts, EmptySeq
<1>3. CASE \E claim \in ClaimsOf(c) : item = Copy(claim)
  <2>1. PICK claim \in ClaimsOf(c) : item = Copy(claim)
    BY <1>3
  <2>2. claim \in Claims
    BY ClaimsOfCommands
  <2>3. claim.start \in Nat /\ claim.length \in Nat
    BY <2>2, WidthFacts DEF Claims
  <2>4. Shown(item) = Slice(claim.start, claim.length)
    BY <2>1 DEF Shown, Copy
  <2> DEFINE start == claim.start
             length == claim.length
  <2>5. start \in Int /\ length \in Nat
    BY <2>3
  <2> HIDE DEF start, length
  <2>6. Slice(start, length) \in Seq(Int)
    BY <2>5, SliceFacts
  <2> QED
    BY <2>4, <2>6 DEF start, length
<1> QED
  BY <1>2, <1>3 DEF Writable

\* A command writes items that show what it should show, up to the first
\* capture whose time cannot be shown.
Splits(c, T, shown, rest) ==
  /\ shown \in Seq(T) /\ rest \in Seq(T)
  /\ Items(c) = shown \o rest
  /\ Rendered(shown) = Joined(Blocks(c)) /\ Blocks(c) \in Seq(Seq(Int))
  /\ rest = <<>> \/ rest[1].kind = "noTime"

Deliverable(c) == \E shown, rest : Splits(c, Writable(c), shown, rest)

LEMMA JoinedOne ==
  ASSUME NEW block \in Seq(Int)
  PROVE  <<block>> \in Seq(Seq(Int)) /\ Joined(<<block>>) = block
<1> DEFINE blocks == <<block>>
           joints == JoinEach(blocks)
<1>1. blocks \in Seq(Seq(Int)) /\ Len(blocks) = 1 /\ blocks[1] = block
  OBVIOUS
<1>2. FlattenSeq(blocks) = block
  BY FlattenOne
<1> HIDE DEF blocks
<1>3. joints \in Seq(Seq(Int)) /\ Len(joints) = 1 /\ joints[1] = block
  <2>1. /\ joints \in Seq(Seq(Int)) /\ Len(joints) = Len(blocks)
        /\ \A i \in 1 .. Len(blocks) :
             joints[i] = IF i = 1 THEN blocks[i] ELSE <<Newline>> \o blocks[i]
    BY <1>1, JoinEachFacts
  <2> HIDE DEF joints
  <2> QED
    BY <1>1, <2>1
<1>4. Joined(blocks) = FlattenSeq(joints)
  BY JoinedIsFlat
<1> HIDE DEF joints
<1>5. joints = blocks
  BY <1>1, <1>3
<1> QED
  BY <1>1, <1>2, <1>4, <1>5 DEF blocks

LEMMA JoinedNone == Joined(<<>>) = <<>>
<1>1. <<>> \in Seq(Seq(Int)) /\ Len(<<>>) = 0
  BY EmptySeq
<1>2. Len(JoinEach(<<>>)) = 0 /\ JoinEach(<<>>) \in Seq(Seq(Int))
  BY <1>1, JoinEachFacts
<1>3. JoinEach(<<>>) = <<>>
  BY <1>2, EmptySeq
<1> QED
  BY <1>1, <1>3, JoinedIsFlat DEF FlattenSeq

\* An item alone shows its block.
LEMMA RenderedOne ==
  ASSUME NEW T, Showable(T), NEW item \in T
  PROVE  <<item>> \in Seq(T) /\ Rendered(<<item>>) = Shown(item)
<1>1. <<item>> \in Seq(T) /\ ShownEach(<<item>>) = <<Shown(item)>>
  BY DEF ShownEach
<1>2. Shown(item) \in Seq(Int)
  BY DEF Showable
<1> QED
  BY <1>1, <1>2, FlattenOne DEF Rendered

LEMMA ShortCommandsDeliver ==
  ASSUME NEW c \in Commands, c.form \in {"capture", "source", "copy", "unavailable"}
  PROVE  Deliverable(c)
<1> DEFINE T == Writable(c)
<1>1. Showable(T) /\ Text(Row) \in T /\ NoTime \in T /\ <<>> \in Seq(T)
  BY ItemsAreShowable, EmptySeq DEF Writable
<1>2. \A claim \in ClaimsOf(c) : Copy(claim) \in T
  BY DEF Writable
<1> HIDE DEF T
<1>3. CASE c.form = "capture"
  <2>1. Items(c) = CaptureItems(c.rows[1])
    BY <1>3 DEF Items
  <2>2. Blocks(c) = IF c.rows = <<"dated">> THEN <<Row>> ELSE <<>>
    BY <1>3 DEF Blocks
  <2>3. CASE c.rows = <<"dated">>
    <3>1. Items(c) = <<Text(Row)>> /\ Blocks(c) = <<Row>>
      BY <2>1, <2>2, <2>3 DEF CaptureItems
    <3>2. Rendered(<<Text(Row)>>) = Joined(Blocks(c)) /\ <<Text(Row)>> \in Seq(T)
          /\ Blocks(c) \in Seq(Seq(Int))
      BY <1>1, <3>1, RenderedOne, JoinedOne, TextFacts
    <3>3. Items(c) = <<Text(Row)>> \o <<>>
      BY <3>1, <3>2, ConcatEmptySeq
    <3> QED
      BY <1>1, <3>2, <3>3 DEF Splits, Deliverable, T
  <2>4. CASE c.rows = <<"undated">>
    <3>1. Items(c) = <<NoTime>> /\ Blocks(c) = <<>>
      BY <2>1, <2>2, <2>4 DEF CaptureItems
    <3>2. /\ Rendered(<<>>) = Joined(Blocks(c)) /\ Blocks(c) \in Seq(Seq(Int))
          /\ <<NoTime>> \in Seq(T) /\ <<NoTime>>[1].kind = "noTime"
      BY <1>1, <3>1, RenderedEmpty, JoinedNone, EmptySeq DEF NoTime
    <3>3. Items(c) = <<>> \o <<NoTime>>
      BY <3>1, <3>2, ConcatEmptySeq
    <3> QED
      BY <1>1, <3>2, <3>3 DEF Splits, Deliverable, T
  <2> QED
    BY <1>3, <2>3, <2>4, ClaimsOfCommands
<1>4. CASE c.form \in {"source", "copy"}
  <2> DEFINE claim == c.claims[1]
  <2>1. c.claims \in TupleOf(Claims, 1)
    BY <1>4 DEF Commands
  <2>2. /\ c.claims \in [1 .. 1 -> Claims] /\ DOMAIN c.claims = 1 .. 1
        /\ claim \in ClaimsOf(c) /\ claim \in Claims
    BY <1>4, <2>1, ClaimsOfCommands DEF TupleOf
  <2>3. claim.start \in Nat /\ claim.length \in Nat
    BY <2>2, WidthFacts DEF Claims
  <2>4. Items(c) = <<Copy(claim)>>
    BY <1>4 DEF Items
  <2> DEFINE block == Slice(claim.start, claim.length)
  <2>5. block \in Seq(Int) /\ Shown(Copy(claim)) = block
    <3>1. Shown(Copy(claim)) = block
      BY DEF Shown, Copy
    <3>2. Shown(Copy(claim)) \in Seq(Int)
      BY <1>1, <1>2, <2>2 DEF Showable
    <3> QED
      BY <3>1, <3>2
  <2>6. Blocks(c) = [i \in DOMAIN c.claims |-> Slice(c.claims[i].start, c.claims[i].length)]
    BY <1>4 DEF Blocks
  <2>7. Blocks(c) = <<block>>
    <3>1. Blocks(c) = [i \in 1 .. 1 |-> Slice(c.claims[i].start, c.claims[i].length)]
      BY <2>2, <2>6
    <3>2. Blocks(c) \in [1 .. 1 -> {block}]
      BY <3>1
    <3> HIDE DEF block
    <3> QED
      BY <3>2
  <2> HIDE DEF block
  <2>8. Rendered(<<Copy(claim)>>) = Joined(Blocks(c)) /\ <<Copy(claim)>> \in Seq(T)
        /\ Blocks(c) \in Seq(Seq(Int))
    BY <1>1, <1>2, <2>2, <2>5, <2>7, RenderedOne, JoinedOne
  <2>9. Items(c) = <<Copy(claim)>> \o <<>>
    BY <2>4, <2>8, ConcatEmptySeq
  <2> QED
    BY <1>1, <2>8, <2>9 DEF Splits, Deliverable, T
<1>5. CASE c.form = "unavailable"
  <2>1. /\ c.form # "capture" /\ c.form # "list" /\ c.form # "find"
        /\ c.form # "llvm" /\ c.form \notin {"source", "copy"}
        /\ c.form \notin {"source", "llvm", "copy"}
    BY <1>5
  <2>2. Items(c) = <<>> /\ Blocks(c) = <<>>
    BY <2>1, Zenon DEF Items, Blocks
  <2>3. <<>> \o <<>> = <<>> /\ <<>> \in Seq(Seq(Int))
    BY <1>1, ConcatEmptySeq, EmptySeq
  <2> QED
    BY <1>1, <2>2, <2>3, RenderedEmpty, JoinedNone DEF Splits, Deliverable, T
<1> QED
  BY <1>3, <1>4, <1>5

\* One item for every block, and a newline between any two.
Presents(c, T, items, parts) ==
  /\ items \in Seq(T) /\ parts \in Seq(Seq(T)) /\ Blocks(c) \in Seq(Seq(Int))
  /\ Len(parts) = Len(items) /\ Len(Blocks(c)) = Len(items)
  /\ \A i \in 1 .. Len(items) :
       /\ parts[i] = IF i = 1 THEN <<items[i]>> ELSE <<Text(<<Newline>>), items[i]>>
       /\ Shown(items[i]) = Blocks(c)[i]

LEMMA PresentedIsDelivered ==
  ASSUME NEW c \in Commands, NEW items, NEW parts,
         Presents(c, Writable(c), items, parts),
         NEW rest \in Seq(Writable(c)), rest = <<>> \/ rest[1].kind = "noTime",
         Items(c) = FlattenSeq(parts) \o rest
  PROVE  Deliverable(c)
<1> DEFINE T == Writable(c)
<1>1. Showable(T) /\ Text(<<Newline>>) \in T
  BY ItemsAreShowable DEF Writable
<1>2. Presents(c, T, items, parts) /\ rest \in Seq(T)
  OBVIOUS
<1> HIDE DEF T
<1>3. Rendered(FlattenSeq(parts)) = Joined(Blocks(c))
  BY <1>1, <1>2, RenderedJoined DEF Presents
<1>4. FlattenSeq(parts) \in Seq(T) /\ Blocks(c) \in Seq(Seq(Int))
  BY <1>2, FlattenedType DEF Presents
<1>5. Splits(c, T, FlattenSeq(parts), rest)
  BY <1>2, <1>3, <1>4 DEF Splits
<1> QED
  BY <1>5 DEF Deliverable, T

LEMMA LlvmDelivers ==
  ASSUME NEW c \in Commands, c.form = "llvm"
  PROVE  Deliverable(c)
<1> DEFINE T == Writable(c)
           claims == c.claims
           n == Len(claims)
           Part(i) == IF i = 1 THEN <<Copy(claims[i])>>
                      ELSE <<Text(<<Newline>>), Copy(claims[i])>>
           Block(i) == Slice(claims[i].start, claims[i].length)
           items == [i \in 1 .. n |-> Copy(claims[i])]
           parts == [i \in 1 .. n |-> Part(i)]
           blocks == [i \in 1 .. n |-> Block(i)]
<1>1. /\ claims \in Seq(Claims) /\ n \in Nat /\ DOMAIN claims = 1 .. n
      /\ \A i \in 1 .. n : claims[i] \in ClaimsOf(c)
  BY ClaimsOfCommands DEF ClaimsOf
<1>2. Showable(T) /\ Text(<<Newline>>) \in T /\ \A i \in 1 .. n : Copy(claims[i]) \in T
  BY <1>1, ItemsAreShowable DEF Writable
<1> HIDE DEF T
<1>3. Items(c) = FlattenSeq(parts) /\ Blocks(c) = blocks
  <2>1. Items(c) = LlvmItems(claims)
    BY DEF Items
  <2>2. Blocks(c) = [i \in DOMAIN c.claims |-> Slice(c.claims[i].start, c.claims[i].length)]
    BY DEF Blocks
  <2> QED
    BY <1>1, <2>1, <2>2 DEF LlvmItems
<1>4. \A i \in 1 .. n : Shown(Copy(claims[i])) = Block(i)
  BY DEF Shown, Copy
<1>5. \A i \in 1 .. n : Part(i) \in Seq(T) /\ Block(i) \in Seq(Int)
  BY <1>2, <1>4 DEF Showable
<1> DEFINE Separated(i) ==
             Part(i) = IF i = 1 THEN <<items[i]>> ELSE <<Text(<<Newline>>), items[i]>>
<1>6. \A i \in 1 .. n : Separated(i)
  OBVIOUS
<1> HIDE DEF Part, Block
<1>7. /\ items \in [1 .. n -> T] /\ \A i \in 1 .. n : items[i] = Copy(claims[i])
      /\ parts \in [1 .. n -> Seq(T)] /\ \A i \in 1 .. n : parts[i] = Part(i)
      /\ blocks \in [1 .. n -> Seq(Int)] /\ \A i \in 1 .. n : blocks[i] = Block(i)
  BY <1>2, <1>5
<1> HIDE DEF items, parts, blocks, n
<1>8. /\ items \in Seq(T) /\ Len(items) = n
      /\ parts \in Seq(Seq(T)) /\ Len(parts) = n
      /\ blocks \in Seq(Seq(Int)) /\ Len(blocks) = n
  BY <1>1, <1>7, SequenceOfFunction
<1>9. Presents(c, T, items, parts)
  BY <1>3, <1>4, <1>6, <1>7, <1>8 DEF Presents
<1>10. <<>> \in Seq(T) /\ Items(c) = FlattenSeq(parts) \o <<>>
  BY <1>3, <1>8, FlattenedType, EmptySeq, ConcatEmptySeq
<1> QED
  BY <1>9, <1>10, PresentedIsDelivered DEF T

\* Commands that print rows: find prints all of them, list those before the first
\* capture whose time cannot be shown.
RowPart(i) == IF i = 1 THEN <<Text(Row)>> ELSE <<Text(<<Newline>>), Text(Row)>>
RowParts(m) == [i \in 1 .. m |-> RowPart(i)]

LEMMA RowPartsFacts ==
  ASSUME NEW T, Text(Row) \in T, Text(<<Newline>>) \in T, NEW m \in Nat
  PROVE  /\ RowParts(m) \in Seq(Seq(T)) /\ Len(RowParts(m)) = m
         /\ \A i \in 1 .. m : RowParts(m)[i] = RowPart(i) /\ RowPart(i) \in Seq(T)
<1>1. \A i \in 1 .. m : RowPart(i) \in Seq(T)
  BY DEF RowPart
<1> DEFINE parts == RowParts(m)
<1>2. parts \in [1 .. m -> Seq(T)] /\ \A i \in 1 .. m : parts[i] = RowPart(i)
  BY <1>1 DEF RowParts
<1> HIDE DEF parts
<1>3. parts \in Seq(Seq(T)) /\ Len(parts) = m
  BY <1>2, SequenceOfFunction
<1> QED
  BY <1>1, <1>2, <1>3 DEF parts

LEMMA RowsDeliver ==
  ASSUME NEW c \in Commands, NEW m \in Nat, Blocks(c) = [i \in 1 .. m |-> Row],
         NEW rest \in Seq(Writable(c)), rest = <<>> \/ rest[1].kind = "noTime",
         Items(c) = FlattenSeq(RowParts(m)) \o rest
  PROVE  Deliverable(c)
<1> DEFINE T == Writable(c)
           items == [i \in 1 .. m |-> Text(Row)]
           blocks == [i \in 1 .. m |-> Row]
           parts == RowParts(m)
<1>1. Text(Row) \in T /\ Text(<<Newline>>) \in T
  BY DEF Writable
<1> HIDE DEF T
<1>2. /\ parts \in Seq(Seq(T)) /\ Len(parts) = m
      /\ \A i \in 1 .. m : parts[i] = RowPart(i)
  BY <1>1, RowPartsFacts
<1> HIDE DEF parts
<1>3. /\ items \in [1 .. m -> T] /\ \A i \in 1 .. m : items[i] = Text(Row)
      /\ blocks \in [1 .. m -> Seq(Int)] /\ \A i \in 1 .. m : blocks[i] = Row
  BY <1>1, TextFacts
<1>4. blocks = Blocks(c)
  OBVIOUS
<1> HIDE DEF items, blocks
<1>5. /\ items \in Seq(T) /\ Len(items) = m
      /\ blocks \in Seq(Seq(Int)) /\ Len(blocks) = m
  BY <1>3, SequenceOfFunction
<1>6. \A i \in 1 .. m :
        RowPart(i) = IF i = 1 THEN <<items[i]>> ELSE <<Text(<<Newline>>), items[i]>>
  BY <1>3 DEF RowPart
<1>7. Presents(c, T, items, parts)
  BY <1>2, <1>3, <1>4, <1>5, <1>6, TextFacts DEF Presents
<1> QED
  BY <1>7, PresentedIsDelivered DEF T, parts

LEMMA OneRow == RowParts(1) = <<<<Text(Row)>>>>
<1>1. RowPart(1) = <<Text(Row)>>
  BY DEF RowPart
<1> DEFINE row == <<Text(Row)>>
<1>2. RowParts(1) \in [1 .. 1 -> {row}]
  BY <1>1 DEF RowParts
<1> HIDE DEF row
<1>3. RowParts(1) = <<row>>
  BY <1>2
<1> QED
  BY <1>3 DEF row

LEMMA OneMoreRow ==
  ASSUME NEW m \in Nat, m # 0
  PROVE  RowParts(m + 1) = RowParts(m) \o <<<<Text(<<Newline>>), Text(Row)>>>>
<1> DEFINE T == {Text(Row), Text(<<Newline>>)}
           last == <<Text(<<Newline>>), Text(Row)>>
           a == RowParts(m)
           b == RowParts(m + 1)
<1>1. Text(Row) \in T /\ Text(<<Newline>>) \in T /\ last \in Seq(T)
  OBVIOUS
<1> HIDE DEF T
<1>2. /\ a \in Seq(Seq(T)) /\ Len(a) = m /\ \A i \in 1 .. m : a[i] = RowPart(i)
      /\ b \in Seq(Seq(T)) /\ Len(b) = m + 1 /\ \A i \in 1 .. m + 1 : b[i] = RowPart(i)
  BY <1>1, RowPartsFacts
<1>3. RowPart(m + 1) = last
  BY DEF RowPart
<1> HIDE DEF a, b, last
<1>4. a \o <<last>> \in Seq(Seq(T)) /\ Len(a \o <<last>>) = m + 1
      /\ \A i \in 1 .. m + 1 : (a \o <<last>>)[i] = b[i]
  BY <1>1, <1>2, <1>3
<1>5. b = a \o <<last>>
  BY <1>2, <1>4, SeqEqual
<1> QED
  BY <1>5 DEF a, b, last

LEMMA FindDelivers ==
  ASSUME NEW c \in Commands, c.form = "find"
  PROVE  Deliverable(c)
<1> DEFINE T == Writable(c)
           rows == c.rows
           n == Len(rows)
           last == <<Text(<<Newline>>), Text(Row)>>
<1>1. /\ rows \in Seq({"dated"}) /\ c.truncated \in BOOLEAN /\ n \in Nat
      /\ DOMAIN rows = 1 .. n
  BY ClaimsOfCommands
<1>2. c.truncated => rows # <<>>
  BY DEF Commands
<1>3. Text(Row) \in T /\ Text(<<Newline>>) \in T
  BY DEF Writable
<1> HIDE DEF T
<1>4. /\ last \in Seq(T) /\ RowParts(n) \in Seq(Seq(T)) /\ FlattenSeq(RowParts(n)) \in Seq(T)
      /\ <<>> \in Seq(T)
  BY <1>1, <1>3, RowPartsFacts, FlattenedType, EmptySeq
<1>5. Blocks(c) = [i \in 1 .. n + (IF c.truncated \/ rows = <<>> THEN 1 ELSE 0) |-> Row]
  BY DEF Blocks
<1>6. Items(c) = IF rows = <<>> THEN <<Text(Row)>>
                 ELSE FlattenSeq(RowParts(n)) \o (IF c.truncated THEN last ELSE <<>>)
  <2>1. Items(c) = FindItems(rows, c.truncated)
    BY DEF Items
  <2>2. [i \in DOMAIN rows |-> IF i = 1 THEN <<Text(Row)>> ELSE <<Text(<<Newline>>), Text(Row)>>]
          = RowParts(n)
    BY <1>1 DEF RowParts, RowPart
  <2> QED
    BY <2>1, <2>2 DEF FindItems
<1>7. CASE rows = <<>>
  <2>1. n = 0 /\ n + 1 = 1
    BY <1>7
  <2>2. Blocks(c) = [i \in 1 .. 1 |-> Row]
    BY <1>5, <1>7, <2>1
  <2>3. <<Text(Row)>> \in Seq(T) /\ Items(c) = FlattenSeq(RowParts(1)) \o <<>>
    <3> DEFINE row == <<Text(Row)>>
    <3>1. row \in Seq(T) /\ Items(c) = row /\ RowParts(1) = <<row>>
      BY <1>3, <1>6, <1>7, OneRow
    <3> HIDE DEF row
    <3>2. FlattenSeq(<<row>>) = row /\ row \o <<>> = row
      BY <3>1, FlattenOne, ConcatEmptySeq
    <3> QED
      BY <3>1, <3>2 DEF row
  <2> QED
    BY <1>4, <2>2, <2>3, RowsDeliver DEF T
<1>8. CASE rows # <<>> /\ ~c.truncated
  <2>1. Blocks(c) = [i \in 1 .. n |-> Row] /\ Items(c) = FlattenSeq(RowParts(n)) \o <<>>
    <3>1. n + (IF c.truncated \/ rows = <<>> THEN 1 ELSE 0) = n
      <4>1. (IF c.truncated \/ rows = <<>> THEN 1 ELSE 0) = 0 /\ n + 0 = n
        BY <1>1, <1>8
      <4> QED
        BY <4>1, Zenon
    <3>2. Blocks(c) = [i \in 1 .. n |-> Row]
      BY <1>5, <3>1
    <3>3. Items(c) = FlattenSeq(RowParts(n)) \o <<>>
      BY <1>6, <1>8
    <3> QED
      BY <3>2, <3>3
  <2> QED
    BY <1>1, <1>4, <2>1, RowsDeliver DEF T
<1>9. CASE rows # <<>> /\ c.truncated
  <2>1. Blocks(c) = [i \in 1 .. n + 1 |-> Row] /\ Items(c) = FlattenSeq(RowParts(n)) \o last
    BY <1>1, <1>5, <1>6, <1>9
  <2>2. n # 0 /\ RowParts(n + 1) = RowParts(n) \o <<last>>
    BY <1>1, <1>9, EmptySeq, OneMoreRow
  <2>3. FlattenSeq(RowParts(n + 1)) = FlattenSeq(RowParts(n)) \o last
    BY <1>4, <2>2, FlattenAppend
  <2>4. Items(c) = FlattenSeq(RowParts(n + 1)) \o <<>> /\ n + 1 \in Nat
    BY <1>1, <1>3, <2>1, <2>3, <1>4, RowPartsFacts, FlattenedType, ConcatEmptySeq
  <2> QED
    BY <1>4, <2>1, <2>4, RowsDeliver DEF T
<1> QED
  BY <1>1, <1>7, <1>8, <1>9

\* The captures before the first one whose time cannot be shown.
LEMMA DatedRows ==
  ASSUME NEW rows \in Seq({"dated", "undated"})
  PROVE  \E k \in 0 .. Len(rows) :
           /\ \A i \in 1 .. k : rows[i] = "dated"
           /\ k < Len(rows) => rows[k + 1] = "undated"
<1>1. /\ Len(rows) \in Nat
      /\ \A i \in 1 .. Len(rows) : rows[i] \in {"dated", "undated"}
  BY LenProperties, ElementOfSeq
<1> DEFINE U == {i \in 1 .. Len(rows) : rows[i] = "undated"}
<1>2. CASE U = {}
  BY <1>1, <1>2
<1>3. CASE U # {}
  <2>1. PICK j \in U : \A i \in U : j <= i
    <3>1. U \in SUBSET Nat
      BY <1>1
    <3> HIDE DEF U
    <3> QED
      BY <1>3, <3>1, LeastElement
  <2>2. /\ j - 1 \in 0 .. Len(rows) /\ j - 1 < Len(rows) /\ (j - 1) + 1 = j
        /\ rows[(j - 1) + 1] = "undated"
    BY <1>1, <2>1
  <2>3. \A i \in 1 .. j - 1 : rows[i] = "dated"
    BY <1>1, <2>1
  <2> QED
    BY <2>2, <2>3
<1> QED
  BY <1>2, <1>3

LEMMA ListDelivers ==
  ASSUME NEW c \in Commands, c.form = "list"
  PROVE  Deliverable(c)
<1> DEFINE T == Writable(c)
           rows == c.rows
           n == Len(rows)
           head == <<Text(Row)>>
           Part(i) == IF rows[i] = "undated" THEN CaptureItems(rows[i])
                      ELSE <<Text(<<Newline>>)>> \o CaptureItems(rows[i])
           parts == [i \in 1 .. n |-> Part(i)]
           all == <<head>> \o parts
<1>1. /\ rows \in Seq({"dated", "undated"}) /\ n \in Nat /\ DOMAIN rows = 1 .. n
      /\ \A i \in 1 .. n : rows[i] \in {"dated", "undated"}
  BY ClaimsOfCommands, LenProperties, ElementOfSeq
<1>2. /\ Text(Row) \in T /\ Text(<<Newline>>) \in T /\ NoTime \in T /\ head \in Seq(T)
      /\ <<NoTime>> \in Seq(T) /\ <<>> \in Seq(T)
  BY EmptySeq DEF Writable
<1> HIDE DEF T
<1>3. /\ \A i \in 1 .. n :
           /\ rows[i] = "undated" => Part(i) = <<NoTime>>
           /\ rows[i] = "dated" => Part(i) = <<Text(<<Newline>>), Text(Row)>>
           /\ Part(i) \in Seq(T)
  <2>1. <<Text(<<Newline>>)>> \o <<Text(Row)>> = <<Text(<<Newline>>), Text(Row)>>
    BY <1>2, PairConcat
  <2>2. ASSUME NEW i \in 1 .. n
        PROVE  /\ rows[i] = "undated" => Part(i) = <<NoTime>>
               /\ rows[i] = "dated" => Part(i) = <<Text(<<Newline>>), Text(Row)>>
    BY <2>1, Zenon DEF CaptureItems
  <2>3. <<Text(<<Newline>>), Text(Row)>> \in Seq(T)
    BY <1>2
  <2> HIDE DEF Part
  <2> QED
    BY <1>1, <1>2, <2>2, <2>3
<1>4. Items(c) = head \o FlattenSeq(parts)
  <2>1. Items(c) = ListItems(rows)
    BY DEF Items
  <2>2. CASE rows = <<>>
    <3>1. n = 0 /\ Items(c) = head
      BY <2>1, <2>2 DEF ListItems
    <3>2. parts = <<>>
      BY <3>1
    <3> HIDE DEF parts
    <3>3. FlattenSeq(parts) = <<>>
      BY <3>2 DEF FlattenSeq
    <3> QED
      BY <1>2, <3>1, <3>3, ConcatEmptySeq
  <2>3. CASE rows # <<>>
    BY <1>1, <2>1, <2>3, Zenon DEF ListItems
  <2> QED
    BY <2>2, <2>3
<1> HIDE DEF Part
<1>5. parts \in [1 .. n -> Seq(T)] /\ \A i \in 1 .. n : parts[i] = Part(i)
  BY <1>3
<1> HIDE DEF parts, head, rows, n
<1>6. parts \in Seq(Seq(T)) /\ Len(parts) = n
  BY <1>1, <1>5, SequenceOfFunction
<1>7. /\ all \in Seq(Seq(T)) /\ Len(all) = n + 1 /\ all[1] = head
      /\ \A i \in 2 .. n + 1 : all[i] = Part(i - 1)
  BY <1>1, <1>2, <1>5, <1>6
<1>8. Items(c) = FlattenSeq(all)
  BY <1>2, <1>4, <1>6, FlattenPrepend
<1> HIDE DEF all
<1>9. PICK k \in 0 .. n :
        /\ \A i \in 1 .. k : rows[i] = "dated"
        /\ k < n => rows[k + 1] = "undated"
  BY <1>1, DatedRows DEF n
<1> k \in Nat /\ k <= n /\ n \in Nat
  BY <1>1
<1>10. Blocks(c) = [i \in 1 .. k + 1 |-> Row]
  <2> DEFINE dated == {j \in 0 .. n : \A i \in 1 .. j : rows[i] = "dated"}
  <2>1. Blocks(c) = [i \in {j + 1 : j \in dated} |-> Row]
    BY DEF Blocks, rows, n
  <2>2. dated = 0 .. k
    <3>1. ASSUME NEW j \in 0 .. n, j > k, \A i \in 1 .. j : rows[i] = "dated"
          PROVE  FALSE
      <4>1. k + 1 \in 1 .. j /\ k < n
        BY <3>1
      <4>2. rows[k + 1] = "dated" /\ rows[k + 1] = "undated"
        BY <1>9, <3>1, <4>1
      <4> QED
        BY <4>2
    <3>2. 0 .. k \subseteq dated
      <4>1. ASSUME NEW j \in 0 .. k PROVE j \in dated
        <5>1. j \in 0 .. n /\ \A i \in 1 .. j : i \in 1 .. k
          OBVIOUS
        <5>2. \A i \in 1 .. j : rows[i] = "dated"
          BY <1>9, <5>1
        <5> QED
          BY <5>1, <5>2
      <4> QED
        BY <4>1
    <3>3. dated \subseteq 0 .. k
      <4>1. ASSUME NEW j \in dated PROVE j \in 0 .. k
        <5>1. j \in 0 .. n /\ ~(j > k)
          BY <3>1
        <5> QED
          BY <5>1
      <4> QED
        BY <4>1
    <3> QED
      BY <3>2, <3>3
  <2>3. {j + 1 : j \in 0 .. k} = 1 .. k + 1
    <3>1. \A i \in 1 .. k + 1 : i - 1 \in 0 .. k /\ i = (i - 1) + 1
      OBVIOUS
    <3>2. \A j \in 0 .. k : j + 1 \in 1 .. k + 1
      OBVIOUS
    <3> QED
      BY <3>1, <3>2, Zenon
  <2> HIDE DEF dated
  <2>4. {j + 1 : j \in dated} = 1 .. k + 1
    BY <2>2, <2>3
  <2> QED
    BY <2>1, <2>4
<1> DEFINE before == RowParts(k + 1)
<1>11. /\ k + 1 \in Nat /\ before \in Seq(Seq(T)) /\ Len(before) = k + 1
       /\ \A i \in 1 .. k + 1 : before[i] = RowPart(i)
  BY <1>1, <1>2, RowPartsFacts
<1> HIDE DEF before
<1>12. ASSUME NEW i \in 1 .. k + 1
       PROVE  all[i] = before[i]
  <2>1. CASE i = 1
    BY <1>7, <1>11, <2>1 DEF RowPart, head
  <2>2. CASE i # 1
    <3>1. i - 1 \in 1 .. k /\ i - 1 \in 1 .. n /\ (i - 1) + 1 = i
      BY <1>1, <2>2
    <3>2. all[i] = Part(i - 1) /\ rows[i - 1] = "dated"
      <4>1. i \in 2 .. n + 1
        BY <2>2
      <4>2. rows[i - 1] = "dated"
        BY <1>9, <3>1
      <4> QED
        BY <1>7, <4>1, <4>2
    <3>3. Part(i - 1) = <<Text(<<Newline>>), Text(Row)>>
      BY <1>3, <3>1, <3>2
    <3> QED
      BY <1>11, <2>2, <3>1, <3>2, <3>3 DEF RowPart
  <2> QED
    BY <2>1, <2>2
<1>13. CASE k = n
  <2>1. all = before
    BY <1>7, <1>11, <1>12, <1>13, SeqEqual
  <2>2. Items(c) = FlattenSeq(before) \o <<>>
    BY <1>8, <1>11, <2>1, FlattenedType, ConcatEmptySeq
  <2> QED
    BY <1>2, <1>10, <1>11, <2>2, RowsDeliver DEF T, before
<1>14. CASE k < n
  <2> DEFINE stop == <<NoTime>>
             after == SubSeq(all, k + 3, n + 1)
             upto == before \o <<stop>>
  <2>1. stop \in Seq(T) /\ stop[1].kind = "noTime"
    BY <1>2 DEF NoTime
  <2>2. all[k + 2] = stop
    <3>1. k + 1 \in 1 .. n /\ k + 2 \in 2 .. n + 1 /\ (k + 2) - 1 = k + 1
      BY <1>14
    <3>2. rows[k + 1] = "undated"
      BY <1>9, <1>14
    <3>3. all[k + 2] = Part(k + 1) /\ Part(k + 1) = <<NoTime>>
      BY <1>3, <1>7, <3>1, <3>2
    <3> QED
      BY <3>3
  <2> HIDE DEF stop
  <2>3. /\ upto \in Seq(Seq(T)) /\ Len(upto) = k + 2
        /\ \A i \in 1 .. k + 2 : upto[i] = all[i]
    BY <1>11, <1>12, <2>1, <2>2
  <2>4. /\ after \in Seq(Seq(T)) /\ Len(after) = n - k - 1
        /\ \A i \in 1 .. n - k - 1 : after[i] = all[k + 2 + i]
    BY <1>1, <1>7, <1>11, <1>14, SubSeqProperties
  <2> HIDE DEF after, upto
  <2>5. all = upto \o after
    <3> DEFINE m == k + 2
               rest == n - k - 1
    <3>1. /\ m \in Nat /\ rest \in Nat /\ m + rest = n + 1
          /\ Len(upto) = m /\ Len(after) = rest
          /\ \A i \in 1 .. m : upto[i] = all[i]
          /\ \A i \in 1 .. rest : after[i] = all[m + i]
      BY <1>14, <2>3, <2>4
    <3> HIDE DEF m, rest
    <3>2. /\ upto \o after \in Seq(Seq(T)) /\ Len(upto \o after) = m + rest
          /\ \A i \in 1 .. m + rest :
               (upto \o after)[i] = IF i <= m THEN upto[i] ELSE after[i - m]
      <4>1. /\ upto \o after \in Seq(Seq(T)) /\ Len(upto \o after) = Len(upto) + Len(after)
            /\ \A i \in 1 .. Len(upto) + Len(after) :
                 (upto \o after)[i] = IF i <= Len(upto) THEN upto[i] ELSE after[i - Len(upto)]
        BY <2>3, <2>4, ConcatProperties
      <4> QED
        BY <3>1, <4>1, Zenon
    <3>3. all \in Seq(Seq(T)) /\ Len(all) = m + rest
      BY <1>7, <3>1
    <3>4. ASSUME NEW i \in 1 .. m + rest
          PROVE  (upto \o after)[i] = all[i]
      <4>1. CASE i <= m
        <5>1. i \in 1 .. m
          BY <3>1, <4>1
        <5> QED
          BY <3>1, <3>2, <4>1, <5>1
      <4>2. CASE ~(i <= m)
        <5>1. i - m \in 1 .. rest /\ m + (i - m) = i
          BY <3>1, <4>2
        <5>2. after[i - m] = all[m + (i - m)]
          BY <3>1, <5>1
        <5> QED
          BY <3>2, <4>2, <5>1, <5>2
      <4> QED
        BY <4>1, <4>2
    <3> QED
      BY <3>2, <3>3, <3>4, SeqEqual
  <2>6. FlattenSeq(upto) = FlattenSeq(before) \o stop
    BY <1>11, <2>1, FlattenAppend DEF upto
  <2>7. PICK r \in Seq(T) : FlattenSeq(all) = FlattenSeq(upto) \o r
    BY <2>3, <2>4, <2>5, FlattenStarts DEF Starts
  <2>8. FlattenSeq(before) \in Seq(T)
    BY <1>11, FlattenedType
  <2>9. /\ Items(c) = FlattenSeq(before) \o (stop \o r) /\ stop \o r \in Seq(T)
        /\ (stop \o r)[1] = stop[1]
    <3>1. (FlattenSeq(before) \o stop) \o r = FlattenSeq(before) \o (stop \o r)
      <4>1. Groups(FlattenSeq(before), stop, r, T)
        BY <2>1, <2>8, Grouping
      <4> QED
        BY <4>1 DEF Groups
    <3>2. stop \o r \in Seq(T)
      BY <2>1, ConcatProperties
    <3>3. (stop \o r)[1] = stop[1]
      BY DEF stop
    <3> QED
      BY <1>8, <2>6, <2>7, <3>1, <3>2, <3>3
  <2> QED
    BY <1>10, <1>11, <2>1, <2>9, RowsDeliver DEF T, before
<1> QED
  BY <1>13, <1>14

\* Every command.
LEMMA CommandsDeliver ==
  ASSUME NEW c \in Commands
  PROVE  Deliverable(c)
<1>1. c.form \in {"capture", "list", "find", "source", "copy", "llvm", "unavailable"}
  BY DEF Commands
<1> QED
  BY <1>1, ShortCommandsDeliver, LlvmDelivers, FindDelivers, ListDelivers

-----------------------------------------------------------------------------
(* Standard output.                                                        *)

LEMMA CutFront ==
  ASSUME NEW S, NEW s \in Seq(S), NEW r \in Seq(S)
  PROVE  SubSeq(s \o r, 1, Len(s \o r) - Len(r)) = s
<1>1. /\ s \o r \in Seq(S) /\ Len(s \o r) = Len(s) + Len(r)
      /\ Len(s) \in Nat /\ Len(r) \in Nat
  BY ConcatProperties, LenProperties
<1>2. Len(s \o r) - Len(r) = Len(s)
  BY <1>1
<1>3. CASE s = <<>>
  <2>1. Len(s) = 0
    BY <1>3
  <2> QED
    BY <1>2, <1>3, <2>1, SubSeqEmpty
<1>4. CASE s # <<>>
  <2>1. 1 \in 1 .. Len(s) /\ Len(s) \in 1 .. Len(s)
    BY <1>1, <1>4, EmptySeq
  <2>2. SubSeq(s \o r, 1, Len(s)) = SubSeq(s, 1, Len(s))
    BY <2>1, SubSeqOfConcat1
  <2> QED
    BY <1>2, <2>2, SubSeqFull
<1> QED
  BY <1>3, <1>4

LEMMA CutApart ==
  ASSUME NEW S, NEW s \in Seq(S), NEW k \in 0 .. Len(s)
  PROVE  /\ SubSeq(s, 1, k) \in Seq(S) /\ SubSeq(s, k + 1, Len(s)) \in Seq(S)
         /\ s = SubSeq(s, 1, k) \o SubSeq(s, k + 1, Len(s))
<1>1. Len(s) \in Nat /\ \A i \in 1 .. Len(s) : s[i] \in S
  BY LenProperties, ElementOfSeq
<1>2. SubSeq(s, 1, k) \in Seq(S)
  <2>1. \A i \in 1 .. k : s[i] \in S
    BY <1>1
  <2> QED
    BY <1>1, <2>1, SubSeqProperties
<1>3. SubSeq(s, k + 1, Len(s)) \in Seq(S)
  <2>1. \A i \in k + 1 .. Len(s) : s[i] \in S
    BY <1>1
  <2> QED
    BY <1>1, <2>1, SubSeqProperties
<1>4. SubSeq(s, 1, k) \o SubSeq(s, k + 1, Len(s)) = SubSeq(s, 1, Len(s))
  <2>1. 1 \in 1 .. Len(s) + 1 /\ k \in 1 - 1 .. Len(s) /\ Len(s) \in k .. Len(s)
    BY <1>1
  <2> QED
    BY <2>1, ConcatAdjacentSubSeq
<1> QED
  BY <1>2, <1>3, <1>4, SubSeqFull

\* Some bytes, the first few of some more, and what those would have begun.
LEMMA StartsOfParts ==
  ASSUME NEW a \in Seq(Int), NEW first \in Seq(Int), NEW last \in Seq(Int),
         NEW u \in Seq(Int)
  PROVE  a \o first \in Seq(Int) /\ Starts(a \o first, a \o ((first \o last) \o u), Int)
<1>1. Groups(first, last, u, Int)
  BY Grouping
<1> DEFINE more == last \o u
<1>2. more \in Seq(Int) /\ (first \o last) \o u = first \o more
  BY <1>1 DEF Groups
<1> HIDE DEF more
<1>3. Groups(a, first, more, Int)
  BY <1>2, Grouping
<1>4. a \o first \in Seq(Int) /\ (a \o first) \o more = a \o (first \o more)
  BY <1>3 DEF Groups
<1>5. a \o ((first \o last) \o u) = (a \o first) \o more
  BY <1>2, <1>4, Zenon
<1> QED
  BY <1>2, <1>4, <1>5, Zenon DEF Starts

LEMMA CutShort ==
  ASSUME NEW a \in Seq(Int), NEW s \in Seq(Int), NEW u \in Seq(Int), NEW k \in 0 .. Len(s)
  PROVE  /\ a \o SubSeq(s, 1, k) \in Seq(Int)
         /\ Starts(a \o SubSeq(s, 1, k), a \o (s \o u), Int)
<1> DEFINE first == SubSeq(s, 1, k)
           last == SubSeq(s, k + 1, Len(s))
<1>1. first \in Seq(Int) /\ last \in Seq(Int) /\ s = first \o last
  BY CutApart
<1> HIDE DEF first, last
<1>2. a \o first \in Seq(Int) /\ Starts(a \o first, a \o ((first \o last) \o u), Int)
  BY <1>1, StartsOfParts, Zenon
<1> QED
  BY <1>1, <1>2, Zenon DEF first

\* What is kept after a chunk is the end of what there was.
LEMMA KeptIsLast ==
  ASSUME NEW chunk \in Seq(Int), kept \in Seq(Int)
  PROVE  /\ KeptAfter(chunk) \in Seq(Int)
         /\ \E s \in Seq(Int) : kept \o chunk = s \o KeptAfter(chunk)
<1> DEFINE ends == {0} \cup {i \in DOMAIN chunk : IsNewline(chunk[i])}
           end == CHOOSE i \in ends : \A j \in ends : j <= i
           rest == SubSeq(chunk, end + 1, Len(chunk))
           all == kept \o chunk
<1>1. Len(chunk) \in Nat /\ ends \subseteq 0 .. Len(chunk)
  BY LenProperties
<1>2. end \in ends
  <2> DEFINE T == {Len(chunk) - i : i \in ends}
  <2>1. T \in SUBSET Nat /\ T # {}
    BY <1>1
  <2> HIDE DEF ends
  <2>2. PICK t \in T : \A u \in T : t <= u
    <3> HIDE DEF T
    <3> QED
      BY <2>1, LeastElement
  <2>3. PICK i \in ends : t = Len(chunk) - i
    BY <2>2
  <2>4. \A j \in ends : Len(chunk) - i <= Len(chunk) - j
    BY <2>2, <2>3
  <2>5. \A j \in ends : j <= i
    BY <1>1, <2>3, <2>4
  <2> QED
    BY <2>3, <2>5, Zenon
<1>3. AfterNewline(chunk) = rest
  BY DEF AfterNewline
<1> HIDE DEF ends
<1>4. end \in 0 .. Len(chunk)
  BY <1>1, <1>2
<1> HIDE DEF end
<1>5. /\ SubSeq(chunk, 1, end) \in Seq(Int) /\ rest \in Seq(Int)
      /\ chunk = SubSeq(chunk, 1, end) \o rest
  BY <1>4, CutApart
<1> HIDE DEF rest
<1>6. KeptAfter(chunk) \in {<<>>, all, rest}
  BY <1>3 DEF KeptAfter
<1>7. /\ all \in Seq(Int) /\ <<>> \in Seq(Int)
      /\ all = all \o <<>> /\ all = <<>> \o all
  BY ConcatProperties, ConcatEmptySeq, EmptySeq
<1>8. /\ kept \o SubSeq(chunk, 1, end) \in Seq(Int)
      /\ all = (kept \o SubSeq(chunk, 1, end)) \o rest
  <2> DEFINE first == SubSeq(chunk, 1, end)
  <2>1. first \in Seq(Int) /\ rest \in Seq(Int)
    BY <1>5
  <2>2. chunk = first \o rest
    BY <1>5
  <2> HIDE DEF first
  <2>3. Groups(kept, first, rest, Int)
    BY <2>1, Grouping
  <2> QED
    BY <2>2, <2>3, Zenon DEF first, Groups
<1> HIDE DEF all
<1>9. /\ KeptAfter(chunk) \in Seq(Int)
      /\ \E s \in Seq(Int) : all = s \o KeptAfter(chunk)
  BY <1>5, <1>6, <1>7, <1>8
<1> QED
  BY <1>9 DEF all

\* A chunk that is written joins what the device has and what is kept.
LEMMA WrittenIsShown ==
  ASSUME NEW chunk \in Seq(Int), kept \in Seq(Int), arrived \in Seq(Int),
         device = "open", WriteAll(chunk, TRUE)
  PROVE  /\ kept' \in Seq(Int) /\ arrived' \in Seq(Int) /\ device' = "open"
         /\ arrived' \o kept' = (arrived \o kept) \o chunk
<1> DEFINE all == kept \o chunk
           keeps == KeptAfter(chunk)
           through == SubSeq(all, 1, Len(all) - Len(keeps))
<1>1. all \in Seq(Int) /\ (arrived \o kept) \o chunk = arrived \o all
  <2>1. Groups(arrived, kept, chunk, Int)
    BY Grouping
  <2> QED
    BY <2>1 DEF Groups
<1>2. /\ keeps \in Seq(Int) /\ through \in Seq(Int) /\ all = through \o keeps
  <2>1. keeps \in Seq(Int)
    BY KeptIsLast
  <2>2. PICK s \in Seq(Int) : all = s \o keeps
    BY KeptIsLast
  <2>3. through = s
    <3> HIDE DEF keeps, all
    <3> QED
      BY <2>1, <2>2, CutFront
  <2> QED
    BY <2>1, <2>2, <2>3
<1>3. \/ kept' = all /\ UNCHANGED <<device, arrived>>
      \/ DeviceTakes(through, TRUE) /\ kept' = keeps
  BY DEF WriteAll
<1> HIDE DEF all, keeps, through
<1>4. CASE kept' = all /\ UNCHANGED <<device, arrived>>
  BY <1>1, <1>4
<1>5. CASE DeviceTakes(through, TRUE) /\ kept' = keeps
  <2>1. arrived' = arrived \o through /\ device' = "open"
    BY <1>5 DEF DeviceTakes
  <2>2. /\ arrived \o through \in Seq(Int)
        /\ (arrived \o through) \o keeps = arrived \o (through \o keeps)
    <3>1. Groups(arrived, through, keeps, Int)
      BY <1>2, Grouping
    <3> QED
      BY <3>1 DEF Groups
  <2> QED
    BY <1>1, <1>2, <1>5, <2>1, <2>2
<1> QED
  BY <1>3, <1>4, <1>5

\* A chunk that is not leaves a beginning of what it would have been, and a device
\* that is closed or full.
LEMMA LostIsCut ==
  ASSUME NEW chunk \in Seq(Int), kept \in Seq(Int), arrived \in Seq(Int),
         device = "open", WriteAll(chunk, FALSE)
  PROVE  /\ kept' = <<>> /\ arrived' \in Seq(Int) /\ device' \in {"closed", "full"}
         /\ Starts(arrived', (arrived \o kept) \o chunk, Int)
<1> DEFINE all == kept \o chunk
           keeps == KeptAfter(chunk)
           through == SubSeq(all, 1, Len(all) - Len(keeps))
<1>1. all \in Seq(Int) /\ (arrived \o kept) \o chunk = arrived \o all
  <2>1. Groups(arrived, kept, chunk, Int)
    BY Grouping
  <2> QED
    BY <2>1 DEF Groups
<1>2. /\ keeps \in Seq(Int) /\ through \in Seq(Int) /\ all = through \o keeps
  <2>1. keeps \in Seq(Int)
    BY KeptIsLast
  <2>2. PICK s \in Seq(Int) : all = s \o keeps
    BY KeptIsLast
  <2>3. through = s
    <3> HIDE DEF keeps, all
    <3> QED
      BY <2>1, <2>2, CutFront
  <2> QED
    BY <2>1, <2>2, <2>3
<1>3. DeviceTakes(through, FALSE) /\ kept' = <<>>
  BY DEF WriteAll
<1> HIDE DEF all, keeps, through
<1>4. /\ device' \in {"closed", "full"}
      /\ \E n \in 0 .. Len(through) - 1 : arrived' = arrived \o SubSeq(through, 1, n)
  BY <1>3 DEF DeviceTakes
<1>5. PICK n \in 0 .. Len(through) - 1 : arrived' = arrived \o SubSeq(through, 1, n)
  BY <1>4
<1>6. n \in 0 .. Len(through)
  BY <1>2, LenProperties
<1>7. /\ arrived' \in Seq(Int)
      /\ Starts(arrived', arrived \o (through \o keeps), Int)
  BY <1>2, <1>5, <1>6, CutShort
<1> QED
  BY <1>1, <1>2, <1>3, <1>4, <1>7

-----------------------------------------------------------------------------
(* How far a command has come.                                             *)

\* What the open artifact still contributes.
Ongoing == IF pc = "copy" THEN Slice(position, left) ELSE <<>>

\* The items before those that are left are written, and show what is out.
Written(before, c, items, out) ==
  /\ before \in Seq(Writable(c)) /\ items \in Seq(Writable(c))
  /\ Items(c) = before \o items
  /\ \A i \in DOMAIN before : before[i].kind # "noTime"
  /\ Rendered(before) = out

Streams ==
  /\ kept \in Seq(Int) /\ arrived \in Seq(Int)
  /\ pc \in {"idle", "resolve"} => kept = <<>> /\ arrived = <<>>
  /\ pc = "exited" => kept = <<>>
  /\ pc \notin {"ended", "exited"} => device = "open"

Progress ==
  pc \in {"items", "open", "copy"} =>
    \E before : Written(before, command, todo, (arrived \o kept) \o Ongoing)

\* What has arrived, and is kept, begins what the command should show.
Prefix ==
  /\ pc = "idle" => command = [form |-> "none"]
  /\ Starts(arrived \o kept, Expected, Int)

DeliveryInv == Streams /\ Progress /\ Prefix /\ ResultIsTrue

LEMMA StartsTransitive ==
  ASSUME NEW S, NEW s \in Seq(S), NEW t \in Seq(S), NEW u \in Seq(S),
         Starts(s, t, S), Starts(t, u, S)
  PROVE  Starts(s, u, S)
<1>1. PICK r \in Seq(S) : t = s \o r
  BY DEF Starts
<1> QED
  BY <1>1, StartsOfMore

LEMMA ExpectedType ==
  ASSUME command \in Commands
  PROVE  Expected \in Seq(Int)
<1>1. Blocks(command) \in Seq(Seq(Int))
  BY CommandsDeliver DEF Deliverable, Splits
<1> QED
  BY <1>1, JoinedType DEF Expected

\* What is written begins what should be shown, and is all of it when nothing is
\* left to write.
LEMMA WrittenIsExpected ==
  ASSUME NEW c \in Commands, NEW before, NEW items, NEW out, Written(before, c, items, out)
  PROVE  /\ out \in Seq(Int)
         /\ Starts(out, Joined(Blocks(c)), Int)
         /\ items = <<>> => out = Joined(Blocks(c))
<1> DEFINE T == Writable(c)
<1>1. PICK shown, rest : Splits(c, T, shown, rest)
  BY CommandsDeliver DEF Deliverable
<1>2. /\ before \in Seq(T) /\ items \in Seq(T) /\ shown \in Seq(T) /\ rest \in Seq(T) /\ Showable(T)
      /\ Items(c) = before \o items /\ Items(c) = shown \o rest
      /\ Rendered(before) = out /\ Rendered(shown) = Joined(Blocks(c))
      /\ rest = <<>> \/ rest[1].kind = "noTime"
      /\ \A i \in DOMAIN before : before[i].kind # "noTime"
  BY <1>1, ItemsAreShowable DEF Written, Splits
<1> HIDE DEF T
<1>3. out \in Seq(Int)
  BY <1>2, RenderedType
<1> DEFINE b == Len(before)
           h == Len(shown)
<1>4. b \in Nat /\ h \in Nat /\ Len(rest) \in Nat
  BY <1>2, LenProperties
<1>5. /\ Len(items) \in Nat /\ b + Len(items) = h + Len(rest)
      /\ \A i \in 1 .. b : Items(c)[i] = before[i]
      /\ \A i \in 1 .. h : Items(c)[i] = shown[i]
      /\ rest # <<>> => Items(c)[h + 1] = rest[1]
  <2>1. /\ Len(Items(c)) = b + Len(items)
        /\ \A i \in 1 .. b + Len(items) :
             Items(c)[i] = IF i <= b THEN before[i] ELSE items[i - b]
    <3>1. /\ Len(before \o items) = Len(before) + Len(items)
          /\ \A i \in 1 .. Len(before) + Len(items) :
               (before \o items)[i] = IF i <= Len(before) THEN before[i]
                                     ELSE items[i - Len(before)]
      BY <1>2, ConcatProperties
    <3> QED
      BY <1>2, <3>1, Zenon
  <2>2. /\ Len(Items(c)) = h + Len(rest)
        /\ \A i \in 1 .. h + Len(rest) :
             Items(c)[i] = IF i <= h THEN shown[i] ELSE rest[i - h]
    <3>1. /\ Len(shown \o rest) = Len(shown) + Len(rest)
          /\ \A i \in 1 .. Len(shown) + Len(rest) :
               (shown \o rest)[i] = IF i <= Len(shown) THEN shown[i]
                                   ELSE rest[i - Len(shown)]
      BY <1>2, ConcatProperties
    <3> QED
      BY <1>2, <3>1, Zenon
  <2>3. Len(items) \in Nat /\ (rest # <<>> => Len(rest) # 0)
    BY <1>2, LenProperties, EmptySeq
  <2> HIDE DEF b, h
  <2>4. \A i \in 1 .. b : Items(c)[i] = before[i]
    BY <1>4, <2>1, <2>3
  <2>5. \A i \in 1 .. h : Items(c)[i] = shown[i]
    BY <1>4, <2>2
  <2>6. rest # <<>> => Items(c)[h + 1] = rest[1]
    <3>1. SUFFICES ASSUME rest # <<>> PROVE Items(c)[h + 1] = rest[1]
      OBVIOUS
    <3>2. h + 1 \in 1 .. h + Len(rest) /\ ~(h + 1 <= h) /\ (h + 1) - h = 1
      BY <1>4, <2>3, <3>1
    <3> QED
      BY <2>2, <3>2
  <2> QED
    BY <2>1, <2>2, <2>3, <2>4, <2>5, <2>6
<1>6. CASE b <= h
  <2> DEFINE front == SubSeq(shown, 1, b)
             mid == SubSeq(shown, b + 1, h)
  <2>1. /\ front \in Seq(T) /\ mid \in Seq(T) /\ shown = front \o mid
    <3>1. b \in 0 .. Len(shown)
      BY <1>4, <1>6
    <3> QED
      BY <1>2, <3>1, CutApart
  <2>2. Len(front) = b /\ \A i \in 1 .. b : front[i] = shown[i]
    <3>1. \A i \in 1 .. b : shown[i] \in T
      BY <1>2, <1>4, <1>6, ElementOfSeq
    <3> HIDE DEF b
    <3>2. /\ Len(front) = IF 1 <= b THEN b - 1 + 1 ELSE 0
          /\ \A i \in 1 .. b - 1 + 1 : front[i] = shown[1 + i - 1]
      BY <1>4, <3>1, SubSeqProperties
    <3> HIDE DEF front
    <3>3. b - 1 + 1 = b /\ \A i \in 1 .. b : 1 + i - 1 = i
      BY <1>4
    <3> QED
      BY <1>4, <3>2, <3>3
  <2>3. front = before
    <3>1. \A i \in 1 .. b : front[i] = before[i]
      <4> HIDE DEF b, h, front
      <4> TAKE i \in 1 .. b
      <4>1. i \in 1 .. h
        BY <1>4, <1>6
      <4> QED
        BY <1>5, <2>2, <4>1
    <3> HIDE DEF front
    <3> QED
      BY <1>2, <2>1, <2>2, <3>1, SeqEqual
  <2>4. items = <<>> => mid = <<>>
    <3>1. items = <<>> => b = h
      <4>1. items = <<>> => Len(items) = 0
        OBVIOUS
      <4> HIDE DEF b, h
      <4> QED
        BY <1>4, <1>5, <1>6, <4>1
    <3>2. b = h => mid = <<>>
      BY <1>4, SubSeqEmpty
    <3> QED
      BY <3>1, <3>2
  <2> HIDE DEF front, mid
  <2>5. Starts(Rendered(before), Rendered(before \o mid), Int)
    BY <1>2, <2>1, RenderedStarts
  <2>6. shown = before \o mid /\ (items = <<>> => shown = before)
    BY <1>2, <2>1, <2>3, <2>4, ConcatEmptySeq
  <2> QED
    BY <1>2, <1>3, <2>5, <2>6
<1>7. CASE ~(b <= h)
  <2> HIDE DEF b, h
  <2>1. h + 1 \in 1 .. b
    BY <1>4, <1>7
  <2>2. rest # <<>>
    <3>1. rest = <<>> => Len(rest) = 0
      OBVIOUS
    <3> QED
      BY <1>4, <1>5, <1>7, <3>1
  <2>3. before[h + 1] = rest[1] /\ DOMAIN before = 1 .. b
    BY <1>2, <1>5, <2>1, <2>2, LenProperties DEF b
  <2> QED
    BY <1>2, <2>1, <2>2, <2>3
<1> QED
  BY <1>6, <1>7

\* One more item is written.
LEMMA OneMoreWritten ==
  ASSUME NEW c \in Commands, NEW before, NEW items, NEW out,
         Written(before, c, items, out), items # <<>>, Head(items).kind # "noTime"
  PROVE  /\ Written(before \o <<Head(items)>>, c, Tail(items), out \o Shown(Head(items)))
         /\ Shown(Head(items)) \in Seq(Int)
<1> DEFINE T == Writable(c)
           item == Head(items)
           tail == Tail(items)
           next == before \o <<item>>
<1>1. /\ before \in Seq(T) /\ items \in Seq(T) /\ Showable(T) /\ Rendered(before) = out
      /\ \A i \in DOMAIN before : before[i].kind # "noTime"
  BY ItemsAreShowable DEF Written
<1>2. Items(c) = before \o items
  BY DEF Written
<1> HIDE DEF T
<1>3. item \in T /\ tail \in Seq(T) /\ <<item>> \in Seq(T) /\ items = <<item>> \o tail
  BY <1>1
<1> HIDE DEF item, tail
<1>4. next \in Seq(T) /\ next \o tail = before \o (<<item>> \o tail)
  <2> DEFINE one == <<item>>
  <2>1. one \in Seq(T)
    BY <1>3
  <2> HIDE DEF one
  <2>2. Groups(before, one, tail, T)
    BY <1>1, <1>3, <2>1, Grouping
  <2> QED
    BY <2>2 DEF Groups, one
<1>5. Rendered(next) = out \o Shown(item) /\ Shown(item) \in Seq(Int)
  BY <1>1, <1>3, RenderedAppend DEF Showable
<1>6. \A i \in DOMAIN next : next[i].kind # "noTime"
  <2>1. item.kind # "noTime"
    BY DEF item
  <2>2. /\ DOMAIN next = 1 .. Len(before) + 1 /\ Len(before) \in Nat
        /\ DOMAIN before = 1 .. Len(before)
        /\ \A i \in 1 .. Len(before) : next[i] = before[i]
        /\ next[Len(before) + 1] = item
    BY <1>1, <1>3
  <2> HIDE DEF next
  <2>3. \A i \in 1 .. Len(before) + 1 : i \in 1 .. Len(before) \/ i = Len(before) + 1
    BY <2>2
  <2> QED
    BY <1>1, <2>1, <2>2, <2>3
<1>7. Items(c) = next \o tail
  BY <1>2, <1>3, <1>4
<1> HIDE DEF next
<1>8. Written(next, c, tail, out \o Shown(item))
  BY <1>3, <1>4, <1>5, <1>6, <1>7 DEF Written, T
<1> QED
  BY <1>5, <1>8 DEF next, tail, item

\* Nothing is written yet.
LEMMA NothingWritten ==
  ASSUME NEW c \in Commands
  PROVE  Written(<<>>, c, Items(c), <<>>) /\ Starts(<<>>, Joined(Blocks(c)), Int)
<1> DEFINE none == <<>>
           T == Writable(c)
           items == Items(c)
<1>1. none \in Seq(T) /\ none \in Seq(Int) /\ DOMAIN none = {}
  BY EmptySeq
<1>2. items \in Seq(T)
  BY ItemsAreWritable
<1>3. Rendered(none) = none
  BY RenderedEmpty
<1> HIDE DEF none, T, items
<1>4. none \o items = items
  <2>1. <<>> \o items = items
    BY <1>2, ConcatEmptySeq
  <2> QED
    BY <2>1 DEF none
<1>5. Written(none, c, items, none)
  BY <1>1, <1>2, <1>3, <1>4 DEF Written, T, items
<1>6. Starts(none, Joined(Blocks(c)), Int)
  BY <1>5, WrittenIsExpected
<1> QED
  BY <1>5, <1>6 DEF none, items

\* Two empty streams, and then nothing more.
LEMMA NothingArrived ==
  ASSUME NEW s, NEW t, s = <<>>, t = <<>>
  PROVE  s \o t = <<>> /\ (s \o t) \o <<>> = <<>>
<1>1. <<>> \in Seq(Int)
  BY EmptySeq
<1> QED
  BY <1>1, ConcatEmptySeq

\* What standard output has takes nothing more from an artifact that is not open.
LEMMA NotCopying ==
  ASSUME NEW s \in Seq(Int), NEW t \in Seq(Int)
  PROVE  s \o t \in Seq(Int) /\ (s \o t) \o <<>> = s \o t
<1>1. s \o t \in Seq(Int)
  BY ConcatProperties
<1> QED
  BY <1>1, ConcatEmptySeq

LEMMA DeliveredInitially ==
  ASSUME Init
  PROVE  DeliveryInv
<1>1. /\ kept = <<>> /\ arrived = <<>> /\ pc = "idle" /\ device = "open"
      /\ command = [form |-> "none"] /\ result = "none"
  BY DEF Init
<1>2. Streams
  BY <1>1, EmptySeq DEF Streams
<1>3. Starts(arrived \o kept, Expected, Int)
  <2>1. Blocks(command) = <<>>
    BY <1>1 DEF Blocks
  <2>2. Expected = <<>> /\ arrived \o kept = <<>>
    BY <1>1, <2>1, JoinedNone, NothingArrived DEF Expected
  <2>3. Starts(<<>>, <<>>, Int)
    BY EmptySeq, StartsOfItself
  <2> QED
    BY <2>2, <2>3
<1> QED
  BY <1>1, <1>2, <1>3 DEF DeliveryInv, Progress, Prefix, ResultIsTrue

\* The record's own steps, and changes of the artifact.
LEMMA StutterKeepsDelivery ==
  ASSUME DeliveryInv,
         UNCHANGED <<command, todo, position, left, pc, kept, device, arrived, result>>
  PROVE  DeliveryInv'
<1>1. Expected' = Expected /\ Ongoing' = Ongoing
  BY DEF Expected, Ongoing
<1> QED
  BY <1>1 DEF DeliveryInv, Streams, Progress, Prefix, ResultIsTrue

\* A command that stops while its device takes everything.
LEMMA StopKeepsDelivery ==
  ASSUME DeliveryInv, pc \notin {"idle", "ended", "exited"}, pc' = "ended",
         result' \notin {"ok", "closed", "full"},
         UNCHANGED <<command, kept, device, arrived>>
  PROVE  DeliveryInv'
<1>1. Expected' = Expected
  BY DEF Expected
<1>2. device = "open"
  BY DEF DeliveryInv, Streams
<1> QED
  BY <1>1, <1>2 DEF DeliveryInv, Streams, Progress, Prefix, ResultIsTrue

LEMMA AskKeepsDelivery ==
  ASSUME OutputInv, DeliveryInv, NEW c \in Commands, Ask(c)
  PROVE  DeliveryInv'
<1>1. /\ pc = "idle" /\ kept = <<>> /\ arrived = <<>> /\ result = "none"
      /\ device = "open" /\ command' = c /\ UNCHANGED <<kept, arrived, device>>
  BY DEF Ask, Stdout, OutputInv, Asked, DeliveryInv, Streams
<1>2. /\ kept' \in Seq(Int) /\ arrived' \in Seq(Int)
      /\ arrived' \o kept' = <<>> /\ (arrived' \o kept') \o <<>> = <<>>
  BY <1>1, EmptySeq, NothingArrived
<1>3. Starts(arrived' \o kept', Expected', Int)
  <2>1. Expected' = Joined(Blocks(c))
    BY <1>1 DEF Expected
  <2> QED
    BY <1>2, <2>1, NothingWritten
<1>4. \/ pc' = "resolve" /\ UNCHANGED result
      \/ pc' = "items" /\ todo' = Items(c) /\ UNCHANGED result
      \/ pc' = "ended" /\ result' = "badRange"
  BY DEF Ask, Return
<1>5. Streams' /\ Prefix'
  BY <1>1, <1>2, <1>3, <1>4 DEF Streams, Prefix
<1>6. Progress'
  <2>1. SUFFICES ASSUME pc' \in {"items", "open", "copy"} PROVE Progress'
    BY DEF Progress
  <2>2. todo' = Items(c) /\ Ongoing' = <<>>
    BY <1>4, <2>1 DEF Ongoing
  <2>3. (arrived' \o kept') \o Ongoing' = <<>>
    BY <1>2, <2>2
  <2>4. Written(<<>>, command', todo', (arrived' \o kept') \o Ongoing')
    BY <1>1, <2>2, <2>3, NothingWritten
  <2> QED
    BY <2>4 DEF Progress
<1>7. ResultIsTrue'
  BY <1>1, <1>4 DEF ResultIsTrue
<1> QED
  BY <1>5, <1>6, <1>7 DEF DeliveryInv

LEMMA ResolveKeepsDelivery ==
  ASSUME OutputInv, DeliveryInv, Resolve
  PROVE  DeliveryInv'
<1>1. /\ pc = "resolve" /\ kept = <<>> /\ arrived = <<>> /\ result = "none"
      /\ command \in Commands /\ device = "open"
      /\ UNCHANGED <<command, kept, arrived, device>>
  BY DEF Resolve, Stdout, OutputInv, Asked, DeliveryInv, Streams
<1>2. \/ Refusal # "none" /\ Return(Refusal)
      \/ Return("unavailable")
      \/ pc' = "items" /\ todo' = Items(command) /\ UNCHANGED result
  BY Zenon DEF Resolve
<1>3. CASE Return(Refusal) \/ Return("unavailable")
  <2>1. Refusal \in {"none", "io", "store"}
    BY DEF Refusal
  <2>2. pc' = "ended" /\ result' \notin {"ok", "closed", "full"}
    BY <1>3, <2>1 DEF Return
  <2> QED
    BY <1>1, <2>2, StopKeepsDelivery
<1>4. CASE pc' = "items" /\ todo' = Items(command) /\ UNCHANGED result
  <2>1. (arrived' \o kept') \o Ongoing' = <<>>
    BY <1>1, <1>4, NothingArrived DEF Ongoing
  <2>2. Written(<<>>, command', todo', (arrived' \o kept') \o Ongoing')
    BY <1>1, <1>4, <2>1, NothingWritten
  <2>3. Progress'
    BY <2>2 DEF Progress
  <2>4. Streams' /\ Prefix' /\ ResultIsTrue'
    <3>1. Expected' = Expected
      BY <1>1 DEF Expected
    <3> QED
      BY <1>1, <1>4, <3>1 DEF DeliveryInv, Streams, Prefix, ResultIsTrue
  <2> QED
    BY <2>3, <2>4 DEF DeliveryInv
<1> QED
  BY <1>2, <1>3, <1>4

\* What a write makes of the streams: more of what should be shown, or a device that
\* failed and the beginning that it took.
LEMMA WriteOfExpected ==
  ASSUME NEW chunk \in Seq(Int), NEW all \in Seq(Int),
         kept \in Seq(Int), arrived \in Seq(Int), device = "open", Write(chunk),
         Starts((arrived \o kept) \o chunk, all, Int)
  PROVE  /\ kept' \in Seq(Int) /\ arrived' \in Seq(Int)
         /\ Starts(arrived' \o kept', all, Int)
         /\ \/ /\ UNCHANGED <<pc, result>> /\ device' = "open"
               /\ arrived' \o kept' = (arrived \o kept) \o chunk
            \/ /\ pc' = "ended" /\ result' = device' /\ device' \in {"closed", "full"}
<1>1. CASE WriteAll(chunk, TRUE) /\ UNCHANGED <<pc, result>>
  <2>1. /\ kept' \in Seq(Int) /\ arrived' \in Seq(Int) /\ device' = "open"
        /\ arrived' \o kept' = (arrived \o kept) \o chunk
    BY <1>1, WrittenIsShown
  <2> QED
    BY <1>1, <2>1
<1>2. CASE WriteAll(chunk, FALSE) /\ Return(device')
  <2>1. /\ kept' = <<>> /\ arrived' \in Seq(Int) /\ device' \in {"closed", "full"}
        /\ Starts(arrived', (arrived \o kept) \o chunk, Int)
    BY <1>2, LostIsCut
  <2> DEFINE out == (arrived \o kept) \o chunk
  <2>2. out \in Seq(Int)
    <3>1. Groups(arrived, kept, chunk, Int)
      BY Grouping
    <3> QED
      BY <3>1 DEF Groups
  <2> HIDE DEF out
  <2>3. Starts(arrived', out, Int) /\ Starts(out, all, Int)
    BY <2>1 DEF out
  <2>4. Starts(arrived', all, Int)
    BY <2>1, <2>2, <2>3, StartsTransitive
  <2>5. arrived' \o kept' = arrived' /\ kept' \in Seq(Int)
    BY <2>1, EmptySeq, ConcatEmptySeq
  <2> QED
    BY <1>2, <2>1, <2>4, <2>5 DEF Return
<1> QED
  BY <1>1, <1>2 DEF Write

\* A write keeps the invariant when what it adds is next, and the items that are left
\* are those that come after it.
LEMMA WriteKeepsDelivery ==
  ASSUME DeliveryInv, pc \in {"items", "copy"}, command \in Commands, result = "none",
         UNCHANGED command, NEW chunk \in Seq(Int), Write(chunk),
         NEW rest \in Seq(Int), pc' = pc => rest = Ongoing',
         NEW before, Written(before, command, todo', ((arrived \o kept) \o chunk) \o rest)
  PROVE  DeliveryInv'
<1> DEFINE out == (arrived \o kept) \o chunk
<1>1. kept \in Seq(Int) /\ arrived \in Seq(Int) /\ device = "open"
  BY DEF DeliveryInv, Streams
<1>2. out \in Seq(Int)
  <2>1. Groups(arrived, kept, chunk, Int)
    BY <1>1, Grouping
  <2> QED
    BY <2>1 DEF Groups
<1>3. Written(before, command, todo', out \o rest)
  OBVIOUS
<1>4. Expected \in Seq(Int) /\ Expected' = Expected
  BY ExpectedType DEF Expected
<1> HIDE DEF out
<1>5. Starts(out \o rest, Expected, Int)
  BY <1>3, WrittenIsExpected DEF Expected
<1>6. Starts(out, Expected, Int)
  BY <1>2, <1>4, <1>5, StartsOfMore
<1>7. /\ kept' \in Seq(Int) /\ arrived' \in Seq(Int)
      /\ Starts(arrived' \o kept', Expected, Int)
      /\ \/ /\ UNCHANGED <<pc, result>> /\ device' = "open"
            /\ arrived' \o kept' = out
         \/ /\ pc' = "ended" /\ result' = device' /\ device' \in {"closed", "full"}
  <2>1. Starts((arrived \o kept) \o chunk, Expected, Int)
    BY <1>6 DEF out
  <2> QED
    BY <1>1, <1>4, <2>1, WriteOfExpected DEF out
<1>8. Prefix'
  BY <1>4, <1>7 DEF Prefix
<1>9. Streams' /\ ResultIsTrue'
  BY <1>7 DEF Streams, ResultIsTrue
<1>10. Progress'
  <2>1. SUFFICES ASSUME pc' # "ended" PROVE Progress'
    BY DEF Progress
  <2>2. arrived' \o kept' = out /\ rest = Ongoing'
    BY <1>7, <2>1
  <2>3. Written(before, command', todo', (arrived' \o kept') \o Ongoing')
    BY <1>3, <2>2
  <2> QED
    BY <2>3 DEF Progress
<1> QED
  BY <1>8, <1>9, <1>10 DEF DeliveryInv

LEMMA WriteTextKeepsDelivery ==
  ASSUME OutputInv, DeliveryInv, WriteText
  PROVE  DeliveryInv'
<1> DEFINE chunk == Head(todo).bytes
           out == arrived \o kept
<1>1. /\ pc = "items" /\ todo # <<>> /\ Head(todo).kind = "text" /\ Write(chunk)
      /\ todo' = Tail(todo) /\ UNCHANGED command
      /\ command \in Commands /\ result = "none"
  BY DEF WriteText, OutputInv, Asked
<1>2. PICK before : Written(before, command, todo, out \o Ongoing)
  BY <1>1 DEF DeliveryInv, Progress
<1>3. out \in Seq(Int) /\ Ongoing = <<>> /\ out \o <<>> = out
  BY <1>1, NotCopying DEF DeliveryInv, Streams, Ongoing
<1>4. Shown(Head(todo)) = chunk
  BY <1>1 DEF Shown
<1> HIDE DEF chunk, out
<1>5. Written(before, command, todo, out)
  BY <1>2, <1>3
<1>6. /\ Written(before \o <<Head(todo)>>, command, todo', out \o chunk)
      /\ chunk \in Seq(Int)
  BY <1>1, <1>4, <1>5, OneMoreWritten
<1>7. Groups(out, chunk, <<>>, Int) /\ <<>> \in Seq(Int) /\ (out \o chunk) \o <<>> = out \o chunk
  <2>1. <<>> \in Seq(Int)
    BY EmptySeq
  <2>2. Groups(out, chunk, <<>>, Int)
    BY <1>3, <1>6, <2>1, Grouping
  <2>3. (out \o chunk) \o <<>> = out \o chunk
    BY <1>3, <1>6, NotCopying
  <2> QED
    BY <2>1, <2>2, <2>3
<1>8. Written(before \o <<Head(todo)>>, command, todo', ((arrived \o kept) \o chunk) \o <<>>)
  BY <1>6, <1>7 DEF out
<1>9. pc' = pc => <<>> = Ongoing'
  BY <1>1 DEF Ongoing
<1> QED
  BY <1>1, <1>6, <1>7, <1>8, <1>9, WriteKeepsDelivery

\* A slice is a chunk of it and the slice behind that.
LEMMA SliceApart ==
  ASSUME NEW start \in Nat, NEW length \in Nat, NEW count \in 0 .. length
  PROVE  /\ Slice(start, count) \in Seq(Int)
         /\ Slice(start + count, length - count) \in Seq(Int)
         /\ Slice(start, length) = Slice(start, count) \o Slice(start + count, length - count)
<1> DEFINE n == length - count
           next == start + count
           whole == Slice(start, length)
           chunk == Slice(start, count)
           rest == Slice(next, n)
<1>1. n \in Nat /\ next \in Int /\ count \in Nat /\ count + n = length
  OBVIOUS
<1> HIDE DEF n
<1>2. /\ whole \in Seq(Int) /\ Len(whole) = length
      /\ \A i \in 1 .. length : whole[i] = start + i - 1
  BY SliceFacts
<1>3. /\ chunk \in Seq(Int) /\ Len(chunk) = count
      /\ \A i \in 1 .. count : chunk[i] = start + i - 1
  BY <1>1, SliceFacts
<1>4. /\ rest \in Seq(Int) /\ Len(rest) = n
      /\ \A i \in 1 .. n : rest[i] = start + count + i - 1
  <2> HIDE DEF next
  <2>1. /\ rest \in Seq(Int) /\ Len(rest) = n
        /\ \A i \in 1 .. n : rest[i] = next + i - 1
    BY <1>1, SliceFacts
  <2> QED
    BY <2>1 DEF next
<1> HIDE DEF whole, chunk, rest, next
<1>5. /\ chunk \o rest \in Seq(Int) /\ Len(chunk \o rest) = length
      /\ \A i \in 1 .. length :
           (chunk \o rest)[i] = IF i <= count THEN chunk[i] ELSE rest[i - count]
  <2>1. /\ chunk \o rest \in Seq(Int) /\ Len(chunk \o rest) = Len(chunk) + Len(rest)
        /\ \A i \in 1 .. Len(chunk) + Len(rest) :
             (chunk \o rest)[i] = IF i <= Len(chunk) THEN chunk[i]
                                  ELSE rest[i - Len(chunk)]
    BY <1>3, <1>4, ConcatProperties
  <2> QED
    BY <1>1, <1>3, <1>4, <2>1
<1> DEFINE joined == chunk \o rest
<1> HIDE DEF joined
<1>6. ASSUME NEW i \in 1 .. length PROVE whole[i] = joined[i]
  <2>1. joined[i] = IF i <= count THEN chunk[i] ELSE rest[i - count]
    BY <1>5 DEF joined
  <2>2. CASE i <= count
    <3>1. i \in 1 .. count
      BY <1>1, <2>2
    <3> QED
      BY <1>2, <1>3, <2>1, <2>2, <3>1
  <2>3. CASE ~(i <= count)
    <3>1. i - count \in 1 .. n
      BY <1>1, <2>3
    <3>2. rest[i - count] = start + count + (i - count) - 1
      BY <1>4, <3>1
    <3> QED
      BY <1>1, <1>2, <2>1, <2>3, <3>2
  <2> QED
    BY <2>2, <2>3
<1>7. joined \in Seq(Int) /\ Len(joined) = length
  BY <1>5 DEF joined
<1>8. whole = joined
  BY <1>2, <1>6, <1>7, SeqEqual
<1> QED
  BY <1>3, <1>4, <1>8 DEF joined, whole, chunk, rest, next, n

LEMMA CopyKeepsDelivery ==
  ASSUME OutputInv, DeliveryInv, CopyChunk
  PROVE  DeliveryInv'
<1> DEFINE count == Least(left, CopyBuffer)
           chunk == Slice(position, count)
           rest == Slice(position + count, left - count)
           out == arrived \o kept
<1>1. /\ pc = "copy" /\ left \in Nat /\ position \in Nat /\ Write(chunk)
      /\ position' = position + count /\ left' = left - count
      /\ UNCHANGED <<command, todo>> /\ command \in Commands /\ result = "none"
      /\ kept \in Seq(Int) /\ arrived \in Seq(Int)
  BY DEF CopyChunk, OutputInv, Asked, Lengthy, DeliveryInv, Streams
<1>2. count \in 0 .. left
  BY <1>1, OutputAssumption DEF Least
<1> HIDE DEF count
<1>3. /\ chunk \in Seq(Int) /\ rest \in Seq(Int)
      /\ Slice(position, left) = chunk \o rest
  BY <1>1, <1>2, SliceApart
<1>4. pc' = pc => rest = Ongoing'
  BY <1>1 DEF Ongoing
<1> HIDE DEF chunk, rest, out
<1>5. PICK before : Written(before, command, todo, out \o (chunk \o rest))
  BY <1>1, <1>3 DEF DeliveryInv, Progress, Ongoing, out
<1>6. Written(before, command, todo', (out \o chunk) \o rest)
  <2>1. out \in Seq(Int)
    BY <1>1, ConcatProperties DEF out
  <2>2. Groups(out, chunk, rest, Int)
    BY <1>3, <2>1, Grouping
  <2>3. (out \o chunk) \o rest = out \o (chunk \o rest)
    BY <2>2 DEF Groups
  <2> QED
    BY <1>1, <1>5, <2>3
<1>7. Written(before, command, todo', ((arrived \o kept) \o chunk) \o rest)
  BY <1>6 DEF out
<1> QED
  BY <1>1, <1>3, <1>4, <1>7, WriteKeepsDelivery

LEMMA OpenKeepsDelivery ==
  ASSUME OutputInv, DeliveryInv, OpenArtifact
  PROVE  DeliveryInv'
<1> DEFINE range == Head(todo).claim
           out == arrived \o kept
<1>1. /\ pc = "open" /\ todo # <<>> /\ Head(todo).kind = "range"
      /\ command \in Commands /\ result = "none" /\ device = "open"
      /\ kept \in Seq(Int) /\ arrived \in Seq(Int)
      /\ UNCHANGED <<command, kept, device, arrived>>
  BY DEF OpenArtifact, OutputInv, Asked, Pending, DeliveryInv, Streams, Stdout
<1>2. CASE Refusal # "none" \/ ~WithinArtifact(range)
  <2>1. pc' = "ended" /\ result' = IF Refusal # "none" THEN Refusal ELSE "store"
    BY <1>2 DEF OpenArtifact, Return
  <2>2. Refusal \in {"none", "io", "store"}
    BY DEF Refusal
  <2>3. result' \notin {"ok", "closed", "full"}
    BY <2>1, <2>2
  <2> QED
    BY <1>1, <2>1, <2>3, StopKeepsDelivery
<1>3. CASE Refusal = "none" /\ WithinArtifact(range)
  <2>1. /\ pc' = "copy" /\ todo' = Tail(todo) /\ position' = range.start
        /\ left' = range.length /\ UNCHANGED result
    BY <1>3 DEF OpenArtifact
  <2>2. PICK before : Written(before, command, todo, out \o Ongoing)
    BY <1>1 DEF DeliveryInv, Progress
  <2>3. Ongoing = <<>> /\ out \o <<>> = out
    BY <1>1, NotCopying DEF Ongoing
  <2>4. Shown(Head(todo)) = Ongoing'
    BY <1>1, <2>1 DEF Shown, Ongoing
  <2> HIDE DEF out, range
  <2>5. Written(before, command, todo, out)
    BY <2>2, <2>3
  <2>6. Written(before \o <<Head(todo)>>, command, todo', out \o Ongoing')
    BY <1>1, <2>1, <2>4, <2>5, OneMoreWritten
  <2>7. Written(before \o <<Head(todo)>>, command', todo', (arrived' \o kept') \o Ongoing')
    BY <1>1, <2>6 DEF out
  <2>8. Progress'
    BY <2>7 DEF Progress
  <2>9. Streams' /\ Prefix' /\ ResultIsTrue'
    <3>1. Expected' = Expected
      BY <1>1 DEF Expected
    <3> QED
      BY <1>1, <2>1, <3>1 DEF DeliveryInv, Streams, Prefix, ResultIsTrue
  <2> QED
    BY <2>8, <2>9 DEF DeliveryInv
<1> QED
  BY <1>2, <1>3

\* A copy begins, when nothing is open, and ends, when nothing is left.
LEMMA TurnKeepsDelivery ==
  ASSUME OutputInv, DeliveryInv, BeginCopy \/ FinishCopy
  PROVE  DeliveryInv'
<1>1. /\ pc \in {"items", "copy"} /\ pc' \in {"items", "open"}
      /\ pc = "copy" => left = 0 /\ position \in Nat
      /\ UNCHANGED <<command, todo, kept, device, arrived, result>>
  BY DEF BeginCopy, FinishCopy, Stdout, OutputInv, Lengthy
<1>2. Expected' = Expected
  BY <1>1 DEF Expected
<1>3. Ongoing = <<>> /\ Ongoing' = <<>>
  <2>1. pc = "copy" => Slice(position, left) = <<>>
    <3>1. SUFFICES ASSUME pc = "copy" PROVE Slice(position, left) = <<>>
      OBVIOUS
    <3>2. left = 0 /\ position \in Nat
      BY <1>1, <3>1
    <3>3. Slice(position, 0) \in Seq(Int) /\ Len(Slice(position, 0)) = 0
      BY <3>2, SliceFacts
    <3> QED
      BY <3>2, <3>3, EmptySeq
  <2> QED
    BY <1>1, <2>1 DEF Ongoing
<1> QED
  BY <1>1, <1>2, <1>3 DEF DeliveryInv, Streams, Progress, Prefix, ResultIsTrue

\* Nothing is left to write, so everything is written.
LEMMA CompleteKeepsDelivery ==
  ASSUME OutputInv, DeliveryInv, Complete
  PROVE  DeliveryInv'
<1> DEFINE out == arrived \o kept
<1>1. /\ pc = "items" /\ todo = <<>> /\ pc' = "ended" /\ result' = "ok"
      /\ command \in Commands /\ device = "open"
      /\ kept \in Seq(Int) /\ arrived \in Seq(Int)
      /\ UNCHANGED <<command, kept, device, arrived>>
  BY DEF Complete, Return, Stdout, OutputInv, Asked, DeliveryInv, Streams
<1>2. PICK before : Written(before, command, todo, out \o Ongoing)
  BY <1>1 DEF DeliveryInv, Progress
<1>3. Ongoing = <<>> /\ out \o <<>> = out
  BY <1>1, NotCopying DEF Ongoing
<1> HIDE DEF out
<1>4. Written(before, command, todo, out)
  BY <1>2, <1>3
<1>5. out = Expected
  BY <1>1, <1>4, WrittenIsExpected DEF Expected
<1>6. Expected' = Expected /\ arrived' \o kept' = Expected'
  BY <1>1, <1>5 DEF Expected, out
<1>7. ResultIsTrue'
  BY <1>1, <1>6 DEF ResultIsTrue
<1>8. Streams' /\ Progress' /\ Prefix'
  BY <1>1, <1>6 DEF DeliveryInv, Streams, Progress, Prefix
<1> QED
  BY <1>7, <1>8 DEF DeliveryInv

\* The device takes what was kept, or the first few bytes of it.
LEMMA ExitKeepsDelivery ==
  ASSUME OutputInv, DeliveryInv, Exit
  PROVE  DeliveryInv'
<1> DEFINE out == arrived \o kept
<1>1. /\ pc = "ended" /\ pc' = "exited" /\ kept' = <<>> /\ command \in Commands
      /\ kept \in Seq(Int) /\ arrived \in Seq(Int)
      /\ UNCHANGED <<command, result>>
      /\ device \in {"open", "closed", "full"}
  BY DEF Exit, OutputInv, Asked, DeliveryInv, Streams
<1>2. Expected' = Expected /\ Expected \in Seq(Int)
  BY <1>1, ExpectedType DEF Expected
<1>3. Starts(out, Expected, Int) /\ out \in Seq(Int)
  BY <1>1, NotCopying DEF DeliveryInv, Prefix
<1>4. /\ result = "ok" => out = Expected
      /\ result = "closed" => device = "closed"
      /\ result = "full" => device = "full"
  BY <1>1 DEF DeliveryInv, ResultIsTrue
<1>5. /\ arrived' \in Seq(Int) /\ Starts(arrived', out, Int)
      /\ device' = "open" => arrived' = out
      /\ device # "open" => device' = device
  <2>1. CASE kept = <<>> /\ UNCHANGED <<device, arrived>>
    <3>1. out = arrived
      BY <1>1, <2>1, ConcatEmptySeq
    <3>2. Starts(arrived, arrived, Int)
      BY <1>1, StartsOfItself
    <3> QED
      BY <1>1, <2>1, <3>1, <3>2
  <2>2. CASE DeviceTakes(kept, TRUE)
    <3>1. device = "open" /\ device' = "open" /\ arrived' = out
      BY <2>2 DEF DeviceTakes
    <3> HIDE DEF out
    <3>2. Starts(out, out, Int)
      BY <1>3, StartsOfItself
    <3> QED
      BY <1>3, <3>1, <3>2
  <2>3. CASE DeviceTakes(kept, FALSE)
    <3>1. /\ device' # "open"
          /\ device # "open" => device' = device
          /\ \E n \in 0 .. Len(kept) - 1 : arrived' = arrived \o SubSeq(kept, 1, n)
      BY <2>3 DEF DeviceTakes
    <3>2. PICK n \in 0 .. Len(kept) - 1 : arrived' = arrived \o SubSeq(kept, 1, n)
      BY <3>1
    <3>3. n \in 0 .. Len(kept) /\ <<>> \in Seq(Int)
      BY <1>1, LenProperties, EmptySeq
    <3>4. /\ arrived' \in Seq(Int)
          /\ Starts(arrived', arrived \o (kept \o <<>>), Int)
      BY <1>1, <3>2, <3>3, CutShort
    <3>5. kept \o <<>> = kept
      BY <1>1, ConcatEmptySeq
    <3>6. Starts(arrived', out, Int)
      BY <3>4, <3>5, Zenon
    <3> HIDE DEF out
    <3> QED
      BY <3>1, <3>4, <3>6
  <2> QED
    BY <2>1, <2>2, <2>3 DEF Exit
<1>6. arrived' \o kept' = arrived' /\ kept' \in Seq(Int)
  BY <1>1, <1>5, EmptySeq, ConcatEmptySeq
<1> HIDE DEF out
<1>7. Starts(arrived', Expected, Int)
  BY <1>2, <1>3, <1>5, StartsTransitive
<1>8. Streams' /\ Progress' /\ Prefix'
  BY <1>1, <1>2, <1>5, <1>6, <1>7 DEF Streams, Progress, Prefix
<1>9. ResultIsTrue'
  BY <1>1, <1>2, <1>4, <1>5 DEF ResultIsTrue
<1> QED
  BY <1>8, <1>9 DEF DeliveryInv

-----------------------------------------------------------------------------
(***************************************************************************)
(* The invariant of ranges and the one of records hold as well; what is    *)
(* written depends on the former.                                          *)
(***************************************************************************)
LEMMA OutputInvariance == Spec => [](OutputInv /\ DeliveryInv)
<1>1. Init => OutputInv /\ DeliveryInv
  BY OutputInitially, DeliveredInitially
<1>2. IInv /\ (OutputInv /\ DeliveryInv) /\ [Next]_vars => (OutputInv /\ DeliveryInv)'
  <2>1. SUFFICES ASSUME IInv, OutputInv, DeliveryInv, [Next]_vars
                 PROVE  OutputInv' /\ DeliveryInv'
    OBVIOUS
  <2>2. OutputInv'
    BY <2>1, OutputStep
  <2>3. CASE \/ (WriterNext \/ ReaderNext \/ ChangeRecord) /\ UNCHANGED outputVars
             \/ ChangeArtifact \/ UNCHANGED vars
    <3>1. UNCHANGED <<command, todo, position, left, pc, kept, device, arrived, result>>
      BY <2>3 DEF outputVars, vars, ChangeArtifact, Stdout
    <3> QED
      BY <2>1, <2>2, <3>1, StutterKeepsDelivery
  <2>4. CASE \E c \in Commands : Ask(c)
    BY <2>1, <2>2, <2>4, AskKeepsDelivery
  <2>5. CASE Resolve
    BY <2>1, <2>2, <2>5, ResolveKeepsDelivery
  <2>6. CASE WriteText
    BY <2>1, <2>2, <2>6, WriteTextKeepsDelivery
  <2>7. CASE RefuseTime \/ PrematureEnd \/ ArtifactFails
    <3>1. /\ pc \notin {"idle", "ended", "exited"} /\ pc' = "ended"
          /\ result' \notin {"ok", "closed", "full"}
          /\ UNCHANGED <<command, kept, device, arrived>>
      BY <2>7 DEF RefuseTime, PrematureEnd, ArtifactFails, Return, Stdout
    <3> QED
      BY <2>1, <2>2, <3>1, StopKeepsDelivery
  <2>8. CASE BeginCopy \/ FinishCopy
    BY <2>1, <2>2, <2>8, TurnKeepsDelivery
  <2>9. CASE OpenArtifact
    BY <2>1, <2>2, <2>9, OpenKeepsDelivery
  <2>10. CASE CopyChunk
    BY <2>1, <2>2, <2>10, CopyKeepsDelivery
  <2>11. CASE Complete
    BY <2>1, <2>2, <2>11, CompleteKeepsDelivery
  <2>12. CASE Exit
    BY <2>1, <2>2, <2>12, ExitKeepsDelivery
  <2> QED
    BY <2>1, <2>3, <2>4, <2>5, <2>6, <2>7, <2>8, <2>9, <2>10, <2>11, <2>12 DEF Next
<1> QED
  BY <1>1, <1>2, Invariance, PTL DEF Spec

(***************************************************************************)
(* For every command, every artifact, every size of the copy buffer and of *)
(* what standard output keeps, whatever fails and whatever is changed from *)
(* outside: what reached standard output is a beginning of what the        *)
(* command should show.  The loops of show_llvm, list_captures and         *)
(* find_instances write what their blocks, joined by newlines, are, and    *)
(* copy_evidence_bytes leaves out and doubles nothing.                     *)
(***************************************************************************)
THEOREM OutputAlwaysPrefix == Spec => []OutputIsPrefix
<1>1. OutputInv /\ DeliveryInv => OutputIsPrefix
  <2>1. SUFFICES ASSUME OutputInv, DeliveryInv PROVE IsPrefix(arrived \o kept, Expected)
    BY DEF OutputIsPrefix
  <2>2. Starts(arrived \o kept, Expected, Int) /\ arrived \o kept \in Seq(Int)
    BY <2>1, NotCopying DEF DeliveryInv, Streams, Prefix
  <2>3. Expected \in Seq(Int)
    <3>1. CASE command \in Commands
      BY <3>1, ExpectedType
    <3>2. CASE command = [form |-> "none"]
      <4>1. Blocks(command) = <<>>
        BY <3>2 DEF Blocks
      <4> QED
        BY <4>1, JoinedNone, EmptySeq DEF Expected
    <3> QED
      BY <2>1, <3>1, <3>2 DEF OutputInv, Asked, DeliveryInv, Prefix
  <2> QED
    BY <2>2, <2>3, PrefixIsStart
<1> QED
  BY <1>1, OutputInvariance, PTL

(***************************************************************************)
(* For all of those: a command that ends well has written everything, and  *)
(* cli::run takes no failure of the device for another one.                *)
(***************************************************************************)
THEOREM ResultAlwaysTrue == Spec => []ResultIsTrue
<1>1. OutputInv /\ DeliveryInv => ResultIsTrue
  BY DEF DeliveryInv
<1> QED
  BY <1>1, OutputInvariance, PTL
=============================================================================
