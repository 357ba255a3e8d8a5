------------------------------- MODULE LlvmIndex -------------------------------
(***************************************************************************)
(* The index of a textual LLVM module (cargo-optic-compiler, llvm_index):  *)
(* one pass over what llvm-dis printed finds the functions, aliases and    *)
(* ifuncs with the ranges of their text.  Headers are read token by token  *)
(* under a budget, which bounds what the scanner stores; bodies and other  *)
(* lines are skipped without it.                                           *)
(*                                                                         *)
(* A text is a sequence of atoms: a punctuation character, a blank, or a   *)
(* part of a word that is never taken apart.  What the parser still has to *)
(* read of a header is a stack of goals, one for each call under way.      *)
(***************************************************************************)
EXTENDS Naturals, SequencesExt

CONSTANTS
  Items,        \* what llvm-dis may print, each with what it defines
  MaxItems,     \* bound: the items of one text
  HeaderLimit   \* the budget of a header, in atoms

ASSUME IndexAssumption ==
  /\ MaxItems \in Nat /\ HeaderLimit \in Nat \ {0}
  /\ \A item \in Items : item.text \in Seq(STRING)

VARIABLES
  items,        \* the items printed
  text,         \* their text, perhaps cut short
  step,         \* where the scanner is
  offset,       \* how much of the text has been consumed
  goals,        \* what is still to be read of the header
  entry,        \* the definition whose header or body is being read
  body,         \* skip_body's state
  indexed       \* the records made so far

inputVars == <<items, text>>
scanVars == <<inputVars, step, offset, goals, entry, body, indexed>>

Opening == <<"(", "[", "{", "<">>
Closing == <<")", "]", "}", ">">>
Openers == ToSet(Opening)
Closers == ToSet(Closing)
Whitespace == {"space", "newline"}
Digits == {"0", "1", "2", "5"}
HexDigits == Digits \cup {"C"}

Punctuation == Openers \cup Closers \cup Whitespace \cup
  {"quote", "backslash", ";", "@", "%", "!", ",", "=", "eof"}
IsWord(atom) == atom \notin Punctuation

NoEntry == [kind |-> "none", from |-> 0, symbol |-> <<>>, target |-> <<>>]
NewBody == [depth |-> 1, quoted |-> FALSE, comment |-> FALSE, digits |-> 0]

Whole == FlattenSeq([k \in DOMAIN items |-> items[k].text])
Start(k) == Len(FlattenSeq([j \in 1 .. k - 1 |-> items[j].text]))

\* A text cut in an earlier item is one of fewer items.
ScanInit ==
  /\ items \in BoundedSeq(Items, MaxItems)
  /\ text \in {SubSeq(Whole, 1, n) : n \in Start(Len(items)) .. Len(Whole)}
  /\ step = "scan" /\ offset = 0
  /\ goals = <<>> /\ entry = NoEntry /\ body = NewBody
  /\ indexed = <<>>

-----------------------------------------------------------------------------
(* The stream and its tokens.                                              *)

At(p) == IF p < Len(text) THEN text[p + 1] ELSE "eof"
Peek == At(offset)

\* The offset after the line.
LineEnd == Min({p \in offset + 1 .. Len(text) : text[p] = "newline"} \cup {Len(text)})

\* Mutant of InBudget: nobody checks.
AnyLength(end) == end \in Nat

\* take's check, for everything up to the end.
InBudget(end) == end - entry.from <= HeaderLimit

\* Quoted text without its escapes; pending holds the escape being read.
Unescape(s, atom) ==
  CASE s.pending = <<>> /\ atom = "backslash" -> [s EXCEPT !.pending = <<atom>>]
    [] s.pending = <<>> /\ atom # "backslash" -> [s EXCEPT !.out = Append(@, atom)]
    [] Len(s.pending) = 1 /\ atom = "backslash" ->
         [out |-> Append(s.out, atom), pending |-> <<>>]
    [] Len(s.pending) = 1 /\ atom # "backslash" ->
         [s EXCEPT !.pending = Append(@, atom)]
    [] Len(s.pending) = 2 ->
         [out |-> Append(s.out, CASE <<s.pending[2], atom>> = <<"2", "2">> -> "quote"
                                  [] <<s.pending[2], atom>> = <<"5", "C">> -> "backslash"
                                  [] OTHER -> "bad"),
          pending |-> <<>>]

Unescaped(quoted) ==
  LET after[n \in 0 .. Len(quoted)] ==
        IF n = 0 THEN [out |-> <<>>, pending |-> <<>>]
        ELSE Unescape(after[n - 1], quoted[n])
  IN  after[Len(quoted)]

ValidQuoted(quoted) ==
  /\ "newline" \notin ToSet(quoted)
  /\ LET u == Unescaped(quoted) IN u.pending = <<>> /\ "bad" \notin ToSet(u.out)

\* Where the token at offset ends; nowhere if it is malformed.
TokenEnds ==
  LET first == Peek
      open == IF first = "quote" THEN offset + 1
              ELSE IF first \in {"@", "%"} /\ At(offset + 1) = "quote" THEN offset + 2
              ELSE 0
      quotes == {p \in open + 1 .. Len(text) : text[p] = "quote"}
      others == {p \in offset + 1 .. Len(text) - 1 : ~IsWord(text[p + 1])}
  IN  CASE open > 0 /\ quotes = {} -> {}
        [] open > 0 /\ quotes # {} ->
             {e \in {Min(quotes)} : ValidQuoted(SubSeq(text, open + 1, e - 1))}
        [] open = 0 /\ (IsWord(first) \/ first \in {"@", "%", "!"}) ->
             {Min(others \cup {Len(text)})}
        [] OTHER -> {offset + 1}

\* decode_symbol: a global's name, or a numeric slot.
IsGlobal(t) == t[1] = "@"
Decodable(t) ==
  /\ IsGlobal(t) /\ Len(t) > 1
  /\ t[2] \in Digits => ToSet(Tail(t)) \subseteq Digits
Decode(t) ==
  IF t[2] = "quote" THEN Unescaped(SubSeq(t, 3, Len(t) - 1)).out ELSE Tail(t)

-----------------------------------------------------------------------------
(* The grammar of headers.                                                 *)

Modifiers == {"private", "internal", "weak", "external", "hidden", "dso_local",
              "local_unnamed_addr", "thread_local"}
Literals == {"null", "undef", "poison", "zeroinitializer", "true", "false"}
Operators == {"bitcast", "addrspacecast", "inttoptr", "ptrtoint", "trunc"}
Flags == {"inbounds", "nuw", "nusw"}

\* The token is one of the words.
IsOneOf(t, words) == \E w \in words : t = <<w>>

Then(readings, goal) == {g \o <<goal>> : g \in readings}
Only(t, expected) == IF t = expected THEN {<<>>} ELSE {}

\* consume_group, as the goals it adds: a closing delimiter is refused.
Group(t) ==
  CASE t[1] \in Openers -> {<<Closing[k]>> : k \in {k \in DOMAIN Opening : t = <<Opening[k]>>}}
    [] t[1] \in Closers -> {}
    [] OTHER -> {<<>>}

\* consume_constant.
Constant(t) ==
  CASE t[1] \in Openers -> Group(t)
    [] IsGlobal(t) -> IF Decodable(t) THEN {<<>>} ELSE {}
    [] IsOneOf(t, {"dso_local_equivalent", "no_cfi"}) -> {<<"symbol">>}
    [] t = <<"c">> -> {<<"string">>}
    [] IsOneOf(t, Literals) \/ t[1] \in Digits -> {<<>>}
    [] t = <<"getelementptr">> -> {<<"flagged operands">>}
    [] IsOneOf(t, Operators) -> {<<"(", ")">>}
    [] OTHER -> {}

\* The rest of an alias after its pointer type: a global, or an expression.
Target(t) ==
  IF IsGlobal(t) THEN (IF Decodable(t) THEN {<<"suffix">>} ELSE {})
  ELSE Then(Constant(t), "suffix")

\* The goals that replace a goal when it reads the token; none if it refuses it.
After(goal, t) ==
  CASE goal \in {"(", "="} -> Only(t, <<goal>>)
    [] goal \in Closers -> IF t = <<goal>> THEN {<<>>} ELSE Then(Group(t), goal)
    [] goal = "any" -> Group(t)
    [] goal = "symbol" -> IF Decodable(t) THEN {<<>>} ELSE {}
    [] goal = "string" -> IF t[1] = "quote" THEN {<<>>} ELSE {}
    [] goal = "flagged operands" ->
         IF IsOneOf(t, Flags) THEN {<<goal>>}
         ELSE IF t = <<"(">> THEN {<<")">>} ELSE {}
    \* read_function
    [] goal = "name" ->
         IF IsGlobal(t) THEN (IF Decodable(t) THEN {<<"(", ")", "tail">>} ELSE {})
         ELSE IF IsOneOf(t, {"define", "declare"}) THEN {} ELSE Then(Group(t), goal)
    [] goal = "tail" ->
         CASE t = <<"{">> -> {<<>>}
           [] IsOneOf(t, {"prefix", "prologue", "personality"}) ->
                {<<"typed constant", goal>>}
           [] t = <<"!">> -> {<<"any", goal>>}
           [] IsOneOf(t, {"define", "declare"}) -> {}
           [] OTHER -> Then(Group(t), goal)
    [] goal = "typed constant" ->
         Then(Group(t), IF t = <<"ptr">> THEN "pointer constant" ELSE "constant")
    [] goal = "pointer constant" ->
         IF t = <<"addrspace">> THEN {<<"(", ")", "constant">>} ELSE Constant(t)
    [] goal = "constant" -> Constant(t)
    \* read_global_definition and read_global_kind
    [] goal = "global name" -> {<<>>}
    [] goal = "kind" ->
         CASE IsOneOf(t, {"global", "constant"}) -> {<<>>}
           [] IsOneOf(t, {"alias", "ifunc"}) -> {<<"alias type">>}
           [] IsOneOf(t, Modifiers) -> {<<goal>>}
           [] t = <<"addrspace">> -> {<<"(", ")", goal>>}
           [] t = <<"(">> -> {<<")", goal>>}
           [] OTHER -> {}
    \* read_alias_target
    [] goal = "alias type" ->
         IF t = <<",">> THEN {} ELSE Then(Group(t), "comma")
    [] goal = "comma" ->
         IF t = <<",">> THEN {<<"operand">>}
         ELSE IF IsOneOf(t, {"=", "define", "declare"}) \/ IsGlobal(t) THEN {}
         ELSE Then(Group(t), goal)
    [] goal = "operand" ->
         IF t = <<"ptr">> THEN {<<"target">>}
         ELSE IF IsGlobal(t) THEN {} ELSE Then(Constant(t), "suffix")
    [] goal = "target" ->
         IF t = <<"addrspace">> THEN {<<"(", ")", "spaced target">>} ELSE Target(t)
    [] goal = "spaced target" -> Target(t)
    [] goal = "suffix" -> IF t = <<",">> THEN {<<"suffix kind", goal>>} ELSE {}
    [] goal = "suffix kind" ->
         CASE t[1] = "!" -> {<<"any">>}
           [] t = <<"partition">> -> {<<"string">>}
           [] OTHER -> {}

\* What the token adds to the definition.
Noted(goal, t) ==
  CASE goal = "name" /\ IsGlobal(t) -> [entry EXCEPT !.symbol = Decode(t)]
    [] goal = "global name" -> [entry EXCEPT !.symbol = t]
    [] goal = "kind" /\ t = <<"alias">> -> [entry EXCEPT !.kind = "expression"]
    [] goal = "kind" /\ t = <<"ifunc">> -> [entry EXCEPT !.kind = "ifunc"]
    [] goal \in {"target", "spaced target"} /\ IsGlobal(t) /\ entry.kind = "expression" ->
         [entry EXCEPT !.kind = "direct", !.target = Decode(t)]
    [] OTHER -> entry

-----------------------------------------------------------------------------
(* scan.                                                                   *)

Refuse == step' = "refused" /\ UNCHANGED <<inputVars, offset, goals, entry, body, indexed>>

\* The next iteration of the loop.
Scan(end) ==
  /\ step' = "scan" /\ offset' = end
  /\ goals' = <<>> /\ entry' = NoEntry /\ body' = NewBody
  /\ UNCHANGED inputVars

SkipWhitespace ==
  /\ step = "scan" /\ Peek \in Whitespace
  /\ Scan(offset + 1)
  /\ UNCHANGED indexed

BeginHeader(kind, end, first) ==
  /\ entry' = [NoEntry EXCEPT !.kind = kind, !.from = offset]
  /\ offset' = end
  /\ goals' = first
  /\ step' = "header"
  /\ UNCHANGED <<inputVars, body, indexed>>

BeginGlobal ==
  /\ step = "scan" /\ Peek = "@"
  /\ BeginHeader("global", offset, <<"global name", "=", "kind">>)

IsDefine == Peek = "define" /\ At(offset + 1) \in Whitespace \cup {"eof"}

BeginFunction ==
  /\ step = "scan" /\ IsDefine
  /\ BeginHeader("function", offset + 1, <<"name">>)

\* A line that defines nothing; a keyword probed at its beginning may already
\* hold the newline.
SkipLine ==
  /\ step = "scan" /\ Peek \notin Whitespace \cup {"@", "eof"} /\ ~IsDefine
  /\ Scan(LineEnd)
  /\ UNCHANGED indexed

EndScan ==
  /\ step = "scan" /\ Peek = "eof"
  /\ step' = "end"
  /\ UNCHANGED <<inputVars, offset, goals, entry, body, indexed>>

\* LlvmDefinitionRecord::new refuses empty names.
Record(symbol, end) ==
  [kind |-> entry.kind, from |-> entry.from, to |-> end,
   symbol |-> symbol, target |-> entry.target]

FinishAlias(end) ==
  IF /\ Decodable(entry.symbol) /\ Decode(entry.symbol) # <<>>
     /\ entry.kind = "direct" => entry.target # <<>>
    THEN /\ indexed' = Append(indexed, Record(Decode(entry.symbol), end))
         /\ Scan(end)
    ELSE Refuse

-----------------------------------------------------------------------------
(* Headers: read_token, one blank or one token at a time.                  *)

SkipBlank ==
  /\ step = "header" /\ Peek \in Whitespace \cup {";"}
  /\ LET end == IF Peek = ";" THEN LineEnd ELSE offset + 1
     IN  IF ~InBudget(end) THEN Refuse
         ELSE IF Head(goals) = "suffix" /\ Peek \in {"newline", ";"} THEN FinishAlias(end)
         ELSE /\ offset' = end
              /\ UNCHANGED <<inputVars, step, goals, entry, body, indexed>>

\* The tokens that the innermost call accepts, with what it then does.
Readings ==
  UNION {{[end |-> e, goals |-> g \o Tail(goals),
           entry |-> Noted(Head(goals), SubSeq(text, offset + 1, e))] :
            g \in After(Head(goals), SubSeq(text, offset + 1, e))} :
         e \in {e \in TokenEnds : InBudget(e)}}

AtToken == step = "header" /\ Peek \notin Whitespace \cup {";", "eof"}

ReadToken ==
  /\ AtToken
  /\ \E r \in Readings :
       /\ offset' = r.end /\ goals' = r.goals /\ entry' = r.entry
       /\ step' = IF r.goals # <<>> THEN "header"
                  ELSE IF r.entry.kind = "function" THEN "body" ELSE "line"
  /\ UNCHANGED <<inputVars, body, indexed>>

RefuseToken == AtToken /\ Readings = {} /\ Refuse

\* Only the suffix of an alias may end with the text.
EndOfHeader ==
  /\ step = "header" /\ Peek = "eof"
  /\ IF Head(goals) = "suffix" THEN FinishAlias(offset) ELSE Refuse

\* The initializer of a global variable or constant.
SkipInitializer ==
  /\ step = "line"
  /\ Scan(LineEnd)
  /\ UNCHANGED indexed

-----------------------------------------------------------------------------
(* Bodies: skip_body, one atom at a time.                                  *)

Nested(depth, atom) ==
  CASE atom = "{" -> depth + 1 [] atom = "}" -> depth - 1 [] OTHER -> depth

\* Mutant of InBody: an escape is always two digits.
InBodyUnpaired(b, atom) ==
  CASE b.comment -> {[b EXCEPT !.comment = atom # "newline"]}
    [] b.digits > 0 -> {[b EXCEPT !.digits = @ - 1] : x \in {atom} \cap HexDigits}
    [] b.quoted /\ b.digits = 0 ->
         {[b EXCEPT !.quoted = x # "quote", !.digits = IF x = "backslash" THEN 2 ELSE 0] :
            x \in {atom} \ {"newline"}}
    [] OTHER -> {[b EXCEPT !.comment = atom = ";", !.quoted = atom = "quote",
                           !.depth = Nested(@, atom)]}

\* Mutant of InBody: braces in comments count.
InBodyUncommented(b, atom) ==
  CASE b.digits > 0 ->
         IF b.digits = 2 /\ atom = "backslash" THEN {[b EXCEPT !.digits = 0]}
         ELSE {[b EXCEPT !.digits = @ - 1] : x \in {atom} \cap HexDigits}
    [] b.quoted /\ b.digits = 0 ->
         {[b EXCEPT !.quoted = x # "quote", !.digits = IF x = "backslash" THEN 2 ELSE 0] :
            x \in {atom} \ {"newline"}}
    [] OTHER -> {[b EXCEPT !.quoted = atom = "quote", !.depth = Nested(@, atom)]}

\* The state after one more atom; none if the atom is refused.  Only quoted text
\* has escapes, and only code has comments.
InBody(b, atom) ==
  CASE b.comment -> {[b EXCEPT !.comment = atom # "newline"]}
    [] b.digits > 0 ->
         IF b.digits = 2 /\ atom = "backslash" THEN {[b EXCEPT !.digits = 0]}
         ELSE {[b EXCEPT !.digits = @ - 1] : x \in {atom} \cap HexDigits}
    [] b.quoted /\ b.digits = 0 ->
         {[b EXCEPT !.quoted = x # "quote", !.digits = IF x = "backslash" THEN 2 ELSE 0] :
            x \in {atom} \ {"newline"}}
    [] OTHER -> {[b EXCEPT !.comment = atom = ";", !.quoted = atom = "quote",
                           !.depth = Nested(@, atom)]}

NextBodies == IF Peek = "eof" THEN {} ELSE InBody(body, Peek)

SkipBody ==
  /\ step = "body"
  /\ \E b \in NextBodies :
       /\ b.depth > 0
       /\ body' = b
  /\ offset' = offset + 1
  /\ UNCHANGED <<inputVars, step, goals, entry, indexed>>

EndBody ==
  /\ step = "body"
  /\ \E b \in NextBodies : b.depth = 0
  /\ IF entry.symbol # <<>>
       THEN /\ indexed' = Append(indexed, Record(entry.symbol, offset + 1))
            /\ Scan(offset + 1)
       ELSE Refuse

RefuseBody == step = "body" /\ NextBodies = {} /\ Refuse

Ended == step \in {"end", "refused"} /\ UNCHANGED scanVars

ScanNext ==
  \/ SkipWhitespace \/ BeginGlobal \/ BeginFunction \/ SkipLine \/ EndScan
  \/ SkipBlank \/ ReadToken \/ RefuseToken \/ EndOfHeader \/ SkipInitializer
  \/ SkipBody \/ EndBody \/ RefuseBody
  \/ Ended

ScanSpec == ScanInit /\ [][ScanNext]_scanVars

-----------------------------------------------------------------------------
Kinds == {"function", "direct", "expression", "ifunc"}

ScanTypeOK ==
  /\ items \in Seq(Items)
  /\ step \in {"scan", "header", "line", "body", "end", "refused"}
  /\ offset \in 0 .. Len(text)
  /\ entry.kind \in Kinds \cup {"none", "global"}
  /\ entry.from \in 0 .. offset
  /\ body \in [depth : Nat \ {0}, quoted : BOOLEAN, comment : BOOLEAN, digits : 0 .. 2]
  /\ \A d \in ToSet(indexed) : d.kind \in Kinds /\ d.from < d.to
  /\ step = "header" => goals # <<>>

\* "An active header budget bounds tokens and delimiter stacks" (stream.rs):
\* every bracket that is open cost an atom of the header, blanks and comments
\* count as well, and no indexed name outgrows the budget, whatever the text.
HeadersAreBounded ==
  /\ step = "header" =>
       /\ offset - entry.from <= HeaderLimit
       /\ Len(goals) <= offset - entry.from + 3
  /\ \A d \in ToSet(indexed) : Len(d.symbol) + Len(d.target) < HeaderLimit

\* What the items define, in order, whatever the lengths of their headers.
DefinitionOf(k) ==
  [kind |-> items[k].kind, from |-> Start(k), to |-> Start(k) + items[k].length,
   symbol |-> items[k].symbol, target |-> items[k].target]
DefinitionsOf(ks) ==
  LET order == SetToSortSeq({k \in ks : items[k].kind \in Kinds}, LAMBDA j, k : j < k)
  IN  [n \in DOMAIN order |-> DefinitionOf(order[n])]
Promised == DefinitionsOf(DOMAIN items)

IsCut == Len(text) < Len(Whole)

\* The index of a whole text has its definitions, each with its decoded name and
\* target and the exact range of its text, in order; only a header over budget
\* is refused, and then nothing after it is indexed.
IndexIsExact ==
  LET long == {k \in DOMAIN items : items[k].header > HeaderLimit}
  IN  ~IsCut /\ step \in {"end", "refused"} =>
        /\ step = "end" <=> long = {}
        /\ indexed =
             DefinitionsOf({k \in DOMAIN items : \A j \in long : k < j})

\* Whatever is missing at the end of a text, no function is indexed with less
\* than its whole body: at most the last alias is, up to the end of the text.
\* What precedes the cut is found as if there were none.
CutIsNoticed ==
  /\ Len(indexed) <= Len(Promised)
  /\ \A k \in DOMAIN indexed :
       \/ indexed[k] = Promised[k]
       \/ /\ IsCut /\ k = Len(indexed)
          /\ Promised[k].kind # "function"
          /\ indexed[k].from = Promised[k].from
          /\ indexed[k].to = Len(text) /\ Len(text) < Promised[k].to
  /\ step = "end" =>
       \A k \in DOMAIN Promised : Promised[k].to <= Len(text) => k <= Len(indexed)
=============================================================================
