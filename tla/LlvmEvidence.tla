----------------------------- MODULE LlvmEvidence -----------------------------
(***************************************************************************)
(* llvm_evidence of cargo-optic-evidence: the standalone bodies that a     *)
(* completed capture holds for one instance.  Every module is searched for *)
(* the instance's raw symbol; a direct alias is followed within its module *)
(* only.  One step is one iteration of resolve_module's loop.              *)
(*                                                                         *)
(* LLVM itself allows neither cycles of aliases nor aliases to what is not *)
(* defined in the module, but the records do, and any records may be read. *)
(***************************************************************************)
EXTENDS Naturals, SequencesExt

CONSTANTS
  ModuleCount,  \* the capture's modules, numbered in the order of their names
  RawSymbol,    \* the instance's symbol
  OtherSymbols  \* the other symbols of the modules

Modules == 1 .. ModuleCount
Symbols == {RawSymbol} \cup OtherSymbols

ASSUME EvidenceAssumption ==
  ModuleCount \in Nat /\ RawSymbol \notin OtherSymbols /\ IsFiniteSet(OtherSymbols)

VARIABLES
  collected,    \* whether the capture has LLVM at all
  stored,       \* the modules in the order of the manifest
  definitions,  \* what each module defines each symbol as
  position,     \* how many of the stored modules have been resolved
  symbol,       \* the symbol looked up next in the following one
  visited,      \* the symbols looked up in it
  aliases,      \* the aliases that led to symbol
  bodies,       \* the bodies found
  unsupported,  \* whether a module ended in an unsupported alias
  answer        \* the answer

captureVars == <<collected, stored, definitions>>
moduleVars == <<position, symbol, visited, aliases>>
vars == <<captureVars, moduleVars, bodies, unsupported, answer>>

\* Expression aliases and ifuncs are both unsupported.
Definitions ==
  [kind : {"absent", "function", "unsupported"}] \cup
  [kind : {"alias"}, target : Symbols]

TypeOK ==
  /\ collected \in BOOLEAN
  /\ stored \in SetToSeqs(Modules)
  /\ definitions \in [Modules -> [Symbols -> Definitions]]
  /\ position \in 0 .. ModuleCount
  /\ symbol \in Symbols
  /\ visited \subseteq Symbols
  /\ aliases \in Seq(Symbols)
  /\ bodies \in Seq([module : Modules, symbol : Symbols, aliases : Seq(Symbols)])
  /\ unsupported \in BOOLEAN
  /\ answer \in {"none", "available", "not captured", "no exact definition",
                 "unsupported alias", "cycle"}

Init ==
  /\ collected \in BOOLEAN
  /\ stored \in SetToSeqs(Modules)
  /\ definitions \in [Modules -> [Symbols -> Definitions]]
  /\ position = 0
  /\ symbol = RawSymbol /\ visited = {} /\ aliases = <<>>
  /\ bodies = <<>>
  /\ unsupported = FALSE
  /\ answer = "none"

-----------------------------------------------------------------------------
Module == stored[position + 1]
Definition == definitions[Module][symbol]

Resolving == answer = "none" /\ collected /\ position < ModuleCount

Cyclic == symbol \in visited

\* An iteration that finds the symbol not visited yet.
LookUp(kind) == Resolving /\ ~Cyclic /\ Definition.kind = kind

\* Mutant of EndModule: what was visited in one module counts in the next.
KeepVisited ==
  /\ position' = position + 1
  /\ symbol' = RawSymbol /\ visited' = visited \cup {symbol} /\ aliases' = <<>>
  /\ UNCHANGED <<captureVars, answer>>

\* resolve_module returns, and is called with the next module.
EndModule ==
  /\ position' = position + 1
  /\ symbol' = RawSymbol /\ visited' = {} /\ aliases' = <<>>
  /\ UNCHANGED <<captureVars, answer>>

MissDefinition ==
  /\ LookUp("absent")
  /\ EndModule
  /\ UNCHANGED <<bodies, unsupported>>

FindBody ==
  /\ LookUp("function")
  /\ bodies' =
       Append(bodies, [module |-> Module, symbol |-> symbol, aliases |-> aliases])
  /\ EndModule
  /\ UNCHANGED unsupported

MeetUnsupported ==
  /\ LookUp("unsupported")
  /\ unsupported' = TRUE
  /\ EndModule
  /\ UNCHANGED bodies

FollowAlias ==
  /\ LookUp("alias")
  /\ symbol' = Definition.target
  /\ visited' = visited \cup {symbol}
  /\ aliases' = Append(aliases, symbol)
  /\ UNCHANGED <<captureVars, position, bodies, unsupported, answer>>

Answer(a) == answer' = a /\ UNCHANGED <<captureVars, moduleVars, unsupported>>

\* A cycle fails the whole query.
RefuseCycle ==
  /\ Resolving /\ Cyclic
  /\ Answer("cycle")
  /\ UNCHANGED bodies

ReportNotCaptured ==
  /\ answer = "none" /\ ~collected
  /\ Answer("not captured")
  /\ UNCHANGED bodies

\* The order of the modules' names; a module has one body at most.
Rank(s, i) == Cardinality({j \in DOMAIN s : s[j].module <= s[i].module})

ByModule(s) == [k \in DOMAIN s |-> s[CHOOSE i \in DOMAIN s : Rank(s, i) = k]]

\* Every module contributed.
Conclude ==
  /\ answer = "none" /\ collected /\ position = ModuleCount
  /\ bodies' = ByModule(bodies)
  /\ Answer(IF bodies # <<>> THEN "available"
            ELSE IF unsupported THEN "unsupported alias" ELSE "no exact definition")

Terminated == answer # "none" /\ UNCHANGED vars

Next ==
  \/ ReportNotCaptured
  \/ MissDefinition \/ FindBody \/ MeetUnsupported \/ FollowAlias \/ RefuseCycle
  \/ Conclude
  \/ Terminated

Spec == Init /\ [][Next]_vars

-----------------------------------------------------------------------------
\* The paths of length n from the instance's symbol along a module's aliases.
Paths(m, n) ==
  {p \in [1 .. n -> Symbols] :
     /\ p[1] = RawSymbol
     /\ \A k \in 1 .. n - 1 :
          LET d == definitions[m][p[k]] IN d.kind = "alias" /\ d.target = p[k + 1]}

EndsIn(m, kind) ==
  {p \in UNION {Paths(m, n) : n \in 1 .. Cardinality(Symbols)} :
     definitions[m][Last(p)].kind = kind}

Bodies(m) == {[module |-> m, symbol |-> Last(p), aliases |-> Front(p)] :
                p \in EndsIn(m, "function")}

\* A path that is longer than there are symbols runs in a circle.
Circular(m) == Paths(m, Cardinality(Symbols) + 1) # {}

\* The answer is what the definitions say of the symbol, whatever the order of
\* the modules: a cycle that the symbol leads into in any of them fails the
\* query; otherwise every path to a function gives that module's body with the
\* aliases on the way, in the order of the modules; an unsupported alias counts
\* only if there is no body.
AnswerIsExact ==
  answer # "none" =>
    LET found == UNION {Bodies(m) : m \in Modules}
    IN  /\ answer = (IF ~collected THEN "not captured"
                     ELSE IF \E m \in Modules : Circular(m) THEN "cycle"
                     ELSE IF found # {} THEN "available"
                     ELSE IF \E m \in Modules : EndsIn(m, "unsupported") # {}
                       THEN "unsupported alias"
                     ELSE "no exact definition")
        /\ answer = "available" =>
             /\ ToSet(bodies) = found
             /\ \A j, k \in DOMAIN bodies :
                  j < k => bodies[j].module < bodies[k].module
=============================================================================
