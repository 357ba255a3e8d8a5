------------------------------ MODULE MCLlvmIndex ------------------------------
(***************************************************************************)
(* LlvmIndex on the texts that a small printer makes: every item is built  *)
(* from its parts, so that what it defines is known without parsing it.    *)
(***************************************************************************)
EXTENDS LlvmIndex

\* A name and its spellings.
Spellings ==
  {[name |-> <<"f">>, text |-> <<"@", "f">>],
   [name |-> <<"f">>, text |-> <<"@", "quote", "f", "quote">>],
   [name |-> <<"{", "quote">>,
    text |-> <<"@", "quote", "{", "backslash", "2", "2", "quote">>],
   [name |-> <<"backslash">>,
    text |-> <<"@", "quote", "backslash", "backslash", "quote">>]}
Plain == CHOOSE s \in Spellings : Len(s.text) = 2

Item(kind, name, target, header, rest, length) ==
  [kind |-> kind, symbol |-> name, target |-> target, text |-> header \o rest,
   header |-> Len(header), length |-> length]

\* A type, a name, arguments and attributes; the brace ends the header.
Function(type, s, attributes, code) ==
  LET header == <<"define", "space">> \o type \o s.text \o <<"(", "ptr", ")">>
                \o attributes \o <<"{">>
  IN  Item("function", s.name, <<>>, header, code \o <<"}", "newline">>,
           Len(header) + Len(code) + 1)

Types == {<<"void", "space">>, <<"{", "ptr", "}">>}
Attributes ==
  {<<>>, <<";", "{", "newline">>, <<"section", "quote", "{", "quote">>,
   <<"personality", "space", "ptr", "space">> \o Plain.text,
   <<"prefix", "[", "1", "]", "{", "c", "quote", "}", "quote", "}">>,
   <<"prologue", "space", "ptr", "space", "getelementptr", "space", "inbounds",
     "(", "@", "f", ")", "!", "{", "}">>}
Code ==
  {<<>>, <<"{", "}">>, <<";", "}", "quote", "newline">>,
   <<"quote", "}", "backslash", "2", "2", "quote">>,
   <<"quote", "backslash", "backslash", "quote">>}

Functions ==
  {Function(<<"void", "space">>, Plain, a, c) : a \in Attributes, c \in Code} \cup
  {Function(t, s, <<>>, <<>>) : t \in Types, s \in Spellings}

\* The whole line is the header of an alias.
Alias(keyword, kind, s, target, operand) ==
  LET line == s.text \o <<"=", "space", "weak", "space", keyword, "space", "void", "(", ")", ",">>
              \o operand \o <<"newline">>
  IN  Item(kind, s.name, target, line, <<>>, Len(line))

Aliases ==
  {Alias("alias", "direct", Plain, s.name, <<"ptr", "space">> \o s.text) : s \in Spellings} \cup
  {Alias("alias", "direct", s, Plain.name, <<"ptr", "addrspace", "(", "1", ")">> \o Plain.text \o
           <<",", "partition", "quote", "quote">>) : s \in Spellings} \cup
  {Alias("alias", "expression", Plain, <<>>, <<"ptr", "space", "no_cfi", "space", "@", "f">>),
   Alias("alias", "expression", Plain, <<>>, <<"inttoptr", "(", "1", ")">>),
   Alias("ifunc", "ifunc", Plain, <<>>, <<"ptr", "space", "@", "f", ",", "!", "{", "}">>)}

Global(keyword, rest) ==
  Item("global", <<>>, <<>>, <<"@", "f", "=", "addrspace", "(", "1", ")", keyword>>,
       rest \o <<"newline">>, 0)
Line(s) == Item("line", <<>>, <<>>, <<>>, s \o <<"newline">>, 0)

Others ==
  {Global("global", <<"{", "quote", "@", "quote">>), Global("constant", <<>>),
   Line(<<>>), Line(<<"d">>), Line(<<"define", "f">>), Line(<<";", "define", "space">>),
   Line(<<"module", "space", "quote", "define", "quote">>)}

MCItems == Functions \cup Aliases \cup Others
=============================================================================
