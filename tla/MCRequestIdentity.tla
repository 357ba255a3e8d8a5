------------------------- MODULE MCRequestIdentity -------------------------
(***************************************************************************)
(* RequestIdentity on one workspace of two packages.  Calls vary around a  *)
(* usual one: a first call in one field, a second one in two.              *)
(***************************************************************************)
EXTENDS RequestIdentity

Letters == [c \in {"a", "b"} |-> IF c = "a" THEN 1 ELSE 2]

Target(name, kinds) == [name |-> name, kinds |-> kinds]

Package(name, version) ==
  [name |-> name, version |-> version, id |-> name \o <<"@">> \o version,
   targets |-> <<Target(<<"p">>, {"bin"}), Target(<<"x">>, {"bin"}),
                 Target(<<"x">>, {"example"}), Target(<<"x">>, {"bench"}),
                 Target(<<"p">>, {"rlib", "cdylib"})>>]

Members(version) == <<Package(<<"q">>, <<"1">>), Package(<<"p">>, version)>>

UsualOptions ==
  [entry |-> "cli", package |-> <<"p">>, release |-> TRUE, profile |-> Unset,
   target |-> "lib", second |-> "none", name |-> NoText,
   features |-> <<<<"a", ",", "b">>>>, all |-> FALSE, noDefault |-> FALSE]

UsualMachine ==
  [cargoVar |-> Unset,
   path |-> <<<<"/", "u">>, <<"/", "v">>>>,
   executables |-> {<<"/", "v", "cargo">>, <<"/", "w", "cargo">>},
   links |-> [p \in {<<"/", "l">>, <<"/", "k">>} |->
              IF p = <<"/", "l">> THEN <<"/", "h">> ELSE <<"/", "w">>],
   cargoHome |-> Unset, home |-> <<"/", "h">>,
   directory |-> <<"/", "w">>, root |-> <<"/", "w">>, members |-> Members(<<"1">>),
   targetDirectory |-> <<"/", "t">>, buildDirectory |-> Unset,
   cargoVersion |-> <<"1">>, compiler |-> <<"1">>, config |-> <<>>,
   rustc |-> Unset, buildRustc |-> Unset, wrapper |-> Unset, buildWrapper |-> Unset,
   workspaceWrapper |-> Unset, buildWorkspaceWrapper |-> Unset]

\* The other values of a field, or of two fields that only vary together.
OptionChanges ==
  {[entry |-> "api"], [release |-> FALSE], [all |-> TRUE], [noDefault |-> TRUE],
   [second |-> "bin"], [target |-> "none"]}
  \cup [package : {<<"q">>, <<"r">>, NoText}]
  \cup [release : {FALSE}, profile : {<<"release">>, <<"dev">>, NoText}]
  \cup [target : {"bin"}, name : {<<"p">>, <<"x">>, <<"y">>, NoText}]
  \cup [target : {"example", "bench"}, name : {<<"x">>}]
  \cup [features : {<<>>, <<<<"a">>>>, <<<<"b">>, <<"a">>>>, <<<<"b", " ", "a">>>>,
                    <<<<"a", "b">>>>, <<<<"a", ",", "b", ",", "a">>>>,
                    <<<<"a", ",", ",", "b">>>>, <<<<" ">>>>, <<NoText>>}]

\* What configuration files may say: some entries with any of these values.
Files(entries, values) == UNION {[S -> values] : S \in SUBSET entries}

MachineChanges ==
       [cargoVar : {NoText, <<"/", "v", "cargo">>, <<"/", "c">>, <<"c">>, <<"v", "cargo">>}]
  \cup [path : {<<>>, <<NoText>>, <<<<"u">>, <<"/", "w">>>>}]
  \cup [executables : {{<<"/", "u", "cargo">>, <<"/", "v", "cargo">>, <<"/", "v", "c">>}}]
  \cup [cargoHome : {NoText, <<"/", "h", ".cargo">>, <<"/", "l">>, <<"/", "h">>, <<"h">>,
                     <<"/", "h", ".cargo", "1">>}]
  \cup [home : {Unset, <<"/", "g">>}]
  \cup [directory : {<<"/", "w", "p">>, <<"/", "k">>, <<"w">>}]
  \cup [root : {<<"/">>, <<"/", "w", "4">>}]
  \cup [members : {Members(<<"2">>)}]
  \cup [targetDirectory : {<<"/", "b">>}]
  \cup [buildDirectory : {<<"/", "t">>, <<"/", "b">>}]
  \cup [cargoVersion : {<<"2">>, <<"1", "1">>}]
  \cup [compiler : {<<"2">>}]
  \cup [config : Files({"wrapper", "workspaceWrapper"}, {NoText, <<"s">>})
                  \cup Files({"rustc"}, {<<"r">>})]
  \cup [rustc : {NoText, <<"r">>}] \cup [buildRustc : {<<"r">>}]
  \cup [wrapper : {NoText, <<"s">>}] \cup [buildWrapper : {NoText, <<"s">>}]
  \cup [workspaceWrapper : {NoText, <<"s">>}]
  \cup [buildWorkspaceWrapper : {NoText, <<"s">>}]

Changed(usual, change) ==
  [f \in DOMAIN usual |-> IF f \in DOMAIN change THEN change[f] ELSE usual[f]]

Once(usual, changes) == {usual} \cup {Changed(usual, c) : c \in changes}
Twice(usual, changes) ==
  UNION {Once(once, changes) : once \in Once(usual, changes)}

Options1 == Once(UsualOptions, OptionChanges)
Machines1 == Once(UsualMachine, MachineChanges)

OneChange == [options : Options1, machine : {UsualMachine}]
             \cup [options : {UsualOptions}, machine : Machines1]

TwoChanges == [options : Options1, machine : Machines1]
              \cup [options : Twice(UsualOptions, OptionChanges), machine : {UsualMachine}]
              \cup [options : {UsualOptions}, machine : Twice(UsualMachine, MachineChanges)]
=============================================================================
