-------------------------- MODULE MC_DebugCatParam --------------------------
(* Three categories; attribute strings that enable one or several, none   *)
(* ('#', or the empty string), all ('*'), an unknown character, and a     *)
(* '#' or '*' after other shortcuts.                                       *)
EXTENDS DebugCatParam

MCShortcuts == <<"a", "b", "c">>
MCInputs == {<<>>, <<"a">>, <<"b", "c">>, <<"#">>, <<"*">>, <<"a", "x">>,
             <<"c", "#", "a">>, <<"a", "*">>}
MCInitialValue == <<"a">>
=============================================================================
