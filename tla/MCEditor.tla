------------------------------- MODULE MCEditor -------------------------------
(* The editor for TLC: two macros in the file, a third that the user may     *)
(* add, and another program that may change them all, or write garbage.      *)
EXTENDS Editor

Triggered == << <<"ctrl-a">>, <<"ctrl-a", "ctrl-b">> >>
Kind == [t \in Triggers |-> "Hotkey"]

M(i, b) == [id |-> i, enabled |-> TRUE, body |-> b]
Start == <<M("a", 1), M("b", 1)>>
Written == { {<<M("b", 2), M("n", 1)>>}, {} }

=============================================================================
