------------------------------- MODULE MCEngine -------------------------------
(* The engine for TLC: two hotkeys and a window trigger; bodies with none,   *)
(* two of different kinds, and one hotkey under a constraint.                *)
EXTENDS EngineClient

Triggered == << <<>>, <<"ctrl-a", "focus">>, <<"ctrl-b">> >>
Kind == [t \in Triggers |-> IF t = "focus" THEN "WindowFocus" ELSE "Hotkey"]

M(i, on, b) == [id |-> i, enabled |-> on, body |-> b]

Commands ==
  [op : {"AddMacro", "UpdateMacro"}, m : {M("a", TRUE, 1), M("a", TRUE, 2), M("a", TRUE, 3), M("b", FALSE, 2)}]
    \union [op : {"DeleteMacro", "TriggerManually"}, id : {"a"}]
    \union [op : {"DryRunMacro"}, id : {"b"}]
    \union [op : {"SetEnabled"}, id : {"b"}, enabled : {TRUE}]
    \union [op : {"Shutdown"}]

=============================================================================
