------------------------------ MODULE MCActions -------------------------------
(* Workflow trees of library actions for TLC, numbered top down: a node is   *)
(* [kind, kids, run, limit, job, body].                                      *)
EXTENDS Actions

N(kind, kids, run, limit) ==
  [kind |-> kind, kids |-> kids, run |-> run, limit |-> limit, job |-> "plain", body |-> <<>>]
A(run, job, body) ==
  [kind |-> "Action", kids |-> <<>>, run |-> run, limit |-> 0, job |-> job, body |-> body]

\* Two scripts that write the same variables side by side, then somebody types, takes the
\* focus, and is refused an interaction; another run takes the focus, retries an
\* interaction that fails, or is late, or sends its keys amid what the first run types,
\* or after the first run has taken the focus, and sets a variable.
Tree ==
  << N("Seq", <<2, 5, 6, 7>>, 1, 0),
       N("Parallel", <<3, 4>>, 1, 0), A(1, "script", <<"a", "b">>), A(1, "script", <<"b", "a">>),
       A(1, "type", <<1, 2>>), A(1, "interact", <<>>), A(1, "interact", <<>>),
     N("Seq", <<9, 10, 13>>, 8, 0),
       A(8, "interact", <<>>),
       N("Retry", <<11>>, 8, 2), N("Timeout", <<12>>, 8, 0), A(8, "interact", <<>>),
       A(8, "set", <<"a">>) >>

TKind   == [n \in Nodes |-> Tree[n].kind]
TKids   == [n \in Nodes |-> Tree[n].kids]
TRun    == [n \in Nodes |-> Tree[n].run]
TLimit  == [n \in Nodes |-> Tree[n].limit]
TClaims == [n \in Nodes |-> <<>>]
TJob    == [n \in Nodes |-> Tree[n].job]
TBody   == [n \in Nodes |-> Tree[n].body]

\* The last node of the subtree of a node.
Last   == <<7, 4, 3, 4, 5, 6, 7, 13, 9, 12, 12, 12, 13>>
TBelow == [n \in Nodes |-> (n + 1)..Last[n]]

OnePool == [r \in Roots |-> "scheduler"]

\* The backends for windows, in the order of their registration: UI Automation and the
\* keys and clicks of SendInput.
WindowBackends ==
  << [tier |-> 2, ops |-> {"Click", "SetText", "Focus"}],
     [tier |-> 1, ops |-> {"Click", "SetText", "SendKeys"}] >>

Asked     == [n \in Nodes |-> IF n = 12 THEN "SetText" ELSE "Focus"]
Fallbacks == [n \in Nodes |-> CASE n = 6 -> "Queue" [] n = 9 -> "Fail" [] OTHER -> "Degrade"]

\* The first run may interact, but not take the foreground.
Grants == [r \in Roots |-> IF r = 1 THEN Permission \ {"ForegroundTakeover"} ELSE Permission]

=============================================================================
