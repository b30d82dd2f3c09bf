---------------------------- MODULE MCTreeEditor -----------------------------
(* Trees for TLC: what a file may hold, with every kind of node.             *)
EXTENDS TreeEditor

N(kind, id, kids) == Node(kind, id, kids)
Act(id)  == Node("Action", id, <<>>)
Leaf(id) == Node("Leaf", id, <<>>)

NoFlow == N("Seq", 1, <<>>)
NoCond == N("Always", 1, <<>>)

\* An If with both branches between two actions, and a Parallel.
Branches ==
  N("Seq", 1, << N("If", 2, <<N("Seq", 3, <<Act(4), Act(5)>>), N("While", 6, <<Act(7)>>)>>),
                 N("Parallel", 8, <<N("Seq", 9, <<Act(10)>>), Act(11)>>) >>)

\* A root that is not a Seq; bodies in bodies; a ForEach behind them.
Nested ==
  N("Parallel", 1, << N("Retry", 2, <<N("Timeout", 3, <<N("Seq", 4, <<Act(5), Act(6)>>)>>)>>),
                      N("Wait", 7, <<>>),
                      N("ForEach", 8, <<N("Seq", 9, <<Act(10), Act(11)>>)>>),
                      Act(12) >>)

Groups ==
  N("All", 1, << N("Not", 2, <<N("Any", 3, <<Leaf(4), Leaf(5)>>)>>),
                 N("Any", 6, <<N("All", 7, <<Leaf(8)>>), Leaf(9)>>) >>)

Denied == N("Not", 1, <<N("All", 2, <<Leaf(3), N("Not", 4, <<Leaf(5)>>)>>)>>)

\* A behaviour is about one of the trees; the other one is what a new macro has.
Macro(w, c) == [workflow |-> w, constraints |-> c]
OneTree == {Macro(w, NoCond) : w \in {Branches, Nested}} \union {Macro(NoFlow, c) : c \in {Groups, Denied}}

\* A loop with a body of two actions, before other actions.
ForEachFirst ==
  N("Seq", 1, << N("ForEach", 2, <<N("Seq", 3, <<Act(4), Act(5)>>)>>), Act(6), Act(7), Act(8) >>)
WithLoop == {Macro(ForEachFirst, NoCond)}

=============================================================================
