----------------------------- MODULE MCWorkflow ------------------------------
(* Workflow trees for TLC.  Nodes are numbered top down; a tree is a table   *)
(* of [kind, kids, run, limit, claims].                                      *)
EXTENDS Workflow

N(kind, kids, run, limit, claims) ==
  [kind |-> kind, kids |-> kids, run |-> run, limit |-> limit, claims |-> claims]
Act(run, claims) == N("Action", <<>>, run, 0, claims)

Reach(tree) ==
  LET B[n \in DOMAIN tree] ==
        UNION {{tree[n].kids[k]} \union B[tree[n].kids[k]] : k \in DOMAIN tree[n].kids}
  IN  B

\* Two runs that compete for two devices: one under a timeout, with branches that
\* also compete with each other; one that retries and may panic.
DeviceTree ==
  << N("Timeout", <<2>>, 1, 0, <<>>), N("Parallel", <<3, 4>>, 1, 0, <<>>),
       Act(1, <<"x", "y">>), Act(1, <<"y">>),
     N("Retry", <<6>>, 5, 2, <<>>), Act(5, <<"x", "y">>) >>
DeviceKind   == [n \in Nodes |-> DeviceTree[n].kind]
DeviceKids   == [n \in Nodes |-> DeviceTree[n].kids]
DeviceRun    == [n \in Nodes |-> DeviceTree[n].run]
DeviceLimit  == [n \in Nodes |-> DeviceTree[n].limit]
DeviceClaims == [n \in Nodes |-> DeviceTree[n].claims]
DeviceBelow  == [n \in Nodes |-> Reach(DeviceTree)[n]]

\* Every kind of node in one run; the other runs are a dry run and one that its
\* policy may cancel.
ControlTree ==
  << N("Seq", <<12, 2>>, 1, 0, <<>>),
       N("While", <<3>>, 1, 2, <<>>),
         N("Parallel", <<4, 7>>, 1, 0, <<>>),
           N("Timeout", <<5>>, 1, 0, <<>>), N("If", <<6>>, 1, 0, <<>>), Act(1, <<>>),
           N("Retry", <<8>>, 1, 2, <<>>),
             N("Timeout", <<9>>, 1, 0, <<>>), N("If", <<10, 11>>, 1, 0, <<>>),
               Act(1, <<>>), Act(1, <<>>),
       N("Seq", <<>>, 1, 0, <<>>),
     N("ForEach", <<14>>, 13, 2, <<>>), N("Seq", <<15, 16>>, 13, 0, <<>>),
       N("Wait", <<>>, 13, 0, <<>>), Act(13, <<>>) >>
ControlKind   == [n \in Nodes |-> ControlTree[n].kind]
ControlKids   == [n \in Nodes |-> ControlTree[n].kids]
ControlRun    == [n \in Nodes |-> ControlTree[n].run]
ControlLimit  == [n \in Nodes |-> ControlTree[n].limit]
ControlClaims == [n \in Nodes |-> ControlTree[n].claims]
ControlBelow  == [n \in Nodes |-> Reach(ControlTree)[n]]

\* All triggered runs use the pool of the scheduler.
OnePool == [r \in Roots |-> "scheduler"]

=============================================================================
