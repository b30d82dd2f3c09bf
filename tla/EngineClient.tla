----------------------------- MODULE EngineClient -----------------------------
(***************************************************************************)
(* The engine of Engine.tla with the clients that an EngineHandle and an   *)
(* EventSink allow: any command and any event may be sent at any time.     *)
(***************************************************************************)
EXTENDS Engine

CONSTANTS
  Sendable,    (* the commands the client sends                             *)
  Emitted,     (* the events the hooks emit                                 *)
  MaxSends     (* bound: so many commands and events are sent               *)

ASSUME ClientAssumption ==
  /\ Sendable \subseteq Command
  /\ Emitted \subseteq Triggers
  /\ MaxSends \in Nat

VARIABLE sent
vars == <<evars, sent>>

Init == EngineInit /\ sent = 0

\* EngineHandle::send, fire and forget.
Send(c) ==
  /\ sent < MaxSends
  /\ cmds' = Append(cmds, c)
  /\ sent' = sent + 1
  /\ UNCHANGED <<router, events, inline, up, batch>>

\* A hook provider sends to the EventSink.
Emit(t) ==
  /\ sent < MaxSends
  /\ events' = Append(events, t)
  /\ sent' = sent + 1
  /\ UNCHANGED <<router, cmds, inline, up, batch>>

\* The engine waits for the next command or event, or has stopped.
Waiting ==
  /\ sent = MaxSends
  /\ ~up \/ (cmds = <<>> /\ events = <<>>)
  /\ UNCHANGED vars

Next ==
  \/ \E c \in Sendable : Send(c)
  \/ \E t \in Emitted : Emit(t)
  \/ (TakeCommand \/ InlineReturns \/ DispatchEvent) /\ UNCHANGED sent
  \/ Waiting

Spec == Init /\ [][Next]_vars

\* The engine thread runs, select picks at random among the channels that are
\* ready, and workflows are assumed to return.
FairSpec ==
  /\ Spec
  /\ WF_vars(TakeCommand /\ UNCHANGED sent)
  /\ WF_vars(InlineReturns /\ UNCHANGED sent)
  /\ WF_vars(DispatchEvent /\ UNCHANGED sent)

TypeOK == EngineTypeOK /\ sent \in 0..MaxSends

(* stop() joins the engine thread: the Shutdown it sends is always read,   *)
(* also behind other commands and manual runs, and ends the loop.          *)
ShutdownCompletes ==
  (\E j \in DOMAIN cmds : cmds[j].op = "Shutdown") ~> ~up

=============================================================================
