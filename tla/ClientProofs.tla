----------------------------- MODULE ClientProofs -----------------------------
(***************************************************************************)
(* The engine with any client and any hook: what EngineProofs says of each *)
(* step of the engine thread holds along every history of EngineClient.    *)
(***************************************************************************)
EXTENDS EngineClient, EngineProofs

LEMMA InitTypeOK == Init => TypeOK
BY ClientAssumption DEF Init, EngineInit, NoIndex, TypeOK, EngineTypeOK

LEMMA TypeStep == TypeOK /\ [Next]_vars => TypeOK'
<1> SUFFICES ASSUME TypeOK, [Next]_vars PROVE TypeOK'
  OBVIOUS
<1>1. ASSUME NEW c \in Sendable, Send(c) PROVE TypeOK'
  <2>1. c \in Command
    BY ClientAssumption
  <2> QED
    BY <1>1, <2>1, ClientAssumption DEF Send, TypeOK, EngineTypeOK, router
<1>2. ASSUME NEW t \in Emitted, Emit(t) PROVE TypeOK'
  <2>1. t \in Triggers
    BY ClientAssumption
  <2> QED
    BY <1>2, <2>1, ClientAssumption DEF Emit, TypeOK, EngineTypeOK, router
<1>3. CASE (TakeCommand \/ InlineReturns \/ DispatchEvent) /\ UNCHANGED sent
  BY <1>3, EngineTypeStep DEF TypeOK
<1>4. CASE UNCHANGED vars
  BY <1>4 DEF vars, evars, TypeOK, EngineTypeOK
<1> QED
  BY <1>1, <1>2, <1>3, <1>4 DEF Next, Waiting

(* TypeOK holds in every reachable state: whatever is sent, the router     *)
(* keeps at most one macro for an id, under its own id, and counts.        *)
THEOREM TypeCorrect == Spec => []TypeOK
<1>1. Init => TypeOK
  BY InitTypeOK
<1>2. TypeOK /\ [Next]_vars => TypeOK'
  BY TypeStep
<1> QED
  BY <1>1, <1>2, PTL DEF Spec

-----------------------------------------------------------------------------
(* The index.                                                              *)

\* Clients leave the router alone.
LEMMA NextForTheRouter ==
  ASSUME [Next]_vars
  PROVE  RouterStep
BY DEF Next, Send, Emit, Waiting, vars, evars, router, RouterStep

LEMMA InitComplete == Init => IndexComplete
BY DEF Init, EngineInit, IndexComplete

LEMMA CompleteAlways == Spec => [](TypeOK /\ IndexComplete)
<1>1. Init => TypeOK /\ IndexComplete
  BY InitTypeOK, InitComplete
<1>2. (TypeOK /\ IndexComplete) /\ [Next]_vars => (TypeOK /\ IndexComplete)'
  BY TypeStep, CompleteStep, NextForTheRouter DEF TypeOK
<1> QED
  BY <1>1, <1>2, PTL DEF Spec

LEMMA OnlyDispatchTakesEvents ==
  ASSUME EngineTypeOK, [Next]_vars, ~DispatchEvent
  PROVE  Len(events') >= Len(events)
<1>1. Len(events) \in Nat
  BY DEF EngineTypeOK
<1>2. ASSUME NEW t \in Emitted, Emit(t) PROVE Len(events') >= Len(events)
  <2>1. t \in Triggers
    BY ClientAssumption
  <2> QED
    BY <1>2, <2>1 DEF Emit, EngineTypeOK
<1>3. TakeCommand \/ InlineReturns \/ Waiting \/ UNCHANGED vars => UNCHANGED events
  BY DEF TakeCommand, AddMacro, UpdateMacro, DeleteMacro, SetEnabled, RunInline, Shutdown,
         InlineReturns, Waiting, vars, evars
<1>4. ASSUME NEW c \in Sendable, Send(c) PROVE UNCHANGED events
  BY <1>4 DEF Send
<1> QED
  BY <1>1, <1>2, <1>3, <1>4 DEF Next

(* FiresWhatMatches: whatever was added, replaced, updated, switched and   *)
(* removed before, an event fires exactly the enabled macros that match    *)
(* it, but for those whose constraints fail.                               *)
THEOREM EventsFireWhatMatches == Spec => FiresWhatMatches
<1>1. TypeOK /\ IndexComplete /\ [Next]_vars => [MatchesFire]_evars
  <2> SUFFICES ASSUME TypeOK, IndexComplete, [Next]_vars PROVE MatchesFire
    OBVIOUS
  <2>0. EngineTypeOK /\ EngineTypeOK'
    BY TypeStep DEF TypeOK
  <2>1. CASE DispatchEvent
    BY <2>0, <2>1, MatchesFireStep
  <2>2. CASE ~DispatchEvent
    <3>1. Len(events') >= Len(events)
      BY <2>0, <2>2, OnlyDispatchTakesEvents
    <3>2. Len(events) \in Nat /\ Len(events') \in Nat
      BY <2>0 DEF EngineTypeOK
    <3> QED
      BY <3>1, <3>2 DEF MatchesFire
  <2> QED
    BY <2>1, <2>2
<1> QED
  BY <1>1, CompleteAlways, PTL DEF Spec, FiresWhatMatches, MatchesFire

(* IndexStaysExact: only an AddMacro for a macro that is registered        *)
(* already makes the index list an id more often than its triggers ask.    *)
THEOREM ExactnessIsKept == Spec => IndexStaysExact
<1>1. TypeOK /\ TypeOK' /\ [Next]_vars => [(IndexExact /\ ~Readding) => IndexExact']_evars
  BY ExactStep, NextForTheRouter DEF TypeOK
<1> QED
  BY <1>1, TypeCorrect, PTL DEF Spec, IndexStaysExact

=============================================================================
