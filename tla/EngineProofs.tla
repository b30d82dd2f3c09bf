----------------------------- MODULE EngineProofs -----------------------------
(***************************************************************************)
(* What the engine thread does to the router, step by step, for any macros, *)
(* kinds, commands and events and whoever sends them: types are kept; every *)
(* macro stays listed for every kind of its triggers (IndexComplete), so    *)
(* that looking in the index loses no macro that an event should fire; and  *)
(* an exact index stays exact unless a registered macro is added again.     *)
(***************************************************************************)
EXTENDS Engine, FiniteSetTheorems, TLAPS

\* What a step may do to the router.
RouterStep == TakeCommand \/ InlineReturns \/ DispatchEvent \/ UNCHANGED router

-----------------------------------------------------------------------------
(* Helpers.                                                                *)

LEMMA CommandFields ==
  ASSUME NEW c \in Command
  PROVE  /\ c.op \in {"AddMacro", "UpdateMacro"} => c.m \in Macro
         /\ c.op \in {"DeleteMacro", "TriggerManually", "DryRunMacro"} => c.id \in Ids
         /\ c.op = "SetEnabled" => c.id \in Ids /\ c.enabled \in BOOLEAN
BY DEF Command

LEMMA EntriesCount ==
  ASSUME NEW b \in Bodies, NEW k \in Kinds
  PROVE  /\ Entries(b, k) \in Nat
         /\ OfKind(b, k) = {} <=> Entries(b, k) = 0
<1>1. PICK n \in Nat : DOMAIN TriggersOf[b] = 1..n
  BY EngineAssumption
<1>2. IsFiniteSet(1..n)
  BY <1>1, FS_Interval
<1>3. OfKind(b, k) \subseteq 1..n
  BY <1>1 DEF OfKind
<1>4. IsFiniteSet(OfKind(b, k))
  BY <1>2, <1>3, FS_Subset
<1> QED
  BY <1>4, FS_CardinalityType, FS_EmptySet DEF Entries

IndexType == [Kinds -> [Ids -> Nat]]

LEMMA IndexWithType ==
  ASSUME NEW ix \in IndexType, NEW m \in Macro
  PROVE  IndexWith(ix, m) \in IndexType
<1>1. ASSUME NEW k \in Kinds PROVE [ix[k] EXCEPT ![m.id] = @ + Entries(m.body, k)] \in [Ids -> Nat]
  <2>1. m.body \in Bodies
    BY DEF Macro
  <2>2. Entries(m.body, k) \in Nat
    BY <2>1, EntriesCount
  <2>3. ix[k] \in [Ids -> Nat]
    BY DEF IndexType
  <2>4. ASSUME NEW i \in Ids PROVE ix[k][i] + Entries(m.body, k) \in Nat
    BY <2>2, <2>3
  <2> QED
    BY <2>3, <2>4
<1> QED
  BY <1>1 DEF IndexWith, IndexType

LEMMA IndexWithoutType ==
  ASSUME index \in IndexType, NEW i
  PROVE  IndexWithout(i) \in IndexType
BY DEF IndexWithout, IndexType

\* What the router's updates of the index do to one entry.
LEMMA IndexWithEntry ==
  ASSUME NEW ix \in IndexType, NEW m \in Macro, NEW k \in Kinds, NEW i \in Ids
  PROVE  IndexWith(ix, m)[k][i] = IF i = m.id THEN ix[k][i] + Entries(m.body, k) ELSE ix[k][i]
BY DEF IndexWith, IndexType

LEMMA IndexWithoutEntry ==
  ASSUME index \in IndexType, NEW j, NEW k \in Kinds, NEW i \in Ids
  PROVE  IndexWithout(j)[k][i] =
           IF i = j /\ (\E m \in macros[j] : OfKind(m.body, k) # {}) THEN 0 ELSE index[k][i]
BY DEF IndexWithout, IndexType

-----------------------------------------------------------------------------
(* Type correctness.                                                       *)

AtMostOne == \A i \in Ids, m, n \in Macro : {m, n} \subseteq macros[i] => m = n /\ m.id = i

LEMMA Unfolded ==
  EngineTypeOK <=>
    /\ macros \in [Ids -> SUBSET Macro] /\ AtMostOne
    /\ index \in IndexType
    /\ cmds \in Seq(Command) /\ events \in Seq(Triggers)
    /\ inline \in SUBSET Ids /\ up \in BOOLEAN /\ batch \in [Ids -> Nat]
BY DEF EngineTypeOK, AtMostOne, IndexType

LEMMA ReceiveHead ==
  ASSUME cmds \in Seq(Command), NEW op, Receive(op)
  PROVE  Head(cmds) \in Command /\ Head(cmds).op = op /\ cmds' \in Seq(Command)
BY DEF Receive

LEMMA InsertType ==
  ASSUME EngineTypeOK, NEW m \in Macro, NEW ix \in IndexType, Insert(m, ix)
  PROVE  macros' \in [Ids -> SUBSET Macro] /\ AtMostOne' /\ index' \in IndexType
<1>1. m.id \in Ids
  BY DEF Macro
<1>2. index' \in IndexType
  BY IndexWithType DEF Insert
<1>3. macros' = [macros EXCEPT ![m.id] = {m}] /\ macros \in [Ids -> SUBSET Macro] /\ AtMostOne
  BY Unfolded DEF Insert
<1>4. macros' \in [Ids -> SUBSET Macro]
  BY <1>1, <1>3
<1>5. AtMostOne'
  BY <1>1, <1>3 DEF AtMostOne
<1> QED
  BY <1>2, <1>4, <1>5

LEMMA EngineTypeStep ==
  ASSUME EngineTypeOK, TakeCommand \/ InlineReturns \/ DispatchEvent
  PROVE  EngineTypeOK'
<1> USE Unfolded
<1>1. CASE AddMacro
  <2>1. Head(cmds).m \in Macro /\ cmds' \in Seq(Command)
    BY <1>1, ReceiveHead, CommandFields DEF AddMacro
  <2>2. Insert(Head(cmds).m, index)
    BY <1>1 DEF AddMacro
  <2>3. macros' \in [Ids -> SUBSET Macro] /\ AtMostOne' /\ index' \in IndexType
    BY <2>1, <2>2, InsertType
  <2> QED
    BY <1>1, <2>1, <2>3 DEF AddMacro, EngineTypeOK, AtMostOne, IndexType
<1>2. CASE UpdateMacro
  <2>1. Head(cmds).m \in Macro /\ cmds' \in Seq(Command)
    BY <1>2, ReceiveHead, CommandFields DEF UpdateMacro
  <2>2. IndexWithout(Head(cmds).m.id) \in IndexType
    BY IndexWithoutType
  <2>3. Insert(Head(cmds).m, IndexWithout(Head(cmds).m.id))
    BY <1>2 DEF UpdateMacro
  <2>4. macros' \in [Ids -> SUBSET Macro] /\ AtMostOne' /\ index' \in IndexType
    BY <2>1, <2>2, <2>3, InsertType
  <2> QED
    BY <1>2, <2>1, <2>4 DEF UpdateMacro, EngineTypeOK, AtMostOne, IndexType
<1>3. CASE DeleteMacro
  <2>1. cmds' \in Seq(Command)
    BY <1>3, ReceiveHead DEF DeleteMacro
  <2>2. index' \in IndexType
    BY <1>3, IndexWithoutType DEF DeleteMacro
  <2>3. macros' = [macros EXCEPT ![Head(cmds).id] = {}]
    BY <1>3 DEF DeleteMacro
  <2>4. macros' \in [Ids -> SUBSET Macro] /\ AtMostOne'
    BY <2>3 DEF AtMostOne
  <2> QED
    BY <1>3, <2>1, <2>2, <2>4 DEF DeleteMacro, EngineTypeOK, AtMostOne, IndexType
<1>4. CASE SetEnabled
  <2> DEFINE i == Head(cmds).id
             on == Head(cmds).enabled
  <2>1. i \in Ids /\ on \in BOOLEAN /\ cmds' \in Seq(Command)
    BY <1>4, ReceiveHead, CommandFields DEF SetEnabled
  <2>2. macros' = [macros EXCEPT ![i] = {[m EXCEPT !.enabled = on] : m \in macros[i]}]
    BY <1>4, <2>1 DEF SetEnabled
  <2>3. ASSUME NEW m \in Macro
        PROVE  [m EXCEPT !.enabled = on] \in Macro /\ [m EXCEPT !.enabled = on].id = m.id
    BY <2>1 DEF Macro
  <2>4. macros' \in [Ids -> SUBSET Macro]
    BY <2>1, <2>2, <2>3
  <2>5. ASSUME NEW j \in Ids, NEW m \in Macro, NEW n \in Macro, {m, n} \subseteq macros'[j]
        PROVE  m = n /\ m.id = j
    <3>1. CASE j = i
      <4>1. PICK p \in macros[i], q \in macros[i] :
              m = [p EXCEPT !.enabled = on] /\ n = [q EXCEPT !.enabled = on]
        BY <2>1, <2>2, <2>5, <3>1
      <4>2. p \in Macro /\ q \in Macro
        BY <2>1, <4>1
      <4>3. p = q /\ p.id = i
        BY <2>1, <4>1, <4>2 DEF AtMostOne
      <4> QED
        BY <2>3, <3>1, <4>1, <4>2, <4>3
    <3>2. CASE j # i
      BY <2>2, <2>5, <3>2 DEF AtMostOne
    <3> QED
      BY <3>1, <3>2
  <2> QED
    BY <1>4, <2>1, <2>4, <2>5 DEF SetEnabled, EngineTypeOK, AtMostOne, IndexType
<1>5. CASE RunInline
  <2>1. PICK op \in {"TriggerManually", "DryRunMacro"} : Receive(op)
    BY <1>5 DEF RunInline
  <2>2. Head(cmds).id \in Ids /\ cmds' \in Seq(Command)
    BY <2>1, ReceiveHead, CommandFields
  <2>3. inline' \in SUBSET Ids
    BY <1>5, <2>2 DEF RunInline
  <2> QED
    BY <1>5, <2>2, <2>3 DEF RunInline, router, EngineTypeOK, AtMostOne, IndexType
<1>6. CASE Shutdown
  <2>1. cmds' \in Seq(Command)
    BY <1>6, ReceiveHead DEF Shutdown
  <2>2. UNCHANGED <<macros, index, events, inline, batch>>
    BY <1>6 DEF Shutdown, router
  <2>3. up' \in BOOLEAN
    BY <1>6 DEF Shutdown
  <2> QED
    BY <2>1, <2>2, <2>3 DEF EngineTypeOK
<1>7. CASE InlineReturns
  BY <1>7 DEF InlineReturns, router, EngineTypeOK, AtMostOne, IndexType
<1>8. CASE DispatchEvent
  <2> DEFINE t == Head(events)
  <2>1. t \in Triggers /\ events' \in Seq(Triggers) /\ KindOf[t] \in Kinds
    BY <1>8, EngineAssumption DEF DispatchEvent
  <2>2. ASSUME NEW i \in Ids PROVE Firings(t, i) \subseteq Nat
    BY <2>1 DEF Firings, IndexType
  <2>3. batch' \in [Ids -> Nat]
    BY <1>8, <2>2 DEF DispatchEvent
  <2> QED
    BY <1>8, <2>1, <2>3 DEF DispatchEvent, router, EngineTypeOK, AtMostOne, IndexType
<1> QED
  BY <1>1, <1>2, <1>3, <1>4, <1>5, <1>6, <1>7, <1>8 DEF TakeCommand

-----------------------------------------------------------------------------
(* The index.                                                              *)

(* Every registered macro is listed for every kind of its triggers.  This  *)
(* is what dispatching needs; entries of former triggers do no harm to it. *)
IndexComplete ==
  \A i \in Ids, m \in Macro, k \in Kinds :
    (m \in macros[i] /\ OfKind(m.body, k) # {}) => index[k][i] > 0

\* One macro inserted over an index that is complete for the others.
LEMMA InsertComplete ==
  ASSUME EngineTypeOK, NEW m \in Macro, NEW ix \in IndexType, Insert(m, ix), IndexComplete,
         \A i \in Ids \ {m.id}, k \in Kinds : ix[k][i] = index[k][i]
  PROVE  IndexComplete'
<1> SUFFICES ASSUME NEW i \in Ids, NEW n \in Macro, NEW k \in Kinds,
                    n \in macros'[i], OfKind(n.body, k) # {}
             PROVE  index'[k][i] > 0
  BY DEF IndexComplete, OfKind
<1>1. index'[k][i] = IF i = m.id THEN ix[k][i] + Entries(m.body, k) ELSE ix[k][i]
  BY IndexWithEntry DEF Insert
<1>2. macros' = [macros EXCEPT ![m.id] = {m}] /\ macros \in [Ids -> SUBSET Macro]
  BY DEF Insert, EngineTypeOK
<1>3. CASE i = m.id
  <2>1. n = m
    BY <1>2, <1>3
  <2>2. m.body \in Bodies
    BY DEF Macro
  <2>3. Entries(m.body, k) \in Nat /\ Entries(m.body, k) # 0
    BY <2>1, <2>2, EntriesCount
  <2>4. ix[k][i] \in Nat
    BY DEF IndexType
  <2> QED
    BY <1>1, <1>3, <2>3, <2>4
<1>4. CASE i # m.id
  <2>1. n \in macros[i]
    BY <1>2, <1>4
  <2> QED
    BY <1>1, <1>4, <2>1 DEF IndexComplete
<1> QED
  BY <1>3, <1>4

LEMMA CompleteStep ==
  ASSUME EngineTypeOK, IndexComplete, RouterStep
  PROVE  IndexComplete'
<1>1. CASE AddMacro
  <2>1. Head(cmds).m \in Macro
    BY <1>1, ReceiveHead, CommandFields DEF AddMacro, EngineTypeOK
  <2> QED
    BY <1>1, <2>1, InsertComplete, Unfolded DEF AddMacro
<1>2. CASE UpdateMacro
  <2> DEFINE m == Head(cmds).m
  <2>1. m \in Macro
    BY <1>2, ReceiveHead, CommandFields DEF UpdateMacro, EngineTypeOK
  <2>2. index \in IndexType
    BY Unfolded
  <2>3. IndexWithout(m.id) \in IndexType
    BY <2>2, IndexWithoutType
  <2>4. \A i \in Ids \ {m.id}, k \in Kinds : IndexWithout(m.id)[k][i] = index[k][i]
    BY <2>2, IndexWithoutEntry
  <2>5. Insert(m, IndexWithout(m.id))
    BY <1>2 DEF UpdateMacro
  <2> QED
    BY <2>1, <2>3, <2>4, <2>5, InsertComplete
<1>3. CASE DeleteMacro
  <2> DEFINE j == Head(cmds).id
  <2> SUFFICES ASSUME NEW i \in Ids, NEW n \in Macro, NEW k \in Kinds,
                      n \in macros'[i], OfKind(n.body, k) # {}
               PROVE  index'[k][i] > 0
    BY DEF IndexComplete, OfKind
  <2>1. macros' = [macros EXCEPT ![j] = {}] /\ index' = IndexWithout(j)
    BY <1>3 DEF DeleteMacro
  <2>2. i # j /\ n \in macros[i]
    BY <2>1 DEF EngineTypeOK
  <2>3. index'[k][i] = index[k][i]
    BY <2>1, <2>2, IndexWithoutEntry, Unfolded
  <2> QED
    BY <2>2, <2>3 DEF IndexComplete
<1>4. CASE SetEnabled
  <2> DEFINE j == Head(cmds).id
             on == Head(cmds).enabled
  <2> SUFFICES ASSUME NEW i \in Ids, NEW n \in Macro, NEW k \in Kinds,
                      n \in macros'[i], OfKind(n.body, k) # {}
               PROVE  index'[k][i] > 0
    BY DEF IndexComplete, OfKind
  <2>1. macros' = [macros EXCEPT ![j] = {[m EXCEPT !.enabled = on] : m \in macros[j]}]
    <3>1. j \in Ids
      BY <1>4, ReceiveHead, CommandFields DEF SetEnabled, EngineTypeOK
    <3> QED
      BY <1>4, <3>1 DEF SetEnabled, EngineTypeOK
  <2>2. PICK p \in macros[i] : p.body = n.body
    <3>1. CASE i = j
      <4>1. PICK p \in macros[i] : n = [p EXCEPT !.enabled = on]
        BY <2>1, <3>1 DEF EngineTypeOK
      <4>2. p \in Macro
        BY <4>1 DEF EngineTypeOK
      <4>3. n.body = p.body
        BY <4>1, <4>2 DEF Macro
      <4> QED
        BY <4>1, <4>3
    <3>2. CASE i # j
      BY <2>1, <3>2 DEF EngineTypeOK
    <3> QED
      BY <3>1, <3>2
  <2>3. p \in Macro /\ OfKind(p.body, k) # {}
    BY <2>2 DEF EngineTypeOK
  <2>4. index' = index
    BY <1>4 DEF SetEnabled
  <2> QED
    BY <2>2, <2>3, <2>4 DEF IndexComplete
<1>5. CASE UNCHANGED router
  BY <1>5 DEF router, IndexComplete, OfKind
<1>6. RunInline \/ Shutdown \/ InlineReturns \/ DispatchEvent => UNCHANGED router
  BY DEF RunInline, Shutdown, InlineReturns, DispatchEvent
<1> QED
  BY <1>1, <1>2, <1>3, <1>4, <1>5, <1>6 DEF RouterStep, TakeCommand

\* The body of FiresWhatMatches.
MatchesFire ==
  Len(events') < Len(events) =>
    LET t == Head(events)
        fired == {i \in Ids : batch'[i] > 0}
    IN  /\ fired \subseteq Matching(t)
        /\ {i \in Matching(t) : ~IsConditional(i)} \subseteq fired

LEMMA MatchesFireStep ==
  ASSUME EngineTypeOK, IndexComplete, DispatchEvent
  PROVE  MatchesFire
<1> DEFINE t == Head(events)
<1>1. t \in Triggers /\ KindOf[t] \in Kinds
  BY EngineAssumption DEF DispatchEvent, EngineTypeOK
<1>2. ASSUME NEW i \in Ids PROVE batch'[i] \in Firings(t, i)
  BY DEF DispatchEvent
<1>3. ASSUME NEW i \in Ids, batch'[i] > 0 PROVE i \in Matching(t)
  <2>1. ASSUME i \notin Candidates(t) PROVE FALSE
    <3>1. Firings(t, i) = {0}
      BY <2>1 DEF Firings
    <3>2. batch'[i] = 0
      BY <1>2, <3>1
    <3> QED
      BY <1>3, <3>2
  <2> QED
    BY <2>1 DEF Candidates
<1>4. ASSUME NEW i \in Matching(t), ~IsConditional(i) PROVE i \in Ids /\ batch'[i] > 0
  <2>1. i \in Ids
    BY DEF Matching
  <2>0. macros[i] \subseteq Macro
    BY <2>1 DEF EngineTypeOK
  <2>2. PICK m \in macros[i] : \E j \in DOMAIN TriggersOf[m.body] : TriggersOf[m.body][j] = t
    BY DEF Matching
  <2>3. m \in Macro /\ OfKind(m.body, KindOf[t]) # {}
    BY <2>1, <2>2 DEF OfKind, EngineTypeOK
  <2>4. index[KindOf[t]][i] > 0
    BY <1>1, <2>1, <2>2, <2>3 DEF IndexComplete
  <2>5. i \in Candidates(t)
    BY <2>4 DEF Candidates
  <2> QED
    BY <1>2, <1>4, <2>1, <2>4, <2>5 DEF Firings
<1> QED
  BY <1>3, <1>4 DEF MatchesFire, Matching

-----------------------------------------------------------------------------
(* Exactness.                                                              *)

\* The two halves of IndexExact.
LEMMA ExactUnfolded ==
  ASSUME EngineTypeOK
  PROVE  IndexExact <=>
           \A k \in Kinds, i \in Ids :
             /\ \A m \in Macro : m \in macros[i] => index[k][i] = Entries(m.body, k)
             /\ macros[i] = {} => index[k][i] = 0
BY DEF IndexExact, Registered, EngineTypeOK

LEMMA ExactInNextState ==
  ASSUME EngineTypeOK',
         \A k \in Kinds, i \in Ids :
           /\ \A m \in Macro : m \in macros'[i] => index'[k][i] = Entries(m.body, k)
           /\ macros'[i] = {} => index'[k][i] = 0
  PROVE  IndexExact'
<1> SUFFICES ASSUME NEW k \in Kinds, NEW i \in Ids
             PROVE  /\ \A m \in macros'[i] : index'[k][i] = Entries(m.body, k)
                    /\ i \notin Registered' => index'[k][i] = 0
  BY DEF IndexExact, Entries, OfKind
<1>1. macros'[i] \subseteq Macro
  BY DEF EngineTypeOK
<1>2. i \notin Registered' => macros'[i] = {}
  BY DEF Registered
<1> QED
  BY <1>1, <1>2

\* Once the entries of m.id are gone, inserting m makes the index exact again.
LEMMA InsertExact ==
  ASSUME EngineTypeOK, EngineTypeOK', IndexExact, NEW m \in Macro, NEW ix \in IndexType,
         Insert(m, ix),
         \A i \in Ids, k \in Kinds : ix[k][i] = IF i = m.id THEN 0 ELSE index[k][i]
  PROVE  IndexExact'
<1> SUFFICES ASSUME NEW k \in Kinds, NEW i \in Ids
             PROVE  /\ \A n \in Macro : n \in macros'[i] => index'[k][i] = Entries(n.body, k)
                    /\ macros'[i] = {} => index'[k][i] = 0
  BY ExactInNextState
<1>1. index'[k][i] = IF i = m.id THEN ix[k][i] + Entries(m.body, k) ELSE ix[k][i]
  BY IndexWithEntry DEF Insert
<1>2. macros' = [macros EXCEPT ![m.id] = {m}] /\ macros \in [Ids -> SUBSET Macro]
  BY DEF Insert, EngineTypeOK
<1>3. CASE i = m.id
  <2>1. m.body \in Bodies
    BY DEF Macro
  <2>2. Entries(m.body, k) \in Nat
    BY <2>1, EntriesCount
  <2>3. index'[k][i] = Entries(m.body, k)
    BY <1>1, <1>3, <2>2
  <2> QED
    BY <1>2, <1>3, <2>3
<1>4. CASE i # m.id
  <2>1. macros'[i] = macros[i] /\ index'[k][i] = index[k][i]
    BY <1>1, <1>2, <1>4
  <2> QED
    BY <2>1, ExactUnfolded
<1> QED
  BY <1>3, <1>4

\* An exact index loses all the entries of a macro that is removed.
LEMMA WithoutExact ==
  ASSUME EngineTypeOK, IndexExact, NEW j, NEW k \in Kinds, NEW i \in Ids
  PROVE  IndexWithout(j)[k][i] = IF i = j THEN 0 ELSE index[k][i]
<1>1. IndexWithout(j)[k][i] =
        IF i = j /\ (\E m \in macros[j] : OfKind(m.body, k) # {}) THEN 0 ELSE index[k][i]
  BY Unfolded, IndexWithoutEntry
<1>2. ASSUME i = j, \A m \in macros[j] : OfKind(m.body, k) = {} PROVE index[k][i] = 0
  <2>1. CASE macros[i] = {}
    BY <2>1, ExactUnfolded
  <2>2. ASSUME NEW m \in macros[i] PROVE index[k][i] = 0
    <3>1. m \in Macro
      BY DEF EngineTypeOK
    <3>2. m.body \in Bodies
      BY <3>1 DEF Macro
    <3>3. Entries(m.body, k) = 0
      BY <1>2, <3>2, EntriesCount
    <3> QED
      BY <3>1, <3>3, ExactUnfolded
  <2> QED
    BY <2>1, <2>2
<1> QED
  BY <1>1, <1>2

LEMMA ExactStep ==
  ASSUME EngineTypeOK, EngineTypeOK', IndexExact, ~Readding, RouterStep
  PROVE  IndexExact'
<1>1. CASE AddMacro
  <2> DEFINE m == Head(cmds).m
  <2>1. m \in Macro /\ m.id \in Ids
    BY <1>1, ReceiveHead, CommandFields DEF AddMacro, EngineTypeOK, Macro
  <2>2. macros[m.id] = {}
    BY <1>1, <2>1 DEF AddMacro, Receive, Readding, Registered
  <2>3. \A i \in Ids, k \in Kinds : index[k][i] = IF i = m.id THEN 0 ELSE index[k][i]
    BY <2>1, <2>2, ExactUnfolded
  <2> QED
    BY <1>1, <2>1, <2>3, InsertExact, Unfolded DEF AddMacro
<1>2. CASE UpdateMacro
  <2> DEFINE m == Head(cmds).m
  <2>1. m \in Macro
    BY <1>2, ReceiveHead, CommandFields DEF UpdateMacro, EngineTypeOK
  <2>2. IndexWithout(m.id) \in IndexType
    BY Unfolded, IndexWithoutType
  <2>3. \A i \in Ids, k \in Kinds :
          IndexWithout(m.id)[k][i] = IF i = m.id THEN 0 ELSE index[k][i]
    BY WithoutExact
  <2>4. Insert(m, IndexWithout(m.id))
    BY <1>2 DEF UpdateMacro
  <2> QED
    BY <2>1, <2>2, <2>3, <2>4, InsertExact
<1>3. CASE DeleteMacro
  <2> DEFINE j == Head(cmds).id
  <2>1. macros' = [macros EXCEPT ![j] = {}] /\ index' = IndexWithout(j)
    BY <1>3 DEF DeleteMacro
  <2>2. ASSUME NEW k \in Kinds, NEW i \in Ids
        PROVE  /\ \A n \in Macro : n \in macros'[i] => index'[k][i] = Entries(n.body, k)
               /\ macros'[i] = {} => index'[k][i] = 0
    <3>1. index'[k][i] = IF i = j THEN 0 ELSE index[k][i]
      BY <2>1, WithoutExact
    <3>2. macros'[i] = IF i = j THEN {} ELSE macros[i]
      BY <2>1 DEF EngineTypeOK
    <3> QED
      BY <3>1, <3>2, ExactUnfolded
  <2> QED
    BY <2>2, ExactInNextState
<1>4. CASE SetEnabled
  <2> DEFINE j == Head(cmds).id
             on == Head(cmds).enabled
  <2>1. macros' = [macros EXCEPT ![j] = {[m EXCEPT !.enabled = on] : m \in macros[j]}]
    <3>1. j \in Ids
      BY <1>4, ReceiveHead, CommandFields DEF SetEnabled, EngineTypeOK
    <3> QED
      BY <1>4, <3>1 DEF SetEnabled, EngineTypeOK
  <2>2. index' = index
    BY <1>4 DEF SetEnabled
  <2>3. ASSUME NEW k \in Kinds, NEW i \in Ids
        PROVE  /\ \A n \in Macro : n \in macros'[i] => index'[k][i] = Entries(n.body, k)
               /\ macros'[i] = {} => index'[k][i] = 0
    <3>1. CASE i = j
      <4>1. ASSUME NEW n \in macros'[i] PROVE index'[k][i] = Entries(n.body, k)
        <5>1. PICK p \in macros[i] : n = [p EXCEPT !.enabled = on]
          BY <2>1, <3>1 DEF EngineTypeOK
        <5>2. p \in Macro
          BY <5>1 DEF EngineTypeOK
        <5>3. n.body = p.body
          BY <5>1, <5>2 DEF Macro
        <5> QED
          BY <2>2, <5>2, <5>3, ExactUnfolded
      <4>2. ASSUME macros'[i] = {} PROVE index'[k][i] = 0
        <5>1. macros'[i] = {[m EXCEPT !.enabled = on] : m \in macros[i]}
          BY <2>1, <3>1 DEF EngineTypeOK
        <5>2. macros[i] = {}
          BY <4>2, <5>1, Zenon
        <5> QED
          BY <2>2, <5>2, ExactUnfolded
      <4> QED
        BY <4>1, <4>2
    <3>2. CASE i # j
      <4>1. macros'[i] = macros[i]
        BY <2>1, <3>2 DEF EngineTypeOK
      <4> QED
        BY <2>2, <4>1, ExactUnfolded
    <3> QED
      BY <3>1, <3>2
  <2> QED
    BY <2>3, ExactInNextState
<1>5. CASE UNCHANGED router
  BY <1>5 DEF router, IndexExact, Registered, Entries, OfKind
<1>6. RunInline \/ Shutdown \/ InlineReturns \/ DispatchEvent => UNCHANGED router
  BY DEF RunInline, Shutdown, InlineReturns, DispatchEvent
<1> QED
  BY <1>1, <1>2, <1>3, <1>4, <1>5, <1>6 DEF RouterStep, TakeCommand

=============================================================================
