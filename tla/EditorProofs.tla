----------------------------- MODULE EditorProofs -----------------------------
(***************************************************************************)
(* The application around the engine, for any macros, any file, any edits, *)
(* and any number of callbacks, crashes and writes by other programs.      *)
(*                                                                         *)
(* Types, with the ids of a new macro apart from all others, come first;   *)
(* the rows and the file follow each by an invariant that says what the    *)
(* callback and the reload under way have still to do.  The router is the  *)
(* last: the commands in the channel lead it along a chain of states to    *)
(* the list.                                                               *)
(***************************************************************************)
EXTENDS Editor, EngineProofs

-----------------------------------------------------------------------------
(* Sequences.                                                              *)

LEMMA Removed ==
  ASSUME NEW S, NEW s \in Seq(S), NEW i \in DOMAIN s
  PROVE  /\ RemoveAt(s, i) \in Seq(S)
         /\ Len(RemoveAt(s, i)) = Len(s) - 1
         /\ \A k \in 1..Len(s) - 1 : RemoveAt(s, i)[k] = IF k < i THEN s[k] ELSE s[k + 1]
<1>1. i \in 1..Len(s) /\ Len(s) \in Nat
  OBVIOUS
<1> DEFINE p == SubSeq(s, 1, i - 1)
           q == SubSeq(s, i + 1, Len(s))
<1>2. p \in Seq(S) /\ Len(p) = i - 1 /\ \A k \in 1..i - 1 : p[k] = s[k]
  BY <1>1
<1>3. q \in Seq(S) /\ Len(q) = Len(s) - i /\ \A k \in 1..Len(s) - i : q[k] = s[k + i]
  BY <1>1
<1>4. RemoveAt(s, i) = p \o q
  BY DEF RemoveAt
<1> HIDE DEF p, q
<1>5. p \o q \in Seq(S) /\ Len(p \o q) = Len(s) - 1
  BY <1>1, <1>2, <1>3
<1>6. ASSUME NEW k \in 1..Len(s) - 1, k < i PROVE (p \o q)[k] = s[k]
  BY <1>1, <1>2, <1>3, <1>6
<1>7. ASSUME NEW k \in 1..Len(s) - 1, ~(k < i) PROVE (p \o q)[k] = s[k + 1]
  <2>1. (p \o q)[k] = q[k - (i - 1)]
    BY <1>1, <1>2, <1>3, <1>7
  <2>2. k - (i - 1) \in 1..Len(s) - i
    BY <1>1, <1>7
  <2>3. q[k - (i - 1)] = s[(k - (i - 1)) + i]
    BY <1>3, <2>2
  <2>4. (k - (i - 1)) + i = k + 1
    BY <1>1
  <2> QED
    BY <2>1, <2>3, <2>4
<1> QED
  BY <1>4, <1>5, <1>6, <1>7

LEMMA Elements ==
  ASSUME NEW S, NEW s \in Seq(S)
  PROVE  \A k \in DOMAIN s : s[k] \in S
OBVIOUS

LEMMA Wider ==
  ASSUME NEW A, NEW B, A \subseteq B, NEW s \in Seq(A)
  PROVE  s \in Seq(B)
<1>1. Len(s) \in Nat /\ s \in [1..Len(s) -> A]
  OBVIOUS
<1>2. s \in [1..Len(s) -> B]
  BY <1>1
<1> QED
  BY <1>1, <1>2

\* SetToSeq lists the members of a finite set.
LEMMA Enumerated ==
  ASSUME NEW S, IsFiniteSet(S)
  PROVE  /\ SetToSeq(S) \in Seq(S)
         /\ \A x \in S : \E k \in DOMAIN SetToSeq(S) : SetToSeq(S)[k] = x
<1> DEFINE D == 1..Cardinality(S)
           f == SetToSeq(S)
<1>1. Cardinality(S) \in Nat /\ ExistsBijection(D, S)
  BY FS_CardinalityType
<1>2. PICK b : b \in Bijection(D, S)
  BY <1>1 DEF ExistsBijection
<1>3. b \in [D -> S] /\ IsInjective(b)
  BY <1>2 DEF Bijection, Injection, IsInjective
<1>4. f \in [D -> S] /\ IsInjective(f)
  <2>1. f = CHOOSE g \in [D -> S] : IsInjective(g)
    BY DEF SetToSeq
  <2> HIDE DEF D, f
  <2> QED
    BY <1>3, <2>1, Zenon
<1>5. f \in Injection(D, S)
  BY <1>4 DEF Injection, IsInjective
<1>6. IsFiniteSet(D) /\ Cardinality(D) = Cardinality(S)
  BY <1>1, FS_Interval
<1>7. f \in Surjection(D, S)
  BY <1>5, <1>6, FS_Injection
<1>8. f \in Seq(S) /\ DOMAIN f = D
  BY <1>1, <1>4
<1> QED
  BY <1>7, <1>8 DEF Surjection

-----------------------------------------------------------------------------
(* Lists of macros.                                                        *)

LEMMA Members ==
  ASSUME NEW l, IsMacroList(l)
  PROVE  /\ Len(l) \in Nat /\ DOMAIN l = 1..Len(l)
         /\ \A k \in DOMAIN l : l[k] \in Macro /\ l[k].id \in Ids
         /\ IdsOf(l) \subseteq Ids /\ IsFiniteSet(IdsOf(l))
<1>1. l \in Seq(Macro) /\ Len(l) \in Nat /\ DOMAIN l = 1..Len(l)
  BY DEF IsMacroList
<1>2. ASSUME NEW k \in DOMAIN l PROVE l[k] \in Macro /\ l[k].id \in Ids
  <2>1. l[k] \in Macro
    BY <1>1
  <2> QED
    BY <2>1 DEF Macro
<1>3. IsFiniteSet(1..Len(l))
  BY <1>1, FS_Interval
<1> DEFINE at == [k \in 1..Len(l) |-> l[k].id]
<1>4. at \in Surjection(1..Len(l), IdsOf(l))
  BY <1>1 DEF Surjection, IdsOf
<1>5. IsFiniteSet(IdsOf(l))
  BY <1>3, <1>4, FS_Surjection
<1> QED
  BY <1>1, <1>2, <1>5 DEF IdsOf

\* A list in which nothing but the contents of one macro changes.
LEMMA Replaced ==
  ASSUME NEW l, IsMacroList(l), NEW k \in DOMAIN l, NEW m \in Macro, m.id = l[k].id
  PROVE  /\ IsMacroList([l EXCEPT ![k] = m])
         /\ IdsOf([l EXCEPT ![k] = m]) = IdsOf(l)
<1> DEFINE r == [l EXCEPT ![k] = m]
<1>1. l \in Seq(Macro) /\ r \in Seq(Macro) /\ DOMAIN r = DOMAIN l
  BY DEF IsMacroList
<1>2. \A j \in DOMAIN l : r[j].id = l[j].id
  BY <1>1
<1> HIDE DEF r
<1>3. IsMacroList(r) /\ IdsOf(r) = IdsOf(l)
  BY <1>1, <1>2 DEF IsMacroList, IdsOf
<1> QED
  BY <1>3 DEF r

LEMMA Appended ==
  ASSUME NEW l, IsMacroList(l), NEW m \in Macro, m.id \notin IdsOf(l)
  PROVE  IsMacroList(Append(l, m)) /\ IdsOf(Append(l, m)) = IdsOf(l) \union {m.id}
<1> DEFINE r == Append(l, m)
<1>1. l \in Seq(Macro) /\ r \in Seq(Macro) /\ Len(r) = Len(l) + 1 /\ Len(l) \in Nat
  BY DEF IsMacroList
<1>2. r[Len(l) + 1] = m /\ \A j \in 1..Len(l) : r[j] = l[j]
  BY <1>1
<1>3. DOMAIN l = 1..Len(l) /\ DOMAIN r = 1..Len(l) + 1
  BY <1>1
<1> HIDE DEF r
<1>4. \A j \in DOMAIN l : l[j].id # m.id
  BY DEF IdsOf
<1>5. \A j \in DOMAIN r : j \in DOMAIN l \/ j = Len(l) + 1
  BY <1>1, <1>3
<1>6. IsMacroList(r)
  BY <1>1, <1>2, <1>3, <1>4, <1>5 DEF IsMacroList
<1>7. IdsOf(r) = IdsOf(l) \union {m.id}
  BY <1>1, <1>2, <1>3, <1>5 DEF IdsOf
<1> QED
  BY <1>6, <1>7 DEF r

LEMMA TakenOut ==
  ASSUME NEW l, IsMacroList(l), NEW k \in DOMAIN l
  PROVE  /\ IsMacroList(RemoveAt(l, k))
         /\ IdsOf(RemoveAt(l, k)) = IdsOf(l) \ {l[k].id}
<1> DEFINE r == RemoveAt(l, k)
<1>1. /\ r \in Seq(Macro) /\ Len(r) = Len(l) - 1
      /\ \A j \in 1..Len(l) - 1 : r[j] = IF j < k THEN l[j] ELSE l[j + 1]
  BY Removed DEF IsMacroList
<1>2. l \in Seq(Macro) /\ Len(l) \in Nat /\ DOMAIN l = 1..Len(l) /\ DOMAIN r = 1..Len(l) - 1
  BY <1>1 DEF IsMacroList
<1> HIDE DEF r
<1> DEFINE from(j) == IF j < k THEN j ELSE j + 1
<1>3. \A j \in DOMAIN r : from(j) \in DOMAIN l /\ from(j) # k /\ r[j] = l[from(j)]
  BY <1>1, <1>2
<1>4. \A i, j \in DOMAIN r : from(i) = from(j) => i = j
  BY <1>2
<1>5. \A j \in DOMAIN l : j # k => \E i \in DOMAIN r : from(i) = j
  <2> SUFFICES ASSUME NEW j \in DOMAIN l, j # k PROVE \E i \in DOMAIN r : from(i) = j
    OBVIOUS
  <2>1. CASE j < k
    BY <1>2, <2>1
  <2>2. CASE j > k
    <3>1. j - 1 \in DOMAIN r /\ from(j - 1) = j
      BY <1>2, <2>2
    <3> QED
      BY <3>1
  <2> QED
    BY <1>2, <2>1, <2>2
<1> HIDE DEF from
<1>6. IsMacroList(r)
  BY <1>1, <1>3, <1>4 DEF IsMacroList
<1>7. IdsOf(r) \subseteq IdsOf(l) \ {l[k].id}
  BY <1>3 DEF IdsOf, IsMacroList
<1>8. IdsOf(l) \ {l[k].id} \subseteq IdsOf(r)
  BY <1>3, <1>5 DEF IdsOf
<1> QED
  BY <1>6, <1>7, <1>8 DEF r

LEMMA Exchanged ==
  ASSUME NEW l, IsMacroList(l), NEW j \in DOMAIN l, NEW k \in DOMAIN l
  PROVE  IsMacroList(Swapped(l, j, k)) /\ IdsOf(Swapped(l, j, k)) = IdsOf(l)
<1> DEFINE r == Swapped(l, j, k)
           from(i) == IF i = k THEN j ELSE IF i = j THEN k ELSE i
<1>1. l \in Seq(Macro) /\ r \in Seq(Macro) /\ DOMAIN r = DOMAIN l
  BY DEF IsMacroList, Swapped
<1>2. \A i \in DOMAIN l : from(i) \in DOMAIN l /\ r[i] = l[from(i)] /\ from(from(i)) = i
  BY <1>1 DEF Swapped
<1> HIDE DEF r, from
<1>3. IsMacroList(r)
  <2> SUFFICES ASSUME NEW a \in DOMAIN l, NEW b \in DOMAIN l, r[a].id = r[b].id PROVE a = b
    BY <1>1 DEF IsMacroList
  <2>1. from(a) = from(b)
    BY <1>2 DEF IsMacroList
  <2> QED
    BY <1>2, <2>1
<1>4. IdsOf(r) = IdsOf(l)
  BY <1>1, <1>2 DEF IdsOf
<1> QED
  BY <1>3, <1>4 DEF r

LEMMA RowsTyped ==
  ASSUME NEW l, IsMacroList(l)
  PROVE  RowsOf(l) \in Seq(Row) /\ DOMAIN RowsOf(l) = DOMAIN l
<1>1. l \in Seq(Macro) /\ Len(l) \in Nat /\ DOMAIN l = 1..Len(l)
  BY DEF IsMacroList
<1>2. ASSUME NEW k \in 1..Len(l) PROVE [id |-> l[k].id, enabled |-> l[k].enabled] \in Row
  <2>1. l[k] \in Macro
    BY <1>1
  <2> QED
    BY <2>1 DEF Macro, Row
<1>3. RowsOf(l) = [k \in 1..Len(l) |-> [id |-> l[k].id, enabled |-> l[k].enabled]]
  BY <1>1 DEF RowsOf
<1> QED
  BY <1>1, <1>2, <1>3

LEMMA LoadedTyped ==
  ASSUME NEW f, IsFile(f)
  PROVE  /\ IsMacroList(LoadedFrom(f))
         /\ IdsOf(LoadedFrom(f)) = IdsIn(f)
         /\ f # {} => f = {LoadedFrom(f)}
<1>1. CASE f = {}
  BY <1>1 DEF LoadedFrom, IsMacroList, IdsOf, IdsIn
<1>2. CASE f # {}
  <2>1. PICK l : f = {l}
    BY <1>2 DEF IsFile
  <2>2. LoadedFrom(f) = l
    BY <2>1 DEF LoadedFrom
  <2>3. IdsIn(f) = IdsOf(l)
    BY <2>1 DEF IdsIn
  <2> QED
    BY <2>1, <2>2, <2>3 DEF IsFile
<1> QED
  BY <1>1, <1>2

-----------------------------------------------------------------------------
(* Types.  A list keeps distinct ids because nobody but the user who adds  *)
(* a macro knows its id before it is in the list.                          *)

\* The places of the UI thread inside a callback that has let go of the mutex.
CutPlaces == {"adding", "deleting", "removing", "toggling", "moving"}

InHand ==
  IF ui \in CutPlaces THEN \E t \in [pos : Nat, m : Macro] : todo = {t} ELSE todo = {}

\* The row of a delete under way is still there: nothing else touches the rows.
RowInHand == ui = "deleting" => \A t \in todo : t.pos \in DOMAIN rows

Known == IdsOf(list) \union IdsIn(file) \union IdsIn(fresh)

IdsApart ==
  /\ \A i \in unused : i \notin Known
  /\ \A t \in todo : t.m.id \notin unused
  /\ ui = "adding" => \A t \in todo : t.m.id \notin Known

TypeInv == TypeOK /\ InHand /\ RowInHand /\ IdsApart

LEMMA AddingTyped ==
  ASSUME NEW l, IsMacroList(l)
  PROVE  /\ Adding(l) \in Seq(Command) /\ Len(Adding(l)) = Len(l)
         /\ \A k \in DOMAIN l : Adding(l)[k] = [op |-> "AddMacro", m |-> l[k]]
<1>1. l \in Seq(Macro) /\ Len(l) \in Nat /\ DOMAIN l = 1..Len(l)
  BY DEF IsMacroList
<1>2. ASSUME NEW k \in 1..Len(l) PROVE [op |-> "AddMacro", m |-> l[k]] \in Command
  <2>1. l[k] \in Macro
    BY <1>1
  <2> QED
    BY <2>1 DEF Command
<1>3. Adding(l) = [k \in 1..Len(l) |-> [op |-> "AddMacro", m |-> l[k]]]
  BY <1>1 DEF Adding
<1> QED
  BY <1>1, <1>2, <1>3

\* The two halves of ReloadCommands.
Gone(new) == IdsOf(list) \ IdsOf(new)
Kept(new) == [k \in DOMAIN new |->
                [op |-> IF new[k].id \in IdsOf(list) THEN "UpdateMacro" ELSE "AddMacro",
                 m  |-> new[k]]]
Deletions(new) == SetToSeq({[op |-> "DeleteMacro", id |-> i] : i \in Gone(new)})

LEMMA ReloadTyped ==
  ASSUME IsMacroList(list), NEW new, IsMacroList(new)
  PROVE  /\ ReloadCommands(new) = Kept(new) \o Deletions(new)
         /\ Kept(new) \in Seq(Command) /\ Len(Kept(new)) = Len(new)
         /\ Deletions(new) \in Seq([op : {"DeleteMacro"}, id : Gone(new)])
         /\ \A i \in Gone(new) : \E k \in DOMAIN Deletions(new) : Deletions(new)[k].id = i
         /\ ReloadCommands(new) \in Seq(Command)
<1>1. /\ list \in Seq(Macro) /\ Len(list) \in Nat /\ DOMAIN list = 1..Len(list)
      /\ new \in Seq(Macro) /\ Len(new) \in Nat /\ DOMAIN new = 1..Len(new)
  BY DEF IsMacroList
<1>2. Kept(new) \in Seq(Command) /\ Len(Kept(new)) = Len(new)
  <2>1. ASSUME NEW k \in 1..Len(new), NEW o \in {"UpdateMacro", "AddMacro"}
        PROVE  [op |-> o, m |-> new[k]] \in Command
    <3>1. new[k] \in Macro
      BY <1>1
    <3> QED
      BY <3>1 DEF Command
  <2>2. ASSUME NEW k \in 1..Len(new) PROVE Kept(new)[k] \in Command
    <3> DEFINE o == IF new[k].id \in IdsOf(list) THEN "UpdateMacro" ELSE "AddMacro"
    <3>1. Kept(new)[k] = [op |-> o, m |-> new[k]]
      BY <1>1 DEF Kept
    <3>2. o \in {"UpdateMacro", "AddMacro"}
      OBVIOUS
    <3> HIDE DEF o
    <3> QED
      BY <2>1, <3>1, <3>2
  <2>3. Kept(new) \in [1..Len(new) -> Command]
    <3>1. Kept(new) = [k \in 1..Len(new) |-> Kept(new)[k]]
      BY <1>1 DEF Kept
    <3> QED
      BY <2>2, <3>1
  <2> QED
    BY <1>1, <2>3
<1> DEFINE D == {[op |-> "DeleteMacro", id |-> i] : i \in Gone(new)}
<1>3. IsFiniteSet(D)
  <2> DEFINE del == [i \in Gone(new) |-> [op |-> "DeleteMacro", id |-> i]]
  <2>3. IsFiniteSet(IdsOf(list))
    BY Members
  <2>4. IsFiniteSet(Gone(new))
    BY <2>3, FS_Subset DEF Gone
  <2>5. del \in Surjection(Gone(new), D)
    BY DEF Surjection
  <2> QED
    BY <2>4, <2>5, FS_Surjection
<1>4. Deletions(new) \in Seq(D) /\ \A x \in D : \E k \in DOMAIN Deletions(new) : Deletions(new)[k] = x
  BY <1>3, Enumerated DEF Deletions
<1>5. D \subseteq [op : {"DeleteMacro"}, id : Gone(new)]
  OBVIOUS
<1>6. Gone(new) \subseteq Ids
  BY Members DEF Gone
<1>7. D \subseteq Command
  BY <1>6 DEF Command
<1>8. \A i \in Gone(new) : \E k \in DOMAIN Deletions(new) : Deletions(new)[k].id = i
  <2> SUFFICES ASSUME NEW i \in Gone(new)
               PROVE  \E k \in DOMAIN Deletions(new) : Deletions(new)[k].id = i
    OBVIOUS
  <2>1. PICK k \in DOMAIN Deletions(new) : Deletions(new)[k] = [op |-> "DeleteMacro", id |-> i]
    BY <1>4
  <2> QED
    BY <2>1
<1> HIDE DEF D
<1>9. Deletions(new) \in Seq(Command) /\ Deletions(new) \in Seq([op : {"DeleteMacro"}, id : Gone(new)])
  BY <1>4, <1>5, <1>7, Wider
<1>10. ReloadCommands(new) = Kept(new) \o Deletions(new)
  BY DEF ReloadCommands, Kept, Deletions, Gone
<1> QED
  BY <1>2, <1>8, <1>9, <1>10

\* The types of the UI thread, and of what surrounds it.
AppTyped ==
  /\ IsMacroList(list) /\ rows \in Seq(Row)
  /\ ui \in UiPlace
  /\ todo \in SUBSET [pos : Nat, m : Macro]
  /\ {refresh, suppress} \subseteq BOOLEAN

WorldTyped ==
  /\ watcher \in {"waiting", "loading", "loaded"}
  /\ IsFile(fresh) /\ IsFile(file)
  /\ notes \in Nat
  /\ unused \in SUBSET Ids
  /\ left \in [callbacks : 0..MaxCallbacks, outside : 0..MaxOutside, crashes : 0..MaxCrashes]
  /\ history \in [saved : SUBSET Seq(Macro), overlapped : BOOLEAN, stale : BOOLEAN, failed : BOOLEAN]

LEMMA TypeParts == TypeOK <=> EngineTypeOK /\ AppTyped /\ WorldTyped
BY DEF TypeOK, AppTyped, WorldTyped

LEMMA PostTyped ==
  ASSUME EngineTypeOK, NEW c \in Command, Post(c)
  PROVE  EngineTypeOK'
BY DEF EngineTypeOK, Post, router

LEMMA EngineKept ==
  ASSUME EngineTypeOK, UNCHANGED evars
  PROVE  EngineTypeOK'
BY DEF EngineTypeOK, evars

LEMMA BeginTyped ==
  ASSUME WorldTyped, Begin, unused' \in SUBSET Ids
  PROVE  WorldTyped'
<1>1. left' \in [callbacks : 0..MaxCallbacks, outside : 0..MaxOutside, crashes : 0..MaxCrashes]
  BY EditorAssumption DEF WorldTyped, Begin
<1> QED
  BY <1>1 DEF WorldTyped, Begin, reload, disk, IsFile, IsMacroList

LEMMA ContinueTyped ==
  ASSUME WorldTyped, NEW from, Continue(from)
  PROVE  WorldTyped'
BY DEF WorldTyped, Continue, reload, disk, others, IsFile, IsMacroList

\* The ids that become known are no longer unused.
LEMMA ApartStep ==
  ASSUME IdsApart, NEW new,
         IdsOf(list') \union IdsIn(file') \union IdsIn(fresh') \subseteq Known \union new,
         unused' \subseteq unused \ new,
         \A t \in todo' : t.m.id \notin unused',
         ui' = "adding" => \A t \in todo' : t.m.id \notin Known \union new
  PROVE  IdsApart'
BY DEF IdsApart, Known, IdsOf, IdsIn

\* Almost no step makes an id known.
LEMMA ApartKept ==
  ASSUME IdsApart,
         IdsOf(list') \union IdsIn(file') \union IdsIn(fresh') \subseteq Known,
         unused' = unused,
         \A t \in todo' : t.m.id \notin unused,
         ui' = "adding" => ui = "adding" /\ todo' = todo
  PROVE  IdsApart'
<1>1. ui' = "adding" => \A t \in todo' : t.m.id \notin Known
  BY DEF IdsApart
<1> QED
  BY <1>1, ApartStep

LEMMA TodoOfCut ==
  ASSUME InHand, ui \in CutPlaces
  PROVE  \E t \in [pos : Nat, m : Macro] : todo = {t}
BY DEF InHand

LEMMA TypedNext ==
  ASSUME EngineTypeOK', AppTyped', WorldTyped'
  PROVE  TypeOK'
BY DEF TypeOK, AppTyped, WorldTyped, EngineTypeOK

LEMMA AddTypes ==
  ASSUME TypeInv, AddPressed
  PROVE  TypeInv'
<1> USE DEF TypeInv
<1>1. PICK i \in unused :
        LET m == [id |-> i, enabled |-> TRUE, body |-> NewBody] IN
        /\ Post([op |-> "AddMacro", m |-> m])
        /\ rows' = Append(rows, [id |-> i, enabled |-> TRUE])
        /\ todo' = {[pos |-> 0, m |-> m]}
        /\ unused' = unused \ {i}
  BY DEF AddPressed
<1> DEFINE m == [id |-> i, enabled |-> TRUE, body |-> NewBody]
           t == [pos |-> 0, m |-> m]
<1>2. EngineTypeOK /\ AppTyped /\ WorldTyped
  BY TypeParts
<1>3. i \in Ids /\ m \in Macro /\ m.id = i
  BY <1>2, EditorAssumption DEF WorldTyped, Macro
<1>4. t \in [pos : Nat, m : Macro] /\ t.m.id = i /\ todo' = {t}
  BY <1>1, <1>3
<1>5. EngineTypeOK'
  <2>1. [op |-> "AddMacro", m |-> m] \in Command
    BY <1>3 DEF Command
  <2> QED
    BY <1>1, <1>2, <2>1, PostTyped
<1>6. list' = list /\ ui' = "adding" /\ ui = "idle" /\ suppress' = suppress
      /\ refresh' = refresh /\ file' = file /\ fresh' = fresh
  BY DEF AddPressed, Begin, reload, disk
<1> HIDE DEF t, m
<1>7. rows' \in Seq(Row)
  BY <1>1, <1>2, <1>3 DEF AppTyped, Row
<1>8. AppTyped'
  BY <1>2, <1>4, <1>6, <1>7 DEF AppTyped, UiPlace, IsMacroList
<1>9. WorldTyped'
  <2>1. unused' \in SUBSET Ids
    BY <1>1, <1>2 DEF WorldTyped
  <2> QED
    BY <1>2, <2>1, BeginTyped DEF AddPressed
<1>10. InHand'
  BY <1>4, <1>6 DEF InHand, CutPlaces
<1>11. IdsApart'
  <2>1. i \notin Known
    BY DEF IdsApart
  <2>2. unused' = unused \ {i} /\ \A u \in todo' : u.m.id = i
    BY <1>1, <1>4
  <2>3. Known' = Known
    BY <1>6 DEF Known, IdsOf, IdsIn
  <2> QED
    BY <2>1, <2>2, <2>3 DEF IdsApart
<1>12. RowInHand'
  BY <1>6 DEF RowInHand
<1> QED
  BY <1>5, <1>8, <1>9, <1>10, <1>11, <1>12, TypedNext

\* A callback that has looked up its row and lets go of the mutex.
LEMMA LookUpTypes ==
  ASSUME TypeInv, Begin, NEW k \in DOMAIN list, Clicked(k),
         todo' = {[pos |-> k, m |-> list'[k]]},
         ui' \in CutPlaces \ {"adding"},
         IsMacroList(list'), IdsOf(list') = IdsOf(list), DOMAIN list' = DOMAIN list,
         UNCHANGED <<evars, rows, suppress, unused>>
  PROVE  TypeInv'
<1> USE DEF TypeInv
<1>1. EngineTypeOK /\ AppTyped /\ WorldTyped
  BY TypeParts
<1>2. k \in Nat /\ list'[k] \in Macro /\ list'[k].id \in IdsOf(list)
  <2>1. k \in DOMAIN list' /\ list' \in Seq(Macro)
    BY DEF IsMacroList
  <2>2. list'[k].id \in IdsOf(list')
    BY <2>1 DEF IdsOf
  <2> QED
    BY <2>1, <2>2
<1> DEFINE t == [pos |-> k, m |-> list'[k]]
<1>3. t \in [pos : Nat, m : Macro] /\ t.m.id \in IdsOf(list) /\ todo' = {t}
  BY <1>2
<1> HIDE DEF t
<1>4. ui' \in UiPlace /\ ui' # "adding" /\ ui' \in CutPlaces
  BY DEF UiPlace, CutPlaces
<1>5. rows' = rows /\ suppress' = suppress /\ unused' = unused
      /\ refresh' = refresh /\ file' = file /\ fresh' = fresh
  BY DEF Begin, reload, disk
<1>6. EngineTypeOK'
  BY <1>1, EngineKept
<1>7. AppTyped'
  BY <1>1, <1>3, <1>4, <1>5 DEF AppTyped, IsMacroList
<1>8. WorldTyped'
  BY <1>1, <1>5, BeginTyped DEF WorldTyped
<1>9. InHand'
  BY <1>3, <1>4 DEF InHand, CutPlaces
<1>10. IdsApart'
  <2>1. t.m.id \notin unused
    BY <1>3 DEF IdsApart, Known
  <2>2. IdsOf(list') \union IdsIn(file') \union IdsIn(fresh') \subseteq Known
    BY <1>5 DEF Known
  <2> QED
    BY <1>3, <1>4, <1>5, <2>1, <2>2, ApartKept
<1>11. RowInHand'
  <2>1. \A u \in todo' : u.pos = k
    OBVIOUS
  <2>2. k \in DOMAIN rows'
    BY <1>5 DEF Clicked
  <2> QED
    BY <2>1, <2>2 DEF RowInHand
<1> QED
  BY <1>6, <1>7, <1>8, <1>9, <1>10, <1>11, TypedNext

\* A step after which the UI thread is outside every callback that lets go of the
\* mutex, and which gives the list no new id.
LEMMA OutsideTypes ==
  ASSUME TypeInv, EngineTypeOK', WorldTyped',
         IsMacroList(list'), IdsOf(list') \subseteq IdsOf(list), rows' \in Seq(Row),
         ui' \in UiPlace \ CutPlaces, todo' = {},
         {refresh', suppress'} \subseteq BOOLEAN,
         unused' = unused, file' = file, fresh' = fresh
  PROVE  TypeInv'
<1> USE DEF TypeInv
<1>1. ui' # "adding" /\ ui' \notin CutPlaces
  BY DEF CutPlaces
<1>2. AppTyped'
  BY DEF AppTyped, IsMacroList
<1>3. InHand'
  BY <1>1 DEF InHand, CutPlaces
<1>4. IdsApart'
  <2>1. IdsOf(list') \union IdsIn(file') \union IdsIn(fresh') \subseteq Known
    BY DEF Known
  <2> QED
    BY <1>1, <2>1, ApartKept
<1>5. RowInHand'
  BY <1>1 DEF RowInHand, CutPlaces
<1> QED
  BY <1>2, <1>3, <1>4, <1>5, TypedNext

LEMMA NoTodo ==
  ASSUME InHand, ui \notin CutPlaces
  PROVE  todo = {}
BY DEF InHand

LEMMA SwapTypes ==
  ASSUME TypeInv, NEW j, NEW k, SwapRows(j, k)
  PROVE  /\ IsMacroList(list') /\ IdsOf(list') = IdsOf(list)
         /\ rows' \in Seq(Row)
         /\ ui' \in {"unsaved", "dead"}
<1>1. IsMacroList(list) /\ rows \in Seq(Row)
  BY TypeParts DEF TypeInv, AppTyped
<1>2. IsMacroList(list') /\ IdsOf(list') = IdsOf(list)
  BY <1>1, Exchanged DEF SwapRows
<1>3. rows' \in Seq(Row)
  BY <1>1 DEF SwapRows, Swapped
<1> QED
  BY <1>2, <1>3 DEF SwapRows

LEMMA CallbackTypes ==
  ASSUME TypeInv, Callback
  PROVE  TypeInv'
<1>1. EngineTypeOK /\ AppTyped /\ WorldTyped /\ InHand
  BY TypeParts DEF TypeInv
<1>2. IsMacroList(list) /\ rows \in Seq(Row) /\ {refresh, suppress} \subseteq BOOLEAN
  BY <1>1 DEF AppTyped
<1>3. CASE AddPressed
  BY <1>3, AddTypes
<1>4. ASSUME Begin PROVE /\ unused' = unused => WorldTyped'
                         /\ refresh' = refresh /\ file' = file /\ fresh' = fresh
                         /\ todo = {}
  <2>1. unused' = unused => WorldTyped'
    BY <1>1, <1>4, BeginTyped DEF WorldTyped
  <2>2. todo = {}
    BY <1>1, <1>4 DEF InHand, CutPlaces, Begin
  <2> QED
    BY <1>4, <2>1, <2>2 DEF Begin, reload, disk
<1>5. CASE Rename
  <2>1. UNCHANGED <<evars, list, rows, todo, unused>> /\ ui' = "armed" /\ suppress' = TRUE
    BY <1>5 DEF Rename
  <2>2. EngineTypeOK'
    BY <1>1, <2>1, EngineKept
  <2>3. ui' \in UiPlace \ CutPlaces
    BY <2>1 DEF UiPlace, CutPlaces
  <2>4. Begin
    BY <1>5 DEF Rename
  <2>5. IsMacroList(list')
    BY <1>2, <2>1
  <2>6. WorldTyped' /\ todo' = {} /\ {refresh', suppress'} \subseteq BOOLEAN
        /\ file' = file /\ fresh' = fresh
    BY <1>2, <1>4, <2>1, <2>4
  <2> QED
    BY <1>2, <2>1, <2>2, <2>3, <2>5, <2>6, OutsideTypes
<1>6. ASSUME NEW k \in DOMAIN rows, DeletePressed(k) PROVE TypeInv'
  <2>1. /\ Begin /\ Clicked(k) /\ k \in DOMAIN list
        /\ todo' = {[pos |-> k, m |-> list'[k]]} /\ ui' = "deleting" /\ list' = list
        /\ UNCHANGED <<evars, rows, suppress, unused>>
    BY <1>6 DEF DeletePressed
  <2>2. ui' \in CutPlaces \ {"adding"}
    BY <2>1 DEF CutPlaces
  <2> QED
    BY <1>2, <2>1, <2>2, LookUpTypes
<1>7. ASSUME NEW k \in DOMAIN rows, TogglePressed(k) PROVE TypeInv'
  <2>1. /\ Begin /\ Clicked(k) /\ k \in DOMAIN list
        /\ todo' = {[pos |-> k, m |-> list'[k]]} /\ ui' = "toggling"
        /\ list' = [list EXCEPT ![k].enabled = ~rows[k].enabled]
        /\ UNCHANGED <<evars, rows, suppress, unused>>
    BY <1>7 DEF TogglePressed
  <2>2. ui' \in CutPlaces \ {"adding"}
    BY <2>1 DEF CutPlaces
  <2> DEFINE m == [list[k] EXCEPT !.enabled = ~rows[k].enabled]
  <2>3. list' = [list EXCEPT ![k] = m] /\ DOMAIN list' = DOMAIN list
    BY <2>1
  <2>4. m \in Macro /\ m.id = list[k].id
    <3>1. list[k] \in Macro
      BY <1>2, <2>1, Members
    <3> QED
      BY <3>1 DEF Macro
  <2> HIDE DEF m
  <2>5. IsMacroList(list') /\ IdsOf(list') = IdsOf(list)
    <3>1. IsMacroList([list EXCEPT ![k] = m]) /\ IdsOf([list EXCEPT ![k] = m]) = IdsOf(list)
      BY <1>2, <2>1, <2>4, Replaced
    <3> QED
      BY <2>3, <3>1
  <2> QED
    BY <2>1, <2>2, <2>3, <2>5, LookUpTypes
<1>8. ASSUME NEW k \in DOMAIN rows, MoveUp(k) PROVE TypeInv'
  <2>1. Begin /\ SwapRows(k - 1, k) /\ UNCHANGED <<evars, todo, suppress, unused>>
    BY <1>8 DEF MoveUp
  <2>2. /\ IsMacroList(list') /\ IdsOf(list') = IdsOf(list) /\ rows' \in Seq(Row)
        /\ ui' \in {"unsaved", "dead"}
    BY <2>1, SwapTypes
  <2>3. ui' \in UiPlace \ CutPlaces
    BY <2>2 DEF UiPlace, CutPlaces
  <2>4. EngineTypeOK'
    BY <1>1, <2>1, EngineKept
  <2>5. WorldTyped' /\ todo' = {} /\ {refresh', suppress'} \subseteq BOOLEAN
        /\ file' = file /\ fresh' = fresh /\ unused' = unused
    BY <1>2, <1>4, <2>1
  <2> QED
    BY <2>2, <2>3, <2>4, <2>5, OutsideTypes
<1>9. ASSUME NEW k \in DOMAIN rows, MoveDownPressed(k) PROVE TypeInv'
  <2>1. /\ Begin /\ Clicked(k) /\ k + 1 \in DOMAIN list
        /\ todo' = {[pos |-> k, m |-> list[k]]} /\ ui' = "moving" /\ list' = list
        /\ UNCHANGED <<evars, rows, suppress, unused>>
    BY <1>9 DEF MoveDownPressed
  <2>2. ui' \in CutPlaces \ {"adding"}
    BY <2>1 DEF CutPlaces
  <2>3. k \in DOMAIN list
    <3>1. DOMAIN list = 1..Len(list) /\ Len(list) \in Nat
      BY <1>2, Members
    <3>2. k \in Nat /\ k >= 1
      BY <1>2, <1>9
    <3> QED
      BY <2>1, <3>1, <3>2
  <2> QED
    BY <1>2, <2>1, <2>2, <2>3, LookUpTypes
<1>10. ASSUME NEW k \in DOMAIN rows, NEW b \in Edited, Edit(k, b) PROVE TypeInv'
  <2>1. /\ Begin /\ k \in DOMAIN list /\ list' = [list EXCEPT ![k].body = b]
        /\ Post([op |-> "UpdateMacro", m |-> list'[k]])
        /\ suppress' = TRUE /\ ui' = "armed"
        /\ UNCHANGED <<rows, todo, unused>>
    BY <1>10 DEF Edit
  <2> DEFINE m == [list[k] EXCEPT !.body = b]
  <2>2. m \in Macro /\ m.id = list[k].id
    <3>1. list[k] \in Macro
      BY <1>2, <2>1, Members
    <3> QED
      BY <3>1, EditorAssumption DEF Macro
  <2>3. list' = [list EXCEPT ![k] = m] /\ list'[k] = m
    BY <2>1
  <2> HIDE DEF m
  <2>4. IsMacroList(list') /\ IdsOf(list') = IdsOf(list)
    <3>1. IsMacroList([list EXCEPT ![k] = m]) /\ IdsOf([list EXCEPT ![k] = m]) = IdsOf(list)
      BY <1>2, <2>1, <2>2, Replaced
    <3> QED
      BY <2>3, <3>1
  <2>5. EngineTypeOK'
    <3>1. [op |-> "UpdateMacro", m |-> m] \in Command
      BY <2>2 DEF Command
    <3> QED
      BY <1>1, <2>1, <2>3, <3>1, PostTyped
  <2>6. ui' \in UiPlace \ CutPlaces
    BY <2>1 DEF UiPlace, CutPlaces
  <2>7. WorldTyped' /\ todo' = {} /\ {refresh', suppress'} \subseteq BOOLEAN
        /\ file' = file /\ fresh' = fresh /\ unused' = unused /\ rows' \in Seq(Row)
    BY <1>2, <1>4, <2>1
  <2> QED
    BY <2>4, <2>5, <2>6, <2>7, OutsideTypes
<1> QED
  BY <1>3, <1>5, <1>6, <1>7, <1>8, <1>9, <1>10 DEF Callback

LEMMA UiStepTypes ==
  ASSUME TypeInv, UiStep
  PROVE  TypeInv'
<1>1. EngineTypeOK /\ AppTyped /\ WorldTyped /\ InHand
  BY TypeParts DEF TypeInv
<1>2. IsMacroList(list) /\ rows \in Seq(Row) /\ {refresh, suppress} \subseteq BOOLEAN
      /\ ui \in UiPlace
  BY <1>1 DEF AppTyped
<1>3. ASSUME NEW from, Continue(from)
      PROVE  /\ WorldTyped' /\ refresh' = refresh
             /\ file' = file /\ fresh' = fresh /\ unused' = unused /\ ui = from
  BY <1>1, <1>3, ContinueTyped DEF Continue, reload, disk, others
<1>4. CASE PushAdded
  <2>1. ui = "adding" /\ ui' = "unsaved" /\ todo' = {} /\ UNCHANGED <<evars, rows, suppress>>
        /\ Continue("adding")
    BY <1>4 DEF PushAdded, Continue
  <2>2. PICK t \in [pos : Nat, m : Macro] : todo = {t}
    BY <1>1, <2>1, TodoOfCut DEF CutPlaces
  <2>3. list' = Append(list, t.m)
    BY <1>4, <2>2 DEF PushAdded
  <2>4. t.m.id \notin Known /\ t.m.id \notin unused
    BY <2>1, <2>2 DEF TypeInv, IdsApart
  <2>5. IsMacroList(list') /\ IdsOf(list') = IdsOf(list) \union {t.m.id}
    BY <1>2, <2>2, <2>3, <2>4, Appended DEF Known
  <2>6. WorldTyped' /\ refresh' = refresh /\ file' = file /\ fresh' = fresh /\ unused' = unused
    BY <1>3, <2>1
  <2>7. EngineTypeOK'
    BY <1>1, <2>1, EngineKept
  <2>8. AppTyped'
    BY <1>2, <2>1, <2>5, <2>6 DEF AppTyped, IsMacroList, UiPlace
  <2>9. InHand' /\ RowInHand'
    BY <2>1 DEF InHand, RowInHand, CutPlaces
  <2>10. IdsApart'
    <3>1. IdsOf(list') \union IdsIn(file') \union IdsIn(fresh') \subseteq Known \union {t.m.id}
      BY <2>5, <2>6 DEF Known
    <3>2. IdsApart
      BY DEF TypeInv
    <3> QED
      BY <2>1, <2>4, <2>6, <3>1, <3>2, ApartStep
  <2> QED
    BY <2>6, <2>7, <2>8, <2>9, <2>10, TypedNext DEF TypeInv
<1>5. CASE SendDelete
  <2>1. /\ ui = "deleting" /\ ui' = "removing" /\ Continue("deleting")
        /\ UNCHANGED <<list, todo, suppress>>
    BY <1>5 DEF SendDelete, Continue
  <2>2. PICK t \in [pos : Nat, m : Macro] : todo = {t}
    BY <1>1, <2>1, TodoOfCut DEF CutPlaces
  <2>3. Post([op |-> "DeleteMacro", id |-> t.m.id]) /\ rows' = RemoveAt(rows, t.pos)
    BY <1>5, <2>2 DEF SendDelete
  <2>4. t.m.id \in Ids
    BY DEF Macro
  <2>5. EngineTypeOK'
    <3>1. [op |-> "DeleteMacro", id |-> t.m.id] \in Command
      BY <2>4 DEF Command
    <3> QED
      BY <1>1, <2>3, <3>1, PostTyped
  <2>6. rows' \in Seq(Row)
    <3>1. t.pos \in DOMAIN rows
      BY <2>1, <2>2 DEF TypeInv, RowInHand
    <3> QED
      BY <1>2, <2>3, <3>1, Removed
  <2>7. WorldTyped' /\ refresh' = refresh /\ file' = file /\ fresh' = fresh /\ unused' = unused
    BY <1>3, <2>1
  <2>8. AppTyped'
    BY <1>1, <2>1, <2>6, <2>7 DEF AppTyped, IsMacroList, UiPlace
  <2>9. InHand' /\ RowInHand'
    BY <2>1, <2>2 DEF InHand, RowInHand, CutPlaces
  <2>10. IdsApart'
    <3>1. IdsOf(list') \union IdsIn(file') \union IdsIn(fresh') \subseteq Known
      BY <2>1, <2>7 DEF Known
    <3>2. IdsApart
      BY DEF TypeInv
    <3>3. \A u \in todo' : u.m.id \notin unused
      BY <2>1, <3>2 DEF IdsApart
    <3> QED
      BY <2>1, <2>7, <3>1, <3>2, <3>3, ApartKept
  <2> QED
    BY <2>5, <2>7, <2>8, <2>9, <2>10, TypedNext DEF TypeInv
<1>6. CASE RemoveDeleted
  <2>1. Continue("removing") /\ ui = "removing" /\ todo' = {} /\ UNCHANGED <<evars, rows, suppress>>
    BY <1>6 DEF RemoveDeleted, Continue
  <2>2. PICK t \in [pos : Nat, m : Macro] : todo = {t}
    BY <1>1, <2>1, TodoOfCut DEF CutPlaces
  <2>3. \/ t.pos \in DOMAIN list /\ list' = RemoveAt(list, t.pos) /\ ui' = "unsaved"
        \/ ui' = "dead" /\ list' = list
    BY <1>6, <2>2 DEF RemoveDeleted
  <2>4. IsMacroList(list') /\ IdsOf(list') \subseteq IdsOf(list)
    BY <1>2, <2>3, TakenOut
  <2>5. ui' \in UiPlace \ CutPlaces
    BY <2>3 DEF UiPlace, CutPlaces
  <2>6. WorldTyped' /\ refresh' = refresh /\ file' = file /\ fresh' = fresh /\ unused' = unused
    BY <1>3, <2>1
  <2>7. EngineTypeOK'
    BY <1>1, <2>1, EngineKept
  <2>8. {refresh', suppress'} \subseteq BOOLEAN /\ rows' \in Seq(Row)
    BY <1>2, <2>1, <2>6
  <2> QED
    BY <2>1, <2>4, <2>5, <2>6, <2>7, <2>8, OutsideTypes
<1>7. CASE SendToggle
  <2>1. /\ ui = "toggling" /\ ui' = "unsaved" /\ Continue("toggling") /\ todo' = {}
        /\ UNCHANGED <<list, suppress>>
    BY <1>7 DEF SendToggle, Continue
  <2>2. PICK t \in [pos : Nat, m : Macro] : todo = {t}
    BY <1>1, <2>1, TodoOfCut DEF CutPlaces
  <2>3. /\ Post([op |-> "SetEnabled", id |-> t.m.id, enabled |-> t.m.enabled])
        /\ rows' = [rows EXCEPT ![t.pos].enabled = t.m.enabled]
    BY <1>7, <2>2 DEF SendToggle
  <2>4. t.m.id \in Ids /\ t.m.enabled \in BOOLEAN
    BY DEF Macro
  <2>5. EngineTypeOK'
    <3>1. [op |-> "SetEnabled", id |-> t.m.id, enabled |-> t.m.enabled] \in Command
      BY <2>4 DEF Command
    <3> QED
      BY <1>1, <2>3, <3>1, PostTyped
  <2>6. rows' \in Seq(Row)
    <3>1. CASE t.pos \in DOMAIN rows
      <4> DEFINE r == [rows[t.pos] EXCEPT !.enabled = t.m.enabled]
      <4>1. rows' = [rows EXCEPT ![t.pos] = r]
        BY <2>3
      <4>2. rows[t.pos] \in Row
        BY <1>2, <3>1
      <4>3. r \in Row
        BY <2>4, <4>2 DEF Row
      <4> HIDE DEF r
      <4> QED
        BY <1>2, <3>1, <4>1, <4>3
    <3>2. CASE t.pos \notin DOMAIN rows
      <4>1. rows' = rows
        BY <1>2, <2>3, <3>2
      <4> QED
        BY <1>2, <4>1
    <3> QED
      BY <3>1, <3>2
  <2>7. WorldTyped' /\ {refresh', suppress'} \subseteq BOOLEAN
        /\ file' = file /\ fresh' = fresh /\ unused' = unused
    BY <1>2, <1>3, <2>1
  <2>8. ui' \in UiPlace \ CutPlaces
    BY <2>1 DEF UiPlace, CutPlaces
  <2> QED
    BY <1>2, <2>1, <2>5, <2>6, <2>7, <2>8, OutsideTypes
<1>8. CASE MoveDown
  <2>1. Continue("moving") /\ ui = "moving" /\ todo' = {} /\ UNCHANGED <<evars, suppress>>
    BY <1>8 DEF MoveDown, Continue
  <2>2. PICK t \in [pos : Nat, m : Macro] : todo = {t}
    BY <1>1, <2>1, TodoOfCut DEF CutPlaces
  <2>3. SwapRows(t.pos, t.pos + 1)
    BY <1>8, <2>2 DEF MoveDown
  <2>4. /\ IsMacroList(list') /\ IdsOf(list') = IdsOf(list) /\ rows' \in Seq(Row)
        /\ ui' \in {"unsaved", "dead"}
    BY <2>3, SwapTypes
  <2>5. ui' \in UiPlace \ CutPlaces
    BY <2>4 DEF UiPlace, CutPlaces
  <2>6. WorldTyped' /\ {refresh', suppress'} \subseteq BOOLEAN
        /\ file' = file /\ fresh' = fresh /\ unused' = unused
    BY <1>2, <1>3, <2>1
  <2>7. EngineTypeOK'
    BY <1>1, <2>1, EngineKept
  <2> QED
    BY <2>1, <2>4, <2>5, <2>6, <2>7, OutsideTypes
<1>9. CASE BeginSave
  <2>1. Continue("unsaved") /\ suppress' = TRUE /\ ui' = "armed" /\ ui = "unsaved"
        /\ UNCHANGED <<evars, list, rows, todo>>
    BY <1>9 DEF BeginSave, Continue
  <2>2. WorldTyped' /\ {refresh', suppress'} \subseteq BOOLEAN
        /\ file' = file /\ fresh' = fresh /\ unused' = unused
    BY <1>2, <1>3, <2>1
  <2>3. todo' = {}
    BY <1>1, <2>1, NoTodo DEF CutPlaces
  <2>4. ui' \in UiPlace \ CutPlaces
    BY <2>1 DEF UiPlace, CutPlaces
  <2>5. EngineTypeOK'
    BY <1>1, <2>1, EngineKept
  <2> QED
    BY <1>2, <2>1, <2>2, <2>3, <2>4, <2>5, OutsideTypes
<1>10. CASE WriteTmp
  <2>1. /\ ui = "armed" /\ ui' = "written"
        /\ UNCHANGED <<evars, list, rows, todo, refresh, suppress, reload, disk, others>>
    BY <1>10 DEF WriteTmp
  <2>2. WorldTyped'
    BY <1>1, <2>1 DEF WorldTyped, reload, disk, others, IsFile, IsMacroList
  <2>3. todo' = {}
    BY <1>1, <2>1, NoTodo DEF CutPlaces
  <2>4. ui' \in UiPlace \ CutPlaces
    BY <2>1 DEF UiPlace, CutPlaces
  <2>5. EngineTypeOK'
    BY <1>1, <2>1, EngineKept
  <2>6. {refresh', suppress'} \subseteq BOOLEAN /\ rows' = rows
        /\ file' = file /\ fresh' = fresh /\ unused' = unused
    BY <1>2, <2>1 DEF disk, reload, others
  <2> QED
    BY <1>2, <2>1, <2>2, <2>3, <2>4, <2>5, <2>6, OutsideTypes
<1>11. CASE RenameTmp
  <2>1. /\ ui = "written" /\ ui' = "idle" /\ file' = {list}
        /\ history' = [history EXCEPT !.saved = {list}, !.failed = FALSE]
        /\ UNCHANGED <<evars, list, rows, todo, refresh, suppress, reload, unused>>
    BY <1>11 DEF RenameTmp
  <2>2. notes' \in Nat
    BY <1>1, <1>11 DEF RenameTmp, WorldTyped
  <2>3. left' \in [callbacks : 0..MaxCallbacks, outside : 0..MaxOutside, crashes : 0..MaxCrashes]
    BY <1>1, <1>11, EditorAssumption DEF RenameTmp, WorldTyped
  <2>4. IsFile({list})
    BY <1>2 DEF IsFile
  <2>5. history' \in [saved : SUBSET Seq(Macro), overlapped : BOOLEAN, stale : BOOLEAN, failed : BOOLEAN]
    BY <1>1, <1>2, <2>1 DEF WorldTyped, IsMacroList
  <2>6. WorldTyped'
    BY <1>1, <2>1, <2>2, <2>3, <2>4, <2>5 DEF WorldTyped, reload, IsFile, IsMacroList
  <2>7. EngineTypeOK'
    BY <1>1, <2>1, EngineKept
  <2>8. AppTyped'
    BY <1>1, <2>1 DEF AppTyped, IsMacroList, UiPlace
  <2>9. todo' = {}
    BY <1>1, <2>1, NoTodo DEF CutPlaces
  <2>10. InHand' /\ RowInHand'
    BY <2>1, <2>9 DEF InHand, RowInHand, CutPlaces
  <2>11. IdsApart'
    <3>1. IdsIn({list}) = IdsOf(list)
      BY DEF IdsIn
    <3>2. IdsOf(list') \union IdsIn(file') \union IdsIn(fresh') \subseteq Known
      BY <2>1, <3>1 DEF Known, reload
    <3>3. IdsApart
      BY DEF TypeInv
    <3> QED
      BY <2>1, <2>9, <3>2, <3>3, ApartKept
  <2> QED
    BY <2>6, <2>7, <2>8, <2>10, <2>11, TypedNext DEF TypeInv
<1>12. CASE SaveFails
  <2>1. /\ ui \in {"armed", "written"} /\ ui' = "idle" /\ suppress' = FALSE
        /\ history' = [history EXCEPT !.failed = TRUE]
        /\ UNCHANGED <<evars, list, rows, todo, refresh, reload, disk, unused, left>>
    BY <1>12 DEF SaveFails
  <2>2. WorldTyped'
    BY <1>1, <2>1 DEF WorldTyped, reload, disk, IsFile, IsMacroList
  <2>3. todo' = {}
    BY <1>1, <2>1, NoTodo DEF CutPlaces
  <2>4. ui' \in UiPlace \ CutPlaces
    BY <2>1 DEF UiPlace, CutPlaces
  <2>5. EngineTypeOK'
    BY <1>1, <2>1, EngineKept
  <2>6. {refresh', suppress'} \subseteq BOOLEAN /\ rows' = rows
        /\ file' = file /\ fresh' = fresh /\ unused' = unused
    BY <1>2, <2>1 DEF disk, reload
  <2> QED
    BY <1>2, <2>1, <2>2, <2>3, <2>4, <2>5, <2>6, OutsideTypes
<1>13. CASE Refresh
  <2>1. /\ ui = "idle" /\ rows' = RowsOf(list) /\ refresh' = FALSE
        /\ UNCHANGED <<evars, list, ui, todo, suppress, reload, disk, others>>
    BY <1>13 DEF Refresh, RowsReloaded
  <2>2. WorldTyped'
    BY <1>1, <2>1 DEF WorldTyped, reload, disk, others, IsFile, IsMacroList
  <2>3. todo' = {}
    BY <1>1, <2>1, NoTodo DEF CutPlaces
  <2>4. ui' \in UiPlace \ CutPlaces
    BY <2>1 DEF UiPlace, CutPlaces
  <2>5. EngineTypeOK'
    BY <1>1, <2>1, EngineKept
  <2>6. {refresh', suppress'} \subseteq BOOLEAN /\ rows' \in Seq(Row)
        /\ file' = file /\ fresh' = fresh /\ unused' = unused
    BY <1>2, <2>1, RowsTyped DEF disk, reload, others
  <2> QED
    BY <1>2, <2>1, <2>2, <2>3, <2>4, <2>5, <2>6, OutsideTypes
<1> QED
  BY <1>4, <1>5, <1>6, <1>7, <1>8, <1>9, <1>10, <1>11, <1>12, <1>13 DEF UiStep

LEMMA CrashTypes ==
  ASSUME TypeInv, Crash
  PROVE  TypeInv'
<1>1. EngineTypeOK /\ AppTyped /\ WorldTyped
  BY TypeParts DEF TypeInv
<1> DEFINE l == LoadedFrom(file)
<1>2. IsMacroList(l) /\ IdsOf(l) = IdsIn(file) /\ IsFile(file)
  BY <1>1, LoadedTyped DEF WorldTyped
<1>3. /\ macros' = [i \in Ids |-> {}] /\ index' = NoIndex /\ cmds' = Adding(l)
      /\ events' = <<>> /\ inline' = {} /\ up' = TRUE /\ batch' = [i \in Ids |-> 0]
      /\ list' = l /\ rows' = RowsOf(l)
      /\ ui' = "idle" /\ todo' = {} /\ refresh' = FALSE /\ suppress' = FALSE
      /\ watcher' = "waiting" /\ fresh' = {} /\ notes' = 0
      /\ history' = Clean(history.saved) /\ file' = file /\ unused' = unused
  BY DEF Crash, Booted
<1> HIDE DEF l
<1>4. EngineTypeOK'
  <2>1. cmds' \in Seq(Command)
    BY <1>2, <1>3, AddingTyped
  <2> QED
    BY <1>3, <2>1 DEF EngineTypeOK, NoIndex
<1>5. AppTyped'
  <2>1. RowsOf(l) \in Seq(Row)
    BY <1>2, RowsTyped
  <2> QED
    BY <1>2, <1>3, <2>1 DEF AppTyped, UiPlace, IsMacroList
<1>6. WorldTyped'
  <2>1. left' \in [callbacks : 0..MaxCallbacks, outside : 0..MaxOutside, crashes : 0..MaxCrashes]
    BY <1>1, EditorAssumption DEF Crash, WorldTyped
  <2>2. history' \in [saved : SUBSET Seq(Macro), overlapped : BOOLEAN, stale : BOOLEAN, failed : BOOLEAN]
    BY <1>1, <1>3 DEF WorldTyped, Clean
  <2> QED
    BY <1>1, <1>3, <2>1, <2>2 DEF WorldTyped, IsFile, IsMacroList
<1>7. InHand' /\ RowInHand'
  BY <1>3 DEF InHand, RowInHand, CutPlaces
<1>8. IdsApart'
  <2>1. IdsOf(list') \union IdsIn(file') \union IdsIn(fresh') \subseteq Known
    BY <1>2, <1>3 DEF Known, IdsIn
  <2> QED
    BY <1>3, <2>1, ApartKept DEF TypeInv
<1> QED
  BY <1>4, <1>5, <1>6, <1>7, <1>8, TypedNext DEF TypeInv

LEMMA ApplyTypes ==
  ASSUME TypeInv, Apply
  PROVE  TypeInv'
<1>1. EngineTypeOK /\ AppTyped /\ WorldTyped
  BY TypeParts DEF TypeInv
<1>2. PICK new \in fresh : list' = new /\ cmds' = cmds \o ReloadCommands(new)
  BY DEF Apply
<1>3. IsMacroList(new) /\ IsMacroList(list) /\ IdsOf(new) \subseteq IdsIn(fresh)
  BY <1>1 DEF WorldTyped, AppTyped, IsFile, IdsIn
<1>4. EngineTypeOK'
  <2>1. ReloadCommands(new) \in Seq(Command)
    BY <1>3, ReloadTyped
  <2>2. cmds' \in Seq(Command)
    BY <1>1, <1>2, <2>1 DEF EngineTypeOK
  <2> QED
    BY <1>1, <2>2 DEF Apply, EngineTypeOK, router
<1>5. AppTyped'
  BY <1>1, <1>2, <1>3 DEF Apply, AppTyped, IsMacroList
<1>6. WorldTyped'
  <2>1. history' \in [saved : SUBSET Seq(Macro), overlapped : BOOLEAN, stale : BOOLEAN, failed : BOOLEAN]
    BY <1>1 DEF Apply, WorldTyped
  <2> QED
    BY <1>1, <2>1 DEF Apply, WorldTyped, disk, IsFile, IsMacroList
<1>7. InHand' /\ RowInHand'
  BY DEF Apply, TypeInv, InHand, RowInHand
<1>8. IdsApart'
  <2>1. IdsOf(list') \union IdsIn(file') \union IdsIn(fresh') \subseteq Known
    BY <1>2, <1>3 DEF Apply, Known, IdsIn, disk
  <2>2. \A t \in todo' : t.m.id \notin unused
    BY DEF Apply, TypeInv, IdsApart
  <2> QED
    BY <2>1, <2>2, ApartKept DEF TypeInv, Apply
<1> QED
  BY <1>4, <1>5, <1>6, <1>7, <1>8, TypedNext DEF TypeInv

LEMMA OutsideWriteTypes ==
  ASSUME TypeInv, NEW f \in Outside, WriteOutside(f)
  PROVE  TypeInv'
<1>1. EngineTypeOK /\ AppTyped /\ WorldTyped
  BY TypeParts DEF TypeInv
<1>2. /\ UNCHANGED <<evars, app, reload>> /\ file' = f /\ IsFile(f)
      /\ unused' = unused \ IdsIn(f)
  BY EditorAssumption DEF WriteOutside
<1>3. EngineTypeOK'
  BY <1>1, <1>2, EngineKept
<1>4. AppTyped'
  BY <1>1, <1>2 DEF AppTyped, app, IsMacroList
<1>5. WorldTyped'
  <2>1. left' \in [callbacks : 0..MaxCallbacks, outside : 0..MaxOutside, crashes : 0..MaxCrashes]
    BY <1>1, EditorAssumption DEF WriteOutside, WorldTyped
  <2>2. history' \in [saved : SUBSET Seq(Macro), overlapped : BOOLEAN, stale : BOOLEAN, failed : BOOLEAN]
    <3>1. f \subseteq Seq(Macro)
      BY <1>2 DEF IsFile, IsMacroList
    <3> QED
      BY <1>1, <3>1 DEF WriteOutside, WorldTyped
  <2>3. notes' \in Nat
    BY <1>1 DEF WriteOutside, WorldTyped
  <2> QED
    BY <1>1, <1>2, <2>1, <2>2, <2>3 DEF WorldTyped, reload, IsFile, IsMacroList
<1>6. InHand' /\ RowInHand'
  BY <1>2 DEF app, TypeInv, InHand, RowInHand
<1>7. IdsApart'
  <2>1. IdsOf(list') \union IdsIn(file') \union IdsIn(fresh') \subseteq Known \union IdsIn(f)
    BY <1>2 DEF Known, app, reload
  <2>2. \A t \in todo' : t.m.id \notin unused'
    BY <1>2 DEF app, TypeInv, IdsApart
  <2>3. ui' = "adding" => \A t \in todo' : t.m.id \notin Known \union IdsIn(f)
    BY <1>2 DEF WriteOutside, app, TypeInv, IdsApart
  <2> QED
    BY <1>2, <2>1, <2>2, <2>3, ApartStep DEF TypeInv
<1> QED
  BY <1>3, <1>4, <1>5, <1>6, <1>7, TypedNext DEF TypeInv

\* A step that touches neither the list nor what the UI thread has in hand.
LEMMA AsideTypes ==
  ASSUME TypeInv, EngineTypeOK', WorldTyped',
         UNCHANGED <<list, rows, ui, todo, refresh, file, unused>>, suppress' \in BOOLEAN,
         fresh' \subseteq fresh \union file
  PROVE  TypeInv'
<1>1. AppTyped'
  BY TypeParts DEF TypeInv, AppTyped, IsMacroList
<1>2. InHand' /\ RowInHand'
  BY DEF TypeInv, InHand, RowInHand
<1>3. IdsApart'
  <2>1. IdsOf(list') \union IdsIn(file') \union IdsIn(fresh') \subseteq Known
    BY DEF Known, IdsIn
  <2> QED
    BY <2>1, ApartKept DEF TypeInv, IdsApart
<1> QED
  BY <1>1, <1>2, <1>3, TypedNext DEF TypeInv

LEMMA TypeStep ==
  ASSUME TypeInv, [Next]_vars
  PROVE  TypeInv'
<1>1. EngineTypeOK /\ AppTyped /\ WorldTyped
  BY TypeParts DEF TypeInv
<1>2. suppress \in BOOLEAN
  BY <1>1 DEF AppTyped
<1>3. CASE Notice
  <2>1. EngineTypeOK'
    BY <1>1, <1>3, EngineKept DEF Notice
  <2>2. WorldTyped'
    BY <1>1, <1>3 DEF Notice, WorldTyped, others, IsFile, IsMacroList
  <2> QED
    BY <1>3, <2>1, <2>2, AsideTypes DEF Notice, others
<1>4. CASE Load
  <2>1. EngineTypeOK'
    BY <1>1, <1>4, EngineKept DEF Load
  <2>2. WorldTyped'
    BY <1>1, <1>4 DEF Load, WorldTyped, disk, others, IsFile, IsMacroList
  <2>3. UNCHANGED <<list, rows, ui, todo, refresh, file, unused, suppress>> /\ fresh' = file
    BY <1>4 DEF Load, app, disk, others
  <2> QED
    BY <1>2, <2>1, <2>2, <2>3, AsideTypes
<1>5. CASE TakeCommand /\ UNCHANGED <<app, reload, disk, others>>
  <2>1. EngineTypeOK'
    BY <1>1, <1>5, EngineTypeStep
  <2>2. WorldTyped'
    BY <1>1, <1>5 DEF WorldTyped, reload, disk, others, IsFile, IsMacroList
  <2>3. UNCHANGED <<list, rows, ui, todo, refresh, file, unused, suppress, fresh>>
    BY <1>5 DEF app, disk, reload, others
  <2> QED
    BY <1>2, <2>1, <2>2, <2>3, AsideTypes
<1>6. CASE UNCHANGED vars
  <2>1. UNCHANGED <<evars, app, reload, disk, others>>
    BY <1>6 DEF vars
  <2>2. EngineTypeOK'
    BY <1>1, <2>1, EngineKept
  <2>3. WorldTyped'
    BY <1>1, <2>1 DEF WorldTyped, reload, disk, others, IsFile, IsMacroList
  <2>4. UNCHANGED <<list, rows, ui, todo, refresh, file, unused, suppress, fresh>>
    BY <2>1 DEF app, disk, reload, others
  <2> QED
    BY <1>2, <2>2, <2>3, <2>4, AsideTypes
<1> QED
  BY <1>3, <1>4, <1>5, <1>6, CallbackTypes, UiStepTypes, ApplyTypes, OutsideWriteTypes, CrashTypes
     DEF Next, Rest

LEMMA TypesAtFirst ==
  ASSUME Init
  PROVE  TypeInv
<1>1. IsMacroList(FirstList)
  BY EditorAssumption
<1>2. EngineTypeOK
  <2>1. cmds \in Seq(Command)
    <3>1. cmds = Adding(FirstList)
      BY DEF Init, Booted, LoadedFrom
    <3> QED
      BY <1>1, <3>1, AddingTyped
  <2> QED
    BY <2>1 DEF Init, EngineTypeOK, NoIndex
<1>3. AppTyped
  BY <1>1, RowsTyped DEF Init, AppTyped, UiPlace
<1>4. WorldTyped
  BY <1>1, EditorAssumption DEF Init, WorldTyped, IsFile, IsMacroList, Clean
<1>5. InHand /\ RowInHand
  BY DEF Init, InHand, RowInHand, CutPlaces
<1>6. IdsApart
  BY DEF Init, IdsApart, Known, IdsIn
<1> QED
  BY <1>2, <1>3, <1>4, <1>5, <1>6, TypeParts DEF TypeInv

LEMMA TypesHold == Spec => []TypeInv
BY TypesAtFirst, TypeStep, PTL DEF Spec

(* Every state of the editor is typed: in particular an id is never twice *)
(* in the list, although a new macro is announced to the engine before it *)
(* is in the list and a reload may come in between (add_macro, the        *)
(* watcher's closure in app/src/watcher.rs).                              *)
THEOREM TypeCorrect == Spec => []TypeOK
<1>1. TypeInv => TypeOK
  BY DEF TypeInv
<1> QED
  BY <1>1, TypesHold, PTL

-----------------------------------------------------------------------------
(* The file.                                                               *)

(* A crash at any moment leaves the last complete write of the file: only  *)
(* a rename changes it (save_macros in crates/store/src/lib.rs).           *)
THEOREM FileAlwaysWhole == Spec => []FileIsWhole
<1>1. Init => FileIsWhole
  BY DEF Init, FileIsWhole, Clean
<1>2. TypeInv /\ FileIsWhole /\ [Next]_vars => FileIsWhole'
  <2> SUFFICES ASSUME TypeInv, FileIsWhole, [Next]_vars
               PROVE  file' = history'.saved
    BY DEF FileIsWhole
  <2>1. history \in [saved : SUBSET Seq(Macro), overlapped : BOOLEAN, stale : BOOLEAN, failed : BOOLEAN]
    BY DEF TypeInv, TypeOK
  <2>2. ASSUME UNCHANGED <<file, history>> PROVE file' = history'.saved
    BY <2>2 DEF FileIsWhole
  <2>3. CASE UNCHANGED vars
    BY <2>2, <2>3 DEF vars, disk, others
  <2>4. CASE Callback
    <3>1. ASSUME Begin PROVE UNCHANGED <<file, history>>
      BY <3>1 DEF Begin, disk
    <3> QED
      BY <2>2, <2>4, <3>1
         DEF Callback, AddPressed, Rename, DeletePressed, TogglePressed, MoveUp, MoveDownPressed, Edit
  <2>5. CASE PushAdded \/ SendDelete \/ RemoveDeleted \/ SendToggle \/ MoveDown \/ BeginSave
    BY <2>2, <2>5 DEF PushAdded, SendDelete, RemoveDeleted, SendToggle, MoveDown, BeginSave,
                      Continue, disk, others
  <2>6. CASE WriteTmp \/ Refresh \/ Notice \/ Load \/ (TakeCommand /\ UNCHANGED <<app, reload, disk, others>>)
    BY <2>2, <2>6 DEF WriteTmp, Refresh, Notice, Load, disk, others
  <2>7. CASE RenameTmp
    BY <2>1, <2>7 DEF RenameTmp
  <2>8. CASE SaveFails
    BY <2>1, <2>8 DEF SaveFails, disk, FileIsWhole
  <2>9. CASE Apply
    BY <2>1, <2>9 DEF Apply, disk, FileIsWhole
  <2>10. CASE \E f \in Outside : WriteOutside(f)
    BY <2>1, <2>10 DEF WriteOutside
  <2>11. CASE Crash
    BY <2>11 DEF Crash, Clean, FileIsWhole
  <2> QED
    BY <2>3, <2>4, <2>5, <2>6, <2>7, <2>8, <2>9, <2>10, <2>11 DEF Next, UiStep, Rest
<1> QED
  BY <1>1, <1>2, TypesHold, PTL DEF Spec

-----------------------------------------------------------------------------
(* The rows.                                                               *)

RowOf(m) == [id |-> m.id, enabled |-> m.enabled]

LEMMA RowAt ==
  ASSUME NEW l, IsMacroList(l)
  PROVE  /\ RowsOf(l) \in Seq(Row) /\ Len(RowsOf(l)) = Len(l) /\ Len(l) \in Nat
         /\ DOMAIN RowsOf(l) = 1..Len(l) /\ DOMAIN l = 1..Len(l)
         /\ \A k \in 1..Len(l) : RowsOf(l)[k] = RowOf(l[k]) /\ RowsOf(l)[k] \in Row
<1>1. RowsOf(l) \in Seq(Row) /\ DOMAIN RowsOf(l) = DOMAIN l
  BY RowsTyped
<1>2. Len(l) \in Nat /\ DOMAIN l = 1..Len(l)
  BY Members
<1>3. Len(RowsOf(l)) = Len(l)
  BY <1>1, <1>2
<1>4. \A k \in DOMAIN l : RowsOf(l)[k] = RowOf(l[k])
  BY DEF RowsOf, RowOf
<1>5. \A k \in 1..Len(l) : RowsOf(l)[k] \in Row
  BY <1>1, <1>3
<1> QED
  BY <1>1, <1>2, <1>3, <1>4, <1>5

LEMMA SameSequence ==
  ASSUME NEW S, NEW s \in Seq(S), NEW t \in Seq(S), Len(s) = Len(t),
         \A k \in 1..Len(s) : s[k] = t[k]
  PROVE  s = t
OBVIOUS

LEMMA RowsAppended ==
  ASSUME NEW l, IsMacroList(l), NEW m \in Macro, m.id \notin IdsOf(l)
  PROVE  RowsOf(Append(l, m)) = Append(RowsOf(l), RowOf(m))
<1> DEFINE a == Append(l, m)
           s == RowsOf(a)
           t == Append(RowsOf(l), RowOf(m))
<1>1. IsMacroList(a)
  BY Appended
<1>2. l \in Seq(Macro) /\ Len(a) = Len(l) + 1 /\ a[Len(l) + 1] = m /\ \A k \in 1..Len(l) : a[k] = l[k]
  BY DEF IsMacroList
<1>3. RowOf(m) \in Row
  BY DEF RowOf, Macro, Row
<1>4. /\ RowsOf(l) \in Seq(Row) /\ Len(RowsOf(l)) = Len(l) /\ Len(l) \in Nat
      /\ \A k \in 1..Len(l) : RowsOf(l)[k] = RowOf(l[k])
  BY RowAt
<1>5. /\ t \in Seq(Row) /\ Len(t) = Len(l) + 1 /\ t[Len(l) + 1] = RowOf(m)
      /\ \A k \in 1..Len(l) : t[k] = RowOf(l[k])
  BY <1>3, <1>4
<1>6. /\ s \in Seq(Row) /\ Len(s) = Len(l) + 1
      /\ \A k \in 1..Len(l) + 1 : s[k] = RowOf(a[k])
  BY <1>1, <1>2, RowAt
<1> HIDE DEF a, s, t
<1>7. ASSUME NEW k \in 1..Len(l) + 1 PROVE s[k] = t[k]
  <2>1. CASE k = Len(l) + 1
    BY <1>2, <1>5, <1>6, <2>1
  <2>2. CASE k \in 1..Len(l)
    BY <1>2, <1>5, <1>6, <2>2
  <2> QED
    BY <1>4, <2>1, <2>2
<1>8. s = t
  BY <1>5, <1>6, <1>7, SameSequence
<1> QED
  BY <1>8 DEF a, s, t

LEMMA RowsTakenOut ==
  ASSUME NEW l, IsMacroList(l), NEW i \in DOMAIN l
  PROVE  RowsOf(RemoveAt(l, i)) = RemoveAt(RowsOf(l), i)
<1> DEFINE a == RemoveAt(l, i)
           r == RowsOf(l)
           s == RowsOf(a)
           t == RemoveAt(r, i)
<1>1. IsMacroList(a) /\ l \in Seq(Macro)
  BY TakenOut DEF IsMacroList
<1>2. Len(a) = Len(l) - 1 /\ \A k \in 1..Len(l) - 1 : a[k] = IF k < i THEN l[k] ELSE l[k + 1]
  BY <1>1, Removed
<1>3. /\ r \in Seq(Row) /\ Len(r) = Len(l) /\ Len(l) \in Nat /\ i \in DOMAIN r /\ i \in 1..Len(l)
      /\ \A k \in 1..Len(l) : r[k] = RowOf(l[k])
  BY RowAt
<1>4. /\ t \in Seq(Row) /\ Len(t) = Len(l) - 1
      /\ \A k \in 1..Len(l) - 1 : t[k] = IF k < i THEN r[k] ELSE r[k + 1]
  BY <1>3, Removed
<1>5. /\ s \in Seq(Row) /\ Len(s) = Len(l) - 1
      /\ \A k \in 1..Len(l) - 1 : s[k] = RowOf(a[k])
  BY <1>1, <1>2, RowAt
<1> HIDE DEF a, r, s, t
<1>6. ASSUME NEW k \in 1..Len(l) - 1 PROVE s[k] = t[k]
  <2>1. k \in 1..Len(l) /\ k + 1 \in 1..Len(l)
    BY <1>3
  <2>2. CASE k < i
    BY <1>2, <1>3, <1>4, <1>5, <2>1, <2>2
  <2>3. CASE ~(k < i)
    BY <1>2, <1>3, <1>4, <1>5, <2>1, <2>3
  <2> QED
    BY <2>2, <2>3
<1>7. s = t
  BY <1>4, <1>5, <1>6, SameSequence
<1> QED
  BY <1>7 DEF a, r, s, t

LEMMA RowsExchanged ==
  ASSUME NEW l, IsMacroList(l), NEW i \in DOMAIN l, NEW j \in DOMAIN l
  PROVE  RowsOf(Swapped(l, i, j)) = Swapped(RowsOf(l), i, j)
<1>1. l \in Seq(Macro) /\ DOMAIN RowsOf(l) = DOMAIN l
  BY RowsTyped DEF IsMacroList
<1>2. DOMAIN Swapped(l, i, j) = DOMAIN l
  BY <1>1 DEF Swapped
<1> QED
  BY <1>1, <1>2 DEF RowsOf, Swapped

\* What an edit of one macro does to the rows.
LEMMA RowsReplaced ==
  ASSUME NEW l, IsMacroList(l), NEW i \in DOMAIN l, NEW m \in Macro, m.id = l[i].id
  PROVE  RowsOf([l EXCEPT ![i] = m]) = [RowsOf(l) EXCEPT ![i].enabled = m.enabled]
<1>1. l \in Seq(Macro) /\ DOMAIN RowsOf(l) = DOMAIN l
  BY RowsTyped DEF IsMacroList
<1>2. DOMAIN [l EXCEPT ![i] = m] = DOMAIN l
  BY <1>1
<1> QED
  BY <1>1, <1>2 DEF RowsOf

\* The rows, the list and the callback under way agree.
InStep ==
  /\ ui \in {"idle", "unsaved", "armed", "written", "deleting", "moving"} => rows = RowsOf(list)
  /\ \A t \in todo :
       /\ ui = "adding" => rows = Append(RowsOf(list), RowOf(t.m))
       /\ ui = "deleting" => t.pos \in DOMAIN list
       /\ ui = "removing" => t.pos \in DOMAIN list /\ rows = RemoveAt(RowsOf(list), t.pos)
       /\ ui = "toggling" => /\ t.pos \in DOMAIN list /\ list[t.pos] = t.m
                             /\ RowsOf(list) = [rows EXCEPT ![t.pos].enabled = t.m.enabled]
       /\ ui = "moving" => {t.pos, t.pos + 1} \subseteq DOMAIN list

RowsMatch ==
  /\ ui = "dead" => refresh
  /\ refresh \/ InStep

LEMMA MatchNext ==
  ASSUME refresh' \/ (ui' # "dead" /\ InStep')
  PROVE  RowsMatch'
BY DEF RowsMatch, InStep, RowsOf

\* A swap of two positions that the list has.
LEMMA SwapMatches ==
  ASSUME TypeInv, rows = RowsOf(list), NEW j \in DOMAIN list, NEW k \in DOMAIN list, SwapRows(j, k)
  PROVE  rows' = RowsOf(list') /\ ui' = "unsaved"
<1>1. IsMacroList(list)
  BY DEF TypeInv, TypeOK
<1>2. DOMAIN rows = DOMAIN list
  BY <1>1, RowsTyped
<1>3. list' = Swapped(list, j, k) /\ rows' = Swapped(rows, j, k) /\ ui' = "unsaved"
  BY <1>2 DEF SwapRows
<1> QED
  BY <1>1, <1>3, RowsExchanged

LEMMA CallbackMatches ==
  ASSUME TypeInv, ~refresh, InStep, Callback
  PROVE  ui' # "dead" /\ InStep'
<1>1. IsMacroList(list)
  BY DEF TypeInv, TypeOK
<1>2. ui = "idle" /\ todo = {} /\ rows = RowsOf(list)
  <2>1. ui = "idle"
    BY DEF Callback, AddPressed, Rename, DeletePressed, TogglePressed, MoveUp, MoveDownPressed,
           Edit, Begin
  <2> QED
    BY <2>1 DEF TypeInv, InHand, CutPlaces, InStep
<1>3. DOMAIN rows = DOMAIN list
  BY <1>1, <1>2, RowsTyped
<1>4. DOMAIN list = 1..Len(list) /\ Len(list) \in Nat
  BY <1>1, Members
<1>5. CASE AddPressed
  <2>1. PICK i \in unused : LET m == [id |-> i, enabled |-> TRUE, body |-> NewBody] IN
                              /\ rows' = Append(rows, [id |-> i, enabled |-> TRUE])
                              /\ todo' = {[pos |-> 0, m |-> m]}
    BY <1>5 DEF AddPressed
  <2>2. list' = list /\ ui' = "adding"
    BY <1>5 DEF AddPressed
  <2> DEFINE m == [id |-> i, enabled |-> TRUE, body |-> NewBody]
  <2>3. rows' = Append(rows, [id |-> i, enabled |-> TRUE]) /\ todo' = {[pos |-> 0, m |-> m]}
    BY <2>1
  <2>4. RowOf(m) = [id |-> i, enabled |-> TRUE]
    BY DEF RowOf
  <2> HIDE DEF m
  <2>5. \A t \in todo' : t.m = m
    BY <2>3
  <2>6. \A t \in todo' : rows' = Append(RowsOf(list), RowOf(t.m))
    BY <1>2, <2>3, <2>4, <2>5
  <2> QED
    BY <2>2, <2>6 DEF InStep, RowsOf, RowOf
<1>6. CASE Rename
  BY <1>2, <1>6 DEF Rename, InStep, RowsOf
<1>7. ASSUME NEW k \in DOMAIN rows, DeletePressed(k) PROVE ui' # "dead" /\ InStep'
  BY <1>2, <1>7 DEF DeletePressed, InStep, RowsOf
<1>8. ASSUME NEW k \in DOMAIN rows, TogglePressed(k) PROVE ui' # "dead" /\ InStep'
  <2> DEFINE m == [list[k] EXCEPT !.enabled = ~rows[k].enabled]
  <2>1. m \in Macro /\ m.id = list[k].id
    <3>1. list[k] \in Macro
      BY <1>1, <1>3, Members
    <3> QED
      BY <3>1 DEF Macro
  <2>2. list' = [list EXCEPT ![k] = m] /\ list'[k] = m /\ k \in DOMAIN list'
    BY <1>3, <1>8 DEF TogglePressed
  <2>3. todo' = {[pos |-> k, m |-> m]} /\ ui' = "toggling" /\ rows' = rows
    BY <1>8, <2>2 DEF TogglePressed
  <2> HIDE DEF m
  <2>4. RowsOf(list') = [rows EXCEPT ![k].enabled = m.enabled]
    <3>1. RowsOf([list EXCEPT ![k] = m]) = [RowsOf(list) EXCEPT ![k].enabled = m.enabled]
      BY <1>1, <1>3, <2>1, RowsReplaced
    <3> QED
      BY <1>2, <2>2, <3>1
  <2>5. \A t \in todo' : t.pos = k /\ t.m = m
    BY <2>3
  <2>6. ui' # "dead" /\ ui' # "moving" /\ ui' # "removing" /\ ui' # "deleting" /\ ui' # "adding"
        /\ ui' \notin {"idle", "unsaved", "armed", "written", "deleting", "moving"}
    BY <2>3
  <2>7. RowsOf(list)' = RowsOf(list')
    BY DEF RowsOf
  <2>8. \A t \in todo' : RowsOf(list)' = [rows' EXCEPT ![t.pos].enabled = t.m.enabled]
    BY <2>3, <2>4, <2>5, <2>7
  <2> QED
    BY <2>2, <2>5, <2>6, <2>8 DEF InStep
<1>9. ASSUME NEW k \in DOMAIN rows, MoveUp(k) PROVE ui' # "dead" /\ InStep'
  <2>1. k - 1 \in DOMAIN list /\ k \in DOMAIN list
    BY <1>3, <1>4, <1>9 DEF MoveUp
  <2>2. rows' = RowsOf(list') /\ ui' = "unsaved"
    BY <1>2, <1>9, <2>1, SwapMatches DEF MoveUp
  <2> QED
    BY <1>2, <1>9, <2>2 DEF MoveUp, InStep, RowsOf
<1>10. ASSUME NEW k \in DOMAIN rows, MoveDownPressed(k) PROVE ui' # "dead" /\ InStep'
  <2>1. list' = list /\ rows' = rows /\ ui' = "moving" /\ todo' = {[pos |-> k, m |-> list[k]]}
        /\ k + 1 \in DOMAIN list
    BY <1>10 DEF MoveDownPressed
  <2>2. \A t \in todo' : t.pos = k
    BY <2>1
  <2> QED
    BY <1>2, <1>3, <2>1, <2>2 DEF InStep, RowsOf
<1>11. ASSUME NEW k \in DOMAIN rows, NEW b \in Edited, Edit(k, b) PROVE ui' # "dead" /\ InStep'
  <2> DEFINE m == [list[k] EXCEPT !.body = b]
  <2>1. list[k] \in Macro
    BY <1>1, <1>3, Members
  <2>2. m \in Macro /\ m.id = list[k].id /\ m.enabled = list[k].enabled
    BY <2>1, EditorAssumption DEF Macro
  <2>3. list' = [list EXCEPT ![k] = m]
    BY <1>11 DEF Edit
  <2> HIDE DEF m
  <2>4. RowsOf(list') = [rows EXCEPT ![k].enabled = list[k].enabled]
    <3>1. RowsOf([list EXCEPT ![k] = m]) = [RowsOf(list) EXCEPT ![k].enabled = m.enabled]
      BY <1>1, <1>3, <2>2, RowsReplaced
    <3> QED
      BY <1>2, <2>2, <2>3, <3>1
  <2>5. rows[k].enabled = list[k].enabled /\ rows \in Seq(Row)
    <3>1. k \in 1..Len(list)
      BY <1>3, <1>4
    <3>2. RowsOf(list)[k] = RowOf(list[k]) /\ RowsOf(list) \in Seq(Row)
      BY <1>1, <3>1, RowAt
    <3> QED
      BY <1>2, <3>2 DEF RowOf
  <2>6. RowsOf(list') = rows
    <3>1. [rows[k] EXCEPT !.enabled = list[k].enabled] = rows[k]
      <4>1. rows[k] \in Row
        BY <2>5
      <4> QED
        BY <2>5, <4>1 DEF Row
    <3> QED
      BY <2>4, <2>5, <3>1
  <2> QED
    BY <1>2, <1>11, <2>6 DEF Edit, InStep, RowsOf
<1> QED
  BY <1>5, <1>6, <1>7, <1>8, <1>9, <1>10, <1>11 DEF Callback

LEMMA UiStepMatches ==
  ASSUME TypeInv, ~refresh, InStep, UiStep
  PROVE  ui' # "dead" /\ InStep'
<1>1. IsMacroList(list) /\ InHand
  BY DEF TypeInv, TypeOK
<1>2. DOMAIN list = 1..Len(list) /\ Len(list) \in Nat
  BY <1>1, Members
<1>3. ASSUME ui \in CutPlaces PROVE \E t \in [pos : Nat, m : Macro] : todo = {t}
  BY <1>1, <1>3, TodoOfCut
<1>4. ASSUME ui' \in {"unsaved", "armed", "written", "idle"}, todo' = {}, rows' = RowsOf(list')
      PROVE  ui' # "dead" /\ InStep'
  BY <1>4 DEF InStep, RowsOf
<1>5. CASE PushAdded
  <2>1. ui = "adding" /\ ui' = "unsaved" /\ todo' = {} /\ rows' = rows
    BY <1>5 DEF PushAdded, Continue
  <2>2. PICK t \in [pos : Nat, m : Macro] : todo = {t}
    BY <1>3, <2>1 DEF CutPlaces
  <2>3. list' = Append(list, t.m)
    BY <1>5, <2>2 DEF PushAdded
  <2>4. t.m.id \notin IdsOf(list)
    BY <2>1, <2>2 DEF TypeInv, IdsApart, Known
  <2>5. RowsOf(Append(list, t.m)) = Append(RowsOf(list), RowOf(t.m))
    BY <1>1, <2>2, <2>4, RowsAppended
  <2>6. rows = Append(RowsOf(list), RowOf(t.m))
    BY <2>1, <2>2 DEF InStep
  <2> QED
    BY <1>4, <2>1, <2>3, <2>5, <2>6
<1>6. CASE SendDelete
  <2>1. ui = "deleting" /\ ui' = "removing" /\ UNCHANGED <<list, todo>>
    BY <1>6 DEF SendDelete, Continue
  <2>2. PICK t \in [pos : Nat, m : Macro] : todo = {t}
    BY <1>3, <2>1 DEF CutPlaces
  <2>3. rows' = RemoveAt(rows, t.pos)
    BY <1>6, <2>2 DEF SendDelete
  <2>4. rows = RowsOf(list) /\ t.pos \in DOMAIN list
    BY <2>1, <2>2 DEF InStep
  <2>5. \A u \in todo' : u = t
    BY <2>1, <2>2
  <2> QED
    BY <2>1, <2>3, <2>4, <2>5 DEF InStep, RowsOf
<1>7. CASE RemoveDeleted
  <2>1. ui = "removing" /\ todo' = {} /\ rows' = rows
    BY <1>7 DEF RemoveDeleted, Continue
  <2>2. PICK t \in [pos : Nat, m : Macro] : todo = {t}
    BY <1>3, <2>1 DEF CutPlaces
  <2>3. t.pos \in DOMAIN list /\ rows = RemoveAt(RowsOf(list), t.pos)
    BY <2>1, <2>2 DEF InStep
  <2>4. list' = RemoveAt(list, t.pos) /\ ui' = "unsaved"
    BY <1>7, <2>2, <2>3 DEF RemoveDeleted
  <2>5. RowsOf(RemoveAt(list, t.pos)) = RemoveAt(RowsOf(list), t.pos)
    BY <1>1, <2>3, RowsTakenOut
  <2> QED
    BY <1>4, <2>1, <2>3, <2>4, <2>5
<1>8. CASE SendToggle
  <2>1. ui = "toggling" /\ ui' = "unsaved" /\ todo' = {} /\ list' = list
    BY <1>8 DEF SendToggle, Continue
  <2>2. PICK t \in [pos : Nat, m : Macro] : todo = {t}
    BY <1>3, <2>1 DEF CutPlaces
  <2>3. rows' = [rows EXCEPT ![t.pos].enabled = t.m.enabled]
    BY <1>8, <2>2 DEF SendToggle
  <2>4. RowsOf(list) = [rows EXCEPT ![t.pos].enabled = t.m.enabled]
    BY <2>1, <2>2 DEF InStep
  <2> QED
    BY <1>4, <2>1, <2>3, <2>4
<1>9. CASE MoveDown
  <2>1. ui = "moving" /\ todo' = {} /\ rows = RowsOf(list)
    BY <1>9 DEF MoveDown, Continue, InStep
  <2>2. PICK t \in [pos : Nat, m : Macro] : todo = {t}
    BY <1>3, <2>1 DEF CutPlaces
  <2>3. t.pos \in DOMAIN list /\ t.pos + 1 \in DOMAIN list
    BY <2>1, <2>2 DEF InStep
  <2>4. SwapRows(t.pos, t.pos + 1)
    BY <1>9, <2>2 DEF MoveDown
  <2>5. rows' = RowsOf(list') /\ ui' = "unsaved"
    BY <2>1, <2>3, <2>4, SwapMatches
  <2> QED
    BY <1>4, <2>1, <2>5
<1>10. CASE BeginSave \/ WriteTmp \/ RenameTmp \/ SaveFails
  <2>1. /\ ui \in {"unsaved", "armed", "written"} /\ ui' \in {"armed", "written", "idle"}
        /\ UNCHANGED <<list, rows, todo>>
    BY <1>10 DEF BeginSave, WriteTmp, RenameTmp, SaveFails, Continue
  <2>2. todo = {}
    BY <1>1, <2>1, NoTodo DEF CutPlaces
  <2>3. rows = RowsOf(list)
    BY <2>1 DEF InStep
  <2> QED
    BY <1>4, <2>1, <2>2, <2>3
<1>11. CASE Refresh
  BY <1>11 DEF Refresh
<1> QED
  BY <1>5, <1>6, <1>7, <1>8, <1>9, <1>10, <1>11 DEF UiStep

LEMMA MatchStep ==
  ASSUME TypeInv, RowsMatch, [Next]_vars
  PROVE  RowsMatch'
<1>1. CASE Refresh
  <2>1. ui' = "idle" /\ todo' = todo /\ list' = list /\ rows' = RowsOf(list)
    BY <1>1 DEF Refresh, RowsReloaded
  <2>2. todo = {}
    BY <1>1 DEF TypeInv, InHand, CutPlaces, Refresh
  <2>3. InStep'
    BY <2>1, <2>2 DEF InStep, RowsOf
  <2> QED
    BY <2>1, <2>3, MatchNext
<1>2. CASE Crash
  <2>1. ui' = "idle" /\ todo' = {} /\ rows' = RowsOf(list')
    BY <1>2 DEF Crash
  <2>2. InStep'
    BY <2>1 DEF InStep, RowsOf
  <2> QED
    BY <2>1, <2>2, MatchNext
<1>3. CASE Callback \/ (UiStep /\ ~Refresh)
  <2>1. refresh' = refresh
    BY <1>3 DEF Callback, AddPressed, Rename, DeletePressed, TogglePressed, MoveUp,
                MoveDownPressed, Edit, Begin, UiStep, PushAdded, SendDelete, RemoveDeleted,
                SendToggle, MoveDown, Continue, BeginSave, WriteTmp, RenameTmp, SaveFails
  <2>2. CASE refresh
    BY <2>1, <2>2, MatchNext
  <2>3. CASE ~refresh
    BY <1>3, <2>3, CallbackMatches, UiStepMatches, MatchNext DEF RowsMatch
  <2> QED
    BY <2>2, <2>3
<1>4. CASE Apply
  BY <1>4, MatchNext DEF Apply
<1>5. CASE UNCHANGED <<list, rows, ui, todo, refresh>>
  BY <1>5 DEF RowsMatch, InStep, RowsOf
<1>6. Notice \/ Load \/ (TakeCommand /\ UNCHANGED <<app, reload, disk, others>>)
        \/ (\E f \in Outside : WriteOutside(f)) \/ Rest \/ UNCHANGED vars
      => UNCHANGED <<list, rows, ui, todo, refresh>>
  BY DEF Notice, Load, WriteOutside, Rest, vars, app
<1> QED
  BY <1>1, <1>2, <1>3, <1>4, <1>5, <1>6 DEF Next

LEMMA RowsHold == Spec => []RowsMatch
<1>1. Init => RowsMatch
  BY DEF Init, RowsMatch, InStep
<1>2. TypeInv /\ RowsMatch /\ [Next]_vars => RowsMatch'
  BY MatchStep
<1> QED
  BY <1>1, <1>2, TypesHold, PTL DEF Spec

(* What is shown is what is edited (reload_ui_model and the callbacks of   *)
(* callbacks.rs, each of which brings its row up to date by itself).       *)
THEOREM RowsAlwaysFollow == Spec => []RowsFollowList
<1>1. RowsMatch => RowsFollowList
  BY DEF RowsMatch, InStep, RowsFollowList
<1> QED
  BY <1>1, RowsHold, PTL

(* As long as no reload is waiting to be shown, no callback acts on a      *)
(* position that is gone, however often it lets go of the mutex.           *)
THEOREM PanicsNeedStaleRows == Spec => []PanicsOnlyOnStaleRows
<1>1. RowsMatch => PanicsOnlyOnStaleRows
  BY DEF RowsMatch, PanicsOnlyOnStaleRows
<1> QED
  BY <1>1, RowsHold, PTL

-----------------------------------------------------------------------------
(* The file and the list.                                                  *)

\* A flag that no save under way put up has a notification to swallow.
Flagged == (suppress /\ ui \notin {"armed", "written"}) => notes > 0

\* A reload of what the file holds is on its way.
ReloadComes ==
  \/ watcher = "loading"
  \/ watcher = "loaded" /\ fresh = file
  \/ notes > IF suppress THEN 1 ELSE 0

FileFollows ==
  (ui = "idle" /\ ~history.failed /\ ~history.stale /\ file # {}) => file = {list} \/ ReloadComes

FreshLoaded == fresh # {} <=> watcher = "loaded"

DiskInv == Flagged /\ FileFollows /\ FreshLoaded

LEMMA DiskStep ==
  ASSUME TypeInv, DiskInv, [Next]_vars
  PROVE  DiskInv'
<1>1. /\ history \in [saved : SUBSET Seq(Macro), overlapped : BOOLEAN, stale : BOOLEAN, failed : BOOLEAN]
      /\ notes \in Nat /\ {refresh, suppress} \subseteq BOOLEAN
      /\ watcher \in {"waiting", "loading", "loaded"}
      /\ IsFile(fresh) /\ IsFile(file)
  BY DEF TypeInv, TypeOK
<1> USE DEF DiskInv
<1>2. CASE UNCHANGED <<list, ui, suppress, watcher, fresh, file, notes, history>>
  BY <1>2 DEF Flagged, FileFollows, ReloadComes, FreshLoaded
\* While the UI thread is in a callback nothing is claimed of the file.
<1>3. ASSUME ui' # "idle", UNCHANGED <<reload, disk>>,
             suppress' = suppress \/ ui' \in {"armed", "written"},
             ui \in {"armed", "written"} => ui' \in {"armed", "written"}
      PROVE  DiskInv'
  BY <1>3 DEF Flagged, FileFollows, FreshLoaded, reload, disk
<1>4. CASE Callback
  <2>1. UNCHANGED <<reload, disk>> /\ ui = "idle"
    BY <1>4 DEF Callback, AddPressed, Rename, DeletePressed, TogglePressed, MoveUp, MoveDownPressed,
                Edit, Begin
  <2>2. ui' # "idle" /\ (suppress' = suppress \/ ui' \in {"armed", "written"})
    BY <1>4 DEF Callback, AddPressed, Rename, DeletePressed, TogglePressed, MoveUp, MoveDownPressed,
                Edit, SwapRows
  <2> QED
    BY <1>3, <2>1, <2>2
<1>5. CASE PushAdded \/ SendDelete \/ RemoveDeleted \/ SendToggle \/ MoveDown \/ BeginSave
  <2>1. UNCHANGED <<reload, disk>> /\ ui \notin {"armed", "written"}
    BY <1>5 DEF PushAdded, SendDelete, RemoveDeleted, SendToggle, MoveDown, BeginSave, Continue
  <2>2. ui' # "idle" /\ (suppress' = suppress \/ ui' \in {"armed", "written"})
    <3>1. CASE MoveDown
      BY <3>1 DEF MoveDown, SwapRows, TypeInv, InHand, CutPlaces, Continue
    <3> QED
      BY <1>5, <3>1 DEF PushAdded, SendDelete, RemoveDeleted, SendToggle, BeginSave, TypeInv, InHand,
                        CutPlaces, Continue
  <2> QED
    BY <1>3, <2>1, <2>2
<1>6. CASE WriteTmp
  BY <1>3, <1>6 DEF WriteTmp
<1>7. CASE RenameTmp
  <2>1. notes' > 0 /\ file' = {list'} /\ watcher' = watcher /\ fresh' = fresh
    BY <1>1, <1>7 DEF RenameTmp, reload
  <2> QED
    BY <2>1 DEF Flagged, FileFollows, FreshLoaded
<1>8. CASE SaveFails
  <2>1. ~suppress' /\ history'.failed /\ watcher' = watcher /\ fresh' = fresh
    BY <1>1, <1>8 DEF SaveFails, reload
  <2> QED
    BY <2>1 DEF Flagged, FileFollows, FreshLoaded
<1>9. CASE Notice
  <2>1. /\ watcher = "waiting" /\ notes > 0 /\ notes' = notes - 1 /\ ~suppress'
        /\ watcher' = IF suppress THEN "waiting" ELSE "loading"
        /\ UNCHANGED <<list, ui, fresh, file, history>>
    BY <1>9 DEF Notice, others
  <2>2. Flagged' /\ FreshLoaded'
    BY <2>1 DEF Flagged, FreshLoaded
  <2>3. FileFollows'
    BY <1>1, <2>1 DEF FileFollows, ReloadComes
  <2> QED
    BY <2>2, <2>3
<1>10. CASE Load
  <2>1. /\ watcher = "loading" /\ fresh' = file
        /\ watcher' = IF file = {} THEN "waiting" ELSE "loaded"
        /\ UNCHANGED <<list, ui, suppress, notes, file, history>>
    BY <1>10 DEF Load, app, disk, others
  <2> QED
    BY <1>1, <2>1 DEF Flagged, FileFollows, ReloadComes, FreshLoaded
<1>11. CASE Apply
  <2>1. PICK new \in fresh : list' = new
    BY <1>11 DEF Apply
  <2>2. fresh = {new}
    BY <1>1, <2>1 DEF IsFile
  <2>3. /\ watcher' = "waiting" /\ fresh' = {}
        /\ UNCHANGED <<ui, suppress, file, notes>>
        /\ history' = [history EXCEPT !.overlapped = @ \/ ui \in {"deleting", "removing", "toggling"},
                                      !.stale = @ \/ fresh # file]
    BY <1>11 DEF Apply, disk
  <2>4. ~history'.stale => file = {list'}
    BY <1>1, <2>1, <2>2, <2>3
  <2> QED
    BY <2>3, <2>4 DEF Flagged, FileFollows, FreshLoaded
<1>12. CASE \E f \in Outside : WriteOutside(f)
  <2>1. UNCHANGED <<list, ui, suppress, watcher, fresh>> /\ notes' = notes + 1
        /\ history'.failed = history.failed
    BY <1>1, <1>12 DEF WriteOutside, app, reload
  <2>2. Flagged' /\ FreshLoaded'
    BY <1>1, <2>1 DEF Flagged, FreshLoaded
  <2>3. FileFollows'
    <3>1. ui = "idle" /\ suppress => notes > 0
      BY DEF Flagged
    <3> QED
      BY <1>1, <2>1, <3>1 DEF FileFollows, ReloadComes
  <2> QED
    BY <2>2, <2>3
<1>13. CASE Crash
  <2>1. /\ ~suppress' /\ watcher' = "waiting" /\ fresh' = {} /\ file' = file
        /\ list' = LoadedFrom(file)
    BY <1>13 DEF Crash, Booted
  <2>2. file # {} => file = {LoadedFrom(file)}
    BY <1>1, LoadedTyped
  <2> QED
    BY <2>1, <2>2 DEF Flagged, FileFollows, FreshLoaded
<1>14. Refresh \/ (TakeCommand /\ UNCHANGED <<app, reload, disk, others>>) \/ Rest \/ UNCHANGED vars
       => UNCHANGED <<list, ui, suppress, watcher, fresh, file, notes, history>>
  BY DEF Refresh, Rest, vars, app, reload, disk, others
<1> QED
  BY <1>2, <1>4, <1>5, <1>6, <1>7, <1>8, <1>9, <1>10, <1>11, <1>12, <1>13, <1>14 DEF Next, UiStep

(* "UI and disk are always consistent", with the exceptions that the       *)
(* property names: the flag that keeps the watcher from reloading what the *)
(* program itself wrote (suppress_reload) never swallows the notification  *)
(* of another program's write without one being left for it.               *)
THEOREM DiskAlwaysFollows == Spec => []DiskFollowsList
<1>1. Init => DiskInv
  BY DEF Init, DiskInv, Flagged, FileFollows, FreshLoaded
<1>2. TypeInv /\ DiskInv /\ [Next]_vars => DiskInv'
  BY DiskStep
<1>3. DiskInv => DiskFollowsList
  BY DEF DiskInv, FileFollows, ReloadComes, DiskFollowsList, Quiet
<1> QED
  BY <1>1, <1>2, <1>3, TypesHold, PTL DEF Spec

-----------------------------------------------------------------------------
(* Commands under way.  What the router will have once it has read the     *)
(* channel is a chain of states, one for each command; the chain is given  *)
(* by its states and needs no recursion.                                   *)

RouterState == [Ids -> SUBSET Macro]

\* What a command does to the macros of the router.
Effect(st, c) ==
  CASE c.op \in {"AddMacro", "UpdateMacro"} -> [st EXCEPT ![c.m.id] = {c.m}]
    [] c.op = "DeleteMacro" -> [st EXCEPT ![c.id] = {}]
    [] OTHER -> [st EXCEPT ![c.id] = {[m EXCEPT !.enabled = c.enabled] : m \in @}]

\* A command that the editor may send: nothing is added that is there.
Fine(st, c) ==
  /\ c.op \in {"AddMacro", "UpdateMacro", "DeleteMacro", "SetEnabled"}
  /\ c.op = "AddMacro" => st[c.m.id] = {}

Chain(p, cs) ==
  /\ p \in [0..Len(cs) -> RouterState]
  /\ \A k \in 1..Len(cs) : Fine(p[k - 1], cs[k]) /\ p[k] = Effect(p[k - 1], cs[k])

Leads(from, cs, to) ==
  \E p \in [0..Len(cs) -> RouterState] : Chain(p, cs) /\ p[0] = from /\ p[Len(cs)] = to

LEMMA EffectTyped ==
  ASSUME NEW st \in RouterState, NEW c \in Command, Fine(st, c)
  PROVE  Effect(st, c) \in RouterState
<1>1. CASE c.op \in {"AddMacro", "UpdateMacro"}
  <2>1. c.m \in Macro
    BY <1>1, CommandFields
  <2>2. Effect(st, c) = [st EXCEPT ![c.m.id] = {c.m}]
    BY <1>1 DEF Effect
  <2> QED
    BY <2>1, <2>2 DEF RouterState
<1>2. CASE c.op = "DeleteMacro"
  <2>1. Effect(st, c) = [st EXCEPT ![c.id] = {}]
    BY <1>2 DEF Effect
  <2> QED
    BY <2>1 DEF RouterState
<1>3. CASE c.op = "SetEnabled"
  <2>1. c.id \in Ids /\ c.enabled \in BOOLEAN
    BY <1>3, CommandFields
  <2>2. Effect(st, c) = [st EXCEPT ![c.id] = {[m EXCEPT !.enabled = c.enabled] : m \in st[c.id]}]
    BY <1>3, <2>1 DEF Effect, RouterState
  <2>3. \A m \in Macro : [m EXCEPT !.enabled = c.enabled] \in Macro
    BY <2>1 DEF Macro
  <2>4. {[m EXCEPT !.enabled = c.enabled] : m \in st[c.id]} \in SUBSET Macro
    BY <2>1, <2>3 DEF RouterState
  <2> QED
    BY <2>2, <2>4 DEF RouterState
<1> QED
  BY <1>1, <1>2, <1>3 DEF Fine

LEMMA LeadsNowhere ==
  ASSUME NEW st \in RouterState, NEW to
  PROVE  /\ Leads(st, <<>>, st)
         /\ Leads(st, <<>>, to) => to = st
<1>1. Len(<<>>) = 0
  OBVIOUS
<1>2. Leads(st, <<>>, to) => to = st
  BY <1>1 DEF Leads
<1> DEFINE p == [k \in 0..0 |-> st]
<1>3. Chain(p, <<>>) /\ p \in [0..0 -> RouterState] /\ p[0] = st
  BY <1>1 DEF Chain
<1> HIDE DEF p
<1>4. Leads(st, <<>>, st)
  BY <1>1, <1>3 DEF Leads
<1> QED
  BY <1>2, <1>4

LEMMA LeadsOne ==
  ASSUME NEW st \in RouterState, NEW c \in Command, Fine(st, c)
  PROVE  Leads(st, <<c>>, Effect(st, c))
<1> DEFINE e == Effect(st, c)
           p == [k \in 0..1 |-> IF k = 0 THEN st ELSE e]
<1>1. e \in RouterState
  BY EffectTyped
<1>2. Len(<<c>>) = 1 /\ <<c>>[1] = c
  OBVIOUS
<1> HIDE DEF e
<1>3. p \in [0..1 -> RouterState] /\ p[0] = st /\ p[1] = e
  BY <1>1
<1> HIDE DEF p
<1>4. ASSUME NEW k \in 1..Len(<<c>>) PROVE Fine(p[k - 1], <<c>>[k]) /\ p[k] = Effect(p[k - 1], <<c>>[k])
  <2>1. k = 1 /\ k - 1 = 0
    BY <1>2
  <2> QED
    BY <1>2, <1>3, <2>1 DEF e
<1>5. Chain(p, <<c>>)
  BY <1>2, <1>3, <1>4 DEF Chain
<1> QED
  BY <1>2, <1>3, <1>5 DEF Leads, e

\* The router reads the head of the channel.
LEMMA LeadsTail ==
  ASSUME NEW st, NEW cs \in Seq(Command), cs # <<>>, NEW to, Leads(st, cs, to)
  PROVE  /\ st \in RouterState /\ Fine(st, Head(cs))
         /\ Leads(Effect(st, Head(cs)), Tail(cs), to)
<1>1. Len(cs) \in Nat /\ Len(cs) >= 1
  OBVIOUS
<1> DEFINE n == Len(cs)
<1>2. PICK p \in [0..n -> RouterState] : Chain(p, cs) /\ p[0] = st /\ p[n] = to
  BY DEF Leads
<1>3. \A k \in 1..n : Fine(p[k - 1], cs[k]) /\ p[k] = Effect(p[k - 1], cs[k])
  BY <1>2 DEF Chain
<1>4. Head(cs) = cs[1] /\ Len(Tail(cs)) = n - 1 /\ \A k \in 1..n - 1 : Tail(cs)[k] = cs[k + 1]
  OBVIOUS
<1> DEFINE t == Tail(cs)
           q == [k \in 0..n - 1 |-> p[k + 1]]
<1> HIDE DEF n, t
<1>5. n \in Nat /\ n >= 1
  BY <1>1 DEF n
<1>6. q \in [0..n - 1 -> RouterState] /\ q[0] = p[1] /\ q[n - 1] = p[n]
      /\ \A k \in 0..n - 1 : q[k] = p[k + 1]
  BY <1>2, <1>5
<1> HIDE DEF q
<1>7. ASSUME NEW k \in 1..n - 1 PROVE Fine(q[k - 1], t[k]) /\ q[k] = Effect(q[k - 1], t[k])
  <2>1. q[k] = p[k + 1] /\ t[k] = cs[k + 1]
    BY <1>4, <1>5, <1>6 DEF n, t
  <2>2. q[k - 1] = p[k]
    <3>1. k - 1 \in 0..n - 1 /\ (k - 1) + 1 = k
      BY <1>5
    <3> QED
      BY <1>6, <3>1
  <2>3. k + 1 \in 1..n /\ (k + 1) - 1 = k
    BY <1>5
  <2> QED
    BY <1>3, <2>1, <2>2, <2>3
<1>8. Chain(q, t)
  BY <1>4, <1>6, <1>7 DEF Chain, n, t
<1>9. p[1] = Effect(st, Head(cs)) /\ Fine(st, Head(cs))
  <2>1. 1 \in 1..n /\ 1 - 1 = 0
    BY <1>5
  <2> QED
    BY <1>2, <1>3, <1>4, <2>1
<1>10. Leads(Effect(st, Head(cs)), t, to)
  <2>1. Len(t) = n - 1
    BY <1>4 DEF n, t
  <2> QED
    BY <1>2, <1>6, <1>8, <1>9, <2>1 DEF Leads
<1>11. st \in RouterState
  BY <1>2, <1>5
<1> QED
  BY <1>9, <1>10, <1>11 DEF t

LEMMA LeadsOn ==
  ASSUME NEW cs \in Seq(Command), NEW ds \in Seq(Command), NEW a, NEW b, NEW c,
         Leads(a, cs, b), Leads(b, ds, c)
  PROVE  Leads(a, cs \o ds, c)
<1> DEFINE m == Len(cs)
           n == Len(ds)
           es == cs \o ds
<1>1. PICK p \in [0..m -> RouterState] : Chain(p, cs) /\ p[0] = a /\ p[m] = b
  BY DEF Leads
<1>2. PICK q \in [0..n -> RouterState] : Chain(q, ds) /\ q[0] = b /\ q[n] = c
  BY DEF Leads
<1>3. /\ \A k \in 1..m : Fine(p[k - 1], cs[k]) /\ p[k] = Effect(p[k - 1], cs[k])
      /\ \A k \in 1..n : Fine(q[k - 1], ds[k]) /\ q[k] = Effect(q[k - 1], ds[k])
  BY <1>1, <1>2 DEF Chain
<1>4. /\ m \in Nat /\ n \in Nat /\ Len(es) = m + n
      /\ \A k \in 1..m : es[k] = cs[k]
      /\ \A k \in 1..n : es[m + k] = ds[k]
  OBVIOUS
<1> HIDE DEF m, n, es
<1> DEFINE r == [k \in 0..m + n |-> IF k <= m THEN p[k] ELSE q[k - m]]
<1>5. r \in [0..m + n -> RouterState]
  <2>1. ASSUME NEW k \in 0..m + n PROVE (IF k <= m THEN p[k] ELSE q[k - m]) \in RouterState
    <3>1. CASE k <= m
      BY <1>1, <1>4, <3>1
    <3>2. CASE ~(k <= m)
      <4>1. k - m \in 0..n
        BY <1>4, <3>2
      <4> QED
        BY <1>2, <3>2, <4>1
    <3> QED
      BY <3>1, <3>2
  <2> QED
    BY <2>1
<1>6. \A k \in 0..m : r[k] = p[k]
  BY <1>4
<1>7. \A k \in 0..n : r[m + k] = q[k]
  <2> SUFFICES ASSUME NEW k \in 0..n PROVE r[m + k] = q[k]
    OBVIOUS
  <2>1. CASE k = 0
    BY <1>1, <1>2, <1>4, <2>1
  <2>2. CASE k # 0
    <3>1. m + k \in 0..m + n /\ ~(m + k <= m) /\ (m + k) - m = k
      BY <1>4, <2>2
    <3> QED
      BY <3>1
  <2> QED
    BY <2>1, <2>2
<1> HIDE DEF r
<1>8. ASSUME NEW k \in 1..m + n PROVE Fine(r[k - 1], es[k]) /\ r[k] = Effect(r[k - 1], es[k])
  <2>1. CASE k \in 1..m
    <3>1. r[k] = p[k] /\ es[k] = cs[k]
      BY <1>4, <1>6, <2>1
    <3>2. r[k - 1] = p[k - 1]
      <4>1. k - 1 \in 0..m
        BY <1>4, <2>1
      <4> QED
        BY <1>6, <4>1
    <3> QED
      BY <1>3, <2>1, <3>1, <3>2
  <2>2. CASE k \notin 1..m
    <3> DEFINE j == k - m
    <3>1. j \in 1..n /\ m + j = k /\ j - 1 \in 0..n /\ m + (j - 1) = k - 1 /\ j \in 0..n
      BY <1>4, <2>2
    <3> HIDE DEF j
    <3>2. r[k] = q[j] /\ es[k] = ds[j]
      BY <1>4, <1>7, <3>1
    <3>3. r[k - 1] = q[j - 1]
      BY <1>7, <3>1
    <3> QED
      BY <1>3, <3>1, <3>2, <3>3
  <2> QED
    BY <2>1, <2>2
<1>9. Chain(r, es)
  BY <1>4, <1>5, <1>8 DEF Chain
<1>10. r[0] = a /\ r[m + n] = c
  BY <1>1, <1>2, <1>4, <1>6, <1>7
<1> QED
  BY <1>4, <1>5, <1>9, <1>10 DEF Leads, es

LEMMA LeadsFurther ==
  ASSUME NEW cs \in Seq(Command), NEW a, NEW b \in RouterState, Leads(a, cs, b),
         NEW c \in Command, Fine(b, c)
  PROVE  Leads(a, Append(cs, c), Effect(b, c))
<1>1. Append(cs, c) = cs \o <<c>> /\ <<c>> \in Seq(Command)
  OBVIOUS
<1> QED
  BY <1>1, LeadsOne, LeadsOn

-----------------------------------------------------------------------------
(* What a list says of an id.                                              *)

Listed(l, i) == {l[k] : k \in {j \in DOMAIN l : l[j].id = i}}

LEMMA ListedOnce ==
  ASSUME NEW l, IsMacroList(l)
  PROVE  /\ \A k \in DOMAIN l : Listed(l, l[k].id) = {l[k]}
         /\ \A i : i \notin IdsOf(l) => Listed(l, i) = {}
         /\ \A i : Listed(l, i) \subseteq Macro
<1>1. ASSUME NEW k \in DOMAIN l PROVE Listed(l, l[k].id) = {l[k]}
  <2>1. {j \in DOMAIN l : l[j].id = l[k].id} = {k}
    BY DEF IsMacroList
  <2> QED
    BY <2>1 DEF Listed
<1>2. ASSUME NEW i, i \notin IdsOf(l) PROVE Listed(l, i) = {}
  BY <1>2 DEF Listed, IdsOf
<1>3. \A i : Listed(l, i) \subseteq Macro
  BY Members DEF Listed
<1> QED
  BY <1>1, <1>2, <1>3

\* Two lists that differ in one id say the same of the others.
LEMMA ListedElsewhere ==
  ASSUME NEW l, NEW r, NEW id,
         \A k \in DOMAIN l : l[k].id # id => \E j \in DOMAIN r : r[j] = l[k],
         \A k \in DOMAIN r : r[k].id # id => \E j \in DOMAIN l : l[j] = r[k]
  PROVE  \A i : i # id => Listed(l, i) = Listed(r, i)
BY DEF Listed

LEMMA ListedAppended ==
  ASSUME NEW l, IsMacroList(l), NEW m \in Macro, m.id \notin IdsOf(l)
  PROVE  /\ Listed(Append(l, m), m.id) = {m}
         /\ \A i : i # m.id => Listed(Append(l, m), i) = Listed(l, i)
<1> DEFINE r == Append(l, m)
<1>1. /\ l \in Seq(Macro) /\ Len(l) \in Nat /\ DOMAIN l = 1..Len(l) /\ DOMAIN r = 1..Len(l) + 1
      /\ r[Len(l) + 1] = m /\ \A j \in 1..Len(l) : r[j] = l[j]
  BY DEF IsMacroList
<1>2. IsMacroList(r)
  BY Appended
<1> HIDE DEF r
<1>3. Len(l) + 1 \in DOMAIN r
  BY <1>1
<1>4. Listed(r, m.id) = {m}
  BY <1>1, <1>2, <1>3, ListedOnce
<1>5. \A k \in DOMAIN l : l[k].id # m.id => \E j \in DOMAIN r : r[j] = l[k]
  BY <1>1
<1>6. \A k \in DOMAIN r : r[k].id # m.id => \E j \in DOMAIN l : l[j] = r[k]
  <2> SUFFICES ASSUME NEW k \in DOMAIN r, r[k].id # m.id PROVE \E j \in DOMAIN l : l[j] = r[k]
    OBVIOUS
  <2>1. k # Len(l) + 1
    BY <1>1
  <2> QED
    BY <1>1, <2>1
<1>7. \A i : i # m.id => Listed(l, i) = Listed(r, i)
  BY <1>5, <1>6 DEF Listed
<1> QED
  BY <1>4, <1>7 DEF r

LEMMA ListedTakenOut ==
  ASSUME NEW l, IsMacroList(l), NEW k \in DOMAIN l
  PROVE  /\ Listed(RemoveAt(l, k), l[k].id) = {}
         /\ \A i : i # l[k].id => Listed(RemoveAt(l, k), i) = Listed(l, i)
<1> DEFINE r == RemoveAt(l, k)
<1>1. l \in Seq(Macro) /\ Len(l) \in Nat /\ DOMAIN l = 1..Len(l)
  BY DEF IsMacroList
<1>2. /\ r \in Seq(Macro) /\ Len(r) = Len(l) - 1
      /\ \A j \in 1..Len(l) - 1 : r[j] = IF j < k THEN l[j] ELSE l[j + 1]
  BY <1>1, Removed
<1>3. IsMacroList(r) /\ IdsOf(r) = IdsOf(l) \ {l[k].id}
  BY TakenOut
<1>4. DOMAIN r = 1..Len(l) - 1
  BY <1>1, <1>2
<1> HIDE DEF r
<1>5. Listed(r, l[k].id) = {}
  BY <1>3, ListedOnce
<1>6. \A j \in DOMAIN r : r[j].id # l[k].id => \E h \in DOMAIN l : l[h] = r[j]
  BY <1>1, <1>2, <1>4
<1>7. \A h \in DOMAIN l : l[h].id # l[k].id => \E j \in DOMAIN r : r[j] = l[h]
  <2> SUFFICES ASSUME NEW h \in DOMAIN l, l[h].id # l[k].id PROVE \E j \in DOMAIN r : r[j] = l[h]
    OBVIOUS
  <2>1. CASE h < k
    <3>1. h \in DOMAIN r /\ r[h] = l[h]
      BY <1>1, <1>2, <1>4, <2>1
    <3> QED
      BY <3>1
  <2>2. CASE h > k
    <3>1. h - 1 \in 1..Len(l) - 1 /\ ~(h - 1 < k) /\ (h - 1) + 1 = h
      BY <1>1, <2>2
    <3>2. r[h - 1] = l[h]
      BY <1>2, <3>1
    <3> QED
      BY <1>4, <3>1, <3>2
  <2>3. h # k
    OBVIOUS
  <2> QED
    BY <1>1, <2>1, <2>2, <2>3
<1>8. \A i : i # l[k].id => Listed(l, i) = Listed(r, i)
  BY <1>6, <1>7, ListedElsewhere
<1> QED
  BY <1>5, <1>8 DEF r

LEMMA ListedReplaced ==
  ASSUME NEW l, IsMacroList(l), NEW k \in DOMAIN l, NEW m \in Macro, m.id = l[k].id
  PROVE  /\ Listed([l EXCEPT ![k] = m], m.id) = {m}
         /\ \A i : i # m.id => Listed([l EXCEPT ![k] = m], i) = Listed(l, i)
<1> DEFINE r == [l EXCEPT ![k] = m]
<1>1. IsMacroList(r)
  BY Replaced
<1>2. DOMAIN r = DOMAIN l /\ r[k] = m /\ \A j \in DOMAIN l : j # k => r[j] = l[j]
  BY DEF IsMacroList
<1> HIDE DEF r
<1>3. Listed(r, m.id) = {m}
  BY <1>1, <1>2, ListedOnce
<1>4. \A j \in DOMAIN r : r[j].id # m.id => \E h \in DOMAIN l : l[h] = r[j]
  BY <1>2
<1>5. \A h \in DOMAIN l : l[h].id # m.id => \E j \in DOMAIN r : r[j] = l[h]
  BY <1>2
<1>6. \A i : i # m.id => Listed(l, i) = Listed(r, i)
  BY <1>4, <1>5 DEF Listed
<1> QED
  BY <1>3, <1>6 DEF r

LEMMA ListedExchanged ==
  ASSUME NEW l, IsMacroList(l), NEW j \in DOMAIN l, NEW k \in DOMAIN l
  PROVE  \A i : Listed(Swapped(l, j, k), i) = Listed(l, i)
<1> DEFINE r == Swapped(l, j, k)
           from(h) == IF h = k THEN j ELSE IF h = j THEN k ELSE h
<1>1. DOMAIN r = DOMAIN l
  BY DEF IsMacroList, Swapped
<1>2. \A h \in DOMAIN l : from(h) \in DOMAIN l /\ r[h] = l[from(h)] /\ r[from(h)] = l[h]
  BY <1>1 DEF Swapped
<1> HIDE DEF r, from
<1>3. \A i : Listed(r, i) = Listed(l, i)
  BY <1>1, <1>2 DEF Listed
<1> QED
  BY <1>3 DEF r

-----------------------------------------------------------------------------
(* Reloads.                                                                *)

\* Commands that add or update every macro of a list bring the router up to it.
BringsUp(cs, l, from) ==
  \A k \in DOMAIN l : /\ cs[k].op \in {"AddMacro", "UpdateMacro"} /\ cs[k].m = l[k]
                      /\ cs[k].op = "AddMacro" => from[l[k].id] = {}

UpTo(l, from) == [i \in Ids |-> IF i \in IdsOf(l) THEN Listed(l, i) ELSE from[i]]

LEMMA BringUp ==
  ASSUME NEW l, IsMacroList(l), NEW cs \in Seq(Command), Len(cs) = Len(l),
         NEW from \in RouterState, BringsUp(cs, l, from)
  PROVE  Leads(from, cs, UpTo(l, from))
<1> DEFINE n == Len(l)
           Done(k) == {l[j].id : j \in 1..k}
           st(k) == [i \in Ids |-> IF i \in Done(k) THEN Listed(l, i) ELSE from[i]]
           p == [k \in 0..n |-> st(k)]
<1>1. /\ n \in Nat /\ DOMAIN l = 1..n /\ Len(cs) = n
      /\ \A k \in 1..n : l[k] \in Macro /\ l[k].id \in Ids
  BY Members
<1>2. \A i : Listed(l, i) \subseteq Macro
  BY ListedOnce
<1>3. ASSUME NEW k \in 0..n PROVE st(k) \in RouterState
  <2>1. \A i \in Ids : (IF i \in Done(k) THEN Listed(l, i) ELSE from[i]) \in SUBSET Macro
    BY <1>2 DEF RouterState
  <2> HIDE DEF Done
  <2> QED
    BY <2>1 DEF RouterState
<1>4. Done(0) = {} /\ Done(n) = IdsOf(l)
  BY <1>1 DEF IdsOf
<1>5. st(0) = from
  BY <1>4 DEF RouterState
<1>6. ASSUME NEW k \in 1..n PROVE Fine(st(k - 1), cs[k]) /\ st(k) = Effect(st(k - 1), cs[k])
  <2>1. l[k].id \notin Done(k - 1)
    <3> SUFFICES ASSUME NEW j \in 1..k - 1, l[j].id = l[k].id PROVE FALSE
      OBVIOUS
    <3>1. j \in DOMAIN l /\ j # k
      BY <1>1
    <3> QED
      BY <1>1, <3>1 DEF IsMacroList
  <2>2. Done(k) = Done(k - 1) \union {l[k].id}
    <3>1. 1..k = (1..k - 1) \union {k}
      BY <1>1
    <3> QED
      BY <3>1
  <2>3. st(k - 1)[l[k].id] = from[l[k].id]
    BY <1>1, <2>1
  <2>4. Listed(l, l[k].id) = {l[k]}
    BY <1>1, ListedOnce
  <2>5. cs[k].op \in {"AddMacro", "UpdateMacro"} /\ cs[k].m = l[k]
        /\ (cs[k].op = "AddMacro" => from[l[k].id] = {})
    BY <1>1 DEF BringsUp
  <2>6. st(k) = [st(k - 1) EXCEPT ![l[k].id] = {l[k]}]
    BY <1>1, <2>2, <2>4
  <2>7. Fine(st(k - 1), cs[k])
    BY <2>3, <2>5 DEF Fine
  <2>8. Effect(st(k - 1), cs[k]) = [st(k - 1) EXCEPT ![l[k].id] = {l[k]}]
    BY <2>5 DEF Effect
  <2> QED
    BY <2>6, <2>7, <2>8
<1> HIDE DEF st, n
<1>7. p \in [0..n -> RouterState] /\ p[0] = from /\ p[n] = st(n)
      /\ \A k \in 0..n : p[k] = st(k)
  BY <1>1, <1>3, <1>5
<1> HIDE DEF p
<1>8. ASSUME NEW k \in 1..n PROVE Fine(p[k - 1], cs[k]) /\ p[k] = Effect(p[k - 1], cs[k])
  <2>1. k - 1 \in 0..n /\ k \in 0..n
    BY <1>1
  <2>2. p[k - 1] = st(k - 1) /\ p[k] = st(k)
    BY <1>7, <2>1
  <2> QED
    BY <1>6, <2>2
<1>9. Chain(p, cs)
  BY <1>1, <1>7, <1>8 DEF Chain
<1>10. Leads(from, cs, st(n))
  BY <1>1, <1>7, <1>9 DEF Leads
<1>11. st(n) = UpTo(l, from)
  BY <1>4 DEF st, UpTo
<1> QED
  BY <1>10, <1>11

\* Deletions take from the router what they name.
LEMMA TakeDown ==
  ASSUME NEW ds \in Seq(Command), NEW from \in RouterState, NEW gone,
         \A k \in DOMAIN ds : ds[k].op = "DeleteMacro" /\ ds[k].id \in gone,
         \A i \in gone : \E k \in DOMAIN ds : ds[k].id = i
  PROVE  Leads(from, ds, [i \in Ids |-> IF i \in gone THEN {} ELSE from[i]])
<1> DEFINE n == Len(ds)
           Done(k) == {ds[j].id : j \in 1..k}
           st(k) == [i \in Ids |-> IF i \in Done(k) THEN {} ELSE from[i]]
           p == [k \in 0..n |-> st(k)]
<1>1. n \in Nat /\ DOMAIN ds = 1..n
  OBVIOUS
<1>2. ASSUME NEW k \in 0..n PROVE st(k) \in RouterState
  <2>1. \A i \in Ids : (IF i \in Done(k) THEN {} ELSE from[i]) \in SUBSET Macro
    BY DEF RouterState
  <2> HIDE DEF Done
  <2> QED
    BY <2>1 DEF RouterState
<1>3. Done(0) = {} /\ Done(n) = gone
  BY <1>1
<1>4. st(0) = from
  BY <1>3 DEF RouterState
<1>5. ASSUME NEW k \in 1..n PROVE Fine(st(k - 1), ds[k]) /\ st(k) = Effect(st(k - 1), ds[k])
  <2>1. ds[k].op = "DeleteMacro"
    BY <1>1
  <2>2. Done(k) = Done(k - 1) \union {ds[k].id}
    <3>1. 1..k = (1..k - 1) \union {k}
      BY <1>1
    <3> QED
      BY <3>1
  <2>3. st(k) = [st(k - 1) EXCEPT ![ds[k].id] = {}]
    BY <2>2
  <2>4. Effect(st(k - 1), ds[k]) = [st(k - 1) EXCEPT ![ds[k].id] = {}]
    BY <2>1 DEF Effect
  <2> QED
    BY <2>1, <2>3, <2>4 DEF Fine
<1> HIDE DEF st, n
<1>6. p \in [0..n -> RouterState] /\ p[0] = from /\ p[n] = st(n)
      /\ \A k \in 0..n : p[k] = st(k)
  BY <1>1, <1>2, <1>4
<1> HIDE DEF p
<1>7. ASSUME NEW k \in 1..n PROVE Fine(p[k - 1], ds[k]) /\ p[k] = Effect(p[k - 1], ds[k])
  <2>1. k - 1 \in 0..n /\ k \in 0..n
    BY <1>1
  <2>2. p[k - 1] = st(k - 1) /\ p[k] = st(k)
    BY <1>6, <2>1
  <2> QED
    BY <1>5, <2>2
<1>8. Chain(p, ds)
  BY <1>6, <1>7 DEF Chain, n
<1>9. Leads(from, ds, st(n))
  BY <1>6, <1>8 DEF Leads, n
<1>10. st(n) = [i \in Ids |-> IF i \in gone THEN {} ELSE from[i]]
  BY <1>3 DEF st
<1> QED
  BY <1>9, <1>10

-----------------------------------------------------------------------------
(* The engine and the list.                                                *)

\* The places of the UI thread between a command and the change of the list.
Flux == {"adding", "removing", "toggling"}

\* What the router will have is what the list has, but for the macro in hand.
Agrees(to) ==
  /\ \A i \in Ids : (ui \notin Flux \/ \A t \in todo : t.m.id # i) => to[i] = Listed(list, i)
  /\ \A t \in todo :
       /\ ui = "adding" => to[t.m.id] = {t.m}
       /\ ui = "removing" => to[t.m.id] = {}
       /\ ui = "toggling" => \E e \in BOOLEAN : to[t.m.id] = {[t.m EXCEPT !.enabled = e]}
       /\ ui \in {"deleting", "removing", "toggling"} => t.pos \in DOMAIN list /\ list[t.pos] = t.m

Ahead == \E to \in RouterState : Leads(macros, cmds, to) /\ Agrees(to)

Follows == ~history.overlapped => IndexExact /\ Ahead

LEMMA AheadPosted ==
  ASSUME TypeInv, NEW to \in RouterState, Leads(macros, cmds, to),
         NEW c \in Command, Fine(to, c), Post(c)
  PROVE  Effect(to, c) \in RouterState /\ Leads(macros', cmds', Effect(to, c))
<1>1. cmds \in Seq(Command)
  BY DEF TypeInv, TypeOK, EngineTypeOK
<1>2. macros' = macros /\ cmds' = Append(cmds, c)
  BY DEF Post, router
<1> QED
  BY <1>1, <1>2, EffectTyped, LeadsFurther

LEMMA AheadKept ==
  ASSUME NEW to \in RouterState, Leads(macros, cmds, to), UNCHANGED evars, Agrees(to)'
  PROVE  Ahead'
<1>1. macros' = macros /\ cmds' = cmds
  BY DEF evars
<1> QED
  BY <1>1 DEF Ahead

\* At rest as to the macro in hand, agreement is agreement on every id.
LEMMA AgreesOutside ==
  ASSUME NEW to, todo' = {} \/ ui' = "moving",
         ui' \notin Flux /\ ui' # "deleting", \A i \in Ids : to[i] = Listed(list', i)
  PROVE  Agrees(to)'
BY DEF Agrees, Flux

LEMMA CallbackAhead ==
  ASSUME TypeInv, Ahead, Callback
  PROVE  Ahead'
<1>1. IsMacroList(list) /\ InHand /\ unused \in SUBSET Ids
  BY DEF TypeInv, TypeOK
<1>2. PICK to \in RouterState : Leads(macros, cmds, to) /\ Agrees(to)
  BY DEF Ahead
<1>3. ui = "idle" /\ todo = {}
  <2>1. ui = "idle"
    BY DEF Callback, AddPressed, Rename, DeletePressed, TogglePressed, MoveUp, MoveDownPressed,
           Edit, Begin
  <2> QED
    BY <1>1, <2>1, NoTodo DEF CutPlaces
<1>4. \A i \in Ids : to[i] = Listed(list, i)
  BY <1>2, <1>3 DEF Agrees
<1>5. ASSUME NEW k \in DOMAIN list
      PROVE  list[k] \in Macro /\ list[k].id \in Ids /\ list[k].enabled \in BOOLEAN
             /\ Listed(list, list[k].id) = {list[k]} /\ k \in Nat
  <2>1. list[k] \in Macro
    BY <1>1, Members
  <2>2. Listed(list, list[k].id) = {list[k]}
    BY <1>1, ListedOnce
  <2>3. k \in Nat
    BY <1>1, Members
  <2> QED
    BY <2>1, <2>2, <2>3 DEF Macro
<1>6. CASE AddPressed
  <2>1. PICK i \in unused :
          LET m == [id |-> i, enabled |-> TRUE, body |-> NewBody] IN
          /\ Post([op |-> "AddMacro", m |-> m])
          /\ todo' = {[pos |-> 0, m |-> m]}
    BY <1>6 DEF AddPressed
  <2> DEFINE m == [id |-> i, enabled |-> TRUE, body |-> NewBody]
             c == [op |-> "AddMacro", m |-> m]
  <2>2. Post(c) /\ todo' = {[pos |-> 0, m |-> m]} /\ list' = list /\ ui' = "adding"
    BY <1>6, <2>1 DEF AddPressed
  <2>3. i \in Ids /\ m \in Macro /\ m.id = i
    BY <1>1, EditorAssumption DEF Macro
  <2> HIDE DEF m
  <2>4. c \in Command /\ c.op = "AddMacro" /\ c.m = m
    BY <2>3 DEF Command
  <2> HIDE DEF c
  <2>5. to[i] = {}
    <3>1. i \notin IdsOf(list)
      BY DEF TypeInv, IdsApart, Known
    <3> QED
      BY <1>1, <1>4, <2>3, <3>1, ListedOnce
  <2>6. Fine(to, c)
    BY <2>3, <2>4, <2>5 DEF Fine
  <2>7. Effect(to, c) \in RouterState /\ Leads(macros', cmds', Effect(to, c))
    BY <1>2, <2>2, <2>4, <2>6, AheadPosted
  <2>8. Effect(to, c) = [to EXCEPT ![i] = {m}]
    BY <2>3, <2>4 DEF Effect
  <2>9. \A t \in todo' : t.m = m
    BY <2>2
  <2>10. PICK then \in RouterState : then = Effect(to, c)
    BY <2>7
  <2>11. then[i] = {m} /\ \A j \in Ids : j # i => then[j] = Listed(list', j)
    BY <1>4, <2>2, <2>3, <2>8, <2>10 DEF RouterState
  <2>12. \A j \in Ids : (\A t \in todo' : t.m.id # j) => j # i
    BY <2>2, <2>3
  <2>13. \A t \in todo' : then[t.m.id] = {t.m}
    BY <2>3, <2>9, <2>11
  <2>14. Agrees(then)'
    BY <2>2, <2>11, <2>12, <2>13 DEF Agrees, Flux
  <2> QED
    BY <2>7, <2>10, <2>14 DEF Ahead
<1>7. CASE Rename
  <2>1. UNCHANGED evars /\ list' = list /\ todo' = {} /\ ui' = "armed"
    BY <1>3, <1>7 DEF Rename
  <2>2. Agrees(to)'
    BY <1>4, <2>1, AgreesOutside DEF Flux
  <2> QED
    BY <1>2, <2>1, <2>2, AheadKept
<1>8. ASSUME NEW k \in DOMAIN rows, DeletePressed(k) PROVE Ahead'
  <2>1. /\ UNCHANGED evars /\ list' = list /\ ui' = "deleting" /\ k \in DOMAIN list
        /\ todo' = {[pos |-> k, m |-> list[k]]}
    BY <1>8 DEF DeletePressed
  <2>2. \A t \in todo' : t.pos = k /\ t.m = list[k]
    BY <2>1
  <2>3. Agrees(to)'
    BY <1>4, <2>1, <2>2 DEF Agrees, Flux
  <2> QED
    BY <1>2, <2>1, <2>3, AheadKept
<1>9. ASSUME NEW k \in DOMAIN rows, TogglePressed(k) PROVE Ahead'
  <2> DEFINE m == [list[k] EXCEPT !.enabled = ~rows[k].enabled]
             e == list[k].enabled
  <2>1. k \in DOMAIN list /\ UNCHANGED evars /\ ui' = "toggling"
    BY <1>9 DEF TogglePressed
  <2>2. list[k] \in Macro /\ e \in BOOLEAN /\ list[k].id \in Ids
    BY <1>5, <2>1
  <2>3. m \in Macro /\ m.id = list[k].id /\ [m EXCEPT !.enabled = e] = list[k]
    BY <2>2 DEF Macro
  <2>4. list' = [list EXCEPT ![k] = m] /\ list'[k] = m
    BY <1>9, <2>1 DEF TogglePressed
  <2>5. todo' = {[pos |-> k, m |-> m]}
    BY <1>9, <2>4 DEF TogglePressed
  <2> HIDE DEF m, e
  <2>6. \A t \in todo' : t.pos = k /\ t.m = m
    BY <2>5
  <2>7. k \in DOMAIN list'
    BY <2>1, <2>4
  <2>8. to[m.id] = {[m EXCEPT !.enabled = e]}
    BY <1>4, <1>5, <2>1, <2>2, <2>3
  <2>9. \A i \in Ids : i # m.id => to[i] = Listed(list', i)
    <3>1. \A i : i # m.id => Listed([list EXCEPT ![k] = m], i) = Listed(list, i)
      BY <1>1, <2>1, <2>3, ListedReplaced
    <3> QED
      BY <1>4, <2>4, <3>1
  <2>10. Agrees(to)'
    BY <2>1, <2>2, <2>4, <2>5, <2>6, <2>7, <2>8, <2>9 DEF Agrees, Flux
  <2> QED
    BY <1>2, <2>1, <2>10, AheadKept
<1>10. ASSUME NEW k \in DOMAIN rows, MoveUp(k) PROVE Ahead'
  <2>1. UNCHANGED <<evars, todo>> /\ SwapRows(k - 1, k)
    BY <1>10 DEF MoveUp
  <2>2. \A i \in Ids : Listed(list', i) = Listed(list, i)
    BY <1>1, <2>1, ListedExchanged DEF SwapRows
  <2>3. ui' \notin Flux /\ ui' # "deleting"
    BY <2>1 DEF SwapRows, Flux
  <2>4. Agrees(to)'
    BY <1>3, <1>4, <2>1, <2>2, <2>3, AgreesOutside
  <2> QED
    BY <1>2, <2>1, <2>4, AheadKept
<1>11. ASSUME NEW k \in DOMAIN rows, MoveDownPressed(k) PROVE Ahead'
  <2>1. UNCHANGED evars /\ list' = list /\ ui' = "moving"
    BY <1>11 DEF MoveDownPressed
  <2>2. Agrees(to)'
    BY <1>4, <2>1, AgreesOutside DEF Flux
  <2> QED
    BY <1>2, <2>1, <2>2, AheadKept
<1>12. ASSUME NEW k \in DOMAIN rows, NEW b \in Edited, Edit(k, b) PROVE Ahead'
  <2> DEFINE m == [list[k] EXCEPT !.body = b]
             c == [op |-> "UpdateMacro", m |-> m]
  <2>1. k \in DOMAIN list /\ ui' = "armed" /\ todo' = {}
    BY <1>3, <1>12 DEF Edit
  <2>2. list[k] \in Macro /\ list[k].id \in Ids
    BY <1>5, <2>1
  <2>3. m \in Macro /\ m.id = list[k].id
    BY <2>2, EditorAssumption DEF Macro
  <2>4. list' = [list EXCEPT ![k] = m] /\ list'[k] = m
    BY <1>12, <2>1 DEF Edit
  <2>5. Post(c)
    BY <1>12, <2>4 DEF Edit
  <2> HIDE DEF m
  <2>6. c \in Command /\ c.op = "UpdateMacro" /\ c.m = m
    BY <2>3 DEF Command
  <2> HIDE DEF c
  <2>7. Fine(to, c) /\ Effect(to, c) = [to EXCEPT ![m.id] = {m}]
    BY <2>6 DEF Fine, Effect
  <2>8. Effect(to, c) \in RouterState /\ Leads(macros', cmds', Effect(to, c))
    BY <1>2, <2>5, <2>6, <2>7, AheadPosted
  <2>9. \A i \in Ids : Effect(to, c)[i] = Listed(list', i)
    <3>1. /\ Listed([list EXCEPT ![k] = m], m.id) = {m}
          /\ \A i : i # m.id => Listed([list EXCEPT ![k] = m], i) = Listed(list, i)
      BY <1>1, <2>1, <2>3, ListedReplaced
    <3> QED
      BY <1>4, <2>2, <2>3, <2>4, <2>7, <3>1 DEF RouterState
  <2>10. PICK then \in RouterState : then = Effect(to, c)
    BY <2>8
  <2>11. Agrees(then)'
    BY <2>1, <2>9, <2>10, AgreesOutside DEF Flux
  <2> QED
    BY <2>8, <2>10, <2>11 DEF Ahead
<1> QED
  BY <1>6, <1>7, <1>8, <1>9, <1>10, <1>11, <1>12 DEF Callback

LEMMA UiStepAhead ==
  ASSUME TypeInv, Ahead, UiStep
  PROVE  Ahead'
<1>1. IsMacroList(list) /\ InHand
  BY DEF TypeInv, TypeOK
<1>2. PICK to \in RouterState : Leads(macros, cmds, to) /\ Agrees(to)
  BY DEF Ahead
<1>3. ASSUME ui \in CutPlaces PROVE \E t \in [pos : Nat, m : Macro] : todo = {t}
  BY <1>1, <1>3, TodoOfCut
<1>4. CASE PushAdded
  <2>1. ui = "adding" /\ ui' = "unsaved" /\ todo' = {} /\ UNCHANGED evars
    BY <1>4 DEF PushAdded, Continue
  <2>2. PICK t \in [pos : Nat, m : Macro] : todo = {t}
    BY <1>3, <2>1 DEF CutPlaces
  <2>3. list' = Append(list, t.m) /\ t.m \in Macro
    BY <1>4, <2>2 DEF PushAdded
  <2>4. t.m.id \notin IdsOf(list)
    BY <2>1, <2>2 DEF TypeInv, IdsApart, Known
  <2>5. /\ Listed(list', t.m.id) = {t.m}
        /\ \A i : i # t.m.id => Listed(list', i) = Listed(list, i)
    BY <1>1, <2>3, <2>4, ListedAppended
  <2>6. to[t.m.id] = {t.m} /\ \A i \in Ids : i # t.m.id => to[i] = Listed(list, i)
    BY <1>2, <2>1, <2>2 DEF Agrees
  <2>7. Agrees(to)'
    BY <2>1, <2>5, <2>6, AgreesOutside DEF Flux
  <2> QED
    BY <1>2, <2>1, <2>7, AheadKept
<1>5. CASE SendDelete
  <2>1. ui = "deleting" /\ ui' = "removing" /\ UNCHANGED <<list, todo>>
    BY <1>5 DEF SendDelete, Continue
  <2>2. PICK t \in [pos : Nat, m : Macro] : todo = {t}
    BY <1>3, <2>1 DEF CutPlaces
  <2>3. Post([op |-> "DeleteMacro", id |-> t.m.id]) /\ t.m \in Macro
    BY <1>5, <2>2 DEF SendDelete
  <2>4. t.m.id \in Ids
    BY <2>3 DEF Macro
  <2>5. t.pos \in DOMAIN list /\ list[t.pos] = t.m /\ \A i \in Ids : to[i] = Listed(list, i)
    BY <1>2, <2>1, <2>2 DEF Agrees, Flux
  <2> DEFINE c == [op |-> "DeleteMacro", id |-> t.m.id]
  <2>6. c \in Command /\ Fine(to, c) /\ Effect(to, c) = [to EXCEPT ![t.m.id] = {}]
    BY <2>4 DEF Command, Fine, Effect
  <2> HIDE DEF c
  <2>7. Effect(to, c) \in RouterState /\ Leads(macros', cmds', Effect(to, c))
    BY <1>2, <2>3, <2>6, AheadPosted DEF c
  <2>8. PICK then \in RouterState : then = Effect(to, c)
    BY <2>7
  <2>9. then[t.m.id] = {} /\ \A i \in Ids : i # t.m.id => then[i] = Listed(list', i)
    BY <2>1, <2>4, <2>5, <2>6, <2>8 DEF RouterState
  <2>10. todo' = {t} /\ list' = list
    BY <2>1, <2>2
  <2>11. Agrees(then)'
    BY <2>1, <2>5, <2>9, <2>10 DEF Agrees, Flux
  <2> QED
    BY <2>7, <2>8, <2>11 DEF Ahead
<1>6. CASE RemoveDeleted
  <2>1. ui = "removing" /\ todo' = {} /\ UNCHANGED evars
    BY <1>6 DEF RemoveDeleted, Continue
  <2>2. PICK t \in [pos : Nat, m : Macro] : todo = {t}
    BY <1>3, <2>1 DEF CutPlaces
  <2>3. /\ t.pos \in DOMAIN list /\ list[t.pos] = t.m /\ to[t.m.id] = {}
        /\ \A i \in Ids : i # t.m.id => to[i] = Listed(list, i)
    BY <1>2, <2>1, <2>2 DEF Agrees
  <2>4. list' = RemoveAt(list, t.pos) /\ ui' = "unsaved"
    BY <1>6, <2>2, <2>3 DEF RemoveDeleted
  <2>5. /\ Listed(list', t.m.id) = {}
        /\ \A i : i # t.m.id => Listed(list', i) = Listed(list, i)
    BY <1>1, <2>3, <2>4, ListedTakenOut
  <2>6. Agrees(to)'
    BY <2>1, <2>3, <2>4, <2>5, AgreesOutside DEF Flux
  <2> QED
    BY <1>2, <2>1, <2>6, AheadKept
<1>7. CASE SendToggle
  <2>1. ui = "toggling" /\ ui' = "unsaved" /\ todo' = {} /\ list' = list
    BY <1>7 DEF SendToggle, Continue
  <2>2. PICK t \in [pos : Nat, m : Macro] : todo = {t}
    BY <1>3, <2>1 DEF CutPlaces
  <2>3. Post([op |-> "SetEnabled", id |-> t.m.id, enabled |-> t.m.enabled]) /\ t.m \in Macro
    BY <1>7, <2>2 DEF SendToggle
  <2>4. t.m.id \in Ids /\ t.m.enabled \in BOOLEAN
    BY <2>3 DEF Macro
  <2>5. /\ t.pos \in DOMAIN list /\ list[t.pos] = t.m
        /\ \A i \in Ids : i # t.m.id => to[i] = Listed(list, i)
    BY <1>2, <2>1, <2>2 DEF Agrees
  <2>6. PICK e \in BOOLEAN : to[t.m.id] = {[t.m EXCEPT !.enabled = e]}
    BY <1>2, <2>1, <2>2 DEF Agrees
  <2> DEFINE c == [op |-> "SetEnabled", id |-> t.m.id, enabled |-> t.m.enabled]
  <2>7. c \in Command /\ Fine(to, c) /\ c.op = "SetEnabled" /\ c.id = t.m.id /\ c.enabled = t.m.enabled
    BY <2>4 DEF Command, Fine
  <2> HIDE DEF c
  <2>8. Effect(to, c) = [to EXCEPT ![t.m.id] = {[m EXCEPT !.enabled = t.m.enabled] : m \in to[t.m.id]}]
    BY <2>4, <2>7 DEF Effect, RouterState
  <2>9. [[t.m EXCEPT !.enabled = e] EXCEPT !.enabled = t.m.enabled] = t.m
    BY <2>3 DEF Macro
  <2>10. {[m EXCEPT !.enabled = t.m.enabled] : m \in to[t.m.id]} = {t.m}
    BY <2>6, <2>9
  <2>11. Effect(to, c) \in RouterState /\ Leads(macros', cmds', Effect(to, c))
    BY <1>2, <2>3, <2>7, AheadPosted DEF c
  <2>12. PICK then \in RouterState : then = Effect(to, c)
    BY <2>11
  <2>13. then[t.m.id] = {t.m} /\ \A i \in Ids : i # t.m.id => then[i] = Listed(list, i)
    BY <2>4, <2>5, <2>8, <2>10, <2>12 DEF RouterState
  <2>14. Listed(list, t.m.id) = {t.m}
    BY <1>1, <2>5, ListedOnce
  <2>15. Agrees(then)'
    BY <2>1, <2>13, <2>14, AgreesOutside DEF Flux
  <2> QED
    BY <2>11, <2>12, <2>15 DEF Ahead
<1>8. CASE MoveDown
  <2>1. ui = "moving" /\ todo' = {} /\ UNCHANGED evars
    BY <1>8 DEF MoveDown, Continue
  <2>2. PICK t \in [pos : Nat, m : Macro] : todo = {t}
    BY <1>3, <2>1 DEF CutPlaces
  <2>3. SwapRows(t.pos, t.pos + 1)
    BY <1>8, <2>2 DEF MoveDown
  <2>4. \A i \in Ids : to[i] = Listed(list, i)
    BY <1>2, <2>1 DEF Agrees, Flux
  <2>5. \A i \in Ids : Listed(list', i) = Listed(list, i)
    BY <1>1, <2>3, ListedExchanged DEF SwapRows
  <2>6. ui' \notin Flux /\ ui' # "deleting"
    BY <2>3 DEF SwapRows, Flux
  <2>7. Agrees(to)'
    BY <2>1, <2>4, <2>5, <2>6, AgreesOutside
  <2> QED
    BY <1>2, <2>1, <2>7, AheadKept
<1>9. CASE BeginSave \/ WriteTmp \/ RenameTmp \/ SaveFails \/ Refresh
  <2>1. /\ ui \in {"idle", "unsaved", "armed", "written"} /\ ui' \in {"idle", "armed", "written"}
        /\ UNCHANGED <<evars, list, todo>>
    BY <1>9 DEF BeginSave, WriteTmp, RenameTmp, SaveFails, Refresh, Continue
  <2>2. todo = {}
    BY <1>1, <2>1, NoTodo DEF CutPlaces
  <2>3. \A i \in Ids : to[i] = Listed(list, i)
    BY <1>2, <2>1 DEF Agrees, Flux
  <2>4. Agrees(to)'
    BY <2>1, <2>2, <2>3, AgreesOutside DEF Flux
  <2> QED
    BY <1>2, <2>1, <2>4, AheadKept
<1> QED
  BY <1>4, <1>5, <1>6, <1>7, <1>8, <1>9 DEF UiStep

LEMMA ApplyAhead ==
  ASSUME TypeInv, Ahead, Apply, ~history'.overlapped
  PROVE  Ahead'
<1>1. /\ IsMacroList(list) /\ InHand /\ IsFile(fresh)
      /\ history \in [saved : SUBSET Seq(Macro), overlapped : BOOLEAN, stale : BOOLEAN, failed : BOOLEAN]
      /\ cmds \in Seq(Command)
  BY DEF TypeInv, TypeOK, EngineTypeOK
<1>2. PICK to \in RouterState : Leads(macros, cmds, to) /\ Agrees(to)
  BY DEF Ahead
<1>3. PICK new \in fresh : list' = new /\ cmds' = cmds \o ReloadCommands(new)
  BY DEF Apply
<1>4. ui \notin {"deleting", "removing", "toggling"}
  BY <1>1 DEF Apply
<1>5. IsMacroList(new) /\ IdsOf(new) \subseteq IdsIn(fresh)
  BY <1>1 DEF IsFile, IdsIn
<1>6. /\ ReloadCommands(new) = Kept(new) \o Deletions(new)
      /\ Kept(new) \in Seq(Command) /\ Len(Kept(new)) = Len(new)
      /\ Deletions(new) \in Seq([op : {"DeleteMacro"}, id : Gone(new)])
      /\ \A i \in Gone(new) : \E k \in DOMAIN Deletions(new) : Deletions(new)[k].id = i
      /\ ReloadCommands(new) \in Seq(Command)
  BY <1>1, <1>5, ReloadTyped
<1>7. Gone(new) \subseteq IdsOf(list) /\ IdsOf(list) \subseteq Ids /\ Gone(new) \cap IdsOf(new) = {}
  BY <1>1, Members DEF Gone
<1>8. Deletions(new) \in Seq(Command)
  <2>1. [op : {"DeleteMacro"}, id : Gone(new)] \subseteq Command
    BY <1>7 DEF Command
  <2> QED
    BY <1>6, <2>1, Wider
<1>9. \A k \in DOMAIN Deletions(new) : Deletions(new)[k].op = "DeleteMacro" /\ Deletions(new)[k].id \in Gone(new)
  <2>1. \A k \in DOMAIN Deletions(new) : Deletions(new)[k] \in [op : {"DeleteMacro"}, id : Gone(new)]
    BY <1>6, Elements
  <2> QED
    BY <2>1
\* An id that the file has and the list has not is not in the router either.
<1>10. ASSUME NEW i \in IdsOf(new), i \notin IdsOf(list) PROVE to[i] = {}
  <2>1. i \in Ids
    BY <1>5, Members
  <2>2. Listed(list, i) = {}
    BY <1>1, <1>10, ListedOnce
  <2>3. ui \notin Flux \/ \A t \in todo : t.m.id # i
    <3>1. ui \in Flux => ui = "adding"
      BY <1>4 DEF Flux
    <3> QED
      BY <1>5, <3>1 DEF TypeInv, IdsApart, Known
  <2> QED
    BY <1>2, <2>1, <2>2, <2>3 DEF Agrees
<1> DEFINE mid == UpTo(new, to)
           end == [i \in Ids |-> IF i \in Gone(new) THEN {} ELSE mid[i]]
<1>11. Leads(to, Kept(new), mid)
  <2>1. DOMAIN new = 1..Len(new) /\ Len(new) \in Nat
    BY <1>5, Members
  <2>2. ASSUME NEW k \in DOMAIN new
        PROVE  /\ Kept(new)[k].op \in {"AddMacro", "UpdateMacro"} /\ Kept(new)[k].m = new[k]
               /\ Kept(new)[k].op = "AddMacro" => to[new[k].id] = {}
    <3>1. Kept(new)[k] = [op |-> IF new[k].id \in IdsOf(list) THEN "UpdateMacro" ELSE "AddMacro",
                          m |-> new[k]]
      BY DEF Kept
    <3>2. new[k].id \in IdsOf(new)
      BY DEF IdsOf
    <3>3. CASE new[k].id \in IdsOf(list)
      BY <3>1, <3>3
    <3>4. CASE new[k].id \notin IdsOf(list)
      BY <1>10, <3>1, <3>2, <3>4
    <3> QED
      BY <3>3, <3>4
  <2>3. BringsUp(Kept(new), new, to)
    BY <2>2 DEF BringsUp
  <2>4. Kept(new) \in Seq(Command) /\ Len(Kept(new)) = Len(new) /\ IsMacroList(new)
    BY <1>5, <1>6
  <2> QED
    BY <2>3, <2>4, BringUp
<1>12. mid \in RouterState
  <2>1. \A i : Listed(new, i) \subseteq Macro
    BY <1>5, ListedOnce
  <2>2. \A i \in Ids : to[i] \subseteq Macro
    BY DEF RouterState
  <2> QED
    BY <2>1, <2>2 DEF RouterState, UpTo
<1> HIDE DEF mid
<1>13. Leads(mid, Deletions(new), end)
  BY <1>6, <1>8, <1>9, <1>12, TakeDown
<1>14. end \in RouterState
  BY <1>12 DEF RouterState
<1> HIDE DEF end
<1>15. Leads(to, ReloadCommands(new), end)
  BY <1>6, <1>8, <1>11, <1>13, LeadsOn
<1>16. Leads(macros, cmds', end)
  BY <1>1, <1>2, <1>3, <1>6, <1>15, LeadsOn
<1>17. ASSUME NEW i \in Ids, ui \notin Flux \/ \A t \in todo : t.m.id # i
       PROVE  end[i] = Listed(new, i)
  <2>1. to[i] = Listed(list, i)
    BY <1>2, <1>17 DEF Agrees
  <2>2. CASE i \in IdsOf(new)
    BY <1>7, <2>2 DEF end, mid, UpTo
  <2>3. CASE i \notin IdsOf(new)
    <3>1. Listed(new, i) = {}
      BY <1>5, <2>3, ListedOnce
    <3>2. CASE i \in Gone(new)
      BY <3>1, <3>2 DEF end
    <3>3. CASE i \notin Gone(new)
      <4>1. i \notin IdsOf(list)
        BY <2>3, <3>3 DEF Gone
      <4>2. to[i] = {}
        BY <1>1, <2>1, <4>1, ListedOnce
      <4> QED
        BY <2>3, <3>1, <3>3, <4>2 DEF end, mid, UpTo
    <3> QED
      BY <3>2, <3>3
  <2> QED
    BY <2>2, <2>3
<1>18. ASSUME NEW t \in todo, ui = "adding" PROVE end[t.m.id] = {t.m}
  <2>1. t.m.id \notin IdsOf(list) /\ t.m.id \notin IdsOf(new)
    BY <1>5, <1>18 DEF TypeInv, IdsApart, Known
  <2>2. t.m.id \in Ids
    BY DEF TypeInv, TypeOK, Macro
  <2>3. to[t.m.id] = {t.m}
    BY <1>2, <1>18 DEF Agrees
  <2> QED
    BY <1>7, <2>1, <2>2, <2>3 DEF end, mid, UpTo
<1>19. macros' = macros /\ ui' = ui /\ todo' = todo
  BY DEF Apply, router
<1>20. PICK then \in RouterState : then = end
  BY <1>14
<1>21. Agrees(then)'
  BY <1>3, <1>4, <1>17, <1>18, <1>19, <1>20 DEF Agrees
<1> QED
  BY <1>16, <1>19, <1>20, <1>21 DEF Ahead

LEMMA TakeAhead ==
  ASSUME TypeInv, IndexExact, Ahead, TakeCommand, UNCHANGED <<app, reload, disk, others>>
  PROVE  IndexExact' /\ Ahead'
<1>1. cmds \in Seq(Command) /\ EngineTypeOK
  BY DEF TypeInv, TypeOK, EngineTypeOK
<1>2. PICK to \in RouterState : Leads(macros, cmds, to) /\ Agrees(to)
  BY DEF Ahead
<1> DEFINE c == Head(cmds)
<1>3. cmds # <<>> /\ cmds' = Tail(cmds)
  BY DEF TakeCommand, AddMacro, UpdateMacro, DeleteMacro, SetEnabled, RunInline, Shutdown, Receive
<1>4. Fine(macros, c) /\ Leads(Effect(macros, c), Tail(cmds), to)
  BY <1>1, <1>2, <1>3, LeadsTail
<1>5. c.op \in {"AddMacro", "UpdateMacro", "DeleteMacro", "SetEnabled"}
  BY <1>4 DEF Fine
<1>6. AddMacro \/ UpdateMacro \/ DeleteMacro \/ SetEnabled
  BY <1>5 DEF TakeCommand, RunInline, Shutdown, Receive
<1>7. macros' = Effect(macros, c)
  <2>1. CASE AddMacro \/ UpdateMacro
    <3>1. c.op \in {"AddMacro", "UpdateMacro"}
      BY <2>1 DEF AddMacro, UpdateMacro, Receive
    <3> QED
      BY <2>1, <3>1 DEF AddMacro, UpdateMacro, Insert, Effect
  <2>2. CASE DeleteMacro
    <3>1. c.op = "DeleteMacro"
      BY <2>2 DEF DeleteMacro, Receive
    <3> QED
      BY <2>2, <3>1 DEF DeleteMacro, Effect
  <2>3. CASE SetEnabled
    <3>1. c.op = "SetEnabled"
      BY <2>3 DEF SetEnabled, Receive
    <3> QED
      BY <2>3, <3>1 DEF SetEnabled, Effect
  <2> QED
    BY <1>6, <2>1, <2>2, <2>3
<1>8. ~Readding
  BY <1>4 DEF Fine, Readding, Registered
<1>9. IndexExact'
  BY <1>1, <1>8, EngineTypeStep, ExactStep DEF RouterStep
<1>10. Leads(macros', cmds', to)
  BY <1>3, <1>4, <1>7
<1>11. Agrees(to)'
  BY <1>2 DEF Agrees, app
<1> QED
  BY <1>9, <1>10, <1>11 DEF Ahead

\* The commands that main sends at startup.
LEMMA BootAhead ==
  ASSUME NEW l, IsMacroList(l)
  PROVE  \E to \in RouterState :
           /\ Leads([i \in Ids |-> {}], Adding(l), to)
           /\ \A i \in Ids : to[i] = Listed(l, i)
<1> DEFINE none == [i \in Ids |-> {}]
           to == UpTo(l, none)
<1>1. none \in RouterState /\ \A i \in Ids : none[i] = {}
  BY DEF RouterState
<1>2. /\ Adding(l) \in Seq(Command) /\ Len(Adding(l)) = Len(l)
      /\ \A k \in DOMAIN l : Adding(l)[k] = [op |-> "AddMacro", m |-> l[k]]
  BY AddingTyped
<1>3. \A k \in DOMAIN l : l[k].id \in Ids
  BY Members
<1> HIDE DEF none
<1>4. ASSUME NEW k \in DOMAIN l
      PROVE  /\ Adding(l)[k].op \in {"AddMacro", "UpdateMacro"} /\ Adding(l)[k].m = l[k]
             /\ Adding(l)[k].op = "AddMacro" => none[l[k].id] = {}
  <2>1. Adding(l)[k] = [op |-> "AddMacro", m |-> l[k]]
    BY <1>2
  <2>2. Adding(l)[k].op = "AddMacro" /\ Adding(l)[k].m = l[k]
    BY <2>1
  <2> QED
    BY <1>1, <1>3, <2>2
<1>5. Leads(none, Adding(l), to)
  <2>1. BringsUp(Adding(l), l, none)
    BY <1>4 DEF BringsUp
  <2> QED
    BY <1>1, <1>2, <2>1, BringUp
<1>6. to \in RouterState /\ \A i \in Ids : to[i] = Listed(l, i)
  <2>1. /\ \A i : i \notin IdsOf(l) => Listed(l, i) = {}
        /\ \A i : Listed(l, i) \subseteq Macro
    BY ListedOnce
  <2> QED
    BY <1>1, <2>1 DEF RouterState, UpTo
<1> HIDE DEF to
<1> QED
  BY <1>5, <1>6 DEF none

LEMMA FollowStep ==
  ASSUME TypeInv, Follows, [Next]_vars
  PROVE  Follows'
<1> SUFFICES ASSUME ~history'.overlapped PROVE IndexExact' /\ Ahead'
  BY DEF Follows
<1>1. /\ history \in [saved : SUBSET Seq(Macro), overlapped : BOOLEAN, stale : BOOLEAN, failed : BOOLEAN]
      /\ IsFile(file)
  BY DEF TypeInv, TypeOK
<1>2. CASE Crash
  <2> DEFINE l == LoadedFrom(file)
  <2>1. IsMacroList(l)
    BY <1>1, LoadedTyped
  <2>2. /\ macros' = [i \in Ids |-> {}] /\ index' = NoIndex /\ cmds' = Adding(l)
        /\ list' = l /\ ui' = "idle" /\ todo' = {}
    BY <1>2 DEF Crash, Booted
  <2> HIDE DEF l
  <2>3. IndexExact'
    BY <2>2 DEF IndexExact, Registered, NoIndex
  <2>4. PICK to \in RouterState : /\ Leads([i \in Ids |-> {}], Adding(l), to)
                                  /\ \A i \in Ids : to[i] = Listed(l, i)
    BY <2>1, BootAhead
  <2>5. Agrees(to)'
    BY <2>2, <2>4, AgreesOutside DEF Flux
  <2>6. Leads(macros', cmds', to)
    BY <2>2, <2>4
  <2> QED
    BY <2>3, <2>5, <2>6 DEF Ahead
<1>3. ASSUME ~Crash PROVE ~history.overlapped
  <2>1. ASSUME history' = history PROVE ~history.overlapped
    BY <2>1
  <2>2. CASE Callback
    <3>1. Begin => history' = history
      BY DEF Begin
    <3> QED
      BY <2>1, <2>2, <3>1 DEF Callback, AddPressed, Rename, DeletePressed, TogglePressed, MoveUp,
                              MoveDownPressed, Edit
  <2>3. CASE RenameTmp \/ SaveFails \/ Apply \/ \E f \in Outside : WriteOutside(f)
    BY <1>1, <2>3 DEF RenameTmp, SaveFails, Apply, WriteOutside
  <2>4. CASE PushAdded \/ SendDelete \/ RemoveDeleted \/ SendToggle \/ MoveDown \/ BeginSave
    BY <2>1, <2>4 DEF PushAdded, SendDelete, RemoveDeleted, SendToggle, MoveDown, BeginSave,
                      Continue, others
  <2>5. CASE WriteTmp \/ Refresh \/ Notice \/ Load \/ (TakeCommand /\ UNCHANGED <<app, reload, disk, others>>)
             \/ Rest \/ UNCHANGED vars
    BY <2>1, <2>5 DEF WriteTmp, Refresh, Notice, Load, Rest, vars, others
  <2> QED
    BY <1>3, <2>2, <2>3, <2>4, <2>5 DEF Next, UiStep
<1>4. ASSUME ~Crash PROVE IndexExact /\ Ahead
  BY <1>3, <1>4 DEF Follows
<1>5. ASSUME UNCHANGED router, IndexExact PROVE IndexExact'
  BY <1>5 DEF router, IndexExact, Registered
<1>6. ASSUME NEW c, Post(c) PROVE UNCHANGED router
  BY <1>6 DEF Post
<1>7. UNCHANGED evars => UNCHANGED router
  BY DEF evars, router
<1>8. CASE Callback /\ ~Crash
  <2>1. UNCHANGED router
    BY <1>6, <1>7, <1>8 DEF Callback, AddPressed, Rename, DeletePressed, TogglePressed, MoveUp,
                            MoveDownPressed, Edit
  <2> QED
    BY <1>4, <1>5, <1>8, <2>1, CallbackAhead
<1>9. CASE UiStep /\ ~Crash
  <2>1. UNCHANGED router
    <3>1. CASE SendDelete \/ SendToggle
      BY <1>6, <3>1 DEF SendDelete, SendToggle, Continue, TypeInv, InHand, CutPlaces
    <3> QED
      BY <1>7, <1>9, <3>1 DEF UiStep, PushAdded, RemoveDeleted, MoveDown, BeginSave, WriteTmp,
                              RenameTmp, SaveFails, Refresh
  <2> QED
    BY <1>4, <1>5, <1>9, <2>1, UiStepAhead
<1>10. CASE Apply /\ ~Crash
  <2>1. UNCHANGED router
    BY <1>10 DEF Apply
  <2> QED
    BY <1>4, <1>5, <1>10, <2>1, ApplyAhead
<1>11. CASE TakeCommand /\ UNCHANGED <<app, reload, disk, others>> /\ ~Crash
  BY <1>4, <1>11, TakeAhead
<1>12. CASE UNCHANGED <<evars, list, ui, todo>> /\ ~Crash
  <2>1. PICK to \in RouterState : Leads(macros, cmds, to) /\ Agrees(to)
    BY <1>4, <1>12 DEF Ahead
  <2>2. Agrees(to)'
    BY <1>12, <2>1 DEF Agrees
  <2> QED
    BY <1>4, <1>5, <1>7, <1>12, <2>1, <2>2, AheadKept
<1>13. Notice \/ Load \/ (\E f \in Outside : WriteOutside(f)) \/ Rest \/ UNCHANGED vars
       => UNCHANGED <<evars, list, ui, todo>>
  BY DEF Notice, Load, WriteOutside, Rest, vars, app
<1> QED
  BY <1>2, <1>8, <1>9, <1>10, <1>11, <1>12, <1>13 DEF Next

(* The engine runs what the editor shows (EngineFollowsList): the commands *)
(* in the channel, read in their order, add no macro that the router has,  *)
(* keep the index exact, and end with the macros of the list.              *)
THEOREM EngineAlwaysFollows == Spec => []EngineFollowsList
<1>1. Init => Follows
  <2> SUFFICES ASSUME Init PROVE IndexExact /\ Ahead
    BY DEF Follows
  <2>1. IsMacroList(FirstList)
    BY EditorAssumption
  <2>2. /\ macros = [i \in Ids |-> {}] /\ index = NoIndex /\ cmds = Adding(FirstList)
        /\ list = FirstList /\ ui = "idle" /\ todo = {}
    BY DEF Init, Booted, LoadedFrom
  <2>3. IndexExact
    BY <2>2 DEF IndexExact, Registered, NoIndex
  <2>4. PICK to \in RouterState : /\ Leads([i \in Ids |-> {}], Adding(FirstList), to)
                                  /\ \A i \in Ids : to[i] = Listed(FirstList, i)
    BY <2>1, BootAhead
  <2>5. Agrees(to) /\ Leads(macros, cmds, to)
    BY <2>2, <2>4 DEF Agrees, Flux
  <2> QED
    BY <2>3, <2>5 DEF Ahead
<1>2. TypeInv /\ Follows /\ [Next]_vars => Follows'
  BY FollowStep
<1>3. TypeInv /\ Follows => EngineFollowsList
  <2> SUFFICES ASSUME TypeInv, IndexExact, Ahead, Quiet, NEW i \in Ids
               PROVE  macros[i] = Listed(list, i)
    BY DEF Follows, EngineFollowsList, Listed
  <2>1. PICK to \in RouterState : Leads(macros, cmds, to) /\ Agrees(to)
    BY DEF Ahead
  <2>2. cmds = <<>> /\ ui = "idle"
    BY DEF Quiet
  <2>3. macros \in RouterState
    BY DEF TypeInv, TypeOK, EngineTypeOK, RouterState
  <2>4. to = macros
    BY <2>1, <2>2, <2>3, LeadsNowhere
  <2> QED
    BY <2>1, <2>2, <2>4 DEF Agrees, Flux
<1> QED
  BY <1>1, <1>2, <1>3, TypesHold, PTL DEF Spec

=============================================================================
