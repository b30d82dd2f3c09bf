-------------------------------- MODULE Editor --------------------------------
(***************************************************************************)
(* The application around the engine: the UI thread with its callbacks     *)
(* (crates/app/src/callbacks.rs), the list of macros behind a mutex, the   *)
(* file macros.json (crates/store/src/lib.rs) and the thread that reloads  *)
(* it when it changes (crates/app/src/watcher.rs).                         *)
(*                                                                         *)
(* A callback is one action as long as it holds the mutex or touches       *)
(* nothing shared, and is cut where it releases it.  The file is a set     *)
(* with the list it holds, and empty when it cannot be parsed.  Names and  *)
(* descriptions of macros are left out: a rename only saves.               *)
(***************************************************************************)
EXTENDS Engine, SequencesExt

CONSTANTS
  FirstList,       (* what the file holds at first                          *)
  NewBody,         (* the body of create_default_macro                      *)
  Edited,          (* the bodies that edits lead to                         *)
  Outside,         (* what another program may write to the file            *)
  MaxCallbacks, MaxCrashes,
  MaxOutside       (* bounds; the last one is on writes by other programs   *)
                   (* and on repeated notifications, together               *)

\* A list of macros in which no id occurs twice.
IsMacroList(l) == l \in Seq(Macro) /\ \A j, k \in DOMAIN l : l[j].id = l[k].id => j = k

\* What macros.json may be: one list, or something that cannot be parsed.
IsFile(f) == (\A l \in f : IsMacroList(l)) /\ \A k, l \in f : k = l

ASSUME EditorAssumption ==
  /\ IsMacroList(FirstList)
  /\ NewBody \in Bodies /\ Edited \subseteq Bodies
  /\ \A f \in Outside : IsFile(f)
  /\ {MaxCallbacks, MaxCrashes, MaxOutside} \subseteq Nat

VARIABLES
  list,        (* local_macros                                              *)
  rows,        (* macros_model: what the UI shows of each macro             *)
  ui,          (* where the UI thread is                                    *)
  todo,        (* the position and macro of a callback under way, if any    *)
  refresh,     (* reload_ui_model is queued for the UI thread               *)
  suppress,    (* suppress_reload                                           *)
  watcher,     (* where the watcher thread is                               *)
  fresh,       (* new_macros, once loaded                                   *)
  file,        (* macros.json                                               *)
  notes,       (* notifications of the file system, not yet received        *)
  unused,      (* ids that no macro has had                                 *)
  left,        (* what is left of the bounds                                *)
  history      (* saved: the last complete write of the file; the rest is   *)
               (* about this process: overlapped: a reload was applied      *)
               (* inside a delete or a toggle; stale: a reload applied what *)
               (* the file no longer held; failed: the last save failed     *)

app     == <<list, rows, ui, todo, refresh, suppress>>
reload  == <<watcher, fresh>>
disk    == <<file, notes>>
others  == <<unused, left, history>>
vars    == <<evars, app, reload, disk, others>>

\* MacroItem: what the side bar shows of a macro.
Row == [id : Ids, enabled : BOOLEAN]

UiPlace == {"idle", "adding", "deleting", "removing", "toggling", "moving", "unsaved",
            "armed", "written", "dead"}

TypeOK ==
  /\ EngineTypeOK
  /\ IsMacroList(list) /\ rows \in Seq(Row)
  /\ ui \in UiPlace
  /\ todo \in SUBSET [pos : Nat, m : Macro]
  /\ {refresh, suppress} \subseteq BOOLEAN
  /\ watcher \in {"waiting", "loading", "loaded"}
  /\ IsFile(fresh) /\ IsFile(file)
  /\ notes \in Nat
  /\ unused \in SUBSET Ids
  /\ left \in [callbacks : 0..MaxCallbacks, outside : 0..MaxOutside, crashes : 0..MaxCrashes]
  /\ history \in [saved : SUBSET Seq(Macro), overlapped : BOOLEAN, stale : BOOLEAN, failed : BOOLEAN]

IdsOf(l) == {l[k].id : k \in DOMAIN l}
IdsIn(f) == UNION {IdsOf(l) : l \in f}

RowsOf(l) == [k \in DOMAIN l |-> [id |-> l[k].id, enabled |-> l[k].enabled]]

\* What load_macros returns at startup: nothing when the file cannot be parsed.
LoadedFrom(f) == IF f = {} THEN <<>> ELSE CHOOSE l \in f : TRUE

Adding(l) == [k \in DOMAIN l |-> [op |-> "AddMacro", m |-> l[k]]]

\* main: load the file, send what it holds, start the watcher.
Booted(f) == [list |-> LoadedFrom(f), cmds |-> Adding(LoadedFrom(f))]

Clean(saved) == [saved |-> saved, overlapped |-> FALSE, stale |-> FALSE, failed |-> FALSE]

Init ==
  /\ macros = [i \in Ids |-> {}] /\ index = NoIndex
  /\ cmds = Booted({FirstList}).cmds
  /\ events = <<>> /\ inline = {} /\ up = TRUE /\ batch = [i \in Ids |-> 0]
  /\ list = FirstList
  /\ rows = RowsOf(FirstList)
  /\ ui = "idle" /\ todo = {} /\ refresh = FALSE /\ suppress = FALSE
  /\ watcher = "waiting" /\ fresh = {}
  /\ file = {FirstList} /\ notes = 0
  /\ unused = Ids \ IdsOf(FirstList)
  /\ left = [callbacks |-> MaxCallbacks, outside |-> MaxOutside, crashes |-> MaxCrashes]
  /\ history = Clean({FirstList})

-----------------------------------------------------------------------------
(* Callbacks.                                                              *)

Post(c) == cmds' = Append(cmds, c) /\ UNCHANGED <<router, events, inline, up, batch>>

\* The UI thread takes up a callback.
Begin ==
  /\ ui = "idle" /\ left.callbacks > 0
  /\ left' = [left EXCEPT !.callbacks = @ - 1]
  /\ UNCHANGED <<refresh, reload, disk, history>>

\* It goes on with one.
Continue(from) == ui = from /\ UNCHANGED <<refresh, reload, disk, others>>

\* A row the user can click on, whether or not the list still has it.
Clicked(k) == k \in DOMAIN rows

\* Mutant: the id of a new macro may have been given before.
AddPressedReusing ==
  /\ Begin
  /\ \E i \in unused :
       LET m == [id |-> i, enabled |-> TRUE, body |-> NewBody] IN
       /\ Post([op |-> "AddMacro", m |-> m])
       /\ rows' = Append(rows, [id |-> i, enabled |-> TRUE])
       /\ todo' = {[pos |-> 0, m |-> m]}
  /\ ui' = "adding"
  /\ UNCHANGED <<list, suppress, unused>>

\* add-macro: the command goes out before the macro is in the list.
AddPressed ==
  /\ Begin
  /\ \E i \in unused :
       LET m == [id |-> i, enabled |-> TRUE, body |-> NewBody] IN
       /\ Post([op |-> "AddMacro", m |-> m])
       /\ rows' = Append(rows, [id |-> i, enabled |-> TRUE])
       /\ todo' = {[pos |-> 0, m |-> m]}
       /\ unused' = unused \ {i}
  /\ ui' = "adding"
  /\ UNCHANGED <<list, suppress>>

PushAdded ==
  /\ Continue("adding")
  /\ \E t \in todo : list' = Append(list, t.m)
  /\ ui' = "unsaved" /\ todo' = {}
  /\ UNCHANGED <<evars, rows, suppress>>

\* delete-macro: look up the id, send the command, remove the position.
DeletePressed(k) ==
  /\ Begin
  /\ Clicked(k) /\ k \in DOMAIN list
  /\ todo' = {[pos |-> k, m |-> list[k]]}
  /\ ui' = "deleting"
  /\ UNCHANGED <<evars, list, rows, suppress, unused>>

SendDelete ==
  /\ Continue("deleting")
  /\ \E t \in todo :
       /\ Post([op |-> "DeleteMacro", id |-> t.m.id])
       /\ rows' = RemoveAt(rows, t.pos)
  /\ ui' = "removing"
  /\ UNCHANGED <<list, todo, suppress>>

\* Vec::remove panics when the position is gone.
RemoveDeleted ==
  /\ Continue("removing")
  /\ \E t \in todo :
       \/ t.pos \in DOMAIN list /\ list' = RemoveAt(list, t.pos) /\ ui' = "unsaved"
       \/ t.pos \notin DOMAIN list /\ ui' = "dead" /\ UNCHANGED list
  /\ todo' = {}
  /\ UNCHANGED <<evars, rows, suppress>>

\* toggle-enabled, from the check box of the row: the list changes under the mutex,
\* the command and the row follow.
TogglePressed(k) ==
  /\ Begin
  /\ Clicked(k) /\ k \in DOMAIN list
  /\ list' = [list EXCEPT ![k].enabled = ~rows[k].enabled]
  /\ todo' = {[pos |-> k, m |-> list'[k]]}
  /\ ui' = "toggling"
  /\ UNCHANGED <<evars, rows, suppress, unused>>

SendToggle ==
  /\ Continue("toggling")
  /\ \E t \in todo :
       /\ Post([op |-> "SetEnabled", id |-> t.m.id, enabled |-> t.m.enabled])
       /\ rows' = [rows EXCEPT ![t.pos].enabled = t.m.enabled]
  /\ ui' = "unsaved" /\ todo' = {}
  /\ UNCHANGED <<list, suppress>>

Swapped(s, j, k) == [s EXCEPT ![j] = s[k], ![k] = s[j]]

\* swap and unwrap panic when a position is gone.
SwapRows(j, k) ==
  LET listed == {j, k} \subseteq DOMAIN list
      shown  == {j, k} \subseteq DOMAIN rows
  IN
  /\ list' = IF listed THEN Swapped(list, j, k) ELSE list
  /\ rows' = IF listed /\ shown THEN Swapped(rows, j, k) ELSE rows
  /\ ui'   = IF listed /\ shown THEN "unsaved" ELSE "dead"

\* move-macro-up; no command is sent.
MoveUp(k) ==
  /\ Begin
  /\ Clicked(k) /\ k > 1
  /\ SwapRows(k - 1, k)
  /\ UNCHANGED <<evars, todo, suppress, unused>>

\* move-macro-down: the length is checked under a lock of its own.
MoveDownPressed(k) ==
  /\ Begin
  /\ Clicked(k) /\ k + 1 \in DOMAIN list
  /\ todo' = {[pos |-> k, m |-> list[k]]}
  /\ ui' = "moving"
  /\ UNCHANGED <<evars, list, rows, suppress, unused>>

MoveDown ==
  /\ Continue("moving")
  /\ \E t \in todo : SwapRows(t.pos, t.pos + 1)
  /\ todo' = {}
  /\ UNCHANGED <<evars, suppress>>

\* Constraint, workflow, trigger and permission callbacks: the mutex is held from
\* the edit of the selected macro, over its UpdateMacro, to the end of the save.
Edit(k, b) ==
  /\ Begin
  /\ Clicked(k) /\ k \in DOMAIN list
  /\ list' = [list EXCEPT ![k].body = b]
  /\ Post([op |-> "UpdateMacro", m |-> list'[k]])
  /\ suppress' = TRUE
  /\ ui' = "armed"
  /\ UNCHANGED <<rows, todo, unused>>

\* rename-macro, and an edit whose position is gone: only the save.
Rename ==
  /\ Begin
  /\ suppress' = TRUE
  /\ ui' = "armed"
  /\ UNCHANGED <<evars, list, rows, todo, unused>>

-----------------------------------------------------------------------------
(* persist and save_macros, with the mutex held.                           *)

BeginSave ==
  /\ Continue("unsaved")
  /\ suppress' = TRUE
  /\ ui' = "armed"
  /\ UNCHANGED <<evars, list, rows, todo>>

\* Mutant: the file is written in place.
WriteInPlace ==
  /\ ui = "armed" /\ ui' = "written"
  /\ file' = {}
  /\ UNCHANGED <<evars, list, rows, todo, refresh, suppress, reload, notes, others>>

\* The side file is written; nothing but the rename reads it.
WriteTmp ==
  /\ ui = "armed" /\ ui' = "written"
  /\ UNCHANGED <<evars, list, rows, todo, refresh, suppress, reload, disk, others>>

\* The rename may be notified more than once.
RenameTmp ==
  /\ ui = "written" /\ ui' = "idle"
  /\ file' = {list}
  /\ \/ notes' = notes + 1 /\ UNCHANGED left
     \/ /\ left.outside > 0
        /\ left' = [left EXCEPT !.outside = @ - 1]
        /\ notes' = notes + 2
  /\ history' = [history EXCEPT !.saved = {list}, !.failed = FALSE]
  /\ UNCHANGED <<evars, list, rows, todo, refresh, suppress, reload, unused>>

\* The write or the rename fails: the flag is taken back, the edit stays in memory.
SaveFails ==
  /\ ui \in {"armed", "written"} /\ ui' = "idle"
  /\ suppress' = FALSE
  /\ history' = [history EXCEPT !.failed = TRUE]
  /\ UNCHANGED <<evars, list, rows, todo, refresh, reload, disk, unused, left>>

-----------------------------------------------------------------------------
(* The watcher thread.                                                     *)

\* Mutant: the flag is read and stays.
NoticeKeepsFlag ==
  /\ watcher = "waiting" /\ notes > 0
  /\ notes' = notes - 1
  /\ watcher' = IF suppress THEN "waiting" ELSE "loading"
  /\ UNCHANGED <<evars, list, rows, ui, todo, refresh, suppress, fresh, file, others>>

\* A notification about macros.json: the flag swallows it, once.
Notice ==
  /\ watcher = "waiting" /\ notes > 0
  /\ notes' = notes - 1
  /\ suppress' = FALSE
  /\ watcher' = IF suppress THEN "waiting" ELSE "loading"
  /\ UNCHANGED <<evars, list, rows, ui, todo, refresh, fresh, file, others>>

\* The file is read before the mutex is taken; an error keeps the current macros.
Load ==
  /\ watcher = "loading"
  /\ fresh' = file
  /\ watcher' = IF file = {} THEN "waiting" ELSE "loaded"
  /\ UNCHANGED <<evars, app, disk, others>>

\* Mutant: macros that left the file are not deleted.
ReloadCommandsKeep(new) ==
  [k \in DOMAIN new |->
     [op |-> IF new[k].id \in IdsOf(list) THEN "UpdateMacro" ELSE "AddMacro",
      m  |-> new[k]]]

\* Mutant: everything in the file is added.
ReloadCommandsAdd(new) ==
  LET gone == IdsOf(list) \ IdsOf(new)
  IN  Adding(new) \o SetToSeq({[op |-> "DeleteMacro", id |-> i] : i \in gone})

\* Update what the list has, add what it has not, delete what the file has not.
ReloadCommands(new) ==
  LET gone == IdsOf(list) \ IdsOf(new)
      kept == [k \in DOMAIN new |->
                 [op |-> IF new[k].id \in IdsOf(list) THEN "UpdateMacro" ELSE "AddMacro",
                  m  |-> new[k]]]
  IN  kept \o SetToSeq({[op |-> "DeleteMacro", id |-> i] : i \in gone})

\* Under the mutex, which a save holds: bring the engine and the list up to the file.
Apply ==
  /\ watcher = "loaded" /\ ui \notin {"armed", "written", "dead"}
  /\ \E new \in fresh :
       /\ list' = new
       /\ cmds' = cmds \o ReloadCommands(new)
  /\ refresh' = TRUE
  /\ watcher' = "waiting" /\ fresh' = {}
  /\ history' = [history EXCEPT !.overlapped = @ \/ ui \in {"deleting", "removing", "toggling"},
                                !.stale = @ \/ fresh # file]
  /\ UNCHANGED <<router, events, inline, up, batch, rows, ui, todo, suppress, disk, unused, left>>

\* Mutant: the rows of removed macros stay.
RowsKept == RowsOf(list) \o SubSeq(rows, Len(list) + 1, Len(rows))

RowsReloaded == RowsOf(list)

\* reload_ui_model, when the UI thread is free.
Refresh ==
  /\ ui = "idle" /\ refresh
  /\ rows' = RowsReloaded
  /\ refresh' = FALSE
  /\ UNCHANGED <<evars, list, ui, todo, suppress, reload, disk, others>>

-----------------------------------------------------------------------------
(* The world.                                                              *)

\* Another program writes the file; it cannot know the id of a macro that is being added.
WriteOutside(f) ==
  /\ left.outside > 0
  /\ ui = "adding" => \A t \in todo : t.m.id \notin IdsIn(f)
  /\ left' = [left EXCEPT !.outside = @ - 1]
  /\ file' = f
  /\ notes' = notes + 1
  /\ unused' = unused \ IdsIn(f)
  /\ history' = [history EXCEPT !.saved = f]
  /\ UNCHANGED <<evars, app, reload>>

\* The process dies, at any moment, and is started again.
Crash ==
  /\ left.crashes > 0
  /\ left' = [left EXCEPT !.crashes = @ - 1]
  /\ macros' = [i \in Ids |-> {}] /\ index' = NoIndex
  /\ cmds' = Booted(file).cmds
  /\ events' = <<>> /\ inline' = {} /\ up' = TRUE /\ batch' = [i \in Ids |-> 0]
  /\ list' = Booted(file).list /\ rows' = RowsOf(Booted(file).list)
  /\ ui' = "idle" /\ todo' = {} /\ refresh' = FALSE /\ suppress' = FALSE
  /\ watcher' = "waiting" /\ fresh' = {} /\ notes' = 0
  /\ history' = Clean(history.saved)
  /\ UNCHANGED <<file, unused>>

\* Nothing is under way, or the UI thread has panicked and the process is gone.
Quiet ==
  /\ ui = "idle" /\ ~refresh
  /\ watcher = "waiting" /\ notes = 0
  /\ cmds = <<>>

Rest == (Quiet \/ ui = "dead") /\ UNCHANGED vars

-----------------------------------------------------------------------------
Callback ==
  \/ AddPressed \/ Rename
  \/ \E k \in DOMAIN rows :
       \/ DeletePressed(k)
       \/ TogglePressed(k)
       \/ MoveUp(k)
       \/ MoveDownPressed(k)
       \/ \E b \in Edited : Edit(k, b)

UiStep ==
  \/ PushAdded
  \/ SendDelete \/ RemoveDeleted
  \/ SendToggle
  \/ MoveDown
  \/ BeginSave \/ WriteTmp \/ RenameTmp \/ SaveFails
  \/ Refresh

Next ==
  \/ Callback \/ UiStep
  \/ Notice \/ Load \/ Apply
  \/ ui # "dead" /\ TakeCommand /\ UNCHANGED <<app, reload, disk, others>>
  \/ \E f \in Outside : WriteOutside(f)
  \/ Crash
  \/ Rest

Spec == Init /\ [][Next]_vars

-----------------------------------------------------------------------------
(* Properties.                                                             *)

(* The engine runs what the editor shows: the order of the commands never *)
(* makes the router add a macro that it has, nor keep entries of one that  *)
(* it has not, and once they are read it has exactly the macros of the     *)
(* list - unless a reload was applied in the middle of a delete or a       *)
(* toggle, which let go of the mutex.                                      *)
EngineFollowsList ==
  ~history.overlapped =>
    /\ IndexExact
    /\ Quiet =>
         \A i \in Ids : macros[i] = {list[k] : k \in {j \in DOMAIN list : list[j].id = i}}

(* "UI and disk are always consistent": at rest the file holds the list,   *)
(* unless its save failed, the file cannot be parsed, or a reload put back *)
(* into the list what the file no longer held.                             *)
DiskFollowsList ==
  (Quiet /\ ~history.failed /\ ~history.stale /\ file # {}) => file = {list}

(* The same without that last exception.  The code does not keep this.     *)
UiAndDiskConsistent ==
  (Quiet /\ ~history.failed /\ file # {}) => file = {list}

(* A crash at any moment leaves the last complete write of the file.       *)
FileIsWhole == file = history.saved

(* What is shown is what is edited: an idle UI shows the rows of the list, *)
(* unless a refresh after a reload is still queued for it.                 *)
RowsFollowList == (ui = "idle" /\ ~refresh) => rows = RowsOf(list)

(* Only a reload that the UI has not been told of can make a callback act  *)
(* on a position that is gone.                                             *)
PanicsOnlyOnStaleRows == ui = "dead" => refresh

=============================================================================
