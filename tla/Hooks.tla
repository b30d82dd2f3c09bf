-------------------------------- MODULE Hooks ---------------------------------
(***************************************************************************)
(* The hook providers of crates/hooks/src/platform_windows.rs, and the     *)
(* thread of crates/app/src/main.rs that starts and stops them.            *)
(*                                                                         *)
(* A message pump (HotkeyProvider, WindowFocusProvider: the same code but  *)
(* for the hook) is a thread that publishes its id, installs its hook and  *)
(* waits for messages; stop() reads the id, posts WM_QUIT and joins.  The  *)
(* ProcessProvider polls: it compares a snapshot of the processes with the *)
(* previous one and reports what differs; stop() clears a flag and joins.  *)
(*                                                                         *)
(* The sink accepts every event, so sending is a step that nothing blocks; *)
(* what a hotkey or a window reports is left out, what a poll reports is   *)
(* kept as the consumer's account of every process.                        *)
(***************************************************************************)
EXTENDS Integers, FiniteSets

CONSTANTS
  Pumps,      (* the providers that pump messages                          *)
  Poller,     (* the process provider                                      *)
  Pids,
  MaxStarts,  (* bound: how often start() succeeds, for each provider      *)
  MaxChurn,   (* bound: how often a process begins or ends                 *)
  MaxBlind    (* bound: how often a snapshot fails or ends early           *)

ASSUME HooksAssumption ==
  /\ Poller \notin Pumps
  /\ MaxStarts \in Nat /\ MaxChurn \in Nat /\ MaxBlind \in Nat

Providers == Pumps \union {Poller}

VARIABLES
  held,     (* the providers whose `thread` is Some                        *)
  place,    (* where the thread of a provider is                           *)
  named,    (* the pumps whose thread_id is not 0                          *)
  quit,     (* the pumps with WM_QUIT in their message queue               *)
  running,  (* the flag of the ProcessProvider                             *)
  caller,   (* the thread that stops a provider: what it does, to whom, and
               whether it read an id                                       *)
  engine,   (* "up", "down" after the stops, "left" without them           *)
  world,    (* the processes that run                                      *)
  prev, curr, todo,   (* the poll: last and new snapshot, what is left to send *)
  told,     (* history: what the poller reported since its last start: its
               first snapshot, and starts less stops                       *)
  starts, churn, blind   (* counters of the bounds                         *)

thread == <<place, named, quit>>
poll   == <<prev, curr, todo, told, blind>>
os     == <<world, churn>>
hvars  == <<held, place, named, quit, running, caller, engine, world, prev, curr,
            todo, told, starts, churn, blind>>

PumpPlaces   == {"spawned", "named", "pumping", "leaving", "ended"}
PollerPlaces == {"spawned", "checking", "sleeping", "starting", "stopping", "ended"}

Caller == [at : {"free"}] \union [at : {"posting", "joining"}, who : Providers, id : BOOLEAN]
Free   == [at |-> "free"]

\* The providers as main creates them.
Init ==
  /\ held = {} /\ named = {} /\ quit = {}
  /\ place = [p \in Providers |-> "none"]
  /\ running = FALSE
  /\ caller = Free
  /\ engine = "up"
  /\ world \in SUBSET Pids
  /\ prev = {} /\ curr = {} /\ todo = {}
  /\ told = [i \in Pids |-> 0]
  /\ starts = [p \in Providers |-> 0] /\ churn = 0 /\ blind = 0

Go(p, from, to) == place[p] = from /\ place' = [place EXCEPT ![p] = to]

-----------------------------------------------------------------------------
(* The caller: `&mut self` makes it one at a time.                         *)

\* start() of a pump, which returns before the thread has run at all.
StartPump(p) ==
  /\ caller = Free /\ engine = "up" /\ p \notin held /\ starts[p] < MaxStarts
  /\ held' = held \union {p}
  /\ place' = [place EXCEPT ![p] = "spawned"]
  /\ starts' = [starts EXCEPT ![p] = @ + 1]
  /\ UNCHANGED <<named, quit, running, caller, engine, poll, os>>

\* start() of the poller sets the flag first: if no thread can be made the provider
\* counts as running, and without a thread, until it is stopped.
StartPoller ==
  /\ caller = Free /\ engine = "up" /\ ~running /\ starts[Poller] < MaxStarts
  /\ running' = TRUE
  /\ starts' = [starts EXCEPT ![Poller] = @ + 1]
  /\ \/ held' = held \union {Poller} /\ place' = [place EXCEPT ![Poller] = "spawned"]
     \/ UNCHANGED <<held, place>>
  /\ UNCHANGED <<named, quit, caller, engine, poll, os>>

\* stop() of a pump: the id is read before anything else.
StopReadsId(p) ==
  /\ caller = Free /\ engine = "up" /\ p \in held
  /\ caller' = [at |-> "posting", who |-> p, id |-> p \in named]
  /\ UNCHANGED <<held, thread, running, engine, poll, os, starts>>

\* PostThreadMessageW: a thread that has not called into the message functions yet may
\* have no queue, and one that has left its loop never looks at it.
StopPosts(p) ==
  /\ caller.at = "posting" /\ caller.who = p
  /\ \/ caller.id /\ place[p] \in {"named", "pumping"} /\ quit' = quit \union {p}
     \/ ~(caller.id /\ place[p] = "pumping") /\ UNCHANGED quit
  /\ caller' = [caller EXCEPT !.at = "joining"]
  /\ UNCHANGED <<held, place, named, running, engine, poll, os, starts>>

\* stop() of the poller; without a thread there is nothing to join.
StopPoller ==
  /\ caller = Free /\ engine = "up" /\ running
  /\ running' = FALSE
  /\ caller' = IF Poller \in held THEN [at |-> "joining", who |-> Poller, id |-> FALSE] ELSE Free
  /\ UNCHANGED <<held, thread, engine, poll, os, starts>>

\* Mutant: the handle is dropped, not joined.
StopDetaches(p) ==
  /\ caller.at = "joining" /\ caller.who = p
  /\ held' = held \ {p}
  /\ caller' = Free
  /\ UNCHANGED <<thread, running, engine, poll, os, starts>>

\* take() and join(): the caller waits for the end of the thread.
StopJoins(p) ==
  /\ caller.at = "joining" /\ caller.who = p
  /\ Go(p, "ended", "none")
  /\ held' = held \ {p}
  /\ caller' = Free
  /\ UNCHANGED <<named, quit, running, engine, poll, os, starts>>

\* The end of main: the engine goes when every provider was stopped.
DropEngine ==
  /\ caller = Free /\ engine = "up" /\ held = {}
  /\ engine' = "down"
  /\ UNCHANGED <<held, thread, running, caller, poll, os, starts>>

\* `ui.run()?`: when the window fails main returns without the stops; the providers are
\* dropped with their handles, and their threads go on until the process has ended.
UiFails ==
  /\ caller = Free /\ engine = "up"
  /\ engine' = "left"
  /\ UNCHANGED <<held, thread, running, caller, poll, os, starts>>

-----------------------------------------------------------------------------
(* The thread of a message pump.                                           *)

OtherThanPump == <<held, running, caller, engine, poll, os, starts>>

StoresId(p) ==
  /\ Go(p, "spawned", "named")
  /\ named' = named \union {p}
  /\ UNCHANGED quit /\ UNCHANGED OtherThanPump

InstallsHook(p) ==
  /\ Go(p, "named", "pumping")
  /\ UNCHANGED <<named, quit>> /\ UNCHANGED OtherThanPump

\* The hook cannot be installed: the thread ends, and start() has long said Ok.
InstallFails(p) ==
  /\ Go(p, "named", "ended")
  /\ named' = named \ {p}
  /\ quit' = quit \ {p}
  /\ UNCHANGED OtherThanPump

\* Mutant: WM_QUIT does not end the loop.
GetsNothing(p) ==
  /\ Go(p, "pumping", "pumping") /\ p \in quit
  /\ UNCHANGED <<named, quit>> /\ UNCHANGED OtherThanPump

\* GetMessageW returns 0.
GetsQuit(p) ==
  /\ Go(p, "pumping", "leaving") /\ p \in quit
  /\ UNCHANGED <<named, quit>> /\ UNCHANGED OtherThanPump

\* GetMessageW returns -1.
GetFails(p) ==
  /\ Go(p, "pumping", "leaving") /\ p \notin quit
  /\ UNCHANGED <<named, quit>> /\ UNCHANGED OtherThanPump

\* Mutant: the id of the thread stays behind.
UnhooksOnly(p) ==
  /\ Go(p, "leaving", "ended")
  /\ quit' = quit \ {p}
  /\ UNCHANGED named /\ UNCHANGED OtherThanPump

Unhooks(p) ==
  /\ Go(p, "leaving", "ended")
  /\ named' = named \ {p}
  /\ quit' = quit \ {p}
  /\ UNCHANGED OtherThanPump

PumpSteps(p) ==
  \/ StoresId(p)
  \/ InstallsHook(p)
  \/ InstallFails(p)
  \/ GetsQuit(p)
  \/ Unhooks(p)

-----------------------------------------------------------------------------
(* The thread of the process provider.                                     *)

OtherThanPoll == <<held, named, quit, running, caller, engine, os, starts>>

\* snapshot_processes: the processes that run, or when it fails none, or when it ends
\* early some of them.
Snapshot(s) ==
  \/ s = world /\ UNCHANGED blind
  \/ s \in SUBSET world \ {world} /\ blind < MaxBlind /\ blind' = blind + 1

FirstSnapshot ==
  /\ Go(Poller, "spawned", "checking")
  /\ \E s \in SUBSET world :
       /\ Snapshot(s)
       /\ prev' = s
       /\ told' = [i \in Pids |-> IF i \in s THEN 1 ELSE 0]
  /\ UNCHANGED <<curr, todo>> /\ UNCHANGED OtherThanPoll

\* The condition of the loop.
ChecksFlag ==
  /\ Go(Poller, "checking", IF running THEN "sleeping" ELSE "ended")
  /\ UNCHANGED poll /\ UNCHANGED OtherThanPoll

\* Mutant: the flag is only looked at while it is set.
WakesRunning ==
  /\ running
  /\ Go(Poller, "sleeping", "starting")
  /\ \E s \in SUBSET world : Snapshot(s) /\ curr' = s /\ todo' = s \ prev
  /\ UNCHANGED <<prev, told>> /\ UNCHANGED OtherThanPoll

\* After the sleep the flag is read again, and then the processes.
Wakes ==
  /\ IF ~running
       THEN Go(Poller, "sleeping", "ended") /\ UNCHANGED <<curr, todo, blind>>
       ELSE /\ Go(Poller, "sleeping", "starting")
            /\ \E s \in SUBSET world : Snapshot(s) /\ curr' = s /\ todo' = s \ prev
  /\ UNCHANGED <<prev, told>> /\ UNCHANGED OtherThanPoll

SendsStarted ==
  /\ place[Poller] = "starting"
  /\ \E i \in todo :
       /\ told' = [told EXCEPT ![i] = @ + 1]
       /\ todo' = todo \ {i}
  /\ UNCHANGED <<place, prev, curr, blind>> /\ UNCHANGED OtherThanPoll

AllStartedSent ==
  /\ todo = {}
  /\ Go(Poller, "starting", "stopping")
  /\ todo' = prev \ curr
  /\ UNCHANGED <<prev, curr, told, blind>> /\ UNCHANGED OtherThanPoll

SendsStopped ==
  /\ place[Poller] = "stopping"
  /\ \E i \in todo :
       /\ told' = [told EXCEPT ![i] = @ - 1]
       /\ todo' = todo \ {i}
  /\ UNCHANGED <<place, prev, curr, blind>> /\ UNCHANGED OtherThanPoll

\* Mutant: the next poll compares with a snapshot of its own, taken after the sends.
SnapsAgain ==
  /\ todo = {}
  /\ Go(Poller, "stopping", "checking")
  /\ prev' = world
  /\ UNCHANGED <<curr, todo, told, blind>> /\ UNCHANGED OtherThanPoll

\* Mutant: the first snapshot stays the one that is compared with.
KeepsPrev ==
  /\ todo = {}
  /\ Go(Poller, "stopping", "checking")
  /\ UNCHANGED <<prev, curr, todo, told, blind>> /\ UNCHANGED OtherThanPoll

AllStoppedSent ==
  /\ todo = {}
  /\ Go(Poller, "stopping", "checking")
  /\ prev' = curr
  /\ UNCHANGED <<curr, todo, told, blind>> /\ UNCHANGED OtherThanPoll

PollSteps ==
  \/ FirstSnapshot
  \/ ChecksFlag
  \/ Wakes
  \/ SendsStarted
  \/ AllStartedSent
  \/ SendsStopped
  \/ AllStoppedSent

-----------------------------------------------------------------------------
(* The operating system.                                                   *)

ProcessBegins(i) ==
  /\ churn < MaxChurn /\ i \notin world
  /\ world' = world \union {i}
  /\ churn' = churn + 1
  /\ UNCHANGED <<held, thread, running, caller, engine, poll, starts>>

ProcessEnds(i) ==
  /\ churn < MaxChurn /\ i \in world
  /\ world' = world \ {i}
  /\ churn' = churn + 1
  /\ UNCHANGED <<held, thread, running, caller, engine, poll, starts>>

-----------------------------------------------------------------------------

Next ==
  \/ \E p \in Pumps : StartPump(p) \/ StopReadsId(p) \/ StopPosts(p) \/ GetFails(p) \/ PumpSteps(p)
  \/ \E p \in Providers : StopJoins(p)
  \/ StartPoller
  \/ StopPoller
  \/ DropEngine
  \/ UiFails
  \/ PollSteps
  \/ \E i \in Pids : ProcessBegins(i) \/ ProcessEnds(i)

Spec == Init /\ [][Next]_hvars

\* Threads that can go on do, and a thread in stop() does; nobody must start or stop a
\* provider, no process must begin or end, and GetMessageW need not fail.
FairSpec ==
  /\ Spec
  /\ \A p \in Pumps : WF_hvars(PumpSteps(p)) /\ WF_hvars(StopPosts(p))
  /\ \A p \in Providers : WF_hvars(StopJoins(p))
  /\ WF_hvars(PollSteps)

-----------------------------------------------------------------------------
(* Properties.                                                             *)

(* Types, and where each thread can be.                                    *)
TypeOK ==
  /\ held \subseteq Providers
  /\ place \in [Providers -> {"none"} \union PumpPlaces \union PollerPlaces]
  /\ \A p \in Pumps : place[p] \in {"none"} \union PumpPlaces
  /\ place[Poller] \in {"none"} \union PollerPlaces
  /\ named \subseteq Pumps /\ quit \subseteq Pumps
  /\ running \in BOOLEAN /\ engine \in {"up", "down", "left"}
  /\ caller \in Caller
  /\ caller.at = "posting" => caller.who \in Pumps
  /\ {world, prev, curr, todo} \subseteq SUBSET Pids
  /\ told \in [Pids -> Int]
  /\ starts \in [Providers -> 0..MaxStarts]
  /\ churn \in 0..MaxChurn /\ blind \in 0..MaxBlind

(* "Signals the provider to stop and releases any OS resources it holds"   *)
(* (traits.rs), and "stop hooks, then drop the engine, so that no event is *)
(* queued any more" (docs/app/main.md): when stop() has returned there is  *)
(* no thread that could still send, no hook, and neither a thread id nor a *)
(* WM_QUIT that would hit the thread of the next start(); so the engine    *)
(* goes when nobody can send to it.  Only when the window fails main       *)
(* leaves without the stops.                                               *)
NothingOutlivesStop ==
  /\ \A p \in Providers \ held : place[p] = "none" /\ p \notin named \union quit
  /\ \A p \in held : place[p] # "none"
  /\ engine = "down" => held = {}

(* A pump answers to the id it shows: an id is there from the moment the   *)
(* thread has one until its hook is gone, so that a hook in place can be   *)
(* told to go.                                                             *)
HooksHaveAnId ==
  \A p \in Pumps : p \in named <=> place[p] \in {"named", "pumping", "leaving"}

(* What the polls report within one start adds up: for every process       *)
(* starts and stops alternate, and between two polls the consumer knows    *)
(* the last snapshot, whichever processes came and went and whatever       *)
(* snapshots failed.  A new start takes its first snapshot as known and    *)
(* reports nothing of it, so across a stop the reports need not alternate. *)
ReportsAddUp ==
  /\ \A i \in Pids : told[i] \in {0, 1}
  /\ place[Poller] \in {"checking", "sleeping"} => {i \in Pids : told[i] = 1} = prev

(* No change is lost for good: when a process begins and stays, or ends    *)
(* and stays away, a provider that is not stopped reports it, also one     *)
(* that changed while the poller was sending, unless main leaves.          *)
ChangesAreReported ==
  \A i \in Pids :
    /\ (place[Poller] = "sleeping" /\ i \in world)
         ~> (told[i] = 1 \/ i \notin world \/ ~running \/ engine = "left")
    /\ (place[Poller] = "sleeping" /\ i \notin world)
         ~> (told[i] = 0 \/ i \in world \/ ~running \/ engine = "left")

(* stop() returns: always for the poller, and for a pump that is pumping   *)
(* and whose id was read.                                                  *)
StopReturnsOncePumping ==
  /\ (caller.at = "joining" /\ caller.who = Poller) ~> (caller = Free)
  /\ \A p \in Pumps :
       (caller.at = "posting" /\ caller.who = p /\ caller.id /\ place[p] = "pumping")
         ~> (caller = Free)

=============================================================================
