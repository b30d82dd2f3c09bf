----------------------------- MODULE HooksProofs ------------------------------
(***************************************************************************)
(* What TLAPS proves of the hook providers, for any number of pumps and    *)
(* processes and for every bound: types, that nothing outlives stop(), and *)
(* that the reports of the polls add up.                                   *)
(***************************************************************************)
EXTENDS Hooks, TLAPS

\* A WM_QUIT waits only in the queue of a thread that has one.
QuitHasAQueue == \A p \in quit : place[p] \in {"named", "pumping", "leaving"}

\* stop() is at work on a provider that holds a thread, before the engine goes.
CallerIsAtWork == caller.at # "free" => caller.who \in held

\* A poller with a thread is running, but for the one that is being joined.
PollerRuns == Poller \in held /\ ~running => caller.at = "joining" /\ caller.who = Poller

\* What has been told at every point of a poll.
ToldSoFar ==
  /\ \A i \in Pids : told[i] \in {0, 1}
  /\ place[Poller] \in {"checking", "sleeping"} =>
       \A i \in Pids : told[i] = IF i \in prev THEN 1 ELSE 0
  /\ place[Poller] = "starting" =>
       /\ todo \subseteq curr \ prev
       /\ \A i \in Pids : told[i] = IF i \in prev \union (curr \ todo) THEN 1 ELSE 0
  /\ place[Poller] = "stopping" =>
       /\ todo \subseteq prev \ curr
       /\ \A i \in Pids : told[i] = IF i \in curr \union todo THEN 1 ELSE 0

ThreadInv ==
  /\ TypeOK
  /\ NothingOutlivesStop
  /\ HooksHaveAnId
  /\ QuitHasAQueue
  /\ CallerIsAtWork
  /\ PollerRuns

-----------------------------------------------------------------------------
(* The threads and their handles.                                          *)

LEMMA InitThread == Init => ThreadInv
<1> SUFFICES ASSUME Init PROVE ThreadInv
  OBVIOUS
<1> USE HooksAssumption DEF Init, Providers
<1>1. TypeOK
  <2>1. place \in [Providers -> {"none"} \union PumpPlaces \union PollerPlaces] OBVIOUS
  <2>2. \A p \in Providers : place[p] = "none" OBVIOUS
  <2>3. starts \in [Providers -> 0..MaxStarts] OBVIOUS
  <2>4. told \in [Pids -> Int] OBVIOUS
  <2>5. caller \in Caller /\ caller.at = "free" BY DEF Caller, Free
  <2>6. churn \in 0..MaxChurn /\ blind \in 0..MaxBlind OBVIOUS
  <2>7. QED BY <2>1, <2>2, <2>3, <2>4, <2>5, <2>6 DEF TypeOK
<1>2. NothingOutlivesStop BY DEF NothingOutlivesStop
<1>3. HooksHaveAnId BY DEF HooksHaveAnId
<1>4. QuitHasAQueue BY DEF QuitHasAQueue
<1>5. CallerIsAtWork BY DEF CallerIsAtWork, Free
<1>6. PollerRuns BY DEF PollerRuns
<1>7. QED BY <1>1, <1>2, <1>3, <1>4, <1>5, <1>6 DEF ThreadInv

\* The operations of the thread that starts and stops.
LEMMA CallerKeepsThread ==
  ASSUME ThreadInv,
         \/ \E p \in Pumps : StartPump(p) \/ StopReadsId(p) \/ StopPosts(p)
         \/ \E p \in Providers : StopJoins(p)
         \/ StartPoller \/ StopPoller \/ DropEngine \/ UiFails
  PROVE  ThreadInv'
<1> USE HooksAssumption
    DEF ThreadInv, TypeOK, NothingOutlivesStop, HooksHaveAnId, QuitHasAQueue, CallerIsAtWork,
        PollerRuns, Providers, PumpPlaces, PollerPlaces, Caller, Free, thread, poll, os
<1>1. ASSUME NEW p \in Pumps, StartPump(p) PROVE ThreadInv'
  BY <1>1 DEF StartPump
<1>2. ASSUME NEW p \in Pumps, StopReadsId(p) PROVE ThreadInv'
  BY <1>2 DEF StopReadsId
<1>3. ASSUME NEW p \in Pumps, StopPosts(p) PROVE ThreadInv'
  BY <1>3 DEF StopPosts
<1>4. ASSUME NEW p \in Providers, StopJoins(p) PROVE ThreadInv'
  BY <1>4 DEF StopJoins, Go
<1>5. CASE StartPoller
  BY <1>5 DEF StartPoller
<1>6. CASE StopPoller
  BY <1>6 DEF StopPoller
<1>7. CASE DropEngine
  BY <1>7 DEF DropEngine
<1>8. CASE UiFails
  BY <1>8 DEF UiFails
<1>9. QED
  BY <1>1, <1>2, <1>3, <1>4, <1>5, <1>6, <1>7, <1>8

\* The threads of the pumps.
LEMMA PumpsKeepThread ==
  ASSUME ThreadInv, NEW p \in Pumps, GetFails(p) \/ PumpSteps(p)
  PROVE  ThreadInv'
<1> USE HooksAssumption
    DEF ThreadInv, TypeOK, NothingOutlivesStop, HooksHaveAnId, QuitHasAQueue, CallerIsAtWork,
        PollerRuns, Providers, PumpPlaces, PollerPlaces, Caller, poll, os, OtherThanPump, Go
<1>1. CASE GetFails(p) BY <1>1 DEF GetFails
<1>2. CASE StoresId(p) BY <1>2 DEF StoresId
<1>3. CASE InstallsHook(p) BY <1>3 DEF InstallsHook
<1>4. CASE InstallFails(p) BY <1>4 DEF InstallFails
<1>5. CASE GetsQuit(p) BY <1>5 DEF GetsQuit
<1>6. CASE Unhooks(p) BY <1>6 DEF Unhooks
<1>7. QED BY <1>1, <1>2, <1>3, <1>4, <1>5, <1>6 DEF PumpSteps

\* The thread of the poller and the operating system.
LEMMA PollKeepsThread ==
  ASSUME ThreadInv, PollSteps \/ \E i \in Pids : ProcessBegins(i) \/ ProcessEnds(i)
  PROVE  ThreadInv'
<1> USE HooksAssumption
    DEF ThreadInv, TypeOK, NothingOutlivesStop, HooksHaveAnId, QuitHasAQueue, CallerIsAtWork,
        PollerRuns, Providers, PumpPlaces, PollerPlaces, Caller, thread, os, OtherThanPoll, Go
<1>1. CASE FirstSnapshot BY <1>1 DEF FirstSnapshot, Snapshot
<1>2. CASE ChecksFlag BY <1>2 DEF ChecksFlag, poll
<1>3. CASE Wakes BY <1>3 DEF Wakes, Snapshot
<1>4. CASE SendsStarted BY <1>4 DEF SendsStarted
<1>5. CASE AllStartedSent BY <1>5 DEF AllStartedSent
<1>6. CASE SendsStopped BY <1>6 DEF SendsStopped
<1>7. CASE AllStoppedSent BY <1>7 DEF AllStoppedSent
<1>8. ASSUME NEW i \in Pids, ProcessBegins(i) PROVE ThreadInv'
  BY <1>8 DEF ProcessBegins, poll
<1>9. ASSUME NEW i \in Pids, ProcessEnds(i) PROVE ThreadInv'
  BY <1>9 DEF ProcessEnds, poll
<1>10. QED
  BY <1>1, <1>2, <1>3, <1>4, <1>5, <1>6, <1>7, <1>8, <1>9 DEF PollSteps

LEMMA ThreadStep == ThreadInv /\ [Next]_hvars => ThreadInv'
<1> SUFFICES ASSUME ThreadInv, [Next]_hvars PROVE ThreadInv'
  OBVIOUS
<1>1. CASE UNCHANGED hvars
  BY <1>1 DEF hvars, ThreadInv, TypeOK, NothingOutlivesStop, HooksHaveAnId, QuitHasAQueue,
              CallerIsAtWork, PollerRuns
<1>2. CASE Next
  BY <1>2, CallerKeepsThread, PumpsKeepThread, PollKeepsThread DEF Next
<1>3. QED BY <1>1, <1>2

LEMMA ThreadAlways == Spec => []ThreadInv
<1>1. QED BY InitThread, ThreadStep, PTL DEF Spec

(* The variables have their types at all times: in particular each thread  *)
(* is at a place of its own code.                                          *)
THEOREM TypeCorrect == Spec => []TypeOK
<1>1. ThreadInv => TypeOK BY DEF ThreadInv
<1>2. QED BY <1>1, ThreadAlways, PTL

(* When stop() of a provider has returned (platform_windows.rs 191, 340,   *)
(* 497) its thread, its hook, its id and its messages are gone; when main  *)
(* drops the engine after the stops, those of every provider are.          *)
THEOREM StopIsClean == Spec => []NothingOutlivesStop
<1>1. ThreadInv => NothingOutlivesStop BY DEF ThreadInv
<1>2. QED BY <1>1, ThreadAlways, PTL

-----------------------------------------------------------------------------
(* The reports.                                                            *)

LEMMA InitTold == Init => ToldSoFar
BY HooksAssumption DEF Init, ToldSoFar, Providers

LEMMA ToldStep == ThreadInv /\ ToldSoFar /\ [Next]_hvars => ToldSoFar'
<1> SUFFICES ASSUME ThreadInv, ToldSoFar, [Next]_hvars PROVE ToldSoFar'
  OBVIOUS
<1>t. TypeOK BY DEF ThreadInv
<1>p. Poller \in Providers BY DEF Providers
<1> USE HooksAssumption, <1>t, <1>p DEF ToldSoFar, TypeOK
<1>1. CASE UNCHANGED <<place, prev, curr, todo, told>>
  BY <1>1
<1>2. CASE \E p \in Pumps : PumpSteps(p) \/ GetFails(p) \/ StartPump(p)
  <2>1. UNCHANGED poll /\ place'[Poller] = place[Poller]
    BY <1>2 DEF PumpSteps, StoresId, InstallsHook, InstallFails, GetsQuit, Unhooks, GetFails, StartPump,
                OtherThanPump, Go
  <2>2. QED BY <2>1 DEF poll
<1>3. CASE StartPoller
  BY <1>3 DEF StartPoller, poll
<1>4. ASSUME NEW p \in Providers, StopJoins(p) PROVE ToldSoFar'
  BY <1>4 DEF StopJoins, Go, poll
<1>5. CASE FirstSnapshot
  BY <1>5 DEF FirstSnapshot, Go
<1>6. CASE ChecksFlag
  BY <1>6 DEF ChecksFlag, Go, poll
<1>7. CASE Wakes
  <2>1. CASE ~running BY <1>7, <2>1 DEF Wakes, Go
  <2>2. CASE running
    <3>1. /\ place[Poller] = "sleeping" /\ place'[Poller] = "starting"
          /\ todo' = curr' \ prev /\ prev' = prev /\ told' = told
      BY <1>7, <2>2 DEF Wakes, Go
    <3>2. \A i : i \in prev \union (curr' \ todo') <=> i \in prev
      BY <3>1
    <3>3. QED BY <3>1, <3>2
  <2>3. QED BY <2>1, <2>2
<1>8. CASE SendsStarted
  <2>1. PICK i \in todo : told' = [told EXCEPT ![i] = @ + 1] /\ todo' = todo \ {i}
    BY <1>8 DEF SendsStarted
  <2>2. place[Poller] = "starting" /\ UNCHANGED <<place, prev, curr>>
    BY <1>8 DEF SendsStarted
  <2>3. i \in Pids /\ i \in curr /\ i \notin prev
    BY <2>1, <2>2
  <2>4. told[i] = 0 /\ told'[i] = 1
    BY <2>1, <2>2, <2>3
  <2>5. \A j \in Pids \ {i} : told'[j] = told[j] /\ (j \in todo' <=> j \in todo)
    BY <2>1, <2>3
  <2>6. \A j \in Pids : told'[j] = IF j \in prev' \union (curr' \ todo') THEN 1 ELSE 0
    BY <2>1, <2>2, <2>3, <2>4, <2>5
  <2>7. QED BY <2>1, <2>2, <2>6
<1>9. CASE AllStartedSent
  BY <1>9 DEF AllStartedSent, Go
<1>10. CASE SendsStopped
  <2>1. PICK i \in todo : told' = [told EXCEPT ![i] = @ - 1] /\ todo' = todo \ {i}
    BY <1>10 DEF SendsStopped
  <2>2. place[Poller] = "stopping" /\ UNCHANGED <<place, prev, curr>>
    BY <1>10 DEF SendsStopped
  <2>3. i \in Pids /\ i \notin curr
    BY <2>1, <2>2
  <2>4. told[i] = 1 /\ told'[i] = 0
    BY <2>1, <2>2, <2>3
  <2>5. \A j \in Pids \ {i} : told'[j] = told[j] /\ (j \in todo' <=> j \in todo)
    BY <2>1, <2>3
  <2>6. \A j \in Pids : told'[j] = IF j \in curr' \union todo' THEN 1 ELSE 0
    BY <2>1, <2>2, <2>3, <2>4, <2>5
  <2>7. QED BY <2>1, <2>2, <2>6
<1>11. CASE AllStoppedSent
  BY <1>11 DEF AllStoppedSent, Go
<1>12. QED
  BY <1>1, <1>2, <1>3, <1>4, <1>5, <1>6, <1>7, <1>8, <1>9, <1>10, <1>11
     DEF Next, PollSteps, StopReadsId, StopPosts, StopPoller, DropEngine, UiFails, ProcessBegins, ProcessEnds,
         hvars, thread, poll

(* The reports of the process provider (platform_windows.rs 447-495) add   *)
(* up within one start, for any set of processes: starts and stops of each *)
(* alternate, and after every poll the consumer knows what the last        *)
(* snapshot held.                                                          *)
THEOREM ReportsCorrect == Spec => []ReportsAddUp
<1>1. ThreadInv /\ ToldSoFar => ReportsAddUp
  BY DEF ThreadInv, TypeOK, ToldSoFar, ReportsAddUp
<1>2. QED BY <1>1, InitTold, ToldStep, ThreadAlways, PTL DEF Spec

=============================================================================
