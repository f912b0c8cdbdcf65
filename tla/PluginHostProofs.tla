--------------------------- MODULE PluginHostProofs ---------------------------
(***************************************************************************)
(* Proofs about PluginHost for any number of restarts, with descendants    *)
(* that escape and stalls or without.                                      *)
(***************************************************************************)
EXTENDS PluginHost, TLAPS

USE PluginAssumption

\* The steps of a run, those with its pid registered, those with its process
\* not reaped, and those at which its watchdog may run.
RunSteps == {"clear", "spawn", "register", "attach", "wait", "join", "unregister", "reap",
             "readers", "exited"}
PidSteps == {"attach", "wait", "join", "unregister"}
ProcSteps == PidSteps \cup {"register", "reap"}
WatchSteps == {"wait", "join"}
BackoffSteps == {"backoff", "sleep", "asleep", "resume"}
Busy == {"poll", "hung", "kill"}

Typed ==
  /\ sup \in RunSteps \cup BackoffSteps \cup {"loop", "ended"}
  /\ run \in Nat /\ forgotten \in 0..MaxForgotten
  /\ consumer \in Runs \cup {None} /\ stalled \in Runs \cup {None}
  /\ proc \in [Runs -> Living \cup {"none", "reaped"}]
  /\ watch \in [Runs -> Busy \cup {"none", "done"}]
  /\ reported \in [Runs -> 0..1]
  /\ owner \in {"stall", "stallKill"} => stalled \in Runs

\* The exits that are still in the window bound the runs.
RunInv ==
  /\ sup \in RunSteps => run \in Runs
  /\ sup \in {"loop"} \cup BackoffSteps => run <= MaxRestarts + forgotten

\* The pid is that of the run, from its registration until its group is killed.
PidInv == pid = IF sup \in PidSteps THEN run ELSE None

\* Only the process of the run can be there, and until it is reaped it is.
ProcInv ==
  /\ sup \in ProcSteps => proc[run] \in Living
  /\ \A r \in Runs : proc[r] \in Living => r = run /\ sup \in ProcSteps

\* A watchdog runs only while the supervisor waits for its run.
WatchInv == \A r \in Runs : watch[r] \in Busy => r = run /\ sup \in WatchSteps

\* stop has returned only after the supervisor.
OwnerInv == owner = "gone" => sup = "ended"

HostInv == Typed /\ RunInv /\ PidInv /\ ProcInv /\ WatchInv /\ OwnerInv

-----------------------------------------------------------------------------
LEMMA HostInit == Init => HostInv
<1> SUFFICES ASSUME Init PROVE HostInv
  OBVIOUS
<1> USE DEF Init, RunSteps, PidSteps, ProcSteps, WatchSteps, BackoffSteps, Busy, Living
<1>1. Typed
  BY DEF Typed
<1>2. RunInv /\ PidInv /\ ProcInv /\ WatchInv /\ OwnerInv
  BY DEF RunInv, PidInv, ProcInv, WatchInv, OwnerInv
<1> QED BY <1>1, <1>2 DEF HostInv

(* A kill leaves every process among the living or the dead as it was. *)
LEMMA KillKeepsLiving ==
  ASSUME HostInv, NEW p \in Runs \cup {None}
  PROVE  /\ Killed(p) \in [Runs -> Living \cup {"none", "reaped"}]
         /\ \A r \in Runs : Killed(p)[r] \in Living <=> proc[r] \in Living
  BY DEF HostInv, Typed, Killed, Living, Runs

(* The registered pid is a run or none. *)
LEMMA PidIsARun == HostInv => pid \in Runs \cup {None}
  BY DEF HostInv, PidInv, RunInv, PidSteps, RunSteps

(* Every step of the supervisor keeps the invariant. *)
LEMMA SupervisorStep == HostInv /\ Supervisor => HostInv'
<1> SUFFICES ASSUME HostInv, Supervisor PROVE HostInv'
  OBVIOUS
<1> USE DEF HostInv, Typed, RunInv, PidInv, ProcInv, WatchInv, OwnerInv,
        RunSteps, PidSteps, ProcSteps, WatchSteps, BackoffSteps, Busy,
        procVars, supVars, flagVars, runVars, watchVars, ownerVars, Living, Runs
<1>1. CASE Starts
  BY <1>1 DEF Starts
<1>2. CASE Clears
  BY <1>2 DEF Clears
<1>3. CASE Spawns
  BY <1>3 DEF Spawns
<1>4. CASE Registers
  BY <1>4, KillKeepsLiving, PidIsARun DEF Registers
<1>5. CASE Attaches
  <2>1. PICK p : p = Killed(pid)
    OBVIOUS
  <2>2. /\ p \in [Runs -> Living \cup {"none", "reaped"}]
        /\ \A r \in Runs : p[r] \in Living <=> proc[r] \in Living
    BY <2>1, KillKeepsLiving, PidIsARun
  <2>3. /\ proc' = proc \/ proc' = p
        /\ consumer' = run \/ consumer' = consumer
        /\ \E w \in {"poll", "done"} : watch' = [watch EXCEPT ![run] = w]
        /\ sup = "attach" /\ sup' = "wait"
        /\ UNCHANGED <<run, forgotten, pid, reported, owner, stalled>>
    BY <1>5, <2>1 DEF Attaches
  <2>4. run \in Runs
    BY <2>3
  <2>5. Typed'
    <3>1. proc' \in [Runs -> Living \cup {"none", "reaped"}]
      BY <2>2, <2>3
    <3>2. watch' \in [Runs -> Busy \cup {"none", "done"}]
      BY <2>3
    <3> QED BY <2>3, <2>4, <3>1, <3>2
  <2>6. RunInv' /\ PidInv' /\ OwnerInv'
    BY <2>3
  <2>7. ProcInv'
    BY <2>2, <2>3, <2>4
  <2>8. WatchInv'
    BY <2>3, <2>4
  <2> QED BY <2>5, <2>6, <2>7, <2>8
<1>6. CASE SeesExit
  BY <1>6 DEF SeesExit
<1>7. CASE JoinsWatchdog
  BY <1>7 DEF JoinsWatchdog
<1>8. CASE Unregisters
  BY <1>8 DEF Unregisters
<1>9. CASE Reaps
  BY <1>9 DEF Reaps
<1>10. CASE LeavesReaders
  BY <1>10 DEF LeavesReaders
<1>11. CASE Decides
  BY <1>11 DEF Decides
<1>12. CASE ChecksBackoff
  BY <1>12 DEF ChecksBackoff
<1>13. CASE Sleeps
  BY <1>13 DEF Sleeps
<1>14. CASE Wakes
  BY <1>14 DEF Wakes
<1>15. CASE Resumes
  BY <1>15 DEF Resumes
<1> QED BY <1>1, <1>2, <1>3, <1>4, <1>5, <1>6, <1>7, <1>8, <1>9, <1>10,
           <1>11, <1>12, <1>13, <1>14, <1>15 DEF Supervisor

(* Every step of the owner keeps it. *)
LEMMA OwnerStep == HostInv /\ Owner => HostInv'
<1> SUFFICES ASSUME HostInv, Owner PROVE HostInv'
  OBVIOUS
<1> USE DEF HostInv, Typed, RunInv, PidInv, ProcInv, WatchInv, OwnerInv,
        RunSteps, PidSteps, ProcSteps, WatchSteps, BackoffSteps, Busy,
        procVars, supVars, flagVars, runVars, watchVars, ownerVars, Living, Runs
<1>1. CASE PushCloses
  BY <1>1 DEF PushCloses
<1>2. CASE StallReports
  BY <1>2 DEF StallReports
<1>3. CASE StallKills
  BY <1>3, KillKeepsLiving, PidIsARun DEF StallKills
<1>4. CASE Finishes
  BY <1>4 DEF Finishes
<1>5. CASE FinishNotifies
  BY <1>5 DEF FinishNotifies
<1>6. CASE FinishEnds
  BY <1>6 DEF FinishEnds
<1>7. CASE Stops
  BY <1>7 DEF Stops
<1>8. CASE StopKills
  BY <1>8, KillKeepsLiving, PidIsARun DEF StopKills
<1>9. CASE StopNotifies
  BY <1>9 DEF StopNotifies
<1>10. CASE StopReturns
  BY <1>10 DEF StopReturns
<1> QED BY <1>1, <1>2, <1>3, <1>4, <1>5, <1>6, <1>7, <1>8, <1>9, <1>10 DEF Owner

(* So does every step of a run's process, reader and watchdog. *)
LEMMA RunStep ==
  ASSUME HostInv, NEW r \in Runs,
         (Watchdog(r) \/ WatchHangs(r) \/ ChildExits(r) \/ FirstByte(r) \/ ReaderEnds(r))
  PROVE  HostInv'
<1> USE DEF HostInv, Typed, RunInv, PidInv, ProcInv, WatchInv, OwnerInv,
        RunSteps, PidSteps, ProcSteps, WatchSteps, BackoffSteps, Busy,
        procVars, supVars, flagVars, runVars, watchVars, ownerVars, Living, Runs
<1>1. CASE WatchEnds(r)
  BY <1>1 DEF WatchEnds
<1>2. CASE WatchReports(r)
  BY <1>2 DEF WatchReports
<1>3. CASE WatchKills(r)
  BY <1>3, KillKeepsLiving, PidIsARun DEF WatchKills
<1>4. CASE WatchHangs(r)
  BY <1>4 DEF WatchHangs
<1>5. CASE ChildExits(r)
  BY <1>5 DEF ChildExits
<1>6. CASE FirstByte(r)
  BY <1>6 DEF FirstByte
<1>7. CASE ReaderEnds(r)
  BY <1>7 DEF ReaderEnds
<1> QED BY <1>1, <1>2, <1>3, <1>4, <1>5, <1>6, <1>7 DEF Watchdog

LEMMA HostStep == HostInv /\ [Next]_vars => HostInv'
<1> SUFFICES ASSUME HostInv, [Next]_vars PROVE HostInv'
  OBVIOUS
<1>1. CASE BackoffEnds
  BY <1>1 DEF BackoffEnds, HostInv, Typed, RunInv, PidInv, ProcInv, WatchInv, OwnerInv,
        RunSteps, PidSteps, ProcSteps, WatchSteps, BackoffSteps, Busy,
     flagVars, runVars, ownerVars, Living, Runs
<1>2. CASE UNCHANGED vars
  BY <1>2 DEF vars, HostInv, Typed, RunInv, PidInv, ProcInv, WatchInv, OwnerInv,
        RunSteps, PidSteps, ProcSteps, WatchSteps, BackoffSteps, Busy, Living, Runs
<1> QED BY <1>1, <1>2, SupervisorStep, OwnerStep, RunStep DEF Next

(* The invariant holds throughout. *)
THEOREM HostInvariant == Spec => []HostInv
  BY HostInit, HostStep, PTL DEF Spec

(* The registered pid names a process that is not reaped, so that no kill reaches a
   stranger, for any number of restarts. *)
THEOREM PidOurs == Spec => []PidIsOurs
<1>1. HostInv => PidIsOurs
  BY DEF HostInv, PidInv, ProcInv, ProcSteps, PidIsOurs
<1> QED BY <1>1, HostInvariant, PTL

(* A watchdog that has decided to kill finds its own run's pid, however late it runs. *)
THEOREM WatchdogKillsOnlyItsRun == Spec => []WatchdogKillsItsRun
<1>1. HostInv => WatchdogKillsItsRun
  BY DEF HostInv, PidInv, WatchInv, PidSteps, WatchSteps, Busy, WatchdogKillsItsRun
<1> QED BY <1>1, HostInvariant, PTL

(* Once stop has returned no process of the plugin is left. *)
THEOREM NothingLeftAfterStop == Spec => []NothingLivesAfterStop
<1>1. HostInv => NothingLivesAfterStop
  BY DEF HostInv, ProcInv, OwnerInv, ProcSteps, PidSteps, NothingLivesAfterStop
<1> QED BY <1>1, HostInvariant, PTL
=============================================================================
