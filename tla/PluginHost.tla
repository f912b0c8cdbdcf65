------------------------------ MODULE PluginHost ------------------------------
(* The supervision of one decoder plugin (hk-plugins/src/host.rs): the         *)
(* supervisor thread that starts, waits for, reaps and restarts the child      *)
(* process, the watchdog of each run, the readers of its output, and the owner *)
(* that pushes records (and may run the publisher's stall backstop), finishes  *)
(* or stops it.  A process is named by the run that started it.                *)
EXTENDS Integers, FiniteSets

CONSTANTS
  MaxRestarts,   \* restart.max_restarts
  MaxForgotten,  \* bound: exits that leave the restart window
  Escapes,       \* whether a child can leave a descendant outside its group
  Stalls,        \* whether the publisher's backstop can fire
  None

ASSUME PluginAssumption ==
  /\ MaxRestarts \in Nat /\ MaxForgotten \in Nat
  /\ Escapes \in BOOLEAN /\ Stalls \in BOOLEAN
  /\ None \notin Nat

VARIABLES
  \* the supervisor: its step, the run it is in, the exits out of its window
  sup, run, forgotten,
  \* Proc and its mutex, held by the supervisor from its check to its sleep
  pid, state, held, asleep,
  \* the flags of Shared
  shutdown, finishing, life, consumer,
  \* of each run: the process, its output reader, its watchdog and its report
  proc, reader, watch, over, reported,
  \* the owner of the PluginInstance, and the run whose stall it is closing
  owner, stalled

procVars  == <<pid, state, held, asleep>>
supVars   == <<sup, run, forgotten>>
flagVars  == <<shutdown, finishing, life, consumer>>
runVars   == <<proc, reader, watch, over, reported>>
watchVars == <<watch, reported>>
ownerVars == <<owner, stalled>>
vars == <<sup, run, forgotten, pid, state, held, asleep, shutdown, finishing, life, consumer,
          proc, reader, watch, over, reported, owner, stalled>>

\* Runs that can happen: the bound on restarts and the exits forgotten give it.
Runs == 1..(MaxRestarts + MaxForgotten + 1)

Living == {"alive", "killed", "zombie"}

\* SIGKILL to the group of p: a process that runs will die.
Killed(p) == IF p # None /\ proc[p] = "alive" THEN [proc EXCEPT ![p] = "killed"] ELSE proc

Stopping == shutdown \/ finishing

-----------------------------------------------------------------------------
(* supervise and run_once *)

\* The loop starts a run unless it is shut down.
Starts ==
  /\ sup = "loop" /\ ~held
  /\ IF shutdown THEN sup' = "ended" /\ state' = "Stopped" /\ UNCHANGED run
     ELSE sup' = "clear" /\ state' = "Starting" /\ run' = run + 1
  /\ UNCHANGED <<forgotten, pid, held, asleep, runVars, flagVars, ownerVars>>

\* A run begins without a sign of life.
Clears ==
  /\ sup = "clear"
  /\ life' = None /\ sup' = "spawn"
  /\ UNCHANGED <<run, forgotten, shutdown, finishing, consumer, runVars, procVars, ownerVars>>

Spawns ==
  /\ sup = "spawn"
  /\ \/ proc' = [proc EXCEPT ![run] = "alive"] /\ sup' = "register"
     \/ sup' = "exited" /\ UNCHANGED proc
  /\ UNCHANGED <<run, forgotten, reader, over, procVars, flagVars, watchVars, ownerVars>>

\* The pid is registered; a stop that came before has found none to kill.
Registers ==
  /\ sup = "register" /\ ~held
  /\ pid' = run
  /\ proc' = IF shutdown THEN Killed(run) ELSE proc
  /\ sup' = "attach"
  /\ UNCHANGED <<run, forgotten, state, held, asleep, reader, over, flagVars, watchVars, ownerVars>>

\* The input is attached, the readers and the watchdog start.  Without an input
\* the process is killed and there is no watchdog (nor when its thread fails).
Attaches ==
  /\ sup = "attach" /\ ~held
  /\ \/ /\ consumer' = run /\ state' = "Running"
        /\ \E w \in {"poll", "done"} : watch' = [watch EXCEPT ![run] = w]
        /\ UNCHANGED proc
     \/ /\ proc' = Killed(pid)
        /\ watch' = [watch EXCEPT ![run] = "done"]
        /\ UNCHANGED <<consumer, state>>
  /\ reader' = [reader EXCEPT ![run] = "open"]
  /\ sup' = "wait"
  /\ UNCHANGED <<run, forgotten, pid, held, asleep, shutdown, finishing, life, over, reported,
                 ownerVars>>

\* A plausible bug: the leader is reaped while its pid is still registered.
Bug_SeesExit ==
  /\ sup = "wait" /\ proc[run] = "zombie"
  /\ proc' = [proc EXCEPT ![run] = "reaped"]
  /\ over' = [over EXCEPT ![run] = TRUE]
  /\ sup' = "join"
  /\ UNCHANGED <<run, forgotten, reader, procVars, flagVars, watchVars, ownerVars>>

\* The leader has exited and is not reaped: the run is over.
SeesExit ==
  /\ sup = "wait" /\ proc[run] = "zombie"
  /\ over' = [over EXCEPT ![run] = TRUE]
  /\ sup' = "join"
  /\ UNCHANGED <<run, forgotten, proc, reader, procVars, flagVars, watchVars, ownerVars>>

\* A plausible bug: the watchdog is not joined before the pid is given up.
Bug_JoinsWatchdog ==
  /\ sup = "join"
  /\ sup' = "unregister"
  /\ UNCHANGED <<run, forgotten, runVars, procVars, flagVars, ownerVars>>

JoinsWatchdog ==
  /\ sup = "join" /\ watch[run] = "done"
  /\ sup' = "unregister"
  /\ UNCHANGED <<run, forgotten, runVars, procVars, flagVars, ownerVars>>

\* The rest of the group is killed while the leader is a zombie.
Unregisters ==
  /\ sup = "unregister" /\ ~held
  /\ pid' = None
  /\ sup' = "reap"
  /\ UNCHANGED <<run, forgotten, state, held, asleep, runVars, flagVars, ownerVars>>

\* child.wait, then the consumer is detached.
Reaps ==
  /\ sup = "reap"
  /\ proc' = [proc EXCEPT ![run] = "reaped"]
  /\ consumer' = None
  /\ sup' = "readers"
  /\ UNCHANGED <<run, forgotten, shutdown, finishing, life, reader, over, procVars, watchVars,
                 ownerVars>>

\* Readers that a descendant keeps open past the join timeout are abandoned.
LeavesReaders ==
  /\ sup = "readers" /\ (reader[run] = "done" \/ Escapes)
  /\ sup' = "exited"
  /\ UNCHANGED <<run, forgotten, runVars, procVars, flagVars, ownerVars>>

\* After an exit: the end, a crash loop (too many exits in the window), or the
\* back-off, whose condition is evaluated with the mutex held.
Decides ==
  /\ sup = "exited" /\ ~held
  /\ IF Stopping
     THEN sup' = "ended" /\ state' = "Stopped" /\ UNCHANGED <<forgotten, held>>
     ELSE /\ forgotten' \in forgotten .. (IF MaxForgotten < run THEN MaxForgotten ELSE run - 1)
          /\ IF run - forgotten' > MaxRestarts
             THEN sup' = "ended" /\ state' = "Failed" /\ UNCHANGED held
             ELSE sup' = "backoff" /\ state' = "Backoff" /\ held' = TRUE
  /\ UNCHANGED <<run, pid, asleep, runVars, flagVars, ownerVars>>

ChecksBackoff ==
  /\ sup = "backoff" /\ held
  /\ IF Stopping THEN sup' = "resume" /\ held' = FALSE ELSE sup' = "sleep" /\ UNCHANGED held
  /\ UNCHANGED <<run, forgotten, pid, state, asleep, runVars, flagVars, ownerVars>>

Sleeps ==
  /\ sup = "sleep" /\ held
  /\ held' = FALSE /\ asleep' = TRUE /\ sup' = "asleep"
  /\ UNCHANGED <<run, forgotten, pid, state, runVars, flagVars, ownerVars>>

\* A notification: the condition is evaluated again.
Wakes ==
  /\ sup = "asleep" /\ ~asleep /\ ~held
  /\ held' = TRUE /\ sup' = "backoff"
  /\ UNCHANGED <<run, forgotten, pid, state, asleep, runVars, flagVars, ownerVars>>

BackoffEnds ==
  /\ sup = "asleep"
  /\ asleep' = FALSE /\ sup' = "resume"
  /\ UNCHANGED <<run, forgotten, pid, state, held, runVars, flagVars, ownerVars>>

Resumes ==
  /\ sup = "resume" /\ ~held
  /\ IF Stopping THEN sup' = "ended" /\ state' = "Stopped" ELSE sup' = "loop" /\ UNCHANGED state
  /\ UNCHANGED <<run, forgotten, pid, held, asleep, runVars, flagVars, ownerVars>>

-----------------------------------------------------------------------------
(* The process and its output *)

ChildExits(r) ==
  /\ proc[r] \in {"alive", "killed"}
  /\ proc' = [proc EXCEPT ![r] = "zombie"]
  /\ UNCHANGED <<reader, over, procVars, flagVars, supVars, watchVars, ownerVars>>

\* The first byte of a run's output is the sign of life, if there is none yet.
FirstByte(r) ==
  /\ reader[r] = "open"
  /\ reader' = [reader EXCEPT ![r] = "seen"]
  /\ life' = IF life = None THEN r ELSE life
  /\ asleep' = IF life = None THEN FALSE ELSE asleep
  /\ UNCHANGED <<pid, state, held, shutdown, finishing, consumer, proc, over, supVars, watchVars,
                 ownerVars>>

\* The pipes close with the last process that holds them.
ReaderEnds(r) ==
  /\ reader[r] \in {"open", "seen"} /\ proc[r] \notin {"none", "alive", "killed"}
  /\ reader' = [reader EXCEPT ![r] = "done"]
  /\ UNCHANGED <<proc, over, procVars, flagVars, supVars, watchVars, ownerVars>>

-----------------------------------------------------------------------------
(* watch_for_hang and kill_hung *)

\* The run is over, or its consumer is gone.
WatchEnds(r) ==
  /\ watch[r] = "poll" /\ (over[r] \/ shutdown \/ consumer # r)
  /\ watch' = [watch EXCEPT ![r] = "done"]
  /\ UNCHANGED <<proc, reader, over, reported, procVars, flagVars, supVars, ownerVars>>

\* The queue has been full for the budget that applies.
WatchHangs(r) ==
  /\ watch[r] = "poll" /\ ~over[r] /\ ~shutdown /\ consumer = r
  /\ watch' = [watch EXCEPT ![r] = "hung"]
  /\ UNCHANGED <<proc, reader, over, reported, procVars, flagVars, supVars, ownerVars>>

\* One report per run, shared with the backstop.
WatchReports(r) ==
  /\ watch[r] = "hung"
  /\ IF reported[r] > 0
     THEN watch' = [watch EXCEPT ![r] = "done"] /\ UNCHANGED reported
     ELSE watch' = [watch EXCEPT ![r] = "kill"] /\ reported' = [reported EXCEPT ![r] = @ + 1]
  /\ UNCHANGED <<proc, reader, over, procVars, flagVars, supVars, ownerVars>>

WatchKills(r) ==
  /\ watch[r] = "kill" /\ ~held
  /\ proc' = Killed(pid)
  /\ watch' = [watch EXCEPT ![r] = "done"]
  /\ UNCHANGED <<reader, over, reported, procVars, flagVars, supVars, ownerVars>>

-----------------------------------------------------------------------------
(* The owner *)

\* push finds the consumer slow past both budgets and closes it; the closer
\* that reports the stall runs after.
PushCloses ==
  /\ Stalls /\ owner = "free" /\ consumer # None
  /\ owner' = "stall" /\ stalled' = consumer
  /\ UNCHANGED <<runVars, procVars, flagVars, supVars>>

StallReports ==
  /\ owner = "stall"
  /\ IF reported[stalled] > 0
     THEN owner' = "free" /\ stalled' = None /\ UNCHANGED reported
     ELSE /\ owner' = "stallKill" /\ UNCHANGED stalled
          /\ reported' = [reported EXCEPT ![stalled] = @ + 1]
  /\ UNCHANGED <<proc, reader, watch, over, procVars, flagVars, supVars>>

StallKills ==
  /\ owner = "stallKill" /\ ~held
  /\ proc' = Killed(pid)
  /\ owner' = "free" /\ stalled' = None
  /\ UNCHANGED <<reader, over, procVars, flagVars, supVars, watchVars>>

\* finish: no exit is restarted any more; the owner polls for the end, or until
\* nothing has moved for the budget that applies.
Finishes ==
  /\ owner = "free"
  /\ finishing' = TRUE /\ owner' = "finishing"
  /\ UNCHANGED <<shutdown, life, consumer, stalled, runVars, procVars, supVars>>

FinishNotifies ==
  /\ owner = "finishing"
  /\ asleep' = FALSE /\ owner' = "poll"
  /\ UNCHANGED <<pid, state, held, stalled, runVars, flagVars, supVars>>

FinishEnds ==
  /\ owner = "poll"
  /\ owner' = "finished"
  /\ UNCHANGED <<stalled, runVars, procVars, flagVars, supVars>>

Stops ==
  /\ owner \in {"free", "finished"}
  /\ shutdown' = TRUE /\ owner' = "stopKill"
  /\ UNCHANGED <<finishing, life, consumer, stalled, runVars, procVars, supVars>>

\* A plausible bug: the pid is read without the mutex.
Bug_StopKills ==
  /\ owner = "stopKill"
  /\ proc' = Killed(pid)
  /\ owner' = "stopNotify"
  /\ UNCHANGED <<reader, over, stalled, procVars, flagVars, supVars, watchVars>>

\* kill takes the mutex: a supervisor that checked before is asleep by then.
StopKills ==
  /\ owner = "stopKill" /\ ~held
  /\ proc' = Killed(pid)
  /\ owner' = "stopNotify"
  /\ UNCHANGED <<reader, over, stalled, procVars, flagVars, supVars, watchVars>>

StopNotifies ==
  /\ owner = "stopNotify"
  /\ asleep' = FALSE /\ owner' = "stopJoin"
  /\ UNCHANGED <<pid, state, held, stalled, runVars, flagVars, supVars>>

\* A plausible bug: the supervisor is not joined.
Bug_StopReturns ==
  /\ owner = "stopJoin"
  /\ owner' = "gone"
  /\ UNCHANGED <<stalled, runVars, procVars, flagVars, supVars>>

StopReturns ==
  /\ owner = "stopJoin" /\ sup = "ended"
  /\ owner' = "gone"
  /\ UNCHANGED <<stalled, runVars, procVars, flagVars, supVars>>

-----------------------------------------------------------------------------
Init ==
  /\ sup = "loop" /\ run = 0 /\ forgotten = 0
  /\ pid = None /\ state = "Starting" /\ held = FALSE /\ asleep = FALSE
  /\ shutdown = FALSE /\ finishing = FALSE /\ life = None /\ consumer = None
  /\ proc = [r \in Runs |-> "none"] /\ reader = [r \in Runs |-> "none"]
  /\ watch = [r \in Runs |-> "none"] /\ over = [r \in Runs |-> FALSE]
  /\ reported = [r \in Runs |-> 0]
  /\ owner = "free" /\ stalled = None

Supervisor ==
  \/ Starts \/ Clears \/ Spawns \/ Registers \/ Attaches \/ SeesExit \/ JoinsWatchdog
  \/ Unregisters \/ Reaps \/ LeavesReaders \/ Decides \/ ChecksBackoff \/ Sleeps \/ Wakes \/ Resumes

Watchdog(r) == WatchEnds(r) \/ WatchReports(r) \/ WatchKills(r)

Owner ==
  \/ PushCloses \/ StallReports \/ StallKills
  \/ Finishes \/ FinishNotifies \/ FinishEnds
  \/ Stops \/ StopKills \/ StopNotifies \/ StopReturns

Next ==
  \/ Supervisor \/ BackoffEnds \/ Owner
  \/ \E r \in Runs : Watchdog(r) \/ WatchHangs(r) \/ ChildExits(r) \/ FirstByte(r) \/ ReaderEnds(r)

\* Threads run, and a killed process dies.  A process may otherwise live for
\* ever, no queue need stay full, and no back-off need ever end.
Fairness ==
  /\ WF_vars(Supervisor)
  /\ \A r \in Runs :
       /\ WF_vars(Watchdog(r)) /\ WF_vars(ReaderEnds(r))
       /\ WF_vars(proc[r] = "killed" /\ ChildExits(r))
  /\ WF_vars(StopKills) /\ WF_vars(StopNotifies) /\ WF_vars(StopReturns)

Spec == Init /\ [][Next]_vars /\ Fairness

-----------------------------------------------------------------------------
(* Properties *)

\* The registered pid names a process that is not reaped: no kill can reach a
\* stranger that was given the number (kill, run_once).
PidIsOurs == pid # None => proc[pid] \in Living

\* A watchdog that has decided to kill kills the process it watched: it is joined
\* before the pid is given up, however late it comes (watch_for_hang, run_once).
WatchdogKillsItsRun == \A r \in Runs : watch[r] = "kill" => pid = r

\* Once stop has returned no process of the plugin is left, not even a zombie,
\* and none is started: it has waited for the supervisor (stop, supervise).
NothingLivesAfterStop ==
  owner = "gone" => \A r \in Runs : proc[r] \notin Living

\* stop returns, even if no back-off ever ends and the child never exits by
\* itself: a stop between a spawn and the registration of its pid, or just
\* before a back-off, is not missed (stop, run_once, supervise).
StopEnds == shutdown ~> owner = "gone"

=============================================================================
