---------------------------- MODULE TaskManager ----------------------------
(***************************************************************************)
(* The singleton of task_manager.rs: requests from the API, the poller and *)
(* the thread of the one running task meet at its mutex and in the tables. *)
(* A method that holds the mutex is one action, except request_stop and    *)
(* set_pause: they look at the status of the task and set it in two steps, *)
(* and the task needs no manager to set it in between.                     *)
(*                                                                         *)
(* The closure around Task::run is a thread of its own:                    *)
(*   "none"         no thread                                              *)
(*   "init"         ScanTask::initialize_scan is next                      *)
(*   "run"          in the scan, or in VACUUM                              *)
(*   "interrupted"  run returned TaskInterrupted                           *)
(*   "asked"        and the system is not shutting down                    *)
(*   "rollback"     nor paused: on_stopped is next                         *)
(*   "failed"       run returned an error: on_error is next                *)
(*   "cleanup"      on_task_complete is next                               *)
(* What happens inside a scan is ScanLifecycle's; here it completes, is    *)
(* interrupted or fails.                                                   *)
(***************************************************************************)
EXTENDS TaskQueue

CONSTANTS
  MaxTime,     \* bound: of the clock
  MaxInterrupts,  \* bound: pauses and shutdowns
  MaxFaults,   \* bound: crashes and errors of a run
  MaxBroken    \* bound: failures in starting a scan, rolling it back, cleaning up

ASSUME ManagerAssumption ==
  MaxTime \in Nat /\ MaxInterrupts \in Nat /\ MaxFaults \in Nat /\ MaxBroken \in Nat

NoPause == 0
Forever == -1

VARIABLES
  tasks, schedules, roots,
  pauseUntil,      \* the row of meta; TaskManager.pause_until is its copy
  up,              \* the process runs
  current,         \* TaskManager.current_task, 0 when None
  isPaused, isShuttingDown,
  holder,          \* "stop", "pause": who holds the mutex between two steps; else "none"
  status, token,   \* TaskProgress.status and interrupt_token of the current task
  pc,
  loaded,          \* ScanTask.scan is Some
  now,
  asked,           \* history: tasks whose stop was accepted
  interrupts, faults, broken

tables == <<schedules, roots>>
pause == <<pauseUntil, isPaused>>
thread == <<current, status, token, pc, loaded>>
process == <<up, isShuttingDown, holder>>
bounds == <<interrupts, faults, broken>>
env == <<now, asked, bounds>>
vars == <<tasks, tables, pause, thread, process, env>>

Idle == current = 0
Task == tasks[current]
Exclusive == ~Idle /\ Task.type = "compact"
Mutex == up /\ holder = "none"
Allowed == Mutex /\ ~isShuttingDown /\ ~Exclusive

NoThread ==
  current' = 0 /\ status' = "none" /\ token' = FALSE /\ pc' = "none" /\ loaded' = FALSE

Init ==
  /\ tasks = <<>> /\ schedules = <<>> /\ roots = Roots
  /\ pauseUntil = NoPause /\ isPaused = FALSE
  /\ current = 0 /\ status = "none" /\ token = FALSE /\ pc = "none" /\ loaded = FALSE
  /\ up = TRUE /\ isShuttingDown = FALSE /\ holder = "none"
  /\ now = 1 /\ asked = {} /\ interrupts = 0 /\ faults = 0 /\ broken = 0
-----------------------------------------------------------------------------
(* Starting the next task *)

Start(ts) ==
  IF NextTasks(ts, now) = {} THEN tasks' = ts /\ UNCHANGED thread
  ELSE \E t \in NextTasks(ts, now), at \in Later(now) :
         /\ tasks' = Activate(ts, t, at)
         /\ current' = t /\ status' = "Running" /\ token' = FALSE
         /\ pc' = "init" /\ loaded' = FALSE

Expired == pauseUntil # Forever /\ pauseUntil <= now

TryStart(ts) ==
  LET idle == Idle /\ ~isShuttingDown
      expires == idle /\ isPaused /\ Expired
  IN /\ IF expires THEN pauseUntil' = NoPause /\ isPaused' = FALSE ELSE UNCHANGED pause
     /\ IF idle /\ (~isPaused \/ expires) THEN Start(ts)
                                          ELSE tasks' = ts /\ UNCHANGED thread

PollQueue == Mutex /\ TryStart(tasks) /\ UNCHANGED <<tables, process, env>>
-----------------------------------------------------------------------------
(* Requests *)

Room == Len(tasks) < MaxTasks

ScheduleManualScan(r, set) ==
  /\ Allowed /\ Room /\ r \in roots
  /\ TryStart(Append(tasks, NewTask("scan", r, 0, 0, set)))
  /\ UNCHANGED <<tables, process, env>>

ScheduleCompact ==
  /\ Allowed /\ Room
  /\ TryStart(IF CompactQueued(tasks) THEN tasks
              ELSE Append(tasks, NewTask("compact", Null, 0, 0, Null)))
  /\ UNCHANGED <<tables, process, env>>

CreateSchedule(r, set) ==
  LET schedule == [root |-> r, mode |-> "enabled", settings |-> set]
  IN /\ Allowed /\ Room /\ r \in roots
     /\ Len(schedules) < MaxSchedules
     /\ schedules' = Append(schedules, schedule)
     /\ \E at \in Later(now) :
          tasks' = Append(tasks, Scheduled(Len(schedules) + 1, schedule, at))
     /\ UNCHANGED <<roots, pause, thread, process, env>>

Kept(s) == schedules[s].mode \in {"enabled", "disabled"}

UpdateSchedule(s, set) ==
  /\ Allowed /\ Kept(s)
  /\ schedules' = [schedules EXCEPT ![s].settings = set]
  /\ \E at \in Later(now) : tasks' = Reschedule(tasks, s, at)
  /\ UNCHANGED <<roots, pause, thread, process, env>>

Enable(s) ==
  /\ Allowed /\ Kept(s) /\ Room
  /\ schedules' = [schedules EXCEPT ![s].mode = "enabled"]
  /\ \E at \in Later(now) : tasks' = EnableIn(tasks, s, schedules[s], at)
  /\ UNCHANGED <<roots, pause, thread, process, env>>

Disable(s) ==
  /\ Allowed /\ Kept(s)
  /\ schedules' = [schedules EXCEPT ![s].mode = "disabled"]
  /\ tasks' = Remove(tasks, PendingOf(tasks, s))
  /\ UNCHANGED <<roots, pause, thread, process, env>>

DeleteSchedule(s) ==
  /\ Allowed /\ Kept(s)
  /\ schedules' = [schedules EXCEPT ![s].mode = "deleted"]
  /\ tasks' = Remove(tasks, PendingOf(tasks, s))
  /\ UNCHANGED <<roots, pause, thread, process, env>>

DeleteRoot_TasksKept(r) ==
  /\ up /\ r \in roots /\ DeleteOutcome(tasks, r) = "deleted"
  /\ tasks' = Remove(tasks, {t \in DOMAIN tasks : tasks[t].root = r /\ tasks[t].schedule # 0})
  /\ schedules' = [s \in DOMAIN schedules |->
       IF schedules[s].root = r THEN [schedules[s] EXCEPT !.mode = "gone"] ELSE schedules[s]]
  /\ roots' = roots \ {r}
  /\ UNCHANGED <<pause, thread, process, env>>

\* Root::delete_root knows nothing of the manager and its mutex.
DeleteRoot(r) ==
  /\ up /\ r \in roots /\ DeleteOutcome(tasks, r) = "deleted"
  /\ tasks' = Remove(tasks, {t \in DOMAIN tasks : tasks[t].root = r})
  /\ schedules' = [s \in DOMAIN schedules |->
       IF schedules[s].root = r THEN [schedules[s] EXCEPT !.mode = "gone"] ELSE schedules[s]]
  /\ roots' = roots \ {r}
  /\ UNCHANGED <<pause, thread, process, env>>

RequestStop ==
  /\ Mutex /\ ~Idle /\ ~isShuttingDown /\ status = "Running"
  /\ holder' = "stop"
  /\ UNCHANGED <<tasks, tables, pause, thread, up, isShuttingDown, env>>

AcceptStop ==
  /\ up /\ holder = "stop"
  /\ holder' = "none"
  /\ status' = "Stopping" /\ token' = TRUE
  /\ asked' = asked \cup {current}
  /\ UNCHANGED <<tasks, tables, pause, current, pc, loaded, up, isShuttingDown,
                 now, bounds>>

\* The pause is stored; a task that is running is then told of it.
SetPause(until) ==
  /\ Allowed
  /\ pauseUntil' = until /\ isPaused' = TRUE
  /\ holder' = IF ~isPaused /\ ~Idle /\ status = "Running" THEN "pause" ELSE "none"
  /\ isPaused \/ interrupts < MaxInterrupts
  /\ interrupts' = IF isPaused THEN interrupts ELSE interrupts + 1
  /\ UNCHANGED <<tasks, tables, thread, up, isShuttingDown, now, asked, faults, broken>>

\* Also where the task has ended since its status was read.
MarkPausing ==
  /\ up /\ holder = "pause"
  /\ holder' = "none"
  /\ status' = "Pausing" /\ token' = TRUE
  /\ UNCHANGED <<tasks, tables, pause, current, pc, loaded, up, isShuttingDown, env>>

ClearPause_Unguarded ==
  /\ Allowed /\ isPaused
  /\ pauseUntil' = NoPause /\ isPaused' = FALSE
  /\ IF Idle THEN Start(tasks) ELSE UNCHANGED <<tasks, thread>>
  /\ UNCHANGED <<tables, process, env>>

\* Refused while a task is still unwinding.
ClearPause ==
  /\ Allowed /\ isPaused /\ Idle
  /\ pauseUntil' = NoPause /\ isPaused' = FALSE
  /\ Start(tasks)
  /\ UNCHANGED <<tables, process, env>>

Shutdown ==
  /\ Mutex /\ ~isShuttingDown
  /\ isShuttingDown' = TRUE
  /\ token' = (token \/ ~Idle)
  /\ interrupts < MaxInterrupts /\ interrupts' = interrupts + 1
  /\ UNCHANGED <<tasks, tables, pause, current, status, pc, loaded, up, holder,
                 now, asked, faults, broken>>
-----------------------------------------------------------------------------
(* The thread of the task *)

Scan(st) == tasks' = [tasks EXCEPT ![current].scan = st]
Return(st) == status' = st /\ pc' = "cleanup" /\ UNCHANGED <<current, token, loaded>>
Go(to) == pc' = to /\ UNCHANGED <<current, status, token, loaded>>
Unscanned == UNCHANGED <<tables, pause, process, env>>

Fault == faults < MaxFaults /\ faults' = faults + 1 /\ UNCHANGED <<now, asked, interrupts, broken>>
Break == broken < MaxBroken /\ broken' = broken + 1 /\ UNCHANGED <<now, asked, interrupts, faults>>

Initialize_Forgets ==
  /\ pc = "init"
  /\ pc' = "run" /\ loaded' = (Task.type = "scan")
  /\ IF loaded' THEN Scan("open") ELSE UNCHANGED tasks
  /\ UNCHANGED <<current, status, token>>
  /\ Unscanned

\* A new scan, with its id in task_state in the same transaction, or the old one.
Initialize ==
  /\ pc = "init"
  /\ pc' = "run" /\ loaded' = (Task.type = "scan")
  /\ IF loaded' /\ Task.scan = "none" THEN Scan("open") ELSE UNCHANGED tasks
  /\ UNCHANGED <<current, status, token>>
  /\ Unscanned

\* A resumed scan may find that it had already ended, whichever way.
RunCompletes ==
  /\ pc = "run"
  /\ IF Task.scan = "open" THEN Scan("Completed") ELSE UNCHANGED tasks
  /\ Return("Completed")
  /\ Unscanned

RunInterrupted ==
  /\ pc = "run" /\ Task.type = "scan" /\ token
  /\ Go("interrupted")
  /\ UNCHANGED tasks
  /\ Unscanned

\* The scan is not loaded, so on_error will not roll it back if it is a resumed one.
InitializeFails ==
  /\ pc = "init" /\ Task.type = "scan"
  /\ Break /\ Go("failed")
  /\ UNCHANGED <<tasks, tables, pause, process>>

RunFails ==
  /\ pc = "run" /\ Task.scan \in {"none", "open"}
  /\ Fault /\ Go("failed")
  /\ UNCHANGED <<tasks, tables, pause, process>>

AskShuttingDown ==
  /\ pc = "interrupted" /\ Mutex
  /\ Go(IF isShuttingDown THEN "cleanup" ELSE "asked")
  /\ UNCHANGED tasks
  /\ Unscanned

AskPaused ==
  /\ pc = "asked" /\ Mutex
  /\ IF isPaused THEN Return("Completed") ELSE Go("rollback")
  /\ UNCHANGED tasks
  /\ Unscanned

\* set_state_stopped refuses a scan that has ended.
OnStopped ==
  /\ pc = "rollback"
  /\ IF Task.scan = "open" THEN Scan("Stopped") /\ Return("Stopped")
                           ELSE UNCHANGED tasks /\ Return("Error")
  /\ Unscanned

OnError ==
  /\ pc = "failed"
  /\ IF loaded THEN Scan("Error") ELSE UNCHANGED tasks
  /\ Return("Error")
  /\ Unscanned

\* The task is in status Error, the scan is what it was.
RollbackFails ==
  /\ \/ pc = "rollback"
     \/ pc = "failed" /\ loaded
  /\ Break /\ Return("Error")
  /\ UNCHANGED <<tasks, tables, pause, process>>

Recorded_Raw(st) == st

Recorded(st) == IF st \in Terminal THEN st ELSE "Completed"

OnTaskComplete_IgnoresPause ==
  /\ pc = "cleanup" /\ Mutex
  /\ tasks' = IF isShuttingDown THEN tasks
              ELSE [tasks EXCEPT ![current].status = Recorded(status)]
  /\ NoThread
  /\ Unscanned

OnTaskComplete_KeepsPaused ==
  /\ pc = "cleanup" /\ Mutex
  /\ IF isShuttingDown \/ isPaused
       THEN Go("none") /\ UNCHANGED tasks
       ELSE NoThread /\ tasks' = [tasks EXCEPT ![current].status = Recorded(status)]
  /\ Unscanned

OnTaskComplete ==
  /\ pc = "cleanup" /\ Mutex
  /\ tasks' = IF isShuttingDown \/ isPaused THEN tasks
              ELSE [tasks EXCEPT ![current].status = Recorded(status)]
  /\ NoThread
  /\ Unscanned

\* No connection, or complete_task fails: the thread ends before current_task is reset.
CleanupFails ==
  /\ pc = "cleanup" /\ Mutex
  /\ Break /\ Go("none")
  /\ UNCHANGED <<tasks, tables, pause, process>>
-----------------------------------------------------------------------------
(* The process and the clock *)

Die == up' = FALSE /\ isShuttingDown' = FALSE /\ holder' = "none" /\ isPaused' = FALSE /\ NoThread

\* do_shutdown waits for the thread.
Exit ==
  /\ Mutex /\ isShuttingDown /\ pc = "none"
  /\ Die
  /\ UNCHANGED <<tasks, tables, pauseUntil, env>>

Crash ==
  /\ up /\ Fault
  /\ Die
  /\ UNCHANGED <<tasks, tables, pauseUntil>>

StartProcess_NoInit ==
  /\ ~up /\ up' = TRUE
  /\ UNCHANGED <<tasks, tables, pause, thread, isShuttingDown, holder, env>>

\* init_pause_state comes before the poller.
StartProcess ==
  /\ ~up /\ up' = TRUE
  /\ isPaused' = (pauseUntil # NoPause)
  /\ UNCHANGED <<tasks, tables, pauseUntil, thread, isShuttingDown, holder, env>>

Tick ==
  /\ now < MaxTime /\ now' = now + 1
  /\ UNCHANGED <<tasks, tables, pause, thread, process, asked, bounds>>
-----------------------------------------------------------------------------
Thread ==
  \/ Initialize \/ RunCompletes \/ RunInterrupted
  \/ AskShuttingDown \/ AskPaused \/ OnStopped \/ OnError \/ OnTaskComplete

Request ==
  \/ \E r \in Roots, set \in Settings : ScheduleManualScan(r, set) \/ CreateSchedule(r, set)
  \/ ScheduleCompact
  \/ \E s \in DOMAIN schedules :
       \/ \E set \in Settings : UpdateSchedule(s, set)
       \/ Enable(s) \/ Disable(s) \/ DeleteSchedule(s)
  \/ \E r \in Roots : DeleteRoot(r)
  \/ RequestStop
  \/ \E until \in {Forever} \cup 2 .. MaxTime : SetPause(until)
  \/ Shutdown

Next ==
  \/ Thread \/ Request \/ PollQueue \/ AcceptStop \/ MarkPausing \/ ClearPause
  \/ InitializeFails \/ RunFails \/ RollbackFails \/ CleanupFails
  \/ Exit \/ Crash \/ StartProcess \/ Tick

Spec == Init /\ [][Next]_vars

\* The thread runs and every run of a task ends; the poller polls; a process that
\* stopped is started again; and who pauses forever clears the pause some day.
\* Pauses and shutdowns are finitely many: one that repeats in time stops every scan.
FairSpec ==
  /\ Spec
  /\ WF_vars(Thread) /\ WF_vars(PollQueue) /\ WF_vars(AcceptStop) /\ WF_vars(MarkPausing)
  /\ WF_vars(Exit) /\ WF_vars(StartProcess) /\ WF_vars(Tick) /\ WF_vars(ClearPause)
=============================================================================
