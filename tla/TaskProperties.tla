-------------------------- MODULE TaskProperties --------------------------
(***************************************************************************)
(* What TaskManager promises, and what documents say of it that it does    *)
(* not keep.                                                               *)
(***************************************************************************)
EXTENDS TaskManager

TypeOK ==
  /\ tasks \in Seq(Tasks) /\ schedules \in Seq(Schedules) /\ roots \subseteq Roots
  /\ pauseUntil \in Nat \cup {Forever} /\ isPaused \in BOOLEAN
  /\ current \in {0} \cup DOMAIN tasks
  /\ status \in {"none", "Running", "Stopping", "Pausing"} \cup Terminal
  /\ token \in BOOLEAN /\ loaded \in BOOLEAN
  /\ pc \in {"none", "init", "run", "interrupted", "asked", "rollback", "failed", "cleanup"}
  /\ up \in BOOLEAN /\ isShuttingDown \in BOOLEAN /\ holder \in {"none", "stop", "pause"}
  /\ asked \subseteq DOMAIN tasks

\* At most one row of tasks is Running, and it is the task the manager holds, if it
\* holds any: through crashes, pauses and shutdowns that leave a row Running with
\* nobody behind it, and whatever was queued meanwhile (find_next_pending_task).
OneRunning ==
  /\ Cardinality(In(tasks, "Running")) <= 1
  /\ ~Idle => In(tasks, "Running") = {current}

\* An enabled schedule has one pending task, never two and never none; any other
\* schedule has none.  Activation, toggling, editing and deletion each keep up
\* their part of this (Schedule::set_enabled, activate_task).
OnePendingPerSchedule ==
  \A s \in DOMAIN schedules :
    Cardinality(PendingOf(tasks, s)) = IF schedules[s].mode = "enabled" THEN 1 ELSE 0

\* A scan is rolled back as stopped only if a user stopped that very task: a pause
\* or a shutdown interrupts it with the same token, and neither may be over when
\* the thread asks why it was interrupted (TaskManager::clear_pause).
StoppedOnRequest == \A t \in DOMAIN tasks : tasks[t].scan = "Stopped" => t \in asked

\* When a task is recorded as finished its scan has ended: it has completed or it
\* was rolled back, unless a start, a rollback or a cleanup failed before.  A scan that
\* was only interrupted keeps its task Running, to be resumed (on_task_complete).
FinishedScanEnded ==
  broken = 0 =>
    \A t \in DOMAIN tasks : tasks[t].status \in Terminal => tasks[t].scan # "open"

\* No task, pending or running, outlives its root, though delete_root does not take
\* the manager's mutex (roots.rs).
RootOutlivesTasks ==
  \A t \in In(tasks, "Pending") \cup In(tasks, "Running") : tasks[t].root \in roots \cup {Null}

\* No task starts while a pause is stored that has not run out, not even right after
\* the process has been started again (init_pause_state).
NoStartInPause ==
  [][Idle /\ current' # 0 => pauseUntil' = NoPause]_vars

\* A manual scan that was queued is started some day, or deleted with its root:
\* whatever was stopped, paused, shut down or crashed before it.
ManualScanStarts ==
  \A t \in 1 .. MaxTasks :
    (t \in In(tasks, "Pending") /\ tasks[t].schedule = 0) ~> t \notin In(tasks, "Pending")
StageOf(row) ==
  CASE row.status = "Pending" -> "pending"
    [] row.status = "Gone" -> "gone"
    [] row.status \in Terminal -> IF row.scan = "open" THEN "abandoned" ELSE "done"
    [] row.status = "Running" /\ row.scan = "none" -> "begun"
    [] row.status = "Running" /\ row.scan = "open" -> "scanning"
    [] row.status = "Running" /\ row.scan \in Terminal -> "ended"

Life == INSTANCE TaskLife WITH life <- [t \in DOMAIN tasks |-> StageOf(tasks[t])]

\* Every task lives as TaskLife says: a resumed task goes on with the scan it had,
\* a scan that ended is never taken up again, a finished task never runs again, and
\* nor does one that was given up with its scan open.
LivesOnce == Life!Spec
-----------------------------------------------------------------------------
(* What the documents say *)

\* task_status.rs:16 says of the status Completed: "Finished successfully".
CompletedSuccessfully ==
  \A t \in In(tasks, "Completed") : tasks[t].type = "scan" => tasks[t].scan = "Completed"

\* schedules.rs:682 says that update "atomically updates both the schedule and its
\* Pending task entry", web_ui/setup.md:54 that it modifies "timing or scan options".
PendingFollowsSchedule ==
  \A s \in DOMAIN schedules : \A t \in PendingOf(tasks, s) :
    tasks[t].settings = schedules[s].settings

\* roots.rs:62 says that delete_root deletes "a root and all associated data (scans,
\* items, versions, schedules)"; what may keep it from that is an active scan.
RootCanBeDeleted ==
  \A r \in roots : DeleteOutcome(tasks, r) \in {"deleted", "refused"}

\* scanning.md:19: "Once a scan on a root has begun, it must complete or be
\* explicitly stopped before another scan on the same root can be started."
OneOpenScanPerRoot ==
  \A t, u \in DOMAIN tasks :
    tasks[t].scan = "open" /\ tasks[u].scan = "open" /\ tasks[t].root = tasks[u].root => t = u

\* on_task_complete "cleans up queue and clears active task" (task_manager.rs:409)
\* when a task has finished.
TaskIsCleared == (~Idle /\ status \in Terminal) ~> Idle
=============================================================================
