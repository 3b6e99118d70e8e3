----------------------------- MODULE TaskQueue -----------------------------
(***************************************************************************)
(* The tables tasks and scan_schedules and the statements TaskEntry and    *)
(* Schedule run on them.  The operators take and return whole tables; the  *)
(* transactions they are part of are the actions of TaskManager.           *)
(*                                                                         *)
(* A task is its position in the sequence (task_id is AUTOINCREMENT), and  *)
(* a row that is deleted stays there as Gone.  The scan a task created     *)
(* belongs to it alone, so the state of that row of scans is a field of    *)
(* the task.  Manual tasks are those without a schedule.  What a schedule  *)
(* says about times is left out: its next occurrence is some later time.   *)
(***************************************************************************)
EXTENDS Integers, Sequences, FiniteSets

CONSTANTS
  Roots,
  Settings,    \* hash mode and validation of a scan
  Null,
  MaxSchedules, MaxTasks,  \* bounds: rows requests may create
  MaxWait      \* bound: how far off the next occurrence of a schedule is

ASSUME QueueAssumption ==
  /\ Null \notin Roots \cup Settings
  /\ MaxSchedules \in Nat /\ MaxTasks \in Nat /\ MaxWait \in Nat \ {0}

Terminal == {"Completed", "Stopped", "Error"}
Later(now) == now + 1 .. now + MaxWait

Tasks ==
  [type : {"scan", "compact"},
   status : {"Pending", "Running", "Gone"} \cup Terminal,
   root : Roots \cup {Null},
   schedule : Nat,                \* 0 when NULL
   runAt : Nat,
   settings : Settings \cup {Null},
   scan : {"none", "open"} \cup Terminal]

Schedules ==
  [root : Roots, mode : {"enabled", "disabled", "deleted", "gone"}, settings : Settings]

NewTask(type, r, s, at, set) ==
  [type |-> type, status |-> "Pending", root |-> r, schedule |-> s, runAt |-> at,
   settings |-> set, scan |-> "none"]

Gone == [NewTask("scan", Null, 0, 0, Null) EXCEPT !.status = "Gone"]

In(ts, st) == {t \in DOMAIN ts : ts[t].status = st}
PendingOf_AnySchedule(ts, s) == {t \in In(ts, "Pending") : ts[t].schedule # 0}

PendingOf(ts, s) == {t \in In(ts, "Pending") : ts[t].schedule = s}
Remove(ts, S) == [t \in DOMAIN ts |-> IF t \in S THEN Gone ELSE ts[t]]

\* create_compact_database: one pending row is enough.
CompactQueued(ts) == \E t \in In(ts, "Pending") : ts[t].type = "compact"

Scheduled(s, schedule, at) == NewTask("scan", schedule.root, s, at, schedule.settings)

Reschedule(ts, s, at) ==
  [t \in DOMAIN ts |-> IF t \in PendingOf(ts, s) THEN [ts[t] EXCEPT !.runAt = at] ELSE ts[t]]

\* Schedule::set_enabled, TRUE
EnableIn(ts, s, schedule, at) ==
  IF PendingOf(ts, s) # {} THEN Reschedule(ts, s, at)
                           ELSE Append(ts, Scheduled(s, schedule, at))
-----------------------------------------------------------------------------
(* find_next_pending_task and activate_task *)

Due(ts, now) ==
  {t \in In(ts, "Pending") : ts[t].schedule = 0 \/ ts[t].runAt <= now}

\* ORDER BY source, run_at, task_id
Before(ts, t, u) ==
  LET source(v) == IF ts[v].schedule = 0 THEN 0 ELSE 1
  IN \/ source(t) < source(u)
     \/ source(t) = source(u) /\ ts[t].runAt < ts[u].runAt
     \/ source(t) = source(u) /\ ts[t].runAt = ts[u].runAt /\ t < u

FirstDue(ts, now) == {t \in Due(ts, now) : \A u \in Due(ts, now) \ {t} : Before(ts, t, u)}

NextTasks_PendingFirst(ts, now) ==
  IF Due(ts, now) # {} THEN FirstDue(ts, now) ELSE In(ts, "Running")

\* A task left Running comes before any other.
NextTasks(ts, now) ==
  IF In(ts, "Running") # {} THEN In(ts, "Running") ELSE FirstDue(ts, now)

\* The next occurrence is a copy of the row that starts.
Activate(ts, t, at) ==
  LET started == [ts EXCEPT ![t].status = "Running"]
      s == ts[t].schedule
  IN IF ts[t].status = "Running" THEN ts
     ELSE IF s = 0 \/ PendingOf(started, s) # {} THEN started
     ELSE Append(started, [ts[t] EXCEPT !.runAt = at])
-----------------------------------------------------------------------------
(* delete_root *)

ActiveOn(ts, r) == \E t \in In(ts, "Running") : ts[t].root = r

\* scans.schedule_id references scan_schedules, and the schedules go first.
ScansOfSchedules(ts, r) ==
  {t \in DOMAIN ts : ts[t].root = r /\ ts[t].schedule # 0 /\ ts[t].scan # "none"}

DeleteOutcome(ts, r) ==
  IF ActiveOn(ts, r) THEN "refused"
  ELSE IF ScansOfSchedules(ts, r) # {} THEN "constraint failed" ELSE "deleted"
=============================================================================
