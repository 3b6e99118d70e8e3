----------------------------- MODULE TaskProofs -----------------------------
(***************************************************************************)
(* What the queue and the task manager keep up, for any number of roots,   *)
(* schedules and tasks, and through any number of pauses, shutdowns,       *)
(* crashes and failures. Three inductive invariants build on each other:   *)
(* TaskInv is about the row that runs, QueueInv about the rows that wait,  *)
(* LifeInv about what the thread knows of why it was interrupted.          *)
(***************************************************************************)
EXTENDS TaskProperties, TaskFeed, FiniteSetTheorems, TLAPS

Running(ts) == In(ts, "Running")
Pending(ts) == In(ts, "Pending")

(***************************************************************************)
(* What holds between any two steps.  The row that the manager holds is    *)
(* Running, whatever was queued, edited or deleted since it was started,   *)
(* and a request holds the mutex between two steps only while there is     *)
(* such a row.                                                             *)
(***************************************************************************)
TaskInv ==
  /\ TypeOK
  /\ now \in Nat
  /\ holder # "none" => ~Idle
  /\ \A t, u \in Running(tasks) : t = u
  /\ ~Idle => current \in Running(tasks)

(***************************************************************************)
(* What the rows of tasks and schedules say of each other.  A pending row  *)
(* has no scan yet; its root exists, and is its schedule's.  A schedule's  *)
(* root outlives it, so that activation never queues a task for a root     *)
(* that is gone.                                                           *)
(***************************************************************************)
OwnRow(row, ss, rs) ==
  /\ row.scan = "none" /\ row.root \in rs \cup {Null}
  /\ row.schedule # 0 => row.schedule \in DOMAIN ss /\ row.root = ss[row.schedule].root

QueueOk(ts, ss, rs) ==
  /\ \A t \in Pending(ts) : OwnRow(ts[t], ss, rs)
  /\ \A t \in Running(ts) : ts[t].root \in rs \cup {Null}
  /\ \A s \in DOMAIN ss : ss[s].mode # "gone" => ss[s].root \in rs
  /\ \A s \in DOMAIN ss : IF ss[s].mode = "enabled" THEN \E t : PendingOf(ts, s) = {t}
                                                    ELSE PendingOf(ts, s) = {}

QueueInv == TaskInv /\ QueueOk(tasks, schedules, roots)

(***************************************************************************)
(* What the thread knows of why it was interrupted: whoever sets the token *)
(* leaves a trace that is still there when the thread looks for one.  The  *)
(* manager's copy of the pause tells whether one is stored.                *)
(***************************************************************************)
ThreadOk ==
  /\ holder = "pause" => isPaused = TRUE
  /\ Idle => pc = "none" /\ status = "none" /\ token = FALSE
  /\ token = TRUE => current \in asked \/ isPaused = TRUE \/ isShuttingDown = TRUE
  /\ pc = "interrupted" => token = TRUE
  /\ pc = "asked" => current \in asked \/ isPaused = TRUE
  /\ pc = "rollback" => current \in asked
  /\ up = TRUE => (isPaused = TRUE <=> pauseUntil # NoPause)
  /\ up # TRUE => Idle

RowsOk ==
  \A t \in DOMAIN tasks :
    /\ tasks[t].scan = "Stopped" => t \in asked
    /\ tasks[t].type = "compact" => tasks[t].scan # "open"

\* As long as no scan failed to start, to be rolled back or to be cleaned up after.
EndOk ==
  /\ pc = "run" => loaded = TRUE \/ Task.type = "compact"
  /\ pc = "failed" => loaded = TRUE \/ Task.scan # "open"
  /\ pc = "cleanup" => isShuttingDown = TRUE \/ isPaused = TRUE \/ Task.scan # "open"
  /\ \A t \in DOMAIN tasks : tasks[t].status \in Terminal => tasks[t].scan # "open"

LifeInv == QueueInv /\ ThreadOk /\ RowsOk /\ broken \in Nat /\ (broken = 0 => EndOk)

\* A scan that is loaded was begun, and still open where on_error finds it.
LoadedOk ==
  /\ Idle => loaded = FALSE
  /\ pc = "init" => loaded = FALSE
  /\ loaded = TRUE => Task.scan # "none"
  /\ pc = "failed" /\ loaded = TRUE => Task.scan = "open"
-----------------------------------------------------------------------------
(* The statements: each leaves a well-formed table, and says which rows of *)
(* it are Running.                                                         *)

LEMMA NewRow ==
  ASSUME NEW r \in Roots \cup {Null}, NEW s \in Nat, NEW at \in Nat,
         NEW set \in Settings \cup {Null}, NEW type \in {"scan", "compact"}
  PROVE  /\ NewTask(type, r, s, at, set) \in Tasks
         /\ NewTask(type, r, s, at, set).status = "Pending"
BY DEF NewTask, Tasks

LEMMA GoneRow == Gone \in Tasks /\ Gone.status = "Gone"
BY DEF Gone, NewTask, Tasks

LEMMA AppendPending ==
  ASSUME NEW ts \in Seq(Tasks), NEW row \in Tasks, row.status = "Pending"
  PROVE  /\ Append(ts, row) \in Seq(Tasks)
         /\ DOMAIN ts \subseteq DOMAIN Append(ts, row)
         /\ Running(Append(ts, row)) = Running(ts)
<1>1. /\ Append(ts, row) \in Seq(Tasks) /\ Len(Append(ts, row)) = Len(ts) + 1
      /\ \A t \in 1 .. Len(ts) : Append(ts, row)[t] = ts[t]
      /\ Append(ts, row)[Len(ts) + 1] = row
      /\ Len(ts) \in Nat
  OBVIOUS
<1>2. DOMAIN ts = 1 .. Len(ts) /\ DOMAIN Append(ts, row) = 1 .. Len(ts) + 1
  BY <1>1
<1> QED
  BY <1>1, <1>2 DEF Running, In

LEMMA RemoveRows ==
  ASSUME NEW ts \in Seq(Tasks), NEW S
  PROVE  /\ Remove(ts, S) \in Seq(Tasks)
         /\ DOMAIN Remove(ts, S) = DOMAIN ts
         /\ Running(Remove(ts, S)) = Running(ts) \ S
<1>1. DOMAIN ts = 1 .. Len(ts) /\ Len(ts) \in Nat /\ \A t \in DOMAIN ts : ts[t] \in Tasks
  OBVIOUS
<1>2. Remove(ts, S) \in [1 .. Len(ts) -> Tasks]
  BY <1>1, GoneRow DEF Remove
<1>3. Remove(ts, S) \in Seq(Tasks)
  BY <1>1, <1>2
<1> QED
  BY <1>1, <1>2, <1>3, GoneRow DEF Running, In, Remove

LEMMA RescheduleRows ==
  ASSUME NEW ts \in Seq(Tasks), NEW s, NEW at \in Nat
  PROVE  /\ Reschedule(ts, s, at) \in Seq(Tasks)
         /\ DOMAIN Reschedule(ts, s, at) = DOMAIN ts
         /\ Running(Reschedule(ts, s, at)) = Running(ts)
<1>1. DOMAIN ts = 1 .. Len(ts) /\ Len(ts) \in Nat /\ \A t \in DOMAIN ts : ts[t] \in Tasks
  OBVIOUS
<1>2. \A t \in DOMAIN ts : [ts[t] EXCEPT !.runAt = at] \in Tasks
                           /\ [ts[t] EXCEPT !.runAt = at].status = ts[t].status
  BY <1>1 DEF Tasks
<1>3. Reschedule(ts, s, at) \in [1 .. Len(ts) -> Tasks]
  BY <1>1, <1>2 DEF Reschedule
<1>4. Reschedule(ts, s, at) \in Seq(Tasks)
  BY <1>1, <1>3
<1>5. \A t \in DOMAIN ts : Reschedule(ts, s, at)[t].status = ts[t].status
  BY <1>1, <1>2 DEF Reschedule
<1> QED
  BY <1>1, <1>3, <1>4, <1>5 DEF Running, In

\* Changing the scan of a row changes nothing else.
LEMMA SetScan ==
  ASSUME NEW ts \in Seq(Tasks), NEW t, NEW st \in {"none", "open"} \cup Terminal
  PROVE  /\ [ts EXCEPT ![t].scan = st] \in Seq(Tasks)
         /\ DOMAIN [ts EXCEPT ![t].scan = st] = DOMAIN ts
         /\ Running([ts EXCEPT ![t].scan = st]) = Running(ts)
<1>1. DOMAIN ts = 1 .. Len(ts) /\ Len(ts) \in Nat /\ \A u \in DOMAIN ts : ts[u] \in Tasks
  OBVIOUS
<1>2. \A u \in DOMAIN ts : [ts[u] EXCEPT !.scan = st] \in Tasks
                           /\ [ts[u] EXCEPT !.scan = st].status = ts[u].status
  BY <1>1 DEF Tasks
<1> DEFINE new == [ts EXCEPT ![t].scan = st]
<1>3. new \in [1 .. Len(ts) -> Tasks] /\ \A u \in DOMAIN ts : new[u].status = ts[u].status
  BY <1>1, <1>2
<1>4. new \in Seq(Tasks)
  BY <1>1, <1>3
<1> QED
  BY <1>1, <1>3, <1>4 DEF Running, In

LEMMA SetStatus ==
  ASSUME NEW ts \in Seq(Tasks), NEW t \in DOMAIN ts, NEW st \in {"Running"} \cup Terminal
  PROVE  /\ [ts EXCEPT ![t].status = st] \in Seq(Tasks)
         /\ DOMAIN [ts EXCEPT ![t].status = st] = DOMAIN ts
         /\ Running([ts EXCEPT ![t].status = st]) =
              IF st = "Running" THEN Running(ts) \cup {t} ELSE Running(ts) \ {t}
<1>1. DOMAIN ts = 1 .. Len(ts) /\ Len(ts) \in Nat /\ \A u \in DOMAIN ts : ts[u] \in Tasks
  OBVIOUS
<1>2. [ts[t] EXCEPT !.status = st] \in Tasks /\ [ts[t] EXCEPT !.status = st].status = st
  BY <1>1 DEF Tasks
<1> DEFINE new == [ts EXCEPT ![t].status = st]
<1>3. /\ new \in [1 .. Len(ts) -> Tasks]
      /\ \A u \in DOMAIN ts : u # t => new[u] = ts[u]
      /\ new[t].status = st
  BY <1>1, <1>2
<1>4. new \in Seq(Tasks)
  BY <1>1, <1>3
<1>5. st = "Running" \/ st # "Running"
  OBVIOUS
<1> QED
  BY <1>1, <1>3, <1>4, <1>5 DEF Running, In, Terminal
-----------------------------------------------------------------------------
(* Starting a task *)

LEMMA LaterIsNat == ASSUME NEW n \in Nat PROVE Later(n) \subseteq Nat
BY QueueAssumption DEF Later

\* A task that starts is the only Running row: it was before, or there was none.
LEMMA ActivateRows ==
  ASSUME NEW ts \in Seq(Tasks), NEW n \in Nat, NEW t \in NextTasks(ts, n), NEW at \in Nat,
         \A u, v \in Running(ts) : u = v
  PROVE  /\ Activate(ts, t, at) \in Seq(Tasks)
         /\ t \in DOMAIN ts /\ DOMAIN ts \subseteq DOMAIN Activate(ts, t, at)
         /\ Running(Activate(ts, t, at)) = {t}
<1>1. t \in DOMAIN ts
  BY DEF NextTasks, In, FirstDue, Due
<1>2. CASE ts[t].status = "Running"
  BY <1>1, <1>2 DEF Activate, Running, In
<1>3. CASE ts[t].status # "Running"
  <2> DEFINE started == [ts EXCEPT ![t].status = "Running"]
             next == [ts[t] EXCEPT !.runAt = at]
  <2>1. Running(ts) = {} /\ ts[t].status = "Pending"
    BY <1>1, <1>3 DEF NextTasks, Running, In, FirstDue, Due
  <2>2. started \in Seq(Tasks) /\ DOMAIN started = DOMAIN ts /\ Running(started) = {t}
    <3>1. "Running" \in {"Running"} \cup Terminal
      OBVIOUS
    <3>2. /\ started \in Seq(Tasks) /\ DOMAIN started = DOMAIN ts
          /\ Running(started) =
               IF "Running" = "Running" THEN Running(ts) \cup {t} ELSE Running(ts) \ {t}
      BY <1>1, <3>1, SetStatus, Zenon
    <3> QED
      BY <2>1, <3>2
  <2>3. next \in Tasks /\ next.status = "Pending"
    <3>1. ts[t] \in Tasks
      BY <1>1
    <3> QED
      BY <2>1, <3>1 DEF Tasks
  <2>4. Activate(ts, t, at) \in {started, Append(started, next)}
    BY <1>3 DEF Activate
  <2> HIDE DEF started, next
  <2> QED
    BY <1>1, <2>2, <2>3, <2>4, AppendPending
<1> QED
  BY <1>2, <1>3

\* The table and the thread after a request or a poll, in which a task may start.
Started ==
  /\ tasks' \in Seq(Tasks) /\ DOMAIN tasks \subseteq DOMAIN tasks'
  /\ \A t, u \in Running(tasks') : t = u
  /\ \/ UNCHANGED thread /\ Running(tasks') = Running(tasks)
     \/ /\ Idle /\ Running(tasks') = {current'} /\ current' \in DOMAIN tasks'
        /\ status' = "Running" /\ token' = FALSE /\ pc' = "init" /\ loaded' = FALSE

LEMMA StartRows ==
  ASSUME TaskInv, Idle, NEW ts \in Seq(Tasks), DOMAIN tasks \subseteq DOMAIN ts,
         Running(ts) = Running(tasks), Start(ts)
  PROVE  Started
<1>1. \A t, u \in Running(ts) : t = u
  BY DEF TaskInv
<1>2. CASE tasks' = ts /\ UNCHANGED thread
  BY <1>1, <1>2 DEF Started
<1>3. CASE \E t \in NextTasks(ts, now), at \in Later(now) :
             /\ tasks' = Activate(ts, t, at)
             /\ current' = t /\ status' = "Running" /\ token' = FALSE
             /\ pc' = "init" /\ loaded' = FALSE
  <2>1. PICK t \in NextTasks(ts, now), at \in Later(now) :
             /\ tasks' = Activate(ts, t, at)
             /\ current' = t /\ status' = "Running" /\ token' = FALSE
             /\ pc' = "init" /\ loaded' = FALSE
    BY <1>3
  <2>2. now \in Nat /\ at \in Nat
    BY LaterIsNat DEF TaskInv
  <2>3. /\ tasks' \in Seq(Tasks) /\ t \in DOMAIN ts /\ DOMAIN ts \subseteq DOMAIN tasks'
        /\ Running(tasks') = {t}
    BY <1>1, <2>1, <2>2, ActivateRows
  <2> QED
    BY <2>1, <2>3 DEF Started
<1> QED
  BY <1>2, <1>3 DEF Start

LEMMA TryStartRows ==
  ASSUME TaskInv, NEW ts \in Seq(Tasks), DOMAIN tasks \subseteq DOMAIN ts,
         Running(ts) = Running(tasks), TryStart(ts)
  PROVE  /\ Started
         /\ pauseUntil' \in Nat \cup {Forever} /\ isPaused' \in BOOLEAN
<1>1. pauseUntil' \in Nat \cup {Forever} /\ isPaused' \in BOOLEAN
  <2>1. \/ pauseUntil' = NoPause /\ isPaused' = FALSE
        \/ UNCHANGED pause
    BY Zenon DEF TryStart
  <2>2. pauseUntil \in Nat \cup {Forever} /\ isPaused \in BOOLEAN
    BY Zenon DEF TaskInv, TypeOK
  <2>3. NoPause \in Nat
    BY DEF NoPause
  <2>4. pause' = pause => pauseUntil' = pauseUntil /\ isPaused' = isPaused
    BY DEF pause
  <2> QED
    BY <2>1, <2>2, <2>3, <2>4, Zenon
<1>2. \/ Idle /\ Start(ts)
      \/ tasks' = ts /\ UNCHANGED thread
  BY Zenon DEF TryStart
<1>3. CASE Idle /\ Start(ts)
  BY <1>1, <1>3, StartRows
<1>4. CASE tasks' = ts /\ UNCHANGED thread
  BY <1>1, <1>4 DEF TaskInv, Started
<1> QED
  BY <1>1, <1>2, <1>3, <1>4

\* Whatever starts a task, or only adds a row, leaves the invariant.
LEMMA StartedInv ==
  ASSUME TaskInv, Started, UNCHANGED <<tables, process, env>>,
         pauseUntil' \in Nat \cup {Forever}, isPaused' \in BOOLEAN,
         Idle => holder = "none"
  PROVE  TaskInv'
<1>1. /\ UNCHANGED <<schedules, roots, up, isShuttingDown, holder, now, asked>>
  BY DEF tables, process, env
<1>2. CASE UNCHANGED thread /\ Running(tasks') = Running(tasks)
  <2>1. UNCHANGED <<current, status, token, pc, loaded>>
    BY <1>2 DEF thread
  <2> QED
    BY <1>1, <1>2, <2>1 DEF TaskInv, TypeOK, Started, Idle, Running
<1>3. CASE ~ (UNCHANGED thread /\ Running(tasks') = Running(tasks))
  BY <1>1, <1>3 DEF TaskInv, TypeOK, Started, Idle, Running
<1> QED
  BY <1>2, <1>3
-----------------------------------------------------------------------------
(* The actions *)

\* Requests that may start a task, and the poller.
Starting ==
  \/ \E r \in Roots, set \in Settings : ScheduleManualScan(r, set)
  \/ ScheduleCompact \/ PollQueue \/ ClearPause

LEMMA StartingRows ==
  ASSUME TaskInv, Starting
  PROVE  /\ Started /\ holder = "none"
         /\ UNCHANGED <<tables, process, env>>
         /\ pauseUntil' \in Nat \cup {Forever} /\ isPaused' \in BOOLEAN
<1> DEFINE goal == /\ Started /\ holder = "none"
                   /\ UNCHANGED <<tables, process, env>>
                   /\ pauseUntil' \in Nat \cup {Forever} /\ isPaused' \in BOOLEAN
<1>1. tasks \in Seq(Tasks)
  BY DEF TaskInv, TypeOK
<1>2. ASSUME NEW r \in Roots, NEW set \in Settings, ScheduleManualScan(r, set)
      PROVE  goal
  <2> DEFINE row == NewTask("scan", r, 0, 0, set)
             ts == Append(tasks, row)
  <2>1. row \in Tasks /\ row.status = "Pending"
    BY NewRow
  <2>2. ts \in Seq(Tasks) /\ DOMAIN tasks \subseteq DOMAIN ts /\ Running(ts) = Running(tasks)
    BY <1>1, <2>1, AppendPending
  <2>3. TryStart(ts) /\ UNCHANGED <<tables, process, env>> /\ holder = "none"
    BY <1>2 DEF ScheduleManualScan, Allowed, Mutex
  <2> HIDE DEF ts
  <2> QED
    BY <2>2, <2>3, TryStartRows
<1>3. ASSUME ScheduleCompact PROVE goal
  <2> DEFINE row == NewTask("compact", Null, 0, 0, Null)
             ts == IF CompactQueued(tasks) THEN tasks ELSE Append(tasks, row)
  <2>1. row \in Tasks /\ row.status = "Pending"
    BY NewRow
  <2>2. ts \in Seq(Tasks) /\ DOMAIN tasks \subseteq DOMAIN ts /\ Running(ts) = Running(tasks)
    BY <1>1, <2>1, AppendPending
  <2>3. TryStart(ts) /\ UNCHANGED <<tables, process, env>> /\ holder = "none"
    BY <1>3 DEF ScheduleCompact, Allowed, Mutex
  <2> HIDE DEF ts
  <2> QED
    BY <2>2, <2>3, TryStartRows
<1>4. ASSUME PollQueue PROVE goal
  <2>1. TryStart(tasks) /\ UNCHANGED <<tables, process, env>> /\ holder = "none"
    BY <1>4 DEF PollQueue, Mutex
  <2> QED
    BY <1>1, <2>1, TryStartRows
<1>5. ASSUME ClearPause PROVE goal
  <2>1. /\ Idle /\ holder = "none" /\ Start(tasks) /\ UNCHANGED <<tables, process, env>>
        /\ pauseUntil' = 0 /\ isPaused' = FALSE
    BY <1>5 DEF ClearPause, Allowed, Mutex, NoPause
  <2>2. Started
    BY <1>1, <2>1, StartRows
  <2>3. pauseUntil' \in Nat \cup {Forever} /\ isPaused' \in BOOLEAN
    BY <2>1
  <2> QED
    BY <2>1, <2>2, <2>3
<1> QED
  BY <1>2, <1>3, <1>4, <1>5 DEF Starting

LEMMA StartingInv ==
  ASSUME TaskInv, Starting
  PROVE  TaskInv'
BY StartingRows, StartedInv

\* Requests that edit schedules and roots leave the Running row alone: they touch
\* pending rows only, or the rows of a root that no Running row is of.
LEMMA EditingInv ==
  ASSUME TaskInv,
         /\ tasks' \in Seq(Tasks) /\ DOMAIN tasks \subseteq DOMAIN tasks'
         /\ Running(tasks') = Running(tasks)
         /\ schedules' \in Seq(Schedules) /\ roots' \subseteq Roots
         /\ UNCHANGED <<pause, thread, process, env>>
  PROVE  TaskInv'
<1>1. /\ UNCHANGED <<pauseUntil, isPaused, current, status, token, pc, loaded>>
      /\ UNCHANGED <<up, isShuttingDown, holder, now, asked>>
  BY DEF pause, thread, process, env
<1> QED
  BY <1>1 DEF TaskInv, TypeOK, Idle, Running

LEMMA ScheduleRow ==
  ASSUME NEW ss \in Seq(Schedules), NEW s \in DOMAIN ss
  PROVE  /\ \A set \in Settings : [ss EXCEPT ![s].settings = set] \in Seq(Schedules)
         /\ \A mode \in {"enabled", "disabled", "deleted", "gone"} :
              /\ [ss EXCEPT ![s].mode = mode] \in Seq(Schedules)
              /\ [ss[s] EXCEPT !.mode = mode] \in Schedules
         /\ s \in Nat /\ ss[s].root \in Roots /\ ss[s].settings \in Settings
<1>1. DOMAIN ss = 1 .. Len(ss) /\ Len(ss) \in Nat /\ \A t \in DOMAIN ss : ss[t] \in Schedules
  OBVIOUS
<1>2. ss \in [1 .. Len(ss) -> Schedules]
  BY <1>1
<1>3. \A set \in Settings : [ss EXCEPT ![s].settings = set] \in [1 .. Len(ss) -> Schedules]
  BY <1>1, <1>2 DEF Schedules
<1>4. \A mode \in {"enabled", "disabled", "deleted", "gone"} :
        /\ [ss[s] EXCEPT !.mode = mode] \in Schedules
        /\ [ss EXCEPT ![s].mode = mode] \in [1 .. Len(ss) -> Schedules]
  BY <1>1, <1>2 DEF Schedules
<1>5. \A q \in [1 .. Len(ss) -> Schedules] : q \in Seq(Schedules)
  BY <1>1
<1>6. s \in Nat /\ ss[s].root \in Roots /\ ss[s].settings \in Settings
  BY <1>1 DEF Schedules
<1> QED
  BY <1>3, <1>4, <1>5, <1>6

Editing ==
  \/ \E r \in Roots, set \in Settings : CreateSchedule(r, set)
  \/ \E s \in DOMAIN schedules :
       \/ \E set \in Settings : UpdateSchedule(s, set)
       \/ Enable(s) \/ Disable(s) \/ DeleteSchedule(s)
  \/ \E r \in Roots : DeleteRoot(r)

LEMMA ScheduleInv ==
  ASSUME TaskInv, Editing
  PROVE  TaskInv'
<1> DEFINE others == UNCHANGED <<pause, thread, process, env>>
<1>1. /\ tasks \in Seq(Tasks) /\ schedules \in Seq(Schedules) /\ roots \subseteq Roots
      /\ now \in Nat
  BY DEF TaskInv, TypeOK
<1>2. ASSUME NEW r \in Roots, NEW set \in Settings, CreateSchedule(r, set)
      PROVE  TaskInv'
  <2> DEFINE schedule == [root |-> r, mode |-> "enabled", settings |-> set]
  <2>1. PICK at \in Later(now) :
          tasks' = Append(tasks, Scheduled(Len(schedules) + 1, schedule, at))
    BY <1>2 DEF CreateSchedule
  <2>2. at \in Nat /\ Len(schedules) + 1 \in Nat
    BY <1>1, LaterIsNat
  <2>3. /\ schedule \in Schedules
        /\ schedules' = Append(schedules, schedule) /\ roots' = roots /\ others
    BY <1>2 DEF CreateSchedule, Schedules
  <2>4. Scheduled(Len(schedules) + 1, schedule, at)
          = NewTask("scan", r, Len(schedules) + 1, at, set)
    BY DEF Scheduled
  <2>5. /\ Scheduled(Len(schedules) + 1, schedule, at) \in Tasks
        /\ Scheduled(Len(schedules) + 1, schedule, at).status = "Pending"
    BY <2>2, <2>4, NewRow
  <2>6. /\ tasks' \in Seq(Tasks) /\ DOMAIN tasks \subseteq DOMAIN tasks'
        /\ Running(tasks') = Running(tasks)
    BY <1>1, <2>1, <2>5, AppendPending
  <2>7. schedules' \in Seq(Schedules)
    BY <1>1, <2>3
  <2> QED
    BY <1>1, <2>3, <2>6, <2>7, EditingInv
<1>3. ASSUME NEW s \in DOMAIN schedules, NEW set \in Settings, UpdateSchedule(s, set)
      PROVE  TaskInv'
  <2>1. PICK at \in Later(now) : tasks' = Reschedule(tasks, s, at)
    BY <1>3 DEF UpdateSchedule
  <2>2. at \in Nat
    BY <1>1, LaterIsNat
  <2>3. /\ tasks' \in Seq(Tasks) /\ DOMAIN tasks \subseteq DOMAIN tasks'
        /\ Running(tasks') = Running(tasks)
    BY <1>1, <2>1, <2>2, RescheduleRows
  <2>4. schedules' \in Seq(Schedules) /\ roots' = roots /\ others
    BY <1>1, <1>3, ScheduleRow DEF UpdateSchedule
  <2> QED
    BY <1>1, <2>3, <2>4, EditingInv
<1>4. ASSUME NEW s \in DOMAIN schedules, Enable(s)
      PROVE  TaskInv'
  <2>1. PICK at \in Later(now) : tasks' = EnableIn(tasks, s, schedules[s], at)
    BY <1>4 DEF Enable
  <2>2. at \in Nat
    BY <1>1, LaterIsNat
  <2>3. /\ Scheduled(s, schedules[s], at) \in Tasks
        /\ Scheduled(s, schedules[s], at).status = "Pending"
    BY <1>1, <2>2, ScheduleRow, NewRow DEF Scheduled
  <2>4. /\ tasks' \in Seq(Tasks) /\ DOMAIN tasks \subseteq DOMAIN tasks'
        /\ Running(tasks') = Running(tasks)
    <3>1. CASE tasks' = Reschedule(tasks, s, at)
      BY <1>1, <2>2, <3>1, RescheduleRows
    <3>2. CASE tasks' = Append(tasks, Scheduled(s, schedules[s], at))
      BY <1>1, <2>3, <3>2, AppendPending
    <3> QED
      BY <2>1, <3>1, <3>2 DEF EnableIn
  <2>5. schedules' \in Seq(Schedules) /\ roots' = roots /\ others
    BY <1>1, <1>4, ScheduleRow DEF Enable
  <2> QED
    BY <1>1, <2>4, <2>5, EditingInv
<1>5. ASSUME NEW s \in DOMAIN schedules, Disable(s) \/ DeleteSchedule(s)
      PROVE  TaskInv'
  <2>1. tasks' = Remove(tasks, PendingOf(tasks, s)) /\ roots' = roots /\ others
    BY <1>5 DEF Disable, DeleteSchedule
  <2>2. Running(tasks) \ PendingOf(tasks, s) = Running(tasks)
    BY DEF Running, PendingOf, In
  <2>3. /\ tasks' \in Seq(Tasks) /\ DOMAIN tasks \subseteq DOMAIN tasks'
        /\ Running(tasks') = Running(tasks)
    BY <1>1, <2>1, <2>2, RemoveRows
  <2>4. schedules' \in Seq(Schedules)
    BY <1>1, <1>5, ScheduleRow DEF Disable, DeleteSchedule
  <2> QED
    BY <1>1, <2>1, <2>3, <2>4, EditingInv
<1>6. ASSUME NEW r \in Roots, DeleteRoot(r)
      PROVE  TaskInv'
  <2> DEFINE ofRoot == {t \in DOMAIN tasks : tasks[t].root = r}
  <2>1. /\ tasks' = Remove(tasks, ofRoot) /\ roots' = roots \ {r} /\ others
        /\ schedules' = [s \in DOMAIN schedules |->
             IF schedules[s].root = r THEN [schedules[s] EXCEPT !.mode = "gone"]
                                      ELSE schedules[s]]
        /\ ~ ActiveOn(tasks, r)
    BY <1>6 DEF DeleteRoot, DeleteOutcome
  <2>2. Running(tasks) \ ofRoot = Running(tasks)
    BY <2>1 DEF Running, ActiveOn
  <2>3. /\ tasks' \in Seq(Tasks) /\ DOMAIN tasks \subseteq DOMAIN tasks'
        /\ Running(tasks') = Running(tasks)
    <3> HIDE DEF ofRoot
    <3> QED
      BY <1>1, <2>1, <2>2, RemoveRows
  <2>4. schedules' \in Seq(Schedules)
    <3>1. /\ DOMAIN schedules = 1 .. Len(schedules) /\ Len(schedules) \in Nat
          /\ \A s \in DOMAIN schedules : schedules[s] \in Schedules
      BY <1>1
    <3>2. \A s \in DOMAIN schedules : [schedules[s] EXCEPT !.mode = "gone"] \in Schedules
      BY <1>1, ScheduleRow
    <3>3. schedules' \in [1 .. Len(schedules) -> Schedules]
      BY <2>1, <3>1, <3>2
    <3> QED
      BY <3>1, <3>3
  <2> QED
    BY <1>1, <2>1, <2>3, <2>4, EditingInv
<1> QED
  BY <1>2, <1>3, <1>4, <1>5, <1>6 DEF Editing

\* Requests to stop, to pause and to shut down.
Interrupting ==
  \/ RequestStop \/ AcceptStop \/ Shutdown \/ MarkPausing
  \/ \E until \in {Forever} \cup 2 .. MaxTime : SetPause(until)

LEMMA InterruptInv ==
  ASSUME TaskInv, Interrupting
  PROVE  TaskInv'
<1>1. UNCHANGED <<tasks, schedules, roots, current, pc, loaded, up, now>>
  BY DEF Interrupting, RequestStop, AcceptStop, Shutdown, SetPause, MarkPausing,
         tables, thread, process, env
<1>2. /\ pauseUntil' \in Nat \cup {Forever} /\ isPaused' \in BOOLEAN
  <2>1. CASE RequestStop \/ AcceptStop \/ Shutdown \/ MarkPausing
    <3>1. UNCHANGED <<pauseUntil, isPaused>>
      BY <2>1 DEF RequestStop, AcceptStop, Shutdown, MarkPausing, pause
    <3> QED
      BY <3>1, Zenon DEF TaskInv, TypeOK
  <2>2. CASE \E until \in {Forever} \cup 2 .. MaxTime : SetPause(until)
    <3>1. {Forever} \cup 2 .. MaxTime \subseteq Nat \cup {Forever}
      BY ManagerAssumption
    <3>2. pauseUntil' \in {Forever} \cup 2 .. MaxTime /\ isPaused' = TRUE
      BY <2>2 DEF SetPause
    <3> QED
      BY <3>1, <3>2
  <2> QED
    BY <2>1, <2>2 DEF Interrupting
<1>3. status' \in {status, "Stopping", "Pausing"} /\ token' \in BOOLEAN
  <2>1. token \in BOOLEAN
    BY Zenon DEF TaskInv, TypeOK
  <2>2. \/ status' = status /\ token' = token
        \/ status' \in {"Stopping", "Pausing"} /\ token' = TRUE
        \/ status' = status /\ token' = (token \/ ~Idle)
    BY DEF Interrupting, RequestStop, AcceptStop, Shutdown, SetPause, MarkPausing, thread
  <2> QED
    BY <2>1, <2>2, Zenon
<1>4. /\ isShuttingDown' \in BOOLEAN /\ holder' \in {"none", "stop", "pause"}
      /\ holder' # "none" => ~Idle
      /\ asked' \subseteq DOMAIN tasks
  <2>1. CASE RequestStop
    BY <2>1 DEF RequestStop, env, TaskInv, TypeOK
  <2>2. CASE AcceptStop
    BY <2>2 DEF AcceptStop, TaskInv, TypeOK, Idle
  <2>3. CASE Shutdown
    <3>1. holder' = holder /\ asked' = asked /\ isShuttingDown' = TRUE
      BY <2>3 DEF Shutdown
    <3> QED
      BY <3>1, Zenon DEF TaskInv, TypeOK
  <2>4. CASE \E until \in {Forever} \cup 2 .. MaxTime : SetPause(until)
    <3>1. /\ holder' \in {"none", "pause"} /\ asked' = asked /\ isShuttingDown' = isShuttingDown
          /\ holder' # "none" => ~Idle
      BY <2>4 DEF SetPause
    <3> QED
      BY <3>1, Zenon DEF TaskInv, TypeOK
  <2>5. CASE MarkPausing
    <3>1. holder' = "none" /\ asked' = asked /\ isShuttingDown' = isShuttingDown
      BY <2>5 DEF MarkPausing, env
    <3> QED
      BY <3>1, Zenon DEF TaskInv, TypeOK
  <2> QED
    BY <2>1, <2>2, <2>3, <2>4, <2>5 DEF Interrupting
<1> QED
  BY <1>1, <1>2, <1>3, <1>4 DEF TaskInv, TypeOK, Idle, Running

\* The thread changes the scan of its row and the status that it will record.
LEMMA ThreadInv ==
  ASSUME TaskInv,
         \/ Initialize \/ RunCompletes \/ RunInterrupted \/ AskShuttingDown \/ AskPaused
         \/ OnStopped \/ OnError \/ InitializeFails \/ RunFails \/ RollbackFails \/ CleanupFails
  PROVE  TaskInv'
<1>1. /\ UNCHANGED <<schedules, roots, pauseUntil, isPaused, up, isShuttingDown, holder>>
      /\ UNCHANGED <<current, token, now, asked>>
  BY DEF Initialize, RunCompletes, RunInterrupted, AskShuttingDown, AskPaused, OnStopped,
         OnError, InitializeFails, RunFails, RollbackFails, CleanupFails, Unscanned, Break,
         Fault, Go, Return, tables, pause, process, env, bounds
<1>2. /\ pc' \in {"none", "init", "run", "interrupted", "asked", "rollback", "failed", "cleanup"}
      /\ status' \in {status} \cup Terminal
  <2>1. "Completed" \in Terminal /\ "Stopped" \in Terminal /\ "Error" \in Terminal
    BY DEF Terminal
  <2> QED
    BY <2>1 DEF Initialize, RunCompletes, RunInterrupted, AskShuttingDown, AskPaused, OnStopped,
                OnError, InitializeFails, RunFails, RollbackFails, CleanupFails, Go, Return
<1>3. loaded' \in BOOLEAN
  <2>1. loaded \in BOOLEAN
    BY Zenon DEF TaskInv, TypeOK
  <2>2. loaded' = loaded \/ loaded' \in BOOLEAN
    BY DEF Initialize, RunCompletes, RunInterrupted, AskShuttingDown, AskPaused, OnStopped,
           OnError, InitializeFails, RunFails, RollbackFails, CleanupFails, Go, Return
  <2> QED
    BY <2>1, <2>2, Zenon
<1>4. \/ tasks' = tasks
      \/ \E st \in {"none", "open"} \cup Terminal : tasks' = [tasks EXCEPT ![current].scan = st]
  BY DEF Initialize, RunCompletes, RunInterrupted, AskShuttingDown, AskPaused, OnStopped,
         OnError, InitializeFails, RunFails, RollbackFails, CleanupFails, Scan, Terminal
<1>5. /\ tasks' \in Seq(Tasks) /\ DOMAIN tasks' = DOMAIN tasks
      /\ Running(tasks') = Running(tasks)
  <2>1. tasks \in Seq(Tasks)
    BY DEF TaskInv, TypeOK
  <2>2. CASE tasks' = tasks
    BY <2>1, <2>2
  <2>3. CASE \E st \in {"none", "open"} \cup Terminal :
               tasks' = [tasks EXCEPT ![current].scan = st]
    <3>1. PICK st \in {"none", "open"} \cup Terminal :
                 tasks' = [tasks EXCEPT ![current].scan = st]
      BY <2>3
    <3>2. /\ [tasks EXCEPT ![current].scan = st] \in Seq(Tasks)
          /\ DOMAIN [tasks EXCEPT ![current].scan = st] = DOMAIN tasks
          /\ Running([tasks EXCEPT ![current].scan = st]) = Running(tasks)
      BY <2>1, SetScan, Zenon
    <3> QED
      BY <3>1, <3>2, Zenon
  <2> QED
    BY <1>4, <2>2, <2>3
<1> QED
  BY <1>1, <1>2, <1>3, <1>5 DEF TaskInv, TypeOK, Idle, Running

\* The end of a task takes its row off the Running ones, or leaves it for whoever
\* starts next.
LEMMA OnTaskCompleteInv ==
  ASSUME TaskInv, OnTaskComplete
  PROVE  TaskInv'
<1>1. /\ UNCHANGED <<schedules, roots, pauseUntil, isPaused, up, isShuttingDown, holder>>
      /\ UNCHANGED <<now, asked>> /\ holder = "none"
      /\ current' = 0 /\ status' = "none" /\ token' = FALSE /\ pc' = "none" /\ loaded' = FALSE
  BY DEF OnTaskComplete, Mutex, NoThread, Unscanned, tables, pause, process, env
<1>2. tasks \in Seq(Tasks)
  BY DEF TaskInv, TypeOK
<1>3. /\ tasks' \in Seq(Tasks) /\ DOMAIN tasks' = DOMAIN tasks
      /\ Running(tasks') \subseteq Running(tasks)
  <2>1. CASE tasks' = tasks
    BY <1>2, <2>1
  <2>2. CASE tasks' = [tasks EXCEPT ![current].status = Recorded(status)] /\ Idle
    <3>1. current \notin DOMAIN tasks
      BY <1>2, <2>2 DEF Idle
    <3>2. tasks' = tasks
      BY <1>2, <2>2, <3>1
    <3> QED
      BY <1>2, <3>2
  <2>3. CASE tasks' = [tasks EXCEPT ![current].status = Recorded(status)] /\ ~Idle
    <3>1. current \in DOMAIN tasks
      BY <2>3 DEF TaskInv, Running, In
    <3>2. Recorded(status) \in Terminal /\ Recorded(status) # "Running"
      BY DEF Recorded, Terminal
    <3> DEFINE st == Recorded(status)
               new == [tasks EXCEPT ![current].status = st]
    <3>3. /\ new \in Seq(Tasks) /\ DOMAIN new = DOMAIN tasks
          /\ Running(new) =
               IF st = "Running" THEN Running(tasks) \cup {current}
                                 ELSE Running(tasks) \ {current}
      BY <1>2, <3>1, <3>2, SetStatus, Zenon
    <3>4. tasks' = new /\ st # "Running"
      BY <2>3, <3>2
    <3> HIDE DEF st, new
    <3> QED
      BY <3>3, <3>4
  <2> QED
    BY <2>1, <2>2, <2>3 DEF OnTaskComplete
<1> QED
  BY <1>1, <1>3 DEF TaskInv, TypeOK, Idle, Running

\* The process and the clock leave the tables alone.
LEMMA ProcessInv ==
  ASSUME TaskInv, Exit \/ Crash \/ StartProcess \/ Tick
  PROVE  TaskInv'
<1>1. UNCHANGED <<tasks, schedules, roots, pauseUntil, asked>>
  BY DEF Exit, Crash, StartProcess, Tick, Fault, tables, pause, env
<1>2. now' \in Nat
  BY DEF Exit, Crash, StartProcess, Tick, Fault, env, TaskInv
<1>3. CASE Exit \/ Crash
  BY <1>1, <1>2, <1>3 DEF Exit, Crash, Die, NoThread, TaskInv, TypeOK, Idle, Running
<1>4. CASE StartProcess \/ Tick
  <2>1. UNCHANGED <<current, status, token, pc, loaded, isShuttingDown, holder>>
    BY <1>4 DEF StartProcess, Tick, thread, process
  <2>2. up' \in BOOLEAN /\ isPaused' \in BOOLEAN
    <3>1. (up' = up \/ up' = TRUE)
          /\ (isPaused' = isPaused \/ isPaused' = (pauseUntil # NoPause))
      BY <1>4 DEF StartProcess, Tick, process, pause
    <3> QED
      BY <3>1, Zenon DEF TaskInv, TypeOK
  <2> QED
    BY <1>1, <1>2, <2>1, <2>2 DEF TaskInv, TypeOK, Idle, Running
<1> QED
  BY <1>3, <1>4

LEMMA InitTaskInv == Init => TaskInv
<1> SUFFICES ASSUME Init PROVE TaskInv
  OBVIOUS
<1>1. tasks = <<>> /\ tasks \in Seq(Tasks) /\ schedules \in Seq(Schedules) /\ DOMAIN tasks = {}
  BY DEF Init
<1> QED
  BY <1>1 DEF Init, TaskInv, TypeOK, Idle, Running, In, NoPause

LEMMA NextTaskInv == TaskInv /\ [Next]_vars => TaskInv'
<1> SUFFICES ASSUME TaskInv, [Next]_vars PROVE TaskInv'
  OBVIOUS
<1>1. CASE UNCHANGED vars
  <2>1. /\ UNCHANGED <<tasks, schedules, roots, pauseUntil, isPaused, current, status, token>>
        /\ UNCHANGED <<pc, loaded, up, isShuttingDown, holder, now, asked>>
    BY <1>1 DEF vars, tables, pause, thread, process, env
  <2> QED
    BY <2>1 DEF TaskInv, TypeOK, Idle, Running
<1>2. CASE Thread
  BY <1>2, ThreadInv, OnTaskCompleteInv DEF Thread
<1>3. CASE Request
  BY <1>3, StartingInv, ScheduleInv, InterruptInv DEF Request, Starting, Editing, Interrupting
<1>4. CASE PollQueue \/ ClearPause \/ AcceptStop \/ MarkPausing
  BY <1>4, StartingInv, InterruptInv DEF Starting, Interrupting
<1>5. CASE InitializeFails \/ RunFails \/ RollbackFails \/ CleanupFails
  BY <1>5, ThreadInv
<1>6. CASE Exit \/ Crash \/ StartProcess \/ Tick
  BY <1>6, ProcessInv
<1> QED
  BY <1>1, <1>2, <1>3, <1>4, <1>5, <1>6 DEF Next
-----------------------------------------------------------------------------
(* Rows that wait: what each statement leaves of QueueOk. *)

LEMMA AppendRow ==
  ASSUME NEW ts \in Seq(Tasks), NEW row \in Tasks
  PROVE  /\ DOMAIN Append(ts, row) = DOMAIN ts \cup {Len(ts) + 1}
         /\ Len(ts) + 1 \notin DOMAIN ts
         /\ Append(ts, row)[Len(ts) + 1] = row
         /\ \A t \in DOMAIN ts : Append(ts, row)[t] = ts[t]
<1>1. DOMAIN ts = 1 .. Len(ts) /\ Len(ts) \in Nat /\ DOMAIN Append(ts, row) = 1 .. Len(ts) + 1
  OBVIOUS
<1>2. /\ \A t \in 1 .. Len(ts) : Append(ts, row)[t] = ts[t]
      /\ Append(ts, row)[Len(ts) + 1] = row
  OBVIOUS
<1> QED
  BY <1>1, <1>2

\* A row that waits for no schedule disturbs none.
LEMMA ManualOk ==
  ASSUME NEW ts \in Seq(Tasks), NEW ss \in Seq(Schedules), NEW rs, QueueOk(ts, ss, rs),
         NEW row \in Tasks, row.status = "Pending", row.schedule = 0, OwnRow(row, ss, rs)
  PROVE  QueueOk(Append(ts, row), ss, rs)
<1> DEFINE us == Append(ts, row)
           n == Len(ts) + 1
<1>1. /\ DOMAIN us = DOMAIN ts \cup {n} /\ n \notin DOMAIN ts /\ us[n] = row
      /\ \A t \in DOMAIN ts : us[t] = ts[t]
  BY AppendRow
<1> HIDE DEF us, n
<1>2. Pending(us) = Pending(ts) \cup {n} /\ Running(us) = Running(ts)
  BY <1>1 DEF Pending, Running, In
<1>3. \A s \in DOMAIN ss : PendingOf(us, s) = PendingOf(ts, s)
  <2>1. \A s \in DOMAIN ss : s # 0
    OBVIOUS
  <2> QED
    BY <1>1, <2>1 DEF PendingOf, In
<1>4. QueueOk(us, ss, rs)
  BY <1>1, <1>2, <1>3 DEF QueueOk, Pending, Running, In
<1> QED
  BY <1>4 DEF us

\* Setting the scan of a row that is not pending, or the time of one that is,
\* keeps the queue.
SameRows(ts, us) ==
  /\ Pending(us) = Pending(ts) /\ Running(us) \subseteq Running(ts)
  /\ \A t \in Pending(ts) : /\ us[t].schedule = ts[t].schedule
                            /\ us[t].root = ts[t].root /\ us[t].scan = ts[t].scan
  /\ \A t \in Running(ts) : us[t].root = ts[t].root

LEMMA SameRowsOk ==
  ASSUME NEW ts, NEW us, NEW ss, NEW rs, QueueOk(ts, ss, rs), SameRows(ts, us)
  PROVE  /\ QueueOk(us, ss, rs)
         /\ \A s : PendingOf(us, s) = PendingOf(ts, s)
<1>1. \A s : PendingOf(us, s) = PendingOf(ts, s)
  BY DEF SameRows, Pending, PendingOf, In
<1> QED
  BY <1>1 DEF SameRows, QueueOk, OwnRow

LEMMA RescheduledSame ==
  ASSUME NEW ts \in Seq(Tasks), NEW s, NEW at \in Nat
  PROVE  SameRows(ts, Reschedule(ts, s, at))
<1>1. \A t \in DOMAIN ts : ts[t] \in Tasks
  OBVIOUS
<1>2. \A t \in DOMAIN ts : LET u == Reschedule(ts, s, at)[t] IN
        /\ u.status = ts[t].status /\ u.schedule = ts[t].schedule
        /\ u.root = ts[t].root /\ u.scan = ts[t].scan
  BY <1>1 DEF Reschedule, Tasks
<1>3. DOMAIN Reschedule(ts, s, at) = DOMAIN ts
  BY DEF Reschedule
<1> QED
  BY <1>2, <1>3 DEF SameRows, Pending, Running, In

LEMMA ScanSame ==
  ASSUME NEW ts \in Seq(Tasks), NEW c, c \notin Pending(ts), NEW st
  PROVE  SameRows(ts, [ts EXCEPT ![c].scan = st])
<1> DEFINE us == [ts EXCEPT ![c].scan = st]
<1>1. \A t \in DOMAIN ts : ts[t] \in Tasks
  OBVIOUS
<1>2. /\ DOMAIN us = DOMAIN ts
      /\ \A t \in DOMAIN ts : us[t].status = ts[t].status /\ us[t].root = ts[t].root
                              /\ us[t].schedule = ts[t].schedule
      /\ \A t \in DOMAIN ts \ {c} : us[t] = ts[t]
  BY <1>1 DEF Tasks
<1> HIDE DEF us
<1>3. SameRows(ts, us)
  BY <1>2 DEF SameRows, Pending, Running, In
<1> QED
  BY <1>3 DEF us

\* The row that is not pending takes a status that is not one of a queued row.
LEMMA DoneSame ==
  ASSUME NEW ts \in Seq(Tasks), NEW c, c \notin Pending(ts), NEW st \in Terminal
  PROVE  SameRows(ts, [ts EXCEPT ![c].status = st])
<1> DEFINE us == [ts EXCEPT ![c].status = st]
<1>1. \A t \in DOMAIN ts : ts[t] \in Tasks
  OBVIOUS
<1>2. st # "Pending" /\ st # "Running"
  BY DEF Terminal
<1>3. /\ DOMAIN us = DOMAIN ts
      /\ \A t \in DOMAIN ts : us[t].root = ts[t].root
      /\ \A t \in DOMAIN ts \ {c} : us[t] = ts[t]
      /\ c \in DOMAIN ts => us[c].status = st
  BY <1>1 DEF Tasks
<1> HIDE DEF us
<1>4. SameRows(ts, us)
  BY <1>2, <1>3 DEF SameRows, Pending, Running, In
<1> QED
  BY <1>4 DEF us

\* The row that starts leaves the queue, and its schedule gets the next one.
LEMMA ActivateOk ==
  ASSUME NEW ts \in Seq(Tasks), NEW ss \in Seq(Schedules), NEW rs, QueueOk(ts, ss, rs),
         NEW n \in Nat, NEW t \in NextTasks(ts, n), NEW at \in Nat
  PROVE  QueueOk(Activate(ts, t, at), ss, rs)
<1>1. t \in DOMAIN ts /\ ts[t].status \in {"Pending", "Running"}
  BY DEF NextTasks, In, FirstDue, Due
<1>2. CASE ts[t].status = "Running"
  BY <1>2 DEF Activate
<1>3. CASE ts[t].status = "Pending"
  <2> DEFINE started == [ts EXCEPT ![t].status = "Running"]
             next == [ts[t] EXCEPT !.runAt = at]
             s == ts[t].schedule
  <2>1. ts[t] \in Tasks /\ t \in Pending(ts)
    BY <1>1, <1>3 DEF Pending, In
  <2>2. /\ DOMAIN started = DOMAIN ts
        /\ \A u \in DOMAIN ts \ {t} : started[u] = ts[u]
        /\ started[t].status = "Running" /\ started[t].root = ts[t].root
        /\ started \in Seq(Tasks)
    <3>1. "Running" \in {"Running"} \cup Terminal
      OBVIOUS
    <3>2. started \in Seq(Tasks)
      BY <1>1, <3>1, SetStatus, Zenon
    <3>3. /\ DOMAIN started = DOMAIN ts
          /\ \A u \in DOMAIN ts \ {t} : started[u] = ts[u]
          /\ started[t].status = "Running" /\ started[t].root = ts[t].root
      BY <1>1, <2>1 DEF Tasks
    <3> HIDE DEF started
    <3> QED
      BY <3>2, <3>3
  <2>3. /\ next \in Tasks /\ next.status = "Pending" /\ next.schedule = s
        /\ OwnRow(next, ss, rs)
    <3>1. OwnRow(ts[t], ss, rs)
      BY <2>1 DEF QueueOk
    <3>2. /\ next \in Tasks /\ next.status = "Pending" /\ next.schedule = s
          /\ next.scan = ts[t].scan /\ next.root = ts[t].root
      BY <1>3, <2>1 DEF Tasks
    <3> HIDE DEF next
    <3> QED
      BY <3>1, <3>2 DEF OwnRow
  <2>4. s \in Nat
    BY <2>1 DEF Tasks
  <2>5. Activate(ts, t, at) =
          IF s = 0 \/ PendingOf(started, s) # {} THEN started ELSE Append(started, next)
    BY <1>3 DEF Activate
  <2>6. Pending(started) = Pending(ts) \ {t} /\ Running(started) \subseteq Running(ts) \cup {t}
    <3> HIDE DEF started
    <3> QED
      BY <1>1, <2>2 DEF Pending, Running, In
  <2>7. \A z : PendingOf(started, z) = PendingOf(ts, z) \ {t}
    <3> HIDE DEF started
    <3> QED
      BY <2>2, <2>6 DEF Pending, PendingOf, In
  <2>8. ts[t].root \in rs \cup {Null}
    BY <2>1 DEF QueueOk, OwnRow
  <2>9. CASE s = 0
    <3>1. \A z \in DOMAIN ss : PendingOf(started, z) = PendingOf(ts, z)
      <4>1. \A z \in DOMAIN ss : z # 0
        OBVIOUS
      <4> QED
        BY <2>7, <2>9, <4>1 DEF PendingOf
    <3>2. QueueOk(started, ss, rs)
      <4> HIDE DEF started
      <4> QED
        BY <2>2, <2>6, <2>8, <3>1 DEF QueueOk, Pending, Running, In
    <3> QED
      BY <2>5, <2>9, <3>2
  <2>10. CASE s # 0
    <3>1. s \in DOMAIN ss /\ t \in PendingOf(ts, s)
      BY <2>1, <2>10 DEF QueueOk, OwnRow, PendingOf, Pending
    <3>2. ss[s].mode = "enabled" /\ PendingOf(ts, s) = {t}
      BY <3>1 DEF QueueOk
    <3>3. PendingOf(started, s) = {} /\ Activate(ts, t, at) = Append(started, next)
      BY <2>5, <2>7, <2>10, <3>2
    <3> DEFINE us == Append(started, next)
               k == Len(started) + 1
    <3>4. /\ DOMAIN us = DOMAIN started \cup {k} /\ k \notin DOMAIN started /\ us[k] = next
          /\ \A u \in DOMAIN started : us[u] = started[u]
      <4> HIDE DEF started, next
      <4> QED
        BY <2>2, <2>3, AppendRow
    <3> HIDE DEF us, k, started, next
    <3>5. /\ Pending(us) = (Pending(ts) \ {t}) \cup {k}
          /\ Running(us) = Running(started)
      BY <2>2, <2>3, <2>6, <3>4 DEF Pending, Running, In
    <3>6. \A z \in DOMAIN ss : z # s => PendingOf(us, z) = PendingOf(ts, z)
      BY <2>2, <2>3, <2>6, <2>7, <3>4, <3>5 DEF Pending, PendingOf, In
    <3>7. PendingOf(us, s) = {k}
      BY <2>2, <2>3, <2>6, <3>3, <3>4, <3>5 DEF Pending, PendingOf, In
    <3>8. \A u \in Pending(us) : OwnRow(us[u], ss, rs)
      BY <2>2, <2>3, <3>4, <3>5 DEF QueueOk, Pending, In
    <3>9. \A u \in Running(us) : us[u].root \in rs \cup {Null}
      BY <2>2, <2>6, <2>8, <3>4, <3>5 DEF QueueOk, Running, In
    <3> QED
      BY <3>2, <3>3, <3>6, <3>7, <3>8, <3>9 DEF QueueOk, us
  <2> QED
    BY <2>9, <2>10
<1> QED
  BY <1>1, <1>2, <1>3

\* A new row for a schedule that has none.
LEMMA QueuedOk ==
  ASSUME NEW ts \in Seq(Tasks), NEW ss \in Seq(Schedules), NEW rs, QueueOk(ts, ss, rs),
         NEW ss2, NEW s \in DOMAIN ss2, DOMAIN ss2 = DOMAIN ss \cup {s},
         \A z \in DOMAIN ss2 \ {s} : ss2[z] = ss[z],
         s \in DOMAIN ss => ss2[s].root = ss[s].root,
         ss2[s].mode = "enabled", ss2[s].root \in rs, PendingOf(ts, s) = {},
         NEW row \in Tasks, row.status = "Pending", row.schedule = s, OwnRow(row, ss2, rs)
  PROVE  QueueOk(Append(ts, row), ss2, rs)
<1> DEFINE us == Append(ts, row)
           k == Len(ts) + 1
<1>1. /\ DOMAIN us = DOMAIN ts \cup {k} /\ k \notin DOMAIN ts /\ us[k] = row
      /\ \A u \in DOMAIN ts : us[u] = ts[u]
  BY AppendRow
<1> HIDE DEF us, k
<1>2. Pending(us) = Pending(ts) \cup {k} /\ Running(us) = Running(ts)
  BY <1>1 DEF Pending, Running, In
<1>3. \A z : z # s => PendingOf(us, z) = PendingOf(ts, z)
  BY <1>1, <1>2 DEF Pending, PendingOf, In
<1>4. PendingOf(us, s) = {k}
  BY <1>1, <1>2 DEF Pending, PendingOf, In
<1>5. \A t \in Pending(ts) : OwnRow(ts[t], ss2, rs)
  <2> SUFFICES ASSUME NEW t \in Pending(ts) PROVE OwnRow(ts[t], ss2, rs)
    OBVIOUS
  <2>1. OwnRow(ts[t], ss, rs)
    BY DEF QueueOk
  <2> QED
    BY <2>1 DEF OwnRow
<1>6. \A t \in Pending(us) : OwnRow(us[t], ss2, rs)
  BY <1>1, <1>2, <1>5 DEF Pending, In
<1>7. \A t \in Running(us) : us[t].root \in rs \cup {Null}
  BY <1>1, <1>2 DEF QueueOk, Running, In
<1>8. \A z \in DOMAIN ss2 : ss2[z].mode # "gone" => ss2[z].root \in rs
  BY DEF QueueOk
<1>9. \A z \in DOMAIN ss2 : IF ss2[z].mode = "enabled" THEN \E t : PendingOf(us, z) = {t}
                                                       ELSE PendingOf(us, z) = {}
  BY <1>3, <1>4 DEF QueueOk
<1> QED
  BY <1>6, <1>7, <1>8, <1>9 DEF QueueOk, us

\* Settings are not what the queue depends on.
LEMMA EditedOk ==
  ASSUME NEW ts, NEW ss, NEW rs, QueueOk(ts, ss, rs), NEW ss2, DOMAIN ss2 = DOMAIN ss,
         \A z \in DOMAIN ss : ss2[z].root = ss[z].root /\ ss2[z].mode = ss[z].mode
  PROVE  QueueOk(ts, ss2, rs)
BY DEF QueueOk, OwnRow

\* Rows go together with the schedules that they wait for, or with the root.
LEMMA RemovedOk ==
  ASSUME NEW ts \in Seq(Tasks), NEW ss, NEW rs, QueueOk(ts, ss, rs),
         NEW S, NEW ss2, NEW rs2, DOMAIN ss2 = DOMAIN ss,
         \A z \in DOMAIN ss : ss2[z].root = ss[z].root,
         \A z \in DOMAIN ss : \/ ss2[z].mode = ss[z].mode /\ PendingOf(ts, z) \cap S = {}
                              \/ ss2[z].mode # "enabled" /\ PendingOf(ts, z) \subseteq S,
         \A z \in DOMAIN ss : ss2[z].mode # "gone" => ss[z].root \in rs2,
         \A t \in DOMAIN ts \ S : ts[t].root \in rs \cup {Null} => ts[t].root \in rs2 \cup {Null}
  PROVE  QueueOk(Remove(ts, S), ss2, rs2)
<1> DEFINE us == Remove(ts, S)
<1>1. /\ DOMAIN us = DOMAIN ts /\ \A t \in DOMAIN ts \ S : us[t] = ts[t]
      /\ \A t \in DOMAIN ts \cap S : us[t].status = "Gone"
  BY GoneRow DEF Remove
<1> HIDE DEF us
<1>2. Pending(us) = Pending(ts) \ S /\ Running(us) = Running(ts) \ S
  BY <1>1 DEF Pending, Running, In
<1>3. \A z : PendingOf(us, z) = PendingOf(ts, z) \ S
  BY <1>1, <1>2 DEF Pending, PendingOf, In
<1>4. \A t \in Pending(us) : OwnRow(us[t], ss2, rs2)
  <2> SUFFICES ASSUME NEW t \in Pending(us) PROVE OwnRow(us[t], ss2, rs2)
    OBVIOUS
  <2>1. OwnRow(ts[t], ss, rs) /\ us[t] = ts[t] /\ t \in DOMAIN ts \ S
    BY <1>1, <1>2 DEF QueueOk, Pending, In
  <2> QED
    BY <2>1 DEF OwnRow
<1>5. \A t \in Running(us) : us[t].root \in rs2 \cup {Null}
  BY <1>1, <1>2 DEF QueueOk, Running, In
<1>6. \A z \in DOMAIN ss2 : IF ss2[z].mode = "enabled" THEN \E t : PendingOf(us, z) = {t}
                                                       ELSE PendingOf(us, z) = {}
  BY <1>3 DEF QueueOk
<1> QED
  BY <1>4, <1>5, <1>6 DEF QueueOk, us
-----------------------------------------------------------------------------
(* ... and each action. *)

LEMMA StartOk ==
  ASSUME TaskInv, NEW ts \in Seq(Tasks), QueueOk(ts, schedules, roots),
         Start(ts) \/ TryStart(ts)
  PROVE  QueueOk(tasks', schedules, roots)
<1>1. schedules \in Seq(Schedules) /\ now \in Nat
  BY DEF TaskInv, TypeOK
<1>2. \/ tasks' = ts
      \/ \E t \in NextTasks(ts, now), at \in Later(now) : tasks' = Activate(ts, t, at)
  BY Zenon DEF Start, TryStart
<1>3. Later(now) \subseteq Nat
  BY <1>1, LaterIsNat
<1> QED
  BY <1>1, <1>2, <1>3, ActivateOk

LEMMA StartingOk ==
  ASSUME QueueInv, Starting
  PROVE  QueueOk(tasks', schedules', roots')
<1>1. /\ tasks \in Seq(Tasks) /\ schedules \in Seq(Schedules) /\ TaskInv
      /\ QueueOk(tasks, schedules, roots)
  BY DEF QueueInv, TaskInv, TypeOK
<1>2. UNCHANGED <<schedules, roots>>
  BY DEF Starting, ScheduleManualScan, ScheduleCompact, PollQueue, ClearPause, tables
<1>3. ASSUME NEW r \in Roots, NEW set \in Settings, ScheduleManualScan(r, set)
      PROVE  QueueOk(tasks', schedules, roots)
  <2> DEFINE row == NewTask("scan", r, 0, 0, set)
             ts == Append(tasks, row)
  <2>1. row \in Tasks /\ row.status = "Pending"
    BY NewRow
  <2>2. row.schedule = 0 /\ OwnRow(row, schedules, roots)
    BY <1>3 DEF ScheduleManualScan, OwnRow, NewTask
  <2>3. TryStart(ts)
    BY <1>3 DEF ScheduleManualScan
  <2>4. ts \in Seq(Tasks)
    BY <1>1, <2>1, AppendPending
  <2> HIDE DEF row
  <2>5. QueueOk(ts, schedules, roots)
    BY <1>1, <2>1, <2>2, ManualOk
  <2> HIDE DEF ts
  <2> QED
    BY <1>1, <2>3, <2>4, <2>5, StartOk
<1>4. ASSUME ScheduleCompact PROVE QueueOk(tasks', schedules, roots)
  <2> DEFINE row == NewTask("compact", Null, 0, 0, Null)
             ts == IF CompactQueued(tasks) THEN tasks ELSE Append(tasks, row)
  <2>1. row \in Tasks /\ row.status = "Pending"
    BY NewRow
  <2>2. row.schedule = 0 /\ OwnRow(row, schedules, roots)
    BY DEF OwnRow, NewTask
  <2>3. TryStart(ts)
    BY <1>4 DEF ScheduleCompact
  <2>4. ts \in Seq(Tasks)
    BY <1>1, <2>1, AppendPending
  <2> HIDE DEF row
  <2>5. QueueOk(ts, schedules, roots)
    BY <1>1, <2>1, <2>2, ManualOk
  <2> HIDE DEF ts
  <2> QED
    BY <1>1, <2>3, <2>4, <2>5, StartOk
<1>5. ASSUME PollQueue \/ ClearPause PROVE QueueOk(tasks', schedules, roots)
  <2>1. Start(tasks) \/ TryStart(tasks)
    BY <1>5 DEF PollQueue, ClearPause
  <2> QED
    BY <1>1, <2>1, StartOk
<1>6. QueueOk(tasks', schedules, roots)
  BY <1>3, <1>4, <1>5 DEF Starting
<1> QED
  BY <1>2, <1>6

LEMMA EditingOk ==
  ASSUME QueueInv, Editing
  PROVE  QueueOk(tasks', schedules', roots')
<1>1. /\ tasks \in Seq(Tasks) /\ schedules \in Seq(Schedules) /\ roots \subseteq Roots
      /\ now \in Nat /\ TaskInv
      /\ QueueOk(tasks, schedules, roots)
      /\ \A z \in DOMAIN schedules : schedules[z] \in Schedules
      /\ DOMAIN schedules = 1 .. Len(schedules) /\ Len(schedules) \in Nat
  BY DEF QueueInv, TaskInv, TypeOK
<1>2. ASSUME NEW r \in Roots, NEW set \in Settings, CreateSchedule(r, set)
      PROVE  QueueOk(tasks', schedules', roots')
  <2> DEFINE schedule == [root |-> r, mode |-> "enabled", settings |-> set]
             s == Len(schedules) + 1
             ss2 == Append(schedules, schedule)
  <2>1. PICK at \in Later(now) : tasks' = Append(tasks, Scheduled(s, schedule, at))
    BY <1>2 DEF CreateSchedule
  <2> DEFINE row == Scheduled(s, schedule, at)
  <2>2. at \in Nat /\ s \in Nat
    BY <1>1, LaterIsNat
  <2>3. /\ schedule \in Schedules /\ r \in roots
        /\ schedules' = ss2 /\ roots' = roots
    BY <1>2 DEF CreateSchedule, Schedules
  <2>4. row = NewTask("scan", r, s, at, set)
    BY DEF Scheduled
  <2>5. row \in Tasks /\ row.status = "Pending" /\ row.schedule = s
    <3>1. NewTask("scan", r, s, at, set).schedule = s
      BY DEF NewTask
    <3> HIDE DEF row, s
    <3> QED
      BY <2>2, <2>4, <3>1, NewRow
  <2>6. /\ DOMAIN ss2 = DOMAIN schedules \cup {s} /\ s \in DOMAIN ss2 /\ s \notin DOMAIN schedules
        /\ \A z \in DOMAIN ss2 \ {s} : ss2[z] = schedules[z]
        /\ ss2[s] = schedule
    BY <1>1, <2>3
  <2>7. PendingOf(tasks, s) = {}
    <3>1. s # 0
      BY <1>1
    <3> QED
      BY <1>1, <2>6, <3>1 DEF QueueOk, OwnRow, PendingOf, Pending
  <2>8. OwnRow(row, ss2, roots)
    BY <2>3, <2>4, <2>6 DEF OwnRow, NewTask
  <2>9. ss2[s].mode = "enabled" /\ ss2[s].root \in roots
    BY <2>3, <2>6
  <2> HIDE DEF ss2, row, s
  <2>10. QueueOk(Append(tasks, row), ss2, roots)
    BY <1>1, <2>5, <2>6, <2>7, <2>8, <2>9, QueuedOk
  <2> QED
    BY <2>1, <2>3, <2>10 DEF row
<1>3. ASSUME NEW s \in DOMAIN schedules, NEW set \in Settings, UpdateSchedule(s, set)
      PROVE  QueueOk(tasks', schedules', roots')
  <2>1. PICK at \in Later(now) : tasks' = Reschedule(tasks, s, at)
    BY <1>3 DEF UpdateSchedule
  <2>2. at \in Nat
    BY <1>1, LaterIsNat
  <2>3. QueueOk(tasks', schedules, roots)
    BY <1>1, <2>1, <2>2, RescheduledSame, SameRowsOk
  <2>4. roots' = roots /\ schedules' = [schedules EXCEPT ![s].settings = set]
    BY <1>3 DEF UpdateSchedule
  <2>5. /\ DOMAIN schedules' = DOMAIN schedules
        /\ \A z \in DOMAIN schedules : /\ schedules'[z].root = schedules[z].root
                                       /\ schedules'[z].mode = schedules[z].mode
    BY <1>1, <2>4 DEF Schedules
  <2> QED
    BY <2>3, <2>4, <2>5, EditedOk
<1>4. ASSUME NEW s \in DOMAIN schedules, Enable(s)
      PROVE  QueueOk(tasks', schedules', roots')
  <2>1. PICK at \in Later(now) : tasks' = EnableIn(tasks, s, schedules[s], at)
    BY <1>4 DEF Enable
  <2>2. at \in Nat /\ s \in Nat
    BY <1>1, LaterIsNat
  <2>3. roots' = roots /\ schedules' = [schedules EXCEPT ![s].mode = "enabled"] /\ Kept(s)
    BY <1>4 DEF Enable
  <2>4. /\ DOMAIN schedules' = DOMAIN schedules
        /\ \A z \in DOMAIN schedules : schedules'[z].root = schedules[z].root
        /\ \A z \in DOMAIN schedules \ {s} : schedules'[z] = schedules[z]
        /\ schedules'[s].mode = "enabled"
    BY <1>1, <2>3 DEF Schedules
  <2>5. schedules[s].root \in roots
    BY <1>1, <2>3 DEF QueueOk, Kept
  <2>6. CASE PendingOf(tasks, s) # {}
    <3>1. schedules[s].mode = "enabled"
      BY <1>1, <2>6 DEF QueueOk
    <3>2. tasks' = Reschedule(tasks, s, at)
      BY <2>1, <2>6 DEF EnableIn
    <3>3. QueueOk(tasks', schedules, roots)
      BY <1>1, <2>2, <3>2, RescheduledSame, SameRowsOk
    <3>4. \A z \in DOMAIN schedules : schedules'[z].mode = schedules[z].mode
      BY <2>4, <3>1
    <3> QED
      BY <2>3, <2>4, <3>3, <3>4, EditedOk
  <2>7. CASE PendingOf(tasks, s) = {}
    <3> DEFINE row == Scheduled(s, schedules[s], at)
               ss2 == schedules'
    <3>1. /\ row \in Tasks /\ row.status = "Pending" /\ row.schedule = s
          /\ row.root = schedules[s].root /\ row.scan = "none"
      <4>1. /\ schedules[s].root \in Roots \cup {Null}
            /\ schedules[s].settings \in Settings \cup {Null}
        BY <1>1 DEF Schedules
      <4> QED
        BY <2>2, <4>1, NewRow DEF Scheduled, NewTask
    <3>2. tasks' = Append(tasks, row)
      BY <2>1, <2>7 DEF EnableIn
    <3>3. OwnRow(row, ss2, roots)
      <4> HIDE DEF row
      <4> QED
        BY <2>4, <2>5, <3>1 DEF OwnRow
    <3>4. /\ DOMAIN ss2 = DOMAIN schedules \cup {s} /\ s \in DOMAIN ss2
          /\ \A z \in DOMAIN ss2 \ {s} : ss2[z] = schedules[z]
          /\ ss2[s].root = schedules[s].root
          /\ ss2[s].mode = "enabled" /\ ss2[s].root \in roots
      BY <2>4, <2>5
    <3> HIDE DEF row, ss2
    <3>5. QueueOk(Append(tasks, row), ss2, roots)
      BY <1>1, <2>7, <3>1, <3>3, <3>4, QueuedOk
    <3> QED
      BY <2>3, <3>2, <3>5 DEF ss2
  <2> QED
    BY <2>6, <2>7
<1>5. ASSUME NEW s \in DOMAIN schedules, Disable(s) \/ DeleteSchedule(s)
      PROVE  QueueOk(tasks', schedules', roots')
  <2> DEFINE S == PendingOf(tasks, s)
  <2>1. PICK mode \in {"disabled", "deleted"} :
          /\ tasks' = Remove(tasks, S) /\ roots' = roots /\ Kept(s)
          /\ schedules' = [schedules EXCEPT ![s].mode = mode]
    BY <1>5 DEF Disable, DeleteSchedule
  <2>2. /\ DOMAIN schedules' = DOMAIN schedules
        /\ \A z \in DOMAIN schedules : schedules'[z].root = schedules[z].root
        /\ \A z \in DOMAIN schedules \ {s} : schedules'[z] = schedules[z]
        /\ schedules'[s].mode = mode
    BY <1>1, <2>1 DEF Schedules
  <2>3. \A z \in DOMAIN schedules :
          \/ schedules'[z].mode = schedules[z].mode /\ PendingOf(tasks, z) \cap S = {}
          \/ schedules'[z].mode # "enabled" /\ PendingOf(tasks, z) \subseteq S
    BY <2>2 DEF PendingOf
  <2>4. \A z \in DOMAIN schedules : schedules'[z].mode # "gone" => schedules[z].root \in roots
    BY <1>1, <2>1, <2>2 DEF QueueOk, Kept
  <2> HIDE DEF S
  <2> QED
    BY <1>1, <2>1, <2>2, <2>3, <2>4, RemovedOk
<1>6. ASSUME NEW r \in Roots, DeleteRoot(r)
      PROVE  QueueOk(tasks', schedules', roots')
  <2> DEFINE S == {t \in DOMAIN tasks : tasks[t].root = r}
  <2>1. /\ tasks' = Remove(tasks, S) /\ roots' = roots \ {r}
        /\ schedules' = [s \in DOMAIN schedules |->
             IF schedules[s].root = r THEN [schedules[s] EXCEPT !.mode = "gone"]
                                      ELSE schedules[s]]
    BY <1>6 DEF DeleteRoot
  <2>2. /\ DOMAIN schedules' = DOMAIN schedules
        /\ \A z \in DOMAIN schedules :
             /\ schedules'[z].root = schedules[z].root
             /\ schedules[z].root = r => schedules'[z].mode = "gone"
             /\ schedules[z].root # r => schedules'[z] = schedules[z]
    BY <1>1, <2>1 DEF Schedules
  <2>3. \A z \in DOMAIN schedules : \A t \in PendingOf(tasks, z) :
          tasks[t].root = schedules[z].root /\ t \in DOMAIN tasks
    <3>1. \A z \in DOMAIN schedules : z # 0
      BY <1>1
    <3> QED
      BY <1>1, <3>1 DEF QueueOk, OwnRow, PendingOf, Pending, In
  <2>4. \A z \in DOMAIN schedules :
          \/ schedules'[z].mode = schedules[z].mode /\ PendingOf(tasks, z) \cap S = {}
          \/ schedules'[z].mode # "enabled" /\ PendingOf(tasks, z) \subseteq S
    BY <2>2, <2>3
  <2>5. \A z \in DOMAIN schedules : schedules'[z].mode # "gone" => schedules[z].root \in roots \ {r}
    BY <1>1, <2>2 DEF QueueOk
  <2>6. \A t \in DOMAIN tasks \ S :
          tasks[t].root \in roots \cup {Null} => tasks[t].root \in (roots \ {r}) \cup {Null}
    OBVIOUS
  <2> HIDE DEF S
  <2> QED
    BY <1>1, <2>1, <2>2, <2>4, <2>5, <2>6, RemovedOk
<1> QED
  BY <1>2, <1>3, <1>4, <1>5, <1>6 DEF Editing

\* The thread writes to the row that runs; all else leaves the tables alone.
LEMMA QuietOk ==
  ASSUME QueueInv,
         \/ Thread \/ InitializeFails \/ RunFails \/ RollbackFails \/ CleanupFails
         \/ RequestStop \/ AcceptStop \/ Shutdown \/ MarkPausing
         \/ \E until \in {Forever} \cup 2 .. MaxTime : SetPause(until)
         \/ Exit \/ Crash \/ StartProcess \/ Tick \/ UNCHANGED vars
  PROVE  QueueOk(tasks', schedules', roots')
<1>1. /\ tasks \in Seq(Tasks) /\ QueueOk(tasks, schedules, roots)
  BY DEF QueueInv, TaskInv, TypeOK
<1>2. current \notin Pending(tasks)
  BY <1>1 DEF QueueInv, TaskInv, Pending, Running, In, Idle
<1>3. UNCHANGED <<schedules, roots>>
  BY DEF Thread, Initialize, RunCompletes, RunInterrupted, AskShuttingDown, AskPaused, OnStopped,
         OnError, OnTaskComplete, InitializeFails, RunFails, RollbackFails, CleanupFails,
         RequestStop, AcceptStop, Shutdown, SetPause, MarkPausing, Exit, Crash, StartProcess, Tick,
         Unscanned, tables, vars
<1>4. \/ tasks' = tasks
      \/ \E st : tasks' = [tasks EXCEPT ![current].scan = st]
      \/ \E st \in Terminal : tasks' = [tasks EXCEPT ![current].status = st]
  <2>1. Recorded(status) \in Terminal
    BY DEF Recorded, Terminal
  <2>2. CASE Thread
    BY <2>1, <2>2 DEF Thread, Initialize, RunCompletes, RunInterrupted, AskShuttingDown, AskPaused,
           OnStopped, OnError, OnTaskComplete, Scan
  <2>3. CASE ~Thread
    BY <2>3 DEF InitializeFails, RunFails, RollbackFails, CleanupFails,
           RequestStop, AcceptStop, Shutdown, SetPause, MarkPausing, Exit, Crash, StartProcess,
           Tick, vars
  <2> QED
    BY <2>2, <2>3
<1>5. tasks' = tasks \/ SameRows(tasks, tasks')
  <2>1. ASSUME NEW st, tasks' = [tasks EXCEPT ![current].scan = st]
        PROVE  SameRows(tasks, tasks')
    BY <1>1, <1>2, <2>1, ScanSame, Zenon
  <2>2. ASSUME NEW st \in Terminal, tasks' = [tasks EXCEPT ![current].status = st]
        PROVE  SameRows(tasks, tasks')
    BY <1>1, <1>2, <2>2, DoneSame, Zenon
  <2> QED
    BY <1>4, <2>1, <2>2
<1> QED
  BY <1>1, <1>3, <1>5, SameRowsOk

LEMMA NextQueueInv == QueueInv /\ [Next]_vars => QueueInv'
<1> SUFFICES ASSUME QueueInv, [Next]_vars PROVE QueueInv'
  OBVIOUS
<1>1. TaskInv'
  BY NextTaskInv DEF QueueInv
<1>2. QueueOk(tasks', schedules', roots')
  BY StartingOk, EditingOk, QuietOk DEF Next, Request, Starting, Editing
<1> QED
  BY <1>1, <1>2 DEF QueueInv

LEMMA InitQueueInv == Init => QueueInv
<1> SUFFICES ASSUME Init PROVE QueueInv
  OBVIOUS
<1>1. tasks = <<>> /\ schedules = <<>> /\ DOMAIN tasks = {} /\ DOMAIN schedules = {}
  BY DEF Init
<1>2. QueueOk(tasks, schedules, roots)
  BY <1>1 DEF QueueOk, Pending, Running, In
<1> QED
  BY <1>2, InitTaskInv DEF QueueInv
-----------------------------------------------------------------------------
(* The row that runs, its scan and its thread. *)

\* What requests do to a row: it is new, or it is deleted and was not Running, or it
\* keeps its scan and at most starts.
Derived(ts, us) ==
  /\ DOMAIN ts \subseteq DOMAIN us
  /\ \A t \in DOMAIN us \ DOMAIN ts : us[t].scan = "none" /\ us[t].status \in {"Pending", "Running"}
  /\ \A t \in DOMAIN ts :
       \/ ts[t].status # "Running" /\ us[t].scan = "none" /\ us[t].status = "Gone"
       \/ /\ us[t].scan = ts[t].scan /\ us[t].type = ts[t].type
          /\ us[t].status # ts[t].status => ts[t].status = "Pending" /\ us[t].status = "Running"

NoneGone(ts, us) ==
  \A t \in DOMAIN us : us[t].status = "Gone" => t \in DOMAIN ts /\ ts[t].status = "Gone"

LEMMA DerivedTrans ==
  ASSUME NEW ts, NEW us, NEW ws, Derived(ts, us), Derived(us, ws), NoneGone(us, ws)
  PROVE  Derived(ts, ws)
BY DEF Derived, NoneGone

LEMMA AppendDerived ==
  ASSUME NEW ts \in Seq(Tasks), NEW row \in Tasks, row.scan = "none", row.status = "Pending"
  PROVE  Derived(ts, Append(ts, row)) /\ NoneGone(ts, Append(ts, row))
<1> DEFINE us == Append(ts, row)
           k == Len(ts) + 1
<1>1. /\ DOMAIN us = DOMAIN ts \cup {k} /\ k \notin DOMAIN ts /\ us[k] = row
      /\ \A u \in DOMAIN ts : us[u] = ts[u]
  BY AppendRow
<1> HIDE DEF us, k
<1>2. Derived(ts, us) /\ NoneGone(ts, us)
  BY <1>1 DEF Derived, NoneGone
<1> QED
  BY <1>2 DEF us

LEMMA RemoveDerived ==
  ASSUME NEW ts \in Seq(Tasks), NEW S, S \cap Running(ts) = {}
  PROVE  Derived(ts, Remove(ts, S))
<1>1. Gone.scan = "none"
  BY DEF Gone, NewTask
<1> QED
  BY <1>1, GoneRow DEF Derived, Remove, Running, In

LEMMA RescheduleDerived ==
  ASSUME NEW ts \in Seq(Tasks), NEW s, NEW at
  PROVE  Derived(ts, Reschedule(ts, s, at))
<1>1. \A t \in DOMAIN ts : ts[t] \in Tasks
  OBVIOUS
<1>2. \A t \in DOMAIN ts : LET u == Reschedule(ts, s, at)[t] IN
        u.status = ts[t].status /\ u.type = ts[t].type /\ u.scan = ts[t].scan
  BY <1>1 DEF Reschedule, Tasks
<1>3. DOMAIN Reschedule(ts, s, at) = DOMAIN ts
  BY DEF Reschedule
<1> QED
  BY <1>2, <1>3 DEF Derived

LEMMA ActivateDerived ==
  ASSUME NEW ts \in Seq(Tasks), NEW ss, NEW rs, QueueOk(ts, ss, rs),
         NEW n \in Nat, NEW t \in NextTasks(ts, n), NEW at \in Nat
  PROVE  Derived(ts, Activate(ts, t, at)) /\ NoneGone(ts, Activate(ts, t, at))
<1>1. t \in DOMAIN ts /\ ts[t].status \in {"Pending", "Running"} /\ ts[t] \in Tasks
  BY DEF NextTasks, In, FirstDue, Due
<1> DEFINE started == [ts EXCEPT ![t].status = "Running"]
           next == [ts[t] EXCEPT !.runAt = at]
<1>2. CASE ts[t].status = "Running"
  BY <1>2 DEF Activate, Derived, NoneGone
<1>3. CASE ts[t].status = "Pending"
  <2>1. ts[t].scan = "none"
    BY <1>1, <1>3 DEF QueueOk, OwnRow, Pending, In
  <2>2. next \in Tasks /\ next.status = "Pending" /\ next.scan = "none"
    BY <1>1, <1>3, <2>1 DEF Tasks
  <2>3. started \in Seq(Tasks)
    <3>1. "Running" \in {"Running"} \cup Terminal
      OBVIOUS
    <3> QED
      BY <1>1, <3>1, SetStatus, Zenon
  <2>4. /\ DOMAIN started = DOMAIN ts
        /\ \A u \in DOMAIN ts \ {t} : started[u] = ts[u]
        /\ started[t].status = "Running" /\ started[t].scan = ts[t].scan
        /\ started[t].type = ts[t].type
    BY <1>1 DEF Tasks
  <2>5. Activate(ts, t, at) \in {started, Append(started, next)}
    BY <1>3 DEF Activate
  <2> HIDE DEF started, next
  <2>6. Derived(ts, started) /\ NoneGone(ts, started)
    BY <1>3, <2>4 DEF Derived, NoneGone
  <2>7. Derived(ts, Append(started, next)) /\ NoneGone(ts, Append(started, next))
    <3>1. Derived(started, Append(started, next)) /\ NoneGone(started, Append(started, next))
      BY <2>2, <2>3, AppendDerived
    <3> QED
      BY <2>4, <2>6, <3>1, DerivedTrans DEF NoneGone
  <2> QED
    BY <2>5, <2>6, <2>7
<1> QED
  BY <1>1, <1>2, <1>3

LEMMA StartDerived ==
  ASSUME TaskInv, NEW ts \in Seq(Tasks), QueueOk(ts, schedules, roots),
         DOMAIN tasks \subseteq DOMAIN ts, Derived(tasks, ts),
         Start(ts) \/ TryStart(ts)
  PROVE  Derived(tasks, tasks')
<1>1. now \in Nat
  BY DEF TaskInv
<1>2. \/ tasks' = ts
      \/ \E t \in NextTasks(ts, now), at \in Later(now) : tasks' = Activate(ts, t, at)
  BY Zenon DEF Start, TryStart
<1>3. Later(now) \subseteq Nat
  BY <1>1, LaterIsNat
<1>4. CASE tasks' = ts
  BY <1>4
<1>5. ASSUME NEW t \in NextTasks(ts, now), NEW at \in Later(now), tasks' = Activate(ts, t, at)
      PROVE  Derived(tasks, tasks')
  <2> DEFINE us == Activate(ts, t, at)
  <2>1. Derived(ts, us) /\ NoneGone(ts, us)
    BY <1>1, <1>3, ActivateDerived
  <2> HIDE DEF us
  <2>2. Derived(tasks, us)
    BY <2>1, DerivedTrans
  <2> QED
    BY <1>5, <2>2 DEF us
<1> QED
  BY <1>2, <1>4, <1>5

LEMMA StartingDerived ==
  ASSUME QueueInv, Starting
  PROVE  Derived(tasks, tasks')
<1>1. /\ tasks \in Seq(Tasks) /\ schedules \in Seq(Schedules) /\ TaskInv
      /\ QueueOk(tasks, schedules, roots)
  BY DEF QueueInv, TaskInv, TypeOK
<1>2. ASSUME NEW row \in Tasks, row.status = "Pending", row.schedule = 0, row.scan = "none",
             OwnRow(row, schedules, roots), TryStart(Append(tasks, row))
      PROVE  Derived(tasks, tasks')
  <2> DEFINE ts == Append(tasks, row)
  <2>1. ts \in Seq(Tasks) /\ DOMAIN tasks \subseteq DOMAIN ts
    BY <1>1, <1>2, AppendPending
  <2>2. QueueOk(ts, schedules, roots)
    BY <1>1, <1>2, ManualOk
  <2>3. Derived(tasks, ts)
    BY <1>1, <1>2, AppendDerived
  <2>4. TryStart(ts)
    BY <1>2
  <2> HIDE DEF ts
  <2> QED
    BY <1>1, <2>1, <2>2, <2>3, <2>4, StartDerived
<1>3. ASSUME Start(tasks) \/ TryStart(tasks)
      PROVE  Derived(tasks, tasks')
  <2>1. Derived(tasks, tasks)
    BY DEF Derived
  <2> QED
    BY <1>1, <1>3, <2>1, StartDerived
<1>4. ASSUME NEW r \in Roots, NEW set \in Settings, ScheduleManualScan(r, set)
      PROVE  Derived(tasks, tasks')
  <2> DEFINE row == NewTask("scan", r, 0, 0, set)
  <2>1. row \in Tasks /\ row.status = "Pending"
    BY NewRow
  <2>2. row.schedule = 0 /\ row.scan = "none" /\ OwnRow(row, schedules, roots)
    BY <1>4 DEF ScheduleManualScan, OwnRow, NewTask
  <2>3. TryStart(Append(tasks, row))
    BY <1>4 DEF ScheduleManualScan
  <2> HIDE DEF row
  <2> QED
    BY <1>2, <2>1, <2>2, <2>3
<1>5. ASSUME ScheduleCompact
      PROVE  Derived(tasks, tasks')
  <2> DEFINE row == NewTask("compact", Null, 0, 0, Null)
  <2>1. row \in Tasks /\ row.status = "Pending"
    BY NewRow
  <2>2. row.schedule = 0 /\ row.scan = "none" /\ OwnRow(row, schedules, roots)
    BY DEF OwnRow, NewTask
  <2>3. TryStart(Append(tasks, row)) \/ TryStart(tasks)
    BY <1>5 DEF ScheduleCompact
  <2> HIDE DEF row
  <2> QED
    BY <1>2, <1>3, <2>1, <2>2, <2>3
<1>6. ASSUME PollQueue \/ ClearPause
      PROVE  Derived(tasks, tasks')
  BY <1>3, <1>6 DEF PollQueue, ClearPause
<1> QED
  BY <1>4, <1>5, <1>6 DEF Starting

LEMMA EditingDerived ==
  ASSUME QueueInv, Editing
  PROVE  Derived(tasks, tasks') /\ UNCHANGED <<pause, thread, process, env>>
<1>1. /\ tasks \in Seq(Tasks) /\ schedules \in Seq(Schedules) /\ now \in Nat
      /\ \A s \in DOMAIN schedules : schedules[s] \in Schedules
      /\ DOMAIN schedules \subseteq Nat /\ Len(schedules) \in Nat
  BY DEF QueueInv, TaskInv, TypeOK
<1>2. Later(now) \subseteq Nat
  BY <1>1, LaterIsNat
<1>3. ASSUME NEW s \in Nat, NEW schedule \in Schedules, NEW at \in Later(now)
      PROVE  Derived(tasks, Append(tasks, Scheduled(s, schedule, at)))
  <2> DEFINE row == Scheduled(s, schedule, at)
  <2>1. schedule.root \in Roots \cup {Null} /\ schedule.settings \in Settings \cup {Null}
    BY DEF Schedules
  <2>2. row \in Tasks /\ row.status = "Pending"
    BY <1>2, <2>1, NewRow DEF Scheduled
  <2>3. row.scan = "none"
    BY DEF Scheduled, NewTask
  <2> HIDE DEF row
  <2>4. Derived(tasks, Append(tasks, row))
    BY <1>1, <2>2, <2>3, AppendDerived
  <2> QED
    BY <2>4 DEF row
<1>4. \/ \E s \in Nat, schedule \in Schedules, at \in Later(now) :
           tasks' = Append(tasks, Scheduled(s, schedule, at))
      \/ \E s, at : tasks' = Reschedule(tasks, s, at)
      \/ \E S : S \cap Running(tasks) = {} /\ tasks' = Remove(tasks, S)
  <2>1. ASSUME NEW r \in Roots, NEW set \in Settings, CreateSchedule(r, set)
        PROVE  \E s \in Nat, schedule \in Schedules, at \in Later(now) :
                 tasks' = Append(tasks, Scheduled(s, schedule, at))
    <3> DEFINE schedule == [root |-> r, mode |-> "enabled", settings |-> set]
    <3>1. schedule \in Schedules /\ Len(schedules) + 1 \in Nat
      BY <1>1 DEF Schedules
    <3>2. \E at \in Later(now) : tasks' = Append(tasks, Scheduled(Len(schedules) + 1, schedule, at))
      BY <2>1 DEF CreateSchedule
    <3> QED
      BY <3>1, <3>2
  <2>2. ASSUME NEW s \in DOMAIN schedules, Enable(s)
        PROVE  \/ \E z \in Nat, schedule \in Schedules, at \in Later(now) :
                    tasks' = Append(tasks, Scheduled(z, schedule, at))
               \/ \E z, at : tasks' = Reschedule(tasks, z, at)
    BY <1>1, <2>2 DEF Enable, EnableIn
  <2>3. ASSUME NEW s \in DOMAIN schedules,
               (\E set \in Settings : UpdateSchedule(s, set)) \/ Disable(s) \/ DeleteSchedule(s)
        PROVE  \/ \E z, at : tasks' = Reschedule(tasks, z, at)
               \/ \E S : S \cap Running(tasks) = {} /\ tasks' = Remove(tasks, S)
    <3>1. PendingOf(tasks, s) \cap Running(tasks) = {}
      BY DEF PendingOf, Running, In
    <3> QED
      BY <2>3, <3>1 DEF UpdateSchedule, Disable, DeleteSchedule
  <2>4. ASSUME NEW r \in Roots, DeleteRoot(r)
        PROVE  \E S : S \cap Running(tasks) = {} /\ tasks' = Remove(tasks, S)
    <3>1. {t \in DOMAIN tasks : tasks[t].root = r} \cap Running(tasks) = {}
      BY <2>4 DEF DeleteRoot, DeleteOutcome, ActiveOn, Running
    <3> QED
      BY <2>4, <3>1 DEF DeleteRoot
  <2> QED
    BY <2>1, <2>2, <2>3, <2>4 DEF Editing
<1>5. Derived(tasks, tasks')
  <2>1. ASSUME NEW s, NEW at, tasks' = Reschedule(tasks, s, at)
        PROVE  Derived(tasks, tasks')
    BY <1>1, <2>1, RescheduleDerived
  <2>2. ASSUME NEW S, S \cap Running(tasks) = {}, tasks' = Remove(tasks, S)
        PROVE  Derived(tasks, tasks')
    BY <1>1, <2>2, RemoveDerived
  <2> QED
    BY <1>3, <1>4, <2>1, <2>2
<1> QED
  BY <1>5 DEF Editing, CreateSchedule, UpdateSchedule, Enable, Disable, DeleteSchedule, DeleteRoot

\* The row that runs is none of those that a request touches.
LEMMA CurrentKept ==
  ASSUME QueueInv, QueueInv', Derived(tasks, tasks'), ~Idle, current' = current
  PROVE  Task'.scan = Task.scan /\ Task'.type = Task.type
<1>1. current \in Running(tasks) /\ current \in Running(tasks')
  BY DEF QueueInv, TaskInv, Idle
<1>2. current \in DOMAIN tasks /\ current \in DOMAIN tasks' /\ tasks'[current].status = "Running"
  BY <1>1 DEF Running, In
<1> QED
  BY <1>2 DEF Derived, Task

LEMMA DerivedRows ==
  ASSUME LifeInv, Derived(tasks, tasks'), asked \subseteq asked'
  PROVE  /\ \A t \in DOMAIN tasks' :
              /\ tasks'[t].scan = "Stopped" => t \in asked'
              /\ tasks'[t].type = "compact" => tasks'[t].scan # "open"
         /\ broken = 0 =>
              \A t \in DOMAIN tasks' : tasks'[t].status \in Terminal => tasks'[t].scan # "open"
BY DEF LifeInv, RowsOk, EndOk, Derived, Terminal

LEMMA StartingLife ==
  ASSUME LifeInv, QueueInv', Starting
  PROVE  LifeInv'
<1>1. /\ QueueInv /\ ThreadOk /\ RowsOk /\ Derived(tasks, tasks')
  BY StartingDerived DEF LifeInv
<1>2. UNCHANGED <<up, isShuttingDown, asked, broken>> /\ holder' # "pause"
  BY DEF Starting, ScheduleManualScan, ScheduleCompact, PollQueue, ClearPause, Allowed, Mutex,
         process, env, bounds
<1>3. \/ UNCHANGED <<pauseUntil, isPaused>>
      \/ Idle /\ pauseUntil' = NoPause /\ isPaused' = FALSE
  <2>1. ASSUME NEW ts, TryStart(ts)
        PROVE  \/ UNCHANGED <<pauseUntil, isPaused>>
               \/ Idle /\ pauseUntil' = NoPause /\ isPaused' = FALSE
    BY <2>1 DEF TryStart, pause
  <2> QED
    BY <2>1 DEF Starting, ScheduleManualScan, ScheduleCompact, PollQueue, ClearPause
<1>4. \/ UNCHANGED <<current, status, token, pc, loaded>>
      \/ Idle /\ current' # 0 /\ status' = "Running" /\ token' = FALSE /\ pc' = "init"
  <2>1. Started
    BY <1>1, StartingRows DEF QueueInv
  <2>2. tasks' \in Seq(Tasks)
    BY DEF QueueInv, TaskInv, TypeOK
  <2>3. current' \in DOMAIN tasks' => current' # 0
    BY <2>2
  <2> QED
    BY <2>1, <2>3 DEF Started, thread
<1>5. ThreadOk'
  <2>1. up \in BOOLEAN /\ up
    BY <1>1 DEF QueueInv, TaskInv, TypeOK, Starting, ScheduleManualScan, ScheduleCompact, PollQueue,
                ClearPause, Allowed, Mutex
  <2> QED
    BY <1>1, <1>2, <1>3, <1>4, <2>1 DEF ThreadOk, Idle
<1>6. RowsOk' /\ (broken = 0 => \A t \in DOMAIN tasks' :
                    tasks'[t].status \in Terminal => tasks'[t].scan # "open")
  BY <1>1, <1>2, DerivedRows DEF RowsOk
<1>7. ASSUME broken' = 0 PROVE EndOk'
  <2>1. EndOk
    BY <1>2, <1>7 DEF LifeInv
  <2>2. CASE Idle \/ pc' = "init"
    <3>1. pc' \in {"none", "init"}
      BY <1>1, <1>4, <2>2 DEF ThreadOk
    <3> QED
      BY <1>2, <1>6, <1>7, <2>1, <3>1 DEF EndOk
  <2>3. CASE ~Idle /\ pc' # "init"
    <3>1. UNCHANGED <<current, pc, loaded, isShuttingDown, isPaused, broken>>
      BY <1>2, <1>3, <1>4, <2>3
    <3>2. Task'.scan = Task.scan /\ Task'.type = Task.type
      BY <1>1, <2>3, <3>1, CurrentKept
    <3> QED
      BY <1>6, <1>7, <2>1, <3>1, <3>2 DEF EndOk
  <2> QED
    BY <2>2, <2>3
<1> QED
  BY <1>2, <1>5, <1>6, <1>7 DEF LifeInv

LEMMA EditingLife ==
  ASSUME LifeInv, QueueInv', Editing
  PROVE  LifeInv'
<1>1. /\ QueueInv /\ ThreadOk /\ RowsOk /\ Derived(tasks, tasks')
      /\ UNCHANGED <<pauseUntil, isPaused, current, status, token, pc, loaded>>
      /\ UNCHANGED <<up, isShuttingDown, holder, now, asked, interrupts, faults, broken>>
  BY EditingDerived DEF LifeInv, pause, thread, process, env, bounds
<1>2. ThreadOk'
  BY <1>1 DEF ThreadOk, Idle
<1>3. RowsOk' /\ (broken = 0 => \A t \in DOMAIN tasks' :
                    tasks'[t].status \in Terminal => tasks'[t].scan # "open")
  BY <1>1, DerivedRows DEF RowsOk
<1>4. ASSUME broken' = 0 PROVE EndOk'
  <2>1. EndOk
    BY <1>1, <1>4 DEF LifeInv
  <2>2. CASE Idle
    <3>1. pc' = "none"
      BY <1>1, <2>2 DEF ThreadOk
    <3> QED
      BY <1>1, <1>3, <1>4, <2>1, <3>1 DEF EndOk
  <2>3. CASE ~Idle
    <3>1. Task'.scan = Task.scan /\ Task'.type = Task.type
      BY <1>1, <2>3, CurrentKept
    <3> QED
      BY <1>1, <1>3, <1>4, <2>1, <3>1 DEF EndOk
  <2> QED
    BY <2>2, <2>3
<1> QED
  BY <1>1, <1>2, <1>3, <1>4 DEF LifeInv

\* A stop is accepted for the task that runs, and what else sets the token stays
\* until that task is gone.
LEMMA InterruptLife ==
  ASSUME LifeInv, QueueInv', Interrupting
  PROVE  LifeInv'
<1>1. /\ ThreadOk /\ RowsOk /\ (holder # "none" => ~Idle)
      /\ isPaused \in BOOLEAN /\ isShuttingDown \in BOOLEAN /\ token \in BOOLEAN
      /\ UNCHANGED <<tasks, current, pc, loaded, up, broken>>
  BY DEF LifeInv, QueueInv, TaskInv, TypeOK, Interrupting, RequestStop, AcceptStop, Shutdown,
         SetPause, MarkPausing, tables, thread, process, env, bounds
<1>2. asked \subseteq asked'
  BY DEF Interrupting, RequestStop, AcceptStop, Shutdown, SetPause, MarkPausing, env
<1>3. /\ isPaused = TRUE => isPaused' = TRUE
      /\ isShuttingDown = TRUE => isShuttingDown' = TRUE
  BY DEF Interrupting, RequestStop, AcceptStop, Shutdown, SetPause, MarkPausing, pause, process
<1>4. up' = TRUE => (isPaused' = TRUE <=> pauseUntil' # NoPause)
  <2>1. \A until \in {Forever} \cup 2 .. MaxTime : until # NoPause
    BY ManagerAssumption DEF Forever, NoPause
  <2> QED
    BY <1>1, <2>1 DEF ThreadOk, Interrupting, RequestStop, AcceptStop, Shutdown, SetPause,
             MarkPausing, pause
<1>5. /\ status' \in {status, "Stopping", "Pausing"} /\ token' \in {token, TRUE}
      /\ Idle => status' = status /\ token' = token
      /\ token' = token \/ current \in asked' \/ isPaused' = TRUE \/ isShuttingDown' = TRUE
      /\ token = TRUE => token' = TRUE
  <2>1. CASE RequestStop
    BY <2>1 DEF RequestStop, thread
  <2>2. CASE AcceptStop
    BY <1>1, <2>2 DEF AcceptStop
  <2>3. CASE Shutdown
    <3>1. token' = (token \/ ~Idle) /\ isShuttingDown' = TRUE /\ status' = status
      BY <2>3 DEF Shutdown
    <3>2. token' \in {token, TRUE} /\ (Idle => token' = token) /\ (token = TRUE => token' = TRUE)
      BY <1>1, <3>1, Zenon
    <3> QED
      BY <3>1, <3>2
  <2>4. CASE \E until \in {Forever} \cup 2 .. MaxTime : SetPause(until)
    BY <2>4 DEF SetPause, thread
  <2>5. CASE MarkPausing
    BY <1>1, <1>3, <2>5 DEF MarkPausing, ThreadOk
  <2> QED
    BY <2>1, <2>2, <2>3, <2>4, <2>5 DEF Interrupting
<1>6. holder' = "pause" => isPaused' = TRUE
  <2>1. CASE \E until \in {Forever} \cup 2 .. MaxTime : SetPause(until)
    BY <2>1 DEF SetPause
  <2>2. CASE RequestStop \/ AcceptStop \/ Shutdown \/ MarkPausing
    <3>1. holder' = holder \/ holder' # "pause"
      BY <2>2 DEF RequestStop, AcceptStop, Shutdown, MarkPausing
    <3> QED
      BY <1>1, <1>3, <3>1 DEF ThreadOk
  <2> QED
    BY <2>1, <2>2 DEF Interrupting
<1>7. ThreadOk'
  BY <1>1, <1>2, <1>3, <1>4, <1>5, <1>6 DEF ThreadOk, Idle
<1>8. RowsOk'
  BY <1>1, <1>2 DEF RowsOk
<1>9. ASSUME broken' = 0 PROVE EndOk'
  BY <1>1, <1>3, <1>9 DEF LifeInv, EndOk, Task
<1> QED
  BY <1>1, <1>7, <1>8, <1>9 DEF LifeInv

LEMMA ScanField ==
  ASSUME NEW ts \in Seq(Tasks), NEW c \in DOMAIN ts
  PROVE  \A st : [ts EXCEPT ![c].scan = st][c].scan = st
<1>1. ts[c] \in Tasks
  OBVIOUS
<1> QED
  BY <1>1 DEF Tasks

LEMMA StatusRow ==
  ASSUME NEW ts \in Seq(Tasks), NEW c \in DOMAIN ts, NEW st
  PROVE  LET us == [ts EXCEPT ![c].status = st] IN
         /\ DOMAIN us = DOMAIN ts
         /\ \A t \in DOMAIN ts : us[t].type = ts[t].type /\ us[t].scan = ts[t].scan
         /\ \A t \in DOMAIN ts \ {c} : us[t] = ts[t]
<1>1. \A t \in DOMAIN ts : ts[t] \in Tasks
  OBVIOUS
<1> QED
  BY <1>1 DEF Tasks

\* The steps of the thread that leave the row as it is.
LEMMA ThreadLife ==
  ASSUME LifeInv, QueueInv', tasks' = tasks,
         \/ Initialize \/ RunCompletes \/ RunInterrupted \/ AskShuttingDown \/ AskPaused
         \/ OnStopped \/ OnError \/ InitializeFails \/ RunFails \/ RollbackFails \/ CleanupFails
  PROVE  LifeInv'
<1>1. /\ ThreadOk /\ RowsOk
      /\ isPaused \in BOOLEAN /\ isShuttingDown \in BOOLEAN /\ token \in BOOLEAN
      /\ ~Idle => current \in DOMAIN tasks /\ Task \in Tasks
  BY DEF LifeInv, QueueInv, TaskInv, TypeOK, Idle, Task
<1>2. /\ UNCHANGED <<pauseUntil, isPaused, up, isShuttingDown, holder, current, token, now, asked>>
  BY DEF Initialize, RunCompletes, RunInterrupted, AskShuttingDown, AskPaused, OnStopped,
         OnError, InitializeFails, RunFails, RollbackFails, CleanupFails, Unscanned, Break,
         Fault, Go, Return, tables, pause, process, env, bounds
<1>3. ~Idle
  BY <1>1 DEF ThreadOk, Initialize, RunCompletes, RunInterrupted, AskShuttingDown, AskPaused,
         OnStopped, OnError, InitializeFails, RunFails, RollbackFails, CleanupFails
<1>4. /\ pc' \in {"run", "interrupted", "asked", "rollback", "failed", "cleanup", "none"}
      /\ pc' = "interrupted" => token = TRUE
      /\ pc' = "asked" => current \in asked \/ isPaused = TRUE
      /\ pc' = "rollback" => current \in asked
  BY <1>1 DEF ThreadOk, Initialize, RunCompletes, RunInterrupted, AskShuttingDown, AskPaused,
         OnStopped, OnError, InitializeFails, RunFails, RollbackFails, CleanupFails, Go, Return
<1>5. ThreadOk'
  BY <1>1, <1>2, <1>3, <1>4 DEF ThreadOk, Idle
<1>6. RowsOk'
  BY <1>1, <1>2 DEF RowsOk
<1>7. /\ broken' \in Nat
      /\ broken' = 0 => broken = 0 /\ ~ (InitializeFails \/ RollbackFails \/ CleanupFails)
  BY DEF LifeInv, InitializeFails, RollbackFails, CleanupFails, Break, Initialize, RunCompletes,
         RunInterrupted, AskShuttingDown, AskPaused, OnStopped, OnError, RunFails, Unscanned,
         Fault, env, bounds
<1>8. ASSUME broken' = 0 PROVE EndOk'
  <2>1. EndOk /\ Task' = Task
    BY <1>2, <1>7, <1>8 DEF LifeInv, Task
  <2>2. ~ (InitializeFails \/ RollbackFails \/ CleanupFails)
    BY <1>7, <1>8
  <2>3. Task.type \in {"scan", "compact"}
    BY <1>1, <1>3 DEF Tasks
  <2>4. /\ pc' = "run" => loaded' = TRUE \/ Task.type = "compact"
        /\ pc' = "failed" => loaded' = TRUE \/ Task.scan # "open"
        /\ pc' = "cleanup" => isShuttingDown = TRUE \/ isPaused = TRUE \/ Task.scan # "open"
    <3>1. CASE Initialize
      BY <2>3, <3>1 DEF Initialize
    <3>2. CASE RunFails
      <4>1. Task.type = "compact" => Task.scan # "open"
        BY <1>1, <1>3 DEF RowsOk, Task
      <4> QED
        BY <2>1, <3>2, <4>1 DEF EndOk, RunFails, Go
    <3>3. CASE RunCompletes \/ OnStopped
      <4>1. Task.scan # "open"
        <5>1. \A st \in {"Completed", "Stopped"} :
                [tasks EXCEPT ![current].scan = st] = tasks => Task.scan = st
          <6>1. \A st : [tasks EXCEPT ![current].scan = st][current].scan = st
            BY <1>1, <1>3, ScanField DEF QueueInv, LifeInv, TaskInv, TypeOK
          <6> QED
            BY <6>1 DEF Task
        <5> QED
          BY <3>3, <5>1 DEF RunCompletes, OnStopped, Scan
      <4> QED
        BY <3>3, <4>1 DEF RunCompletes, OnStopped, Return
    <3>4. CASE OnError
      <4>1. loaded # TRUE => Task.scan # "open"
        BY <2>1, <3>4 DEF EndOk, OnError
      <4>2. loaded = TRUE => Task.scan = "Error"
        <5>1. [tasks EXCEPT ![current].scan = "Error"][current].scan = "Error"
          BY <1>1, <1>3, ScanField DEF QueueInv, LifeInv, TaskInv, TypeOK
        <5> QED
          BY <3>4, <5>1 DEF OnError, Scan, Task
      <4> QED
        BY <3>4, <4>1, <4>2 DEF OnError, Return
    <3>5. CASE RunInterrupted \/ AskShuttingDown \/ AskPaused
      BY <3>5 DEF RunInterrupted, AskShuttingDown, AskPaused, Go, Return
    <3> QED
      BY <2>2, <3>1, <3>2, <3>3, <3>4, <3>5
  <2>5. \A t \in DOMAIN tasks' : tasks'[t].status \in Terminal => tasks'[t].scan # "open"
    BY <2>1 DEF EndOk
  <2> QED
    BY <1>2, <2>1, <2>4, <2>5 DEF EndOk
<1> QED
  BY <1>5, <1>6, <1>7, <1>8 DEF LifeInv

\* Those that begin a scan or end it.
LEMMA ScanLife ==
  ASSUME LifeInv, QueueInv', NEW st, Scan(st),
         \/ Initialize /\ st = "open" /\ Task.type = "scan"
         \/ RunCompletes /\ st = "Completed"
         \/ OnStopped /\ st = "Stopped"
         \/ OnError /\ st = "Error"
  PROVE  LifeInv'
<1>1. /\ ThreadOk /\ RowsOk
      /\ ~Idle => current \in Running(tasks)
      /\ tasks \in Seq(Tasks)
  BY DEF LifeInv, QueueInv, TaskInv, TypeOK
<1>2. /\ UNCHANGED <<pauseUntil, isPaused, up, isShuttingDown, holder, current, token, asked, broken>>
  BY DEF Initialize, RunCompletes, OnStopped, OnError, Unscanned, Return, tables, pause,
         process, env, bounds
<1>3. ~Idle
  BY <1>1 DEF ThreadOk, Initialize, RunCompletes, OnStopped, OnError
<1>4. /\ current \in DOMAIN tasks /\ Task.status = "Running"
      /\ DOMAIN tasks' = DOMAIN tasks /\ tasks'[current].scan = st
      /\ \A t \in DOMAIN tasks : /\ tasks'[t].type = tasks[t].type
                                 /\ tasks'[t].status = tasks[t].status
      /\ \A t \in DOMAIN tasks \ {current} : tasks'[t] = tasks[t]
  <2>1. current \in DOMAIN tasks /\ Task.status = "Running"
    BY <1>1, <1>3 DEF Running, In, Task
  <2>2. tasks' = [tasks EXCEPT ![current].scan = st]
    BY DEF Scan
  <2>3. /\ DOMAIN tasks' = DOMAIN tasks /\ tasks'[current].scan = st
        /\ \A t \in DOMAIN tasks : /\ tasks'[t].type = tasks[t].type
                                   /\ tasks'[t].status = tasks[t].status
        /\ \A t \in DOMAIN tasks \ {current} : tasks'[t] = tasks[t]
    <3>1. \A t \in DOMAIN tasks : tasks[t] \in Tasks
      BY <1>1
    <3>2. DOMAIN tasks' = DOMAIN tasks
      BY <2>2
    <3>3. \A t \in DOMAIN tasks \ {current} : tasks'[t] = tasks[t]
      BY <2>2
    <3>4. tasks'[current] = [tasks[current] EXCEPT !.scan = st]
      BY <2>1, <2>2
    <3>5. /\ tasks'[current].scan = st
          /\ tasks'[current].type = tasks[current].type
          /\ tasks'[current].status = tasks[current].status
      BY <2>1, <3>1, <3>4 DEF Tasks
    <3> QED
      BY <3>2, <3>3, <3>5
  <2> QED
    BY <2>1, <2>3
<1>5. \/ pc' = "run" /\ loaded' = TRUE /\ st = "open"
      \/ pc' = "cleanup" /\ st # "open"
  BY DEF Initialize, RunCompletes, OnStopped, OnError, Return
<1>6. ThreadOk'
  BY <1>1, <1>2, <1>3, <1>5 DEF ThreadOk, Idle
<1>7. RowsOk'
  <2>1. st = "Stopped" => current \in asked
    BY <1>1 DEF ThreadOk, OnStopped
  <2>2. st = "open" => Task.type # "compact"
    OBVIOUS
  <2> QED
    BY <1>1, <1>2, <1>4, <2>1, <2>2 DEF RowsOk, Task
<1>8. ASSUME broken' = 0 PROVE EndOk'
  <2>1. EndOk
    BY <1>2, <1>8 DEF LifeInv
  <2>2. \A t \in DOMAIN tasks' : tasks'[t].status \in Terminal => tasks'[t].scan # "open"
    <3>1. "Running" \notin Terminal
      BY DEF Terminal
    <3> QED
      BY <1>4, <2>1, <3>1 DEF EndOk, Task
  <2>3. Task'.scan = st
    BY <1>2, <1>4 DEF Task
  <2> QED
    BY <1>2, <1>5, <2>1, <2>2, <2>3 DEF EndOk
<1> QED
  BY <1>2, <1>6, <1>7, <1>8 DEF LifeInv

LEMMA CompleteLife ==
  ASSUME LifeInv, QueueInv', OnTaskComplete
  PROVE  LifeInv'
<1>1. /\ ThreadOk /\ RowsOk /\ tasks \in Seq(Tasks)
      /\ ~Idle => current \in DOMAIN tasks
      /\ isPaused \in BOOLEAN /\ isShuttingDown \in BOOLEAN
  BY DEF LifeInv, QueueInv, TaskInv, TypeOK, Idle
<1>2. /\ UNCHANGED <<pauseUntil, isPaused, up, isShuttingDown, holder, asked, broken>>
      /\ current' = 0 /\ status' = "none" /\ token' = FALSE /\ pc' = "none" /\ pc = "cleanup"
  BY DEF OnTaskComplete, NoThread, Unscanned, tables, pause, process, env, bounds
<1>3. ~Idle
  BY <1>1, <1>2 DEF ThreadOk
<1>4. /\ DOMAIN tasks' = DOMAIN tasks
      /\ \A t \in DOMAIN tasks : /\ tasks'[t].type = tasks[t].type
                                 /\ tasks'[t].scan = tasks[t].scan
      /\ \A t \in DOMAIN tasks \ {current} : tasks'[t] = tasks[t]
  <2>1. CASE tasks' = tasks
    BY <2>1
  <2>2. CASE tasks' = [tasks EXCEPT ![current].status = Recorded(status)]
    BY <1>1, <1>3, <2>2, StatusRow
  <2> QED
    BY <2>1, <2>2 DEF OnTaskComplete
<1>5. ThreadOk'
  BY <1>1, <1>2 DEF ThreadOk, Idle
<1>6. RowsOk'
  BY <1>1, <1>2, <1>4 DEF RowsOk
<1>7. ASSUME broken' = 0 PROVE EndOk'
  <2>1. EndOk
    BY <1>2, <1>7 DEF LifeInv
  <2>2. tasks' = tasks \/ tasks[current].scan # "open"
    BY <1>2, <2>1 DEF EndOk, OnTaskComplete, Task
  <2>3. \A t \in DOMAIN tasks' : tasks'[t].status \in Terminal => tasks'[t].scan # "open"
    BY <1>3, <1>4, <2>1, <2>2 DEF EndOk
  <2> QED
    BY <1>2, <2>1, <2>3 DEF EndOk
<1> QED
  BY <1>2, <1>5, <1>6, <1>7 DEF LifeInv

LEMMA ProcessLife ==
  ASSUME LifeInv, QueueInv', Exit \/ Crash \/ StartProcess \/ Tick \/ UNCHANGED vars
  PROVE  LifeInv'
<1>1. /\ ThreadOk /\ RowsOk /\ (up = FALSE => holder = "none")
      /\ UNCHANGED <<tasks, asked, pauseUntil, broken>>
  BY DEF LifeInv, QueueInv, TaskInv, ThreadOk, Exit, Crash, StartProcess, Tick, Fault, env, bounds,
         pause, vars
<1>2. RowsOk'
  BY <1>1 DEF RowsOk
<1>3. CASE Exit \/ Crash
  <2>1. /\ current' = 0 /\ status' = "none" /\ token' = FALSE /\ pc' = "none"
        /\ up' = FALSE /\ holder' = "none"
    BY <1>3 DEF Exit, Crash, Die, NoThread
  <2>2. ThreadOk'
    BY <2>1 DEF ThreadOk, Idle
  <2>3. broken' = 0 => EndOk'
    BY <1>1, <2>1 DEF LifeInv, EndOk
  <2> QED
    BY <1>1, <1>2, <2>2, <2>3 DEF LifeInv
<1>4. CASE StartProcess \/ Tick \/ UNCHANGED vars
  <2>1. /\ UNCHANGED <<current, status, token, pc, loaded, isShuttingDown, holder>>
        /\ \/ UNCHANGED <<up, isPaused>>
           \/ up = FALSE /\ isPaused' = (pauseUntil # NoPause)
    <3>1. CASE StartProcess
      BY <3>1 DEF StartProcess, thread, QueueInv, LifeInv, TaskInv, TypeOK
    <3>2. CASE Tick \/ UNCHANGED vars
      BY <3>2 DEF Tick, thread, process, pause, vars
    <3> QED
      BY <1>4, <3>1, <3>2
  <2>2. ThreadOk'
    <3>1. up' = TRUE \/ UNCHANGED up
      BY <1>4 DEF StartProcess, Tick, process, vars
    <3>2. (pauseUntil # NoPause) = TRUE <=> pauseUntil # NoPause
      OBVIOUS
    <3>3. CASE UNCHANGED <<up, isPaused>>
      BY <1>1, <2>1, <3>3 DEF ThreadOk, Idle
    <3>4. CASE up = FALSE /\ isPaused' = (pauseUntil # NoPause) /\ ~UNCHANGED <<up, isPaused>>
      <4>1. up' = TRUE \/ up' = FALSE
        BY <3>1, <3>4
      <4> QED
        BY <1>1, <2>1, <3>2, <3>4, <4>1 DEF ThreadOk, Idle
    <3> QED
      BY <2>1, <3>3, <3>4
  <2>3. broken' = 0 => EndOk'
    <3>1. CASE UNCHANGED isPaused
      BY <1>1, <2>1, <3>1 DEF LifeInv, EndOk, Task
    <3>2. CASE up = FALSE
      <4>1. pc' = "none"
        BY <1>1, <2>1, <3>2 DEF ThreadOk
      <4> QED
        BY <1>1, <4>1 DEF LifeInv, EndOk
    <3> QED
      BY <2>1, <3>1, <3>2
  <2> QED
    BY <1>1, <1>2, <2>2, <2>3 DEF LifeInv
<1> QED
  BY <1>3, <1>4

LEMMA NextLifeInv == LifeInv /\ [Next]_vars => LifeInv'
<1> SUFFICES ASSUME LifeInv, [Next]_vars PROVE LifeInv'
  OBVIOUS
<1> DEFINE steps == \/ Initialize \/ RunCompletes \/ RunInterrupted \/ AskShuttingDown
                    \/ AskPaused \/ OnStopped \/ OnError
                    \/ InitializeFails \/ RunFails \/ RollbackFails \/ CleanupFails
<1>1. QueueInv'
  BY NextQueueInv DEF LifeInv
<1>2. CASE Starting
  BY <1>1, <1>2, StartingLife
<1>3. CASE Editing
  BY <1>1, <1>3, EditingLife
<1>4. CASE Interrupting
  BY <1>1, <1>4, InterruptLife
<1>5. CASE steps
  <2>1. \/ tasks' = tasks
        \/ \E st : Scan(st) /\ (\/ Initialize /\ st = "open" /\ Task.type = "scan"
                                \/ RunCompletes /\ st = "Completed"
                                \/ OnStopped /\ st = "Stopped"
                                \/ OnError /\ st = "Error")
    BY <1>5 DEF Initialize, RunCompletes, RunInterrupted, AskShuttingDown, AskPaused, OnStopped,
         OnError, InitializeFails, RunFails, RollbackFails, CleanupFails
  <2> QED
    BY <1>1, <1>5, <2>1, ThreadLife, ScanLife
<1>6. CASE OnTaskComplete
  BY <1>1, <1>6, CompleteLife
<1>7. CASE Exit \/ Crash \/ StartProcess \/ Tick \/ UNCHANGED vars
  BY <1>1, <1>7, ProcessLife
<1> QED
  BY <1>2, <1>3, <1>4, <1>5, <1>6, <1>7 DEF Next, Thread, Request, Starting, Editing, Interrupting

LEMMA InitLifeInv == Init => LifeInv
<1> SUFFICES ASSUME Init PROVE LifeInv
  OBVIOUS
<1>1. tasks = <<>> /\ DOMAIN tasks = {} /\ QueueInv
  BY InitQueueInv DEF Init
<1> QED
  BY <1>1 DEF Init, LifeInv, ThreadOk, RowsOk, EndOk, Idle, NoPause
-----------------------------------------------------------------------------
(* Every task lives as TaskLife says *)

\* What a step may make of a row, stage by stage.
RowStep(row, new) ==
  \/ new.status = row.status /\ new.scan = row.scan
  \/ row.status = "Pending" /\ new.status = "Running" /\ new.scan = "none"
  \/ row.status # "Running" /\ new.status = "Gone"
  \/ /\ row.status = "Running" /\ new.status = "Running"
     /\ \/ row.scan = "none" /\ new.scan = "open"
        \/ row.scan = "open" /\ new.scan \in Terminal
  \/ row.status = "Running" /\ new.status \in Terminal /\ new.scan = row.scan

Stages == {"pending", "begun", "scanning", "ended", "done", "abandoned", "gone"}

LEMMA StageType ==
  ASSUME NEW row \in Tasks
  PROVE  /\ StageOf(row) \in Stages
         /\ StageOf(row) \in Life!Busy <=> row.status = "Running"
BY DEF Tasks, StageOf, Stages, Terminal, Life!Busy

LEMMA RowMoves ==
  ASSUME NEW row \in Tasks, NEW new \in Tasks, RowStep(row, new)
  PROVE  StageOf(new) # StageOf(row) => <<StageOf(row), StageOf(new)>> \in Life!Moves
<1>1. CASE new.status = row.status /\ new.scan = row.scan
  BY <1>1 DEF StageOf
<1>2. CASE row.status = "Pending" /\ new.status = "Running" /\ new.scan = "none"
  BY <1>2 DEF StageOf, Terminal, Life!Moves
<1>3. CASE row.status # "Running" /\ new.status = "Gone"
  BY <1>3 DEF StageOf, Terminal, Life!Moves, Tasks
<1>4. CASE /\ row.status = "Running" /\ new.status = "Running"
           /\ \/ row.scan = "none" /\ new.scan = "open"
              \/ row.scan = "open" /\ new.scan \in Terminal
  BY <1>4 DEF StageOf, Terminal, Life!Moves
<1>5. CASE row.status = "Running" /\ new.status \in Terminal /\ new.scan = row.scan
  BY <1>5 DEF StageOf, Terminal, Life!Moves, Tasks
<1> QED
  BY <1>1, <1>2, <1>3, <1>4, <1>5 DEF RowStep

LEMMA NextLoadedOk ==
  ASSUME LifeInv, LifeInv', LoadedOk, [Next]_vars
  PROVE  LoadedOk'
<1>1. /\ QueueInv /\ QueueInv' /\ ThreadOk /\ ThreadOk'
      /\ loaded \in BOOLEAN /\ tasks \in Seq(Tasks)
      /\ ~Idle => current \in DOMAIN tasks
  BY DEF LifeInv, QueueInv, TaskInv, TypeOK, Idle
<1>2. ASSUME Derived(tasks, tasks'), UNCHANGED thread
      PROVE  LoadedOk'
  <2>1. UNCHANGED <<current, pc, loaded>>
    BY <1>2 DEF thread
  <2>2. CASE Idle
    BY <1>1, <2>1, <2>2 DEF LoadedOk, Idle
  <2>3. CASE ~Idle
    <3>1. Task'.scan = Task.scan
      BY <1>1, <1>2, <2>1, <2>3, CurrentKept
    <3> QED
      BY <2>1, <2>3, <3>1 DEF LoadedOk, Idle
  <2> QED
    BY <2>2, <2>3
<1>3. CASE Starting
  <2>1. Derived(tasks, tasks') /\ Started
    BY <1>1, <1>3, StartingDerived, StartingRows DEF QueueInv
  <2>2. UNCHANGED thread \/ loaded' = FALSE
    BY <2>1 DEF Started
  <2> QED
    BY <1>2, <2>1, <2>2 DEF LoadedOk
<1>4. CASE Editing
  BY <1>1, <1>2, <1>4, EditingDerived
<1>5. CASE Interrupting \/ UNCHANGED vars
  <2>1. UNCHANGED <<tasks, current, pc, loaded>>
    BY <1>5 DEF Interrupting, RequestStop, AcceptStop, Shutdown, SetPause, MarkPausing, thread, vars
  <2> QED
    BY <2>1 DEF LoadedOk, Idle, Task
<1>6. CASE OnTaskComplete \/ Exit \/ Crash
  <2>1. loaded' = FALSE
    BY <1>6 DEF OnTaskComplete, Exit, Crash, Die, NoThread
  <2> QED
    BY <2>1 DEF LoadedOk
<1>7. CASE StartProcess \/ Tick
  <2>1. UNCHANGED <<tasks, current, pc, loaded>>
    BY <1>7 DEF StartProcess, Tick, thread
  <2> QED
    BY <2>1 DEF LoadedOk, Idle, Task
<1>8. CASE CleanupFails \/ RunInterrupted \/ AskShuttingDown \/ AskPaused \/ RollbackFails
  <2>1. UNCHANGED <<tasks, current, loaded>> /\ pc' \notin {"init", "failed"}
    BY <1>8 DEF CleanupFails, RunInterrupted, AskShuttingDown, AskPaused, RollbackFails, Go, Return
  <2> QED
    BY <2>1 DEF LoadedOk, Idle, Task
<1>9. CASE InitializeFails \/ RunFails
  <2>1. /\ UNCHANGED <<tasks, current, loaded>> /\ pc' = "failed"
        /\ loaded = TRUE => Task.scan = "open"
    BY <1>9 DEF LoadedOk, InitializeFails, RunFails, Go
  <2> QED
    BY <2>1 DEF LoadedOk, Idle, Task
<1>10. CASE Initialize \/ RunCompletes \/ OnStopped \/ OnError
  <2>1. current' = current /\ pc' \in {"run", "cleanup"}
    BY <1>10 DEF Initialize, RunCompletes, OnStopped, OnError, Return
  <2>2. ~Idle
    BY <1>1, <1>10 DEF ThreadOk, Initialize, RunCompletes, OnStopped, OnError
  <2>3. loaded' = TRUE => Task'.scan # "none"
    <3>1. ASSUME NEW st, Scan(st), st # "none" PROVE Task'.scan # "none"
      <4>1. tasks'[current].scan = st
        BY <1>1, <2>2, <3>1, ScanField DEF Scan
      <4> QED
        BY <2>1, <3>1, <4>1 DEF Task
    <3>2. CASE \E st \in {"open", "Completed", "Stopped", "Error"} : Scan(st)
      BY <3>1, <3>2
    <3>3. CASE UNCHANGED tasks /\ ~ \E st \in {"open", "Completed", "Stopped", "Error"} : Scan(st)
      <4>1. loaded' = TRUE => Task.scan # "none"
        BY <1>1, <1>10, <3>3 DEF LoadedOk, Initialize, RunCompletes, OnStopped, OnError, Return
      <4> QED
        BY <2>1, <3>3, <4>1 DEF Task
    <3> QED
      BY <1>10, <3>2, <3>3 DEF Initialize, RunCompletes, OnStopped, OnError
  <2> QED
    BY <2>1, <2>2, <2>3 DEF LoadedOk, Idle
<1> QED
  BY <1>3, <1>4, <1>5, <1>6, <1>7, <1>8, <1>9, <1>10
     DEF Next, Thread, Request, Starting, Editing, Interrupting

LEMMA StepRows ==
  ASSUME LifeInv, LifeInv', LoadedOk, [Next]_vars
  PROVE  /\ DOMAIN tasks \subseteq DOMAIN tasks'
         /\ \A t \in DOMAIN tasks : RowStep(tasks[t], tasks'[t])
         /\ \A t \in DOMAIN tasks' \ DOMAIN tasks :
              tasks'[t].scan = "none" /\ tasks'[t].status \in {"Pending", "Running"}
<1>1. /\ QueueInv /\ QueueOk(tasks, schedules, roots) /\ ThreadOk
      /\ tasks \in Seq(Tasks) /\ loaded \in BOOLEAN
      /\ ~Idle => current \in DOMAIN tasks /\ Task.status = "Running"
  BY DEF LifeInv, QueueInv, TaskInv, TypeOK, Idle, Running, In, Task
<1>2. CASE Starting \/ Editing
  <2>1. Derived(tasks, tasks')
    BY <1>1, <1>2, StartingDerived, EditingDerived
  <2>2. \A t \in DOMAIN tasks : tasks[t].status = "Pending" => tasks[t].scan = "none"
    BY <1>1 DEF QueueOk, OwnRow, Pending, In
  <2> QED
    BY <2>1, <2>2 DEF Derived, RowStep
<1>3. CASE UNCHANGED tasks
  BY <1>3 DEF RowStep
<1>4. CASE Initialize \/ RunCompletes \/ OnStopped \/ OnError
  <2>1. ~Idle
    BY <1>1, <1>4 DEF ThreadOk, Initialize, RunCompletes, OnStopped, OnError
  <2>2. \/ UNCHANGED tasks
        \/ \E st : /\ Scan(st)
                   /\ \/ Task.scan = "none" /\ st = "open"
                      \/ Task.scan = "open" /\ st \in {"Completed", "Stopped", "Error"}
    BY <1>4 DEF Initialize, RunCompletes, OnStopped, OnError, LoadedOk
  <2>3. ASSUME NEW st, Scan(st),
               \/ Task.scan = "none" /\ st = "open"
               \/ Task.scan = "open" /\ st \in {"Completed", "Stopped", "Error"}
        PROVE  /\ DOMAIN tasks' = DOMAIN tasks
               /\ \A t \in DOMAIN tasks : RowStep(tasks[t], tasks'[t])
    <3>1. tasks' = [tasks EXCEPT ![current].scan = st]
      BY <2>3 DEF Scan
    <3>2. /\ DOMAIN tasks' = DOMAIN tasks
          /\ \A t \in DOMAIN tasks \ {current} : tasks'[t] = tasks[t]
      BY <3>1
    <3>3. tasks'[current].scan = st /\ tasks'[current].status = "Running"
      <4>1. tasks[current] \in Tasks
        BY <1>1, <2>1
      <4>2. tasks'[current] = [tasks[current] EXCEPT !.scan = st]
        BY <1>1, <2>1, <3>1
      <4> QED
        BY <1>1, <2>1, <4>1, <4>2 DEF Tasks, Task
    <3>4. RowStep(tasks[current], tasks'[current])
      BY <1>1, <2>1, <2>3, <3>3 DEF RowStep, Task, Terminal
    <3> QED
      BY <3>2, <3>4 DEF RowStep
  <2> QED
    BY <1>3, <2>2, <2>3
<1>5. CASE OnTaskComplete
  <2>1. ~Idle
    BY <1>1, <1>5 DEF ThreadOk, OnTaskComplete
  <2>2. CASE tasks' = [tasks EXCEPT ![current].status = Recorded(status)] /\ ~UNCHANGED tasks
    <3>1. /\ DOMAIN tasks' = DOMAIN tasks
          /\ \A t \in DOMAIN tasks \ {current} : tasks'[t] = tasks[t]
      BY <2>2
    <3>2. tasks'[current].scan = Task.scan /\ tasks'[current].status = Recorded(status)
      <4>1. tasks[current] \in Tasks
        BY <1>1, <2>1
      <4>2. tasks'[current] = [tasks[current] EXCEPT !.status = Recorded(status)]
        BY <1>1, <2>1, <2>2
      <4> QED
        BY <4>1, <4>2 DEF Tasks, Task
    <3>3. Recorded(status) \in Terminal
      BY DEF Recorded, Terminal
    <3>4. RowStep(tasks[current], tasks'[current])
      BY <1>1, <2>1, <3>2, <3>3 DEF RowStep, Task
    <3> QED
      BY <3>1, <3>4 DEF RowStep
  <2> QED
    BY <1>3, <1>5, <2>2 DEF OnTaskComplete
<1>6. CASE \/ RunInterrupted \/ AskShuttingDown \/ AskPaused
           \/ InitializeFails \/ RunFails \/ RollbackFails \/ CleanupFails
           \/ Interrupting \/ Exit \/ Crash \/ StartProcess \/ Tick \/ UNCHANGED vars
  BY <1>3, <1>6 DEF RunInterrupted, AskShuttingDown, AskPaused, InitializeFails, RunFails,
       RollbackFails, CleanupFails, Interrupting, RequestStop, AcceptStop, Shutdown, SetPause,
       MarkPausing, Exit, Crash, StartProcess, Tick, vars
<1> QED
  BY <1>2, <1>4, <1>5, <1>6 DEF Next, Thread, Request, Starting, Editing, Interrupting

\* The stages of a table of tasks, as a sequence.
LEMMA StagesOf ==
  ASSUME NEW ts \in Seq(Tasks)
  PROVE  LET life == [t \in DOMAIN ts |-> StageOf(ts[t])]
         IN life \in Seq(Stages) /\ Len(life) = Len(ts) /\ DOMAIN life = DOMAIN ts
<1> DEFINE life == [t \in DOMAIN ts |-> StageOf(ts[t])]
<1>1. \A t \in DOMAIN ts : StageOf(ts[t]) \in Stages
  BY StageType
<1>2. DOMAIN ts = 1 .. Len(ts) /\ Len(ts) \in Nat /\ DOMAIN life = DOMAIN ts
  OBVIOUS
<1>3. life \in [1 .. Len(ts) -> Stages]
  BY <1>1, <1>2
<1> HIDE DEF life
<1>4. life \in Seq(Stages) /\ Len(life) = Len(ts)
  BY <1>2, <1>3
<1> QED
  BY <1>2, <1>4 DEF life

LEMMA NextLife ==
  ASSUME LifeInv, LifeInv', LoadedOk, [Next]_vars
  PROVE  Life!Next
<1> DEFINE life == [t \in DOMAIN tasks |-> StageOf(tasks[t])]
<1>1. /\ tasks \in Seq(Tasks) /\ tasks' \in Seq(Tasks)
      /\ \A t, u \in Running(tasks') : t = u
  BY DEF LifeInv, QueueInv, TaskInv, TypeOK
<1>2. Len(life) = Len(tasks) /\ DOMAIN life = DOMAIN tasks
  BY <1>1, StagesOf
<1>3. Len(life)' = Len(tasks') /\ DOMAIN life' = DOMAIN tasks'
  <2> DEFINE us == tasks'
  <2>1. us \in Seq(Tasks)
    BY <1>1
  <2> HIDE DEF us
  <2>2. LET l == [t \in DOMAIN us |-> StageOf(us[t])] IN Len(l) = Len(us) /\ DOMAIN l = DOMAIN us
    BY <2>1, StagesOf
  <2> QED
    BY <2>2 DEF us
<1>4. Len(life)' >= Len(life)
  <2>1. DOMAIN tasks \subseteq DOMAIN tasks'
    BY StepRows
  <2> HIDE DEF life
  <2> QED
    BY <1>1, <1>2, <1>3, <2>1
<1>5. \A t \in DOMAIN tasks :
        StageOf(tasks'[t]) # StageOf(tasks[t])
          => <<StageOf(tasks[t]), StageOf(tasks'[t])>> \in Life!Moves
  BY <1>1, StepRows, RowMoves
<1>6. \A t \in DOMAIN tasks' \ DOMAIN tasks : StageOf(tasks'[t]) \in {"pending", "begun"}
  BY StepRows DEF StageOf, Terminal
<1>7. \A t, u \in DOMAIN tasks' :
        StageOf(tasks'[t]) \in Life!Busy /\ StageOf(tasks'[u]) \in Life!Busy => t = u
  <2>1. \A t \in DOMAIN tasks' : StageOf(tasks'[t]) \in Life!Busy => t \in Running(tasks')
    BY <1>1, StageType DEF Running, In
  <2> QED
    BY <1>1, <2>1
<1>8. DOMAIN tasks \subseteq DOMAIN tasks'
  BY StepRows
<1> QED
  BY <1>2, <1>3, <1>4, <1>5, <1>6, <1>7, <1>8 DEF Life!Next
-----------------------------------------------------------------------------
\* The tables keep their form for any number of roots, schedules and tasks.
THEOREM QueueTypeCorrect == Spec => []TypeOK
<1>1. TaskInv => TypeOK
  BY DEF TaskInv
<1> QED
  BY InitTaskInv, NextTaskInv, <1>1, PTL DEF Spec

\* However many roots, schedules and tasks there are, and through any number of pauses,
\* shutdowns, crashes and failures: no two tasks are Running, and while the manager
\* holds a task, that one is.
THEOREM OneTaskRuns == Spec => []OneRunning
<1>1. TaskInv => OneRunning
  <2> SUFFICES ASSUME TaskInv PROVE OneRunning
    OBVIOUS
  <2>1. \A t, u \in In(tasks, "Running") : t = u
    BY DEF TaskInv, Running
  <2>2. Cardinality(In(tasks, "Running")) <= 1
    <3>1. CASE In(tasks, "Running") = {}
      BY <3>1, FS_EmptySet
    <3>2. CASE In(tasks, "Running") # {}
      <4>1. PICK t : In(tasks, "Running") = {t}
        BY <2>1, <3>2
      <4>2. Cardinality({t}) = 1
        BY FS_Singleton, Zenon
      <4> QED
        BY <4>1, <4>2
    <3> QED
      BY <3>1, <3>2
  <2>3. ~Idle => In(tasks, "Running") = {current}
    BY <2>1 DEF TaskInv, Running
  <2> QED
    BY <2>2, <2>3 DEF OneRunning
<1> QED
  BY InitTaskInv, NextTaskInv, <1>1, PTL DEF Spec

\* However the queue is activated, edited, toggled and cut down: an enabled schedule
\* has exactly one pending task, any other none.
THEOREM SchedulesQueued == Spec => []OnePendingPerSchedule
<1>1. QueueInv => OnePendingPerSchedule
  <2> SUFFICES ASSUME QueueInv, NEW s \in DOMAIN schedules
               PROVE  Cardinality(PendingOf(tasks, s)) = IF schedules[s].mode = "enabled" THEN 1 ELSE 0
    BY DEF OnePendingPerSchedule
  <2>1. CASE schedules[s].mode = "enabled"
    <3>1. PICK t : PendingOf(tasks, s) = {t}
      BY <2>1 DEF QueueInv, QueueOk
    <3>2. Cardinality({t}) = 1
      BY FS_Singleton, Zenon
    <3> QED
      BY <2>1, <3>1, <3>2
  <2>2. CASE schedules[s].mode # "enabled"
    <3>1. PendingOf(tasks, s) = {}
      BY <2>2 DEF QueueInv, QueueOk
    <3> QED
      BY <2>2, <3>1, FS_EmptySet
  <2> QED
    BY <2>1, <2>2
<1> QED
  BY InitQueueInv, NextQueueInv, <1>1, PTL DEF Spec

\* delete_root does not take the manager's mutex, and still no pending or running task
\* is left with a root that is gone.
THEOREM RootsOutlive == Spec => []RootOutlivesTasks
<1>1. QueueInv => RootOutlivesTasks
  BY DEF QueueInv, QueueOk, OwnRow, RootOutlivesTasks, Pending, Running
<1> QED
  BY InitQueueInv, NextQueueInv, <1>1, PTL DEF Spec

\* No scan is rolled back as stopped that nobody asked to stop: a pause or a shutdown
\* interrupts with the same token, and is not over while its task unwinds.
THEOREM NoStopUnasked == Spec => []StoppedOnRequest
<1>1. LifeInv => StoppedOnRequest
  BY DEF LifeInv, RowsOk, StoppedOnRequest
<1> QED
  BY InitLifeInv, NextLifeInv, <1>1, PTL DEF Spec

\* As long as no scan failed to start, to be rolled back or to be cleaned up after, the
\* scan of a finished task has ended.
THEOREM FinishedHasEnded == Spec => []FinishedScanEnded
<1>1. LifeInv => FinishedScanEnded
  BY DEF LifeInv, EndOk, FinishedScanEnded
<1> QED
  BY InitLifeInv, NextLifeInv, <1>1, PTL DEF Spec

\* Nothing starts in a stored pause, after any crash and restart.
THEOREM PausedIsQuiet == Spec => NoStartInPause
<1>1. LifeInv /\ [Next]_vars => [Idle /\ current' # 0 => pauseUntil' = NoPause]_vars
  <2> SUFFICES ASSUME LifeInv, Next, Idle, current' # 0 PROVE pauseUntil' = NoPause
    BY DEF vars
  <2>1. current = 0 /\ ThreadOk /\ isPaused \in BOOLEAN /\ pauseUntil \in Nat \cup {Forever}
    BY DEF Idle, LifeInv, QueueInv, TaskInv, TypeOK
  <2>2. Starting
    BY <2>1 DEF Next, Request, Thread, Starting, Initialize, RunCompletes, RunInterrupted,
         AskShuttingDown, AskPaused, OnStopped, OnError, OnTaskComplete, InitializeFails,
         RunFails, RollbackFails, CleanupFails, Go, Return, NoThread, CreateSchedule,
         UpdateSchedule, Enable, Disable, DeleteSchedule, DeleteRoot, RequestStop, AcceptStop,
         SetPause, MarkPausing, Shutdown, Exit, Crash, Die, StartProcess, Tick, thread
  <2>3. ASSUME NEW ts, TryStart(ts), up = TRUE PROVE pauseUntil' = NoPause
    <3>1. ~ UNCHANGED thread
      BY <2>1 DEF thread
    <3>2. isPaused # TRUE => pauseUntil = NoPause
      BY <2>1, <2>3 DEF ThreadOk
    <3> QED
      BY <2>1, <2>3, <3>1, <3>2 DEF TryStart, pause
  <2>4. up = TRUE
    <3>1. up \in BOOLEAN /\ up
      BY <2>2 DEF LifeInv, QueueInv, TaskInv, TypeOK, Starting, ScheduleManualScan, ScheduleCompact,
                  PollQueue, ClearPause, Allowed, Mutex
    <3> QED
      BY <3>1
  <2> QED
    BY <2>2, <2>3, <2>4 DEF Starting, ScheduleManualScan, ScheduleCompact, PollQueue, ClearPause
<1> QED
  BY InitLifeInv, NextLifeInv, <1>1, PTL DEF Spec, NoStartInPause

\* Every task lives as TaskLife says: requests, crashes and resumption included, it is
\* begun once, has one scan at most and ends once, and one at a time is busy.  One whose
\* scan could not be rolled back is abandoned and never taken up again.
THEOREM TasksLiveOnce == Spec => LivesOnce
<1>1. Init => Life!Init
  BY DEF Init, Life!Init
<1>2. Init => LoadedOk
  BY DEF Init, LoadedOk, Idle
<1>3. LifeInv /\ LifeInv' /\ LoadedOk /\ [Next]_vars => LoadedOk'
  BY NextLoadedOk
<1>4. LifeInv /\ LifeInv' /\ LoadedOk /\ [Next]_vars
        => [Life!Next]_[t \in DOMAIN tasks |-> StageOf(tasks[t])]
  BY NextLife
<1> QED
  BY InitLifeInv, NextLifeInv, <1>1, <1>2, <1>3, <1>4, PTL DEF Spec, LivesOnce, Life!Spec
-----------------------------------------------------------------------------
(***************************************************************************)
(* The manager that a page watches is the manager of TaskManager, so that  *)
(* all of the above holds of it; and a stop never hits another task than   *)
(* the one that was shown.                                                 *)
(***************************************************************************)

\* The steps of the feed are steps of the manager, or none of its business.
LEMMA FeedStep == ASSUME [FeedNext]_allVars PROVE [Next]_vars
<1>1. CASE ManagerWorks
  BY <1>1 DEF ManagerWorks, Next, Thread
<1>2. CASE ManagerIsAsked
  BY <1>2 DEF ManagerIsAsked, Next, Request
<1>3. CASE TaskRuns
  BY <1>3 DEF TaskRuns, Next, Thread
<1>4. CASE \E until \in {Forever} \cup 2 .. MaxTime : PauseSet(until)
  BY <1>4 DEF PauseSet, Next, Request
<1>5. CASE PauseMarked \/ PauseCleared \/ CompletionSent \/ ProcessExits \/ ProcessCrashes
  BY <1>5 DEF PauseMarked, MarkPausing, PauseCleared, CompletionSent, ProcessExits,
           ProcessCrashes, Next, Thread
<1>6. CASE \E k \in tickers : TickerSends(k) \/ TickerChecks(k)
  BY <1>6 DEF TickerSends, TickerChecks
<1>7. CASE Connect \/ Subscribe \/ Greet \/ Disconnect \/ Receive \/ ClickStop
  BY <1>7 DEF Connect, Subscribe, Greet, Disconnect, Receive, ClickStop
<1>8. CASE StopArrives \/ StopAccepted
  BY <1>8 DEF StopArrives, StopAccepted, Next, Request
<1>9. CASE UNCHANGED allVars
  BY <1>9 DEF allVars
<1>q. QED
  BY <1>1, <1>2, <1>3, <1>4, <1>5, <1>6, <1>7, <1>8, <1>9 DEF FeedNext

\* The composition implements the manager: what holds of every behaviour of the
\* manager, the theorems of TaskProofs among it, holds while pages watch.
THEOREM FeedIsManager == FeedSpec => Spec
<1>1. FeedInit => Init
  BY DEF FeedInit
<1>2. [FeedNext]_allVars => [Next]_vars
  BY FeedStep
<1>q. QED
  BY <1>1, <1>2, PTL DEF FeedSpec, Spec
-----------------------------------------------------------------------------
\* While request_stop holds the mutex, between looking at the task and stopping it,
\* the task it looked at is current.
HeldInv == holder = "stop" => current # 0 /\ current = clicked

LEMMA HeldInit == FeedInit => HeldInv
BY DEF FeedInit, Init, HeldInv

\* Nothing that moves the task on works without the mutex.
LEMMA HeldStep == ASSUME HeldInv, [FeedNext]_allVars PROVE HeldInv'
<1> USE DEF HeldInv
<1>1. CASE ManagerWorks
  BY <1>1 DEF ManagerWorks, Unseen, Unscanned, process, thread, env, Mutex, TryStart, Start,
     Initialize, RunInterrupted, AskShuttingDown, AskPaused, OnStopped, OnError, PollQueue,
     StartProcess, Tick, Go, Return
<1>2. CASE ManagerIsAsked
  BY <1>2 DEF ManagerIsAsked, Unseen, Shutdown, ScheduleManualScan, Allowed, Mutex, process, thread
<1>3. CASE TaskRuns
  BY <1>3 DEF TaskRuns, Unseen, Unscanned, process, thread, Mutex, RunCompletes, RunFails,
     InitializeFails, RollbackFails, CleanupFails, Go, Return
<1>4. CASE \E until \in {Forever} \cup 2 .. MaxTime : PauseSet(until)
  BY <1>4 DEF PauseSet, SetPause, Allowed, Mutex, process
<1>5. CASE PauseMarked \/ PauseCleared \/ CompletionSent
  BY <1>5 DEF PauseMarked, MarkPausing, PauseCleared, CompletionSent, ClearPause, OnTaskComplete,
     Allowed, Mutex, process, Unscanned
<1>6. CASE ProcessExits \/ ProcessCrashes
  BY <1>6 DEF ProcessExits, ProcessCrashes, Exit, Crash, Die
<1>7. CASE \E k \in tickers : TickerSends(k) \/ TickerChecks(k)
  BY <1>7 DEF TickerSends, TickerChecks, vars, process, thread
<1>8. CASE Connect \/ Subscribe \/ Greet \/ Disconnect \/ Receive
  BY <1>8 DEF Connect, Subscribe, Greet, Disconnect, Receive, vars, process, thread
<1>9. CASE ClickStop
  BY <1>9 DEF ClickStop, vars, process, thread
<1>10. CASE StopArrives
  BY <1>10 DEF StopArrives, RequestStop, Idle, Mutex, vars, process, thread
<1>11. CASE StopAccepted
  BY <1>11 DEF StopAccepted, AcceptStop
<1>12. CASE UNCHANGED allVars
  BY <1>12 DEF allVars, feed, vars, process, thread
<1>q. QED
  BY <1>1, <1>2, <1>3, <1>4, <1>5, <1>6, <1>7, <1>8, <1>9, <1>10, <1>11, <1>12 DEF FeedNext

\* Only an accepted stop adds to the tasks asked to stop.
LEMMA AskedStep ==
  ASSUME HeldInv, [FeedNext]_allVars
  PROVE asked' \ asked \subseteq {clicked}
<1>1. CASE StopAccepted
  <2>1. asked' = asked \cup {current} /\ holder = "stop"
    BY <1>1 DEF StopAccepted, AcceptStop
  <2>q. QED
    BY <2>1 DEF HeldInv
<1>2. CASE ~StopAccepted
  <2>1. asked' = asked
    <3>1. CASE ManagerWorks
      BY <3>1 DEF ManagerWorks, Unscanned, env, Initialize, RunInterrupted, AskShuttingDown,
         AskPaused, OnStopped, OnError, PollQueue, StartProcess, Tick
    <3>2. CASE ManagerIsAsked
      BY <3>2 DEF ManagerIsAsked, Shutdown, ScheduleManualScan, env
    <3>3. CASE TaskRuns
      BY <3>3 DEF TaskRuns, Unscanned, env, Fault, Break, RunCompletes, RunFails, InitializeFails,
         RollbackFails, CleanupFails
    <3>4. CASE \E until \in {Forever} \cup 2 .. MaxTime : PauseSet(until)
      BY <3>4 DEF PauseSet, SetPause
    <3>5. CASE PauseMarked \/ PauseCleared \/ CompletionSent \/ ProcessExits \/ ProcessCrashes
      BY <3>5 DEF PauseMarked, MarkPausing, PauseCleared, CompletionSent, ProcessExits,
         ProcessCrashes, ClearPause, OnTaskComplete, Exit, Crash, Fault, Unscanned, env
    <3>6. CASE \E k \in tickers : TickerSends(k) \/ TickerChecks(k)
      BY <3>6 DEF TickerSends, TickerChecks, vars, env
    <3>7. CASE Connect \/ Subscribe \/ Greet \/ Disconnect \/ Receive \/ ClickStop
      BY <3>7 DEF Connect, Subscribe, Greet, Disconnect, Receive, ClickStop, vars, env
    <3>8. CASE StopArrives
      BY <3>8 DEF StopArrives, RequestStop, vars, env
    <3>9. CASE UNCHANGED allVars
      BY <3>9 DEF allVars, vars, env
    <3>q. QED
      BY <1>2, <3>1, <3>2, <3>3, <3>4, <3>5, <3>6, <3>7, <3>8, <3>9 DEF FeedNext
  <2>q. QED
    BY <2>1
<1>q. QED
  BY <1>1, <1>2

\* However late a click arrives, and whatever the manager runs by then, the task that
\* is stopped is the one the page showed (request_stop compares the ids).
THEOREM StopsHitSeen == FeedSpec => StopHitsSeen
<1>1. FeedSpec => []HeldInv
  BY HeldInit, HeldStep, PTL DEF FeedSpec
<1>2. HeldInv /\ [FeedNext]_allVars => [asked' \ asked \subseteq {clicked}]_allVars
  BY AskedStep
<1>q. QED
  BY <1>1, <1>2, PTL DEF FeedSpec, StopHitsSeen
=============================================================================
