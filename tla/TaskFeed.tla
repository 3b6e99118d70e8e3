------------------------------ MODULE TaskFeed ------------------------------
(***************************************************************************)
(* What a page of the web interface knows of the task manager: the         *)
(* messages TaskManager broadcasts, the thread that repeats them while a   *)
(* task runs, the WebSocket that carries them, and the page's TaskContext, *)
(* which makes of them what the page shows and when it loads its data      *)
(* again.  The manager is TaskManager itself, step by step; requests about *)
(* schedules, roots and compaction are left out.                           *)
(*                                                                         *)
(* One page: another one only adds messages.  A message is the kind and    *)
(* what TaskContext looks at.  An answer to a load of data is what the     *)
(* tables were when it was asked for, or later: here, when it was.         *)
(*                                                                         *)
(* link  "down"        the page has no socket, or one that is closed       *)
(*       "open"        it has one; the server has not yet subscribed       *)
(*       "subscribed"  the server has not yet sent the state to it         *)
(*       "up"          both are done                                       *)
(* wire  what the page will receive, from the broadcast channel on         *)
(* page  task, status   activeTask (0 when null)                           *)
(*       last           lastProcessedState                                 *)
(*       paused         pauseState (NoPause when null)                     *)
(***************************************************************************)
EXTENDS TaskManager

CONSTANTS
  Capacity,   \* of the broadcast channel
  MaxMishaps  \* bound: interrupts and faults together

ASSUME FeedAssumption == Capacity \in Nat \ {0} /\ MaxMishaps \in Nat

VARIABLES
  tickers,    \* broadcast threads: the task each is for, and its next step
  link, wire,
  page,
  data,       \* the tasks whose end is in the data the page shows
  clicked,    \* the task of a stop request on its way, or that request_stop holds
  overtaken   \* history: tasks that had ended when set_pause wrote that they pause

feed == <<tickers, link, wire, page, data, clicked, overtaken>>
allVars == <<vars, feed>>

Nothing == [task |-> 0, status |-> "none"]

FeedInit ==
  /\ Init
  /\ tickers = {}
  /\ link = "down" /\ wire = <<>>
  /\ page = [task |-> 0, status |-> "none", last |-> Nothing, paused |-> NoPause]
  /\ data = {} /\ clicked = 0 /\ overtaken = {}
-----------------------------------------------------------------------------
(* broadcast_current_state_locked *)

OfTask(t, st) ==
  [kind |-> "active_task", task |-> t, until |-> NoPause,
   status |-> IF st \in Terminal THEN st ELSE "live"]
OfPause(until) == [kind |-> "paused", task |-> 0, status |-> "none", until |-> until]
NoActiveTask == [kind |-> "no_active_task", task |-> 0, status |-> "none", until |-> NoPause]

\* A terminal state is sent by on_task_complete alone.
Broadcast(t, st, paused, until, allowTerminal) ==
  IF t # 0
    THEN IF st \in Terminal /\ ~allowTerminal THEN <<>> ELSE <<OfTask(t, st)>>
    ELSE IF paused THEN <<OfPause(until)>> ELSE <<NoActiveTask>>

CurrentState(allowTerminal) == Broadcast(current, status, isPaused, pauseUntil, allowTerminal)

Subscribed == {"subscribed", "up"}

\* To the page, whose link is "to" afterwards.  A receiver that lags is closed.
Send(msgs, to) ==
  LET heard == to \in Subscribed /\ msgs # <<>> /\ ~isShuttingDown
  IN \/ ~heard /\ link' = to /\ UNCHANGED wire
     \/ heard /\ Len(wire) < Capacity /\ link' = to /\ wire' = wire \o msgs
     \/ heard /\ Len(wire) = Capacity /\ link' = "down" /\ wire' = <<>>

Spawn ==
  tickers' = IF Idle /\ current' # 0 THEN tickers \cup {[task |-> current', next |-> "send"]}
                                     ELSE tickers

\* Every 250 ms.  Two threads for one task at the same step count as one.
TickerSends(k) ==
  /\ Mutex /\ k.next = "send"
  /\ Send(CurrentState(FALSE), link)
  /\ tickers' = (tickers \ {k}) \cup {[k EXCEPT !.next = "check"]}
  /\ UNCHANGED <<vars, page, data, clicked, overtaken>>

\* Under a lock of its own.
TickerChecks(k) ==
  /\ Mutex /\ k.next = "check"
  /\ tickers' = IF current = k.task /\ status \notin Terminal
                  THEN (tickers \ {k}) \cup {[k EXCEPT !.next = "send"]}
                  ELSE tickers \ {k}
  /\ UNCHANGED <<vars, link, wire, page, data, clicked, overtaken>>
-----------------------------------------------------------------------------
(* The manager *)

\* Bound: requests to pause or shut down, errors and crashes together.
Calm == interrupts + faults < MaxMishaps

Unseen == Spawn /\ UNCHANGED <<link, wire, page, data, clicked, overtaken>>

ManagerWorks ==
  /\ \/ Initialize \/ RunInterrupted \/ AskShuttingDown \/ AskPaused \/ OnStopped \/ OnError
     \/ PollQueue \/ StartProcess \/ Tick
  /\ Unseen

ManagerIsAsked ==
  /\ (Calm /\ Shutdown) \/ \E r \in Roots, set \in Settings : ScheduleManualScan(r, set)
  /\ Unseen

TaskRuns ==
  /\ RunCompletes \/ (Calm /\ RunFails) \/ InitializeFails \/ RollbackFails \/ CleanupFails
  /\ Unseen

\* The message comes last, and is of the state the request leaves.
PauseSet(until) ==
  /\ Calm /\ SetPause(until)
  /\ Send(IF holder' = "pause" THEN <<>> ELSE Broadcast(current, status, TRUE, until, FALSE), link)
  /\ UNCHANGED <<tickers, page, data, clicked, overtaken>>

PauseMarked ==
  /\ MarkPausing
  /\ Send(Broadcast(current, status', isPaused, pauseUntil, FALSE), link)
  /\ overtaken' = IF status \in Terminal THEN overtaken \cup {current} ELSE overtaken
  /\ UNCHANGED <<tickers, page, data, clicked>>

\* It comes before the next task starts.
PauseCleared ==
  /\ ClearPause
  /\ Send(Broadcast(0, "none", FALSE, NoPause, FALSE), link)
  /\ Spawn
  /\ UNCHANGED <<page, data, clicked, overtaken>>

\* It comes before on_task_complete clears the task.
CompletionSent ==
  /\ OnTaskComplete
  /\ Send(CurrentState(TRUE), link)
  /\ UNCHANGED <<tickers, page, data, clicked, overtaken>>

\* A connection that is closed takes with it what the page had not received.
ConnectionsClose ==
  /\ tickers' = {} /\ link' = "down" /\ wire' = <<>> /\ clicked' = 0
  /\ UNCHANGED <<page, data, overtaken>>

ProcessExits == Exit /\ ConnectionsClose
ProcessCrashes == Calm /\ Crash /\ ConnectionsClose
-----------------------------------------------------------------------------
(* The socket: handle_scan_progress and connectWebSocket *)

Ended == {t \in DOMAIN tasks : tasks[t].status \in Terminal}

\* App shows its pages, which load their data, while there is a connection.
Connect ==
  /\ link = "down" /\ up
  /\ link' = "open" /\ data' = Ended
  /\ UNCHANGED <<vars, tickers, wire, page, clicked, overtaken>>

Subscribe ==
  /\ link = "open" /\ Mutex
  /\ link' = "subscribed"
  /\ UNCHANGED <<vars, tickers, wire, page, data, clicked, overtaken>>

Greet_Silent ==
  /\ link = "subscribed" /\ Mutex
  /\ Send(<<>>, "up")
  /\ UNCHANGED <<vars, tickers, page, data, clicked, overtaken>>

Greet ==
  /\ link = "subscribed" /\ Mutex
  /\ Send(CurrentState(FALSE), "up")
  /\ UNCHANGED <<vars, tickers, page, data, clicked, overtaken>>

Disconnect ==
  /\ link # "down"
  /\ link' = "down" /\ wire' = <<>>
  /\ UNCHANGED <<vars, tickers, page, data, clicked, overtaken>>
-----------------------------------------------------------------------------
(* The page: handleBroadcastMessage *)

Seen(m) == [task |-> m.task, status |-> m.status]
Repeated(m) == m.status \in Terminal /\ page.last = Seen(m)
Cleared(until) == [page EXCEPT !.task = 0, !.status = "none", !.paused = until]

Shown(m) ==
  CASE m.kind = "paused" -> Cleared(m.until)
    [] m.kind = "no_active_task" -> [Cleared(NoPause) EXCEPT !.last = Nothing]
    [] m.kind = "active_task" /\ Repeated(m) -> page
    [] m.kind = "active_task" /\ ~Repeated(m) ->
         [page EXCEPT !.task = m.task, !.status = m.status, !.last = Seen(m)]

SignalsEnd_TerminalOnly(m) == m.status \in Terminal /\ ~Repeated(m)

\* setLastTaskCompletedAt, on which the parts of a page load their data again.
SignalsEnd(m) ==
  \/ m.kind = "no_active_task" /\ page.last # Nothing
  \/ /\ m.kind = "active_task" /\ ~Repeated(m)
     /\ m.status \in Terminal \/ page.last.task \notin {0, m.task}

Receive ==
  /\ wire # <<>>
  /\ page' = Shown(Head(wire))
  /\ data' = IF SignalsEnd(Head(wire)) THEN Ended ELSE data
  /\ wire' = Tail(wire)
  /\ UNCHANGED <<vars, tickers, link, clicked, overtaken>>

\* The stable field currentTaskId.
TaskShown == IF page.status \in Terminal THEN 0 ELSE page.task

\* Until one stop has been accepted, which bounds the run.
ClickStop ==
  /\ link # "down" /\ TaskShown # 0
  /\ clicked = 0 /\ asked = {}
  /\ clicked' = TaskShown
  /\ UNCHANGED <<vars, tickers, link, wire, page, data, overtaken>>

StopArrives_AnyTask ==
  /\ clicked # 0 /\ Mutex
  /\ IF ~Idle /\ ~isShuttingDown /\ status = "Running"
       THEN RequestStop /\ UNCHANGED clicked
       ELSE clicked' = 0 /\ UNCHANGED vars
  /\ UNCHANGED <<tickers, link, wire, page, data, overtaken>>

\* request_stop(task_id): another task than the one meant is left alone.
StopArrives ==
  /\ clicked # 0 /\ Mutex
  /\ IF current = clicked /\ ~isShuttingDown /\ status = "Running"
       THEN RequestStop /\ UNCHANGED clicked
       ELSE clicked' = 0 /\ UNCHANGED vars
  /\ UNCHANGED <<tickers, link, wire, page, data, overtaken>>

StopAccepted ==
  /\ AcceptStop
  /\ clicked' = 0
  /\ UNCHANGED <<tickers, link, wire, page, data, overtaken>>
-----------------------------------------------------------------------------
FeedNext ==
  \/ ManagerWorks \/ ManagerIsAsked \/ TaskRuns
  \/ \E until \in {Forever} \cup 2 .. MaxTime : PauseSet(until)
  \/ PauseMarked \/ PauseCleared \/ CompletionSent \/ ProcessExits \/ ProcessCrashes
  \/ \E k \in tickers : TickerSends(k) \/ TickerChecks(k)
  \/ Connect \/ Subscribe \/ Greet \/ Disconnect \/ Receive
  \/ ClickStop \/ StopArrives \/ StopAccepted

FeedSpec == FeedInit /\ [][FeedNext]_allVars

\* The manager, the broadcast threads, the socket and the page go on.  A task may run
\* and a pause may last for ever, and connections may be lost again and again.
FairFeed ==
  /\ FeedSpec
  /\ WF_allVars(ManagerWorks \/ CompletionSent \/ StopAccepted \/ PauseMarked \/ ProcessExits)
  /\ WF_allVars(\E k \in tickers : TickerSends(k) \/ TickerChecks(k))
  /\ WF_allVars(Connect \/ Subscribe \/ Greet \/ Receive)
-----------------------------------------------------------------------------
(* What is promised *)

\* When the manager stays with one task, or without any, a page whose connection
\* holds ends up showing that: whatever it missed while it was away, lagging or
\* connecting (task_manager.rs:458-466).  Excepted are a task that was asked to stop
\* and, while the pause lasts, one that ended as a pause was set: see IdleShown and
\* PausedTaskGone.
TaskShownTrue ==
  \A t \in 0 .. MaxTasks :
    <>[](up /\ ~isShuttingDown /\ current = t /\ link # "down")
      => <>[](TaskShown = t \/ TaskShown \in asked \/ (isPaused /\ TaskShown \in overtaken))

\* A page that shows a task which has ended loads its data again, with the end in it,
\* unless its connection is lost, it is told of a pause first, or a stop was asked for.
EndSeen ==
  \A t \in 1 .. MaxTasks :
    (link # "down" /\ TaskShown = t /\ t \in Ended)
      ~> (t \in data \cup asked \/ link = "down" \/ page.paused # NoPause)

\* A stop never hits another task than the one the user saw, however late the click
\* arrives and whatever the manager runs by then (request_stop).
StopHitsSeen ==
  [][asked' \ asked \subseteq {clicked}]_allVars
-----------------------------------------------------------------------------
(* What the documents say *)

\* task_manager.rs:465: "If the web UI is in a state in which it thinks an active task
\* is occurring, these messages are enough to get it into a corrected state".
IdleShown ==
  <>[](up /\ ~isShuttingDown /\ Idle /\ link # "down") => <>[](TaskShown = 0)

\* The same of a task that no user stopped and that left the manager by a pause: its
\* thread may have set how it ended just before set_pause wrote that it is pausing.
PausedTaskGone ==
  <>[](up /\ ~isShuttingDown /\ Idle /\ isPaused /\ link # "down")
    => <>[](TaskShown \in asked \cup {0})

\* CHANGELOG.md:409: "Real-time WebSocket updates ensure all UI components reflect
\* current pause state".
PauseShown ==
  \A p \in BOOLEAN :
    <>[](up /\ ~isShuttingDown /\ Idle /\ isPaused = p /\ link # "down")
      => <>[]((page.paused # NoPause) = p)
=============================================================================
