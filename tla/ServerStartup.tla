--------------------------- MODULE ServerStartup ---------------------------
(***************************************************************************)
(* From starting the program to a page that shows the application.         *)
(*                                                                         *)
(* A program that finds a current database starts its services and serves. *)
(* One that finds an earlier version serves a maintenance page first, with *)
(* a stream of events that page subscribes to, upgrades the database       *)
(* (SchemaUpgrade) on another thread, tells the pages how it ended, starts *)
(* the services, and lets requests through to the application by raising a *)
(* flag.  The first thing the services do is resume the task that was      *)
(* running when the database was last used.                                *)
(*                                                                         *)
(* Everything but the database is lost when the program is killed, which   *)
(* may happen between any two transactions; a statement may also fail.     *)
(* Both, and the signal that stops the program, are counted as mishaps.    *)
(* Of the messages of the stream only the last is kept, complete or        *)
(* failed; progress lines are not.                                         *)
(***************************************************************************)
EXTENDS SchemaUpgrade

CONSTANTS
  Pages,      \* browser tabs opened on the server
  MaxMishaps  \* bound on kills, failures and signals together

ASSUME StartupAssumption == MaxMishaps \in Nat

VARIABLES
  \* the program
  proc,       \* what it is doing
  maintaining,\* it started in maintenance mode: the stream is on offer
  history,    \* the last message recorded for pages that come late
  sent,       \* the message that has gone out on the channel
  ready,      \* the flag that lets requests through to the application
  services,   \* the queue processor runs
  signalled,  \* it was asked to stop
  \* the browser
  page,       \* what each tab shows
  inbox,      \* the message that has reached it
  \* bound
  mishaps

procVars == <<proc, maintaining, history, sent, ready, services, signalled>>
pageVars == <<page, inbox>>
vars == <<shape, version, meta, rows, stage, proc, maintaining, history, sent, ready,
          services, signalled, page, inbox, mishaps>>

Procs == {"down", "starting", "upgrading", "upgraded", "failing", "serving", "draining"}
Messages == {"none", "complete", "failed"}
Shows == {"away", "loaded", "subscribed", "watching", "reloading", "app", "told", "lost"}

\* The listener accepts connections: from the time it is bound until a
\* signal closes it.
Listening == proc \in {"upgrading", "upgraded", "failing", "serving"} /\ ~signalled
Connected == {p \in Pages : page[p] \in {"subscribed", "watching"}}

Fresh ==
  /\ maintaining = FALSE /\ history = "none" /\ sent = "none"
  /\ ready = FALSE /\ services = FALSE /\ signalled = FALSE

Init ==
  /\ InitDatabase
  /\ stage = "step"
  /\ proc = "down" /\ Fresh
  /\ page = [p \in Pages |-> "away"] /\ inbox = [p \in Pages |-> "none"]
  /\ mishaps = 0

Mishap == mishaps < MaxMishaps /\ mishaps' = mishaps + 1

\* The process ends: what it kept is gone, and a stream that is broken off
\* is opened again by the browser.
Ends ==
  /\ proc' = "down"
  /\ maintaining' = FALSE /\ history' = "none" /\ sent' = "none"
  /\ ready' = FALSE /\ services' = FALSE /\ signalled' = FALSE
  /\ stage' = "step"
  /\ page' = [p \in Pages |-> IF p \in Connected THEN "loaded" ELSE page[p]]
  /\ inbox' = [p \in Pages |-> IF p \in Connected THEN "none" ELSE inbox[p]]
-----------------------------------------------------------------------------
\* The program

Start_Ready ==
  /\ proc = "down"
  /\ IF version = 0 THEN CreateSchema ELSE UNCHANGED <<shape, version, meta, rows, stage>>
  /\ LET migrate == version \in 2..(CURRENT_SCHEMA_VERSION - 1)
     IN /\ proc' = IF migrate THEN "upgrading" ELSE "starting"
        /\ maintaining' = migrate
        /\ ready' = TRUE
  /\ UNCHANGED <<history, sent, services, signalled, pageVars, mishaps>>

\* main decides by the version it finds whether to create, to serve or to
\* upgrade first.
Start ==
  /\ proc = "down"
  /\ IF version = 0 THEN CreateSchema ELSE UNCHANGED <<shape, version, meta, rows, stage>>
  /\ LET migrate == version \in 2..(CURRENT_SCHEMA_VERSION - 1)
     IN /\ proc' = IF migrate THEN "upgrading" ELSE "starting"
        /\ maintaining' = migrate
        /\ ready' = ~migrate
  /\ UNCHANGED <<history, sent, services, signalled, pageVars, mishaps>>

\* Without an upgrade the services start before anything is served, and an
\* error ends the program.
StartServices ==
  /\ proc = "starting"
  /\ proc' = "serving" /\ services' = TRUE
  /\ UNCHANGED <<dbVars, stage, maintaining, history, sent, ready, signalled, pageVars, mishaps>>

Upgrade ==
  /\ proc \in {"upgrading", "draining"} /\ version < CURRENT_SCHEMA_VERSION
  /\ UpgradeStep
  /\ UNCHANGED <<procVars, pageVars, mishaps>>

\* A statement fails, by a fault or because the tables are not what it
\* expects: its transaction is undone and the upgrade ends.
UpgradeFails ==
  /\ proc \in {"upgrading", "draining"} /\ version < CURRENT_SCHEMA_VERSION
  /\ (Refused /\ UNCHANGED mishaps) \/ Mishap
  /\ IF proc = "draining"
     THEN Ends
     ELSE /\ proc' = "failing" /\ stage' = "step"
          /\ UNCHANGED <<maintaining, history, sent, ready, services, signalled, pageVars>>
  /\ UNCHANGED dbVars

\* The upgrade has ended: the message is recorded first
Record ==
  /\ history = "none"
  /\ \/ /\ proc = "upgrading" /\ version = CURRENT_SCHEMA_VERSION
        /\ proc' = "upgraded" /\ history' = "complete"
     \/ proc = "failing" /\ history' = "failed" /\ UNCHANGED proc
  /\ UNCHANGED <<dbVars, stage, maintaining, sent, ready, services, signalled, pageVars, mishaps>>

\* and then sent to every page that has subscribed.
Broadcast ==
  /\ history # "none" /\ sent = "none"
  /\ sent' = history
  /\ inbox' = [p \in Pages |-> IF p \in Connected THEN history ELSE inbox[p]]
  /\ UNCHANGED <<dbVars, stage, proc, maintaining, history, ready, services, signalled,
                 page, mishaps>>

\* Half a second later the services start.  If they do not, that is logged
\* and no more.
StartAppServices ==
  /\ proc = "upgraded" /\ sent = "complete"
  /\ \/ services' = TRUE /\ UNCHANGED mishaps
     \/ UNCHANGED services /\ Mishap
  /\ proc' = "serving"
  /\ UNCHANGED <<dbVars, stage, maintaining, history, sent, ready, signalled, pageVars>>

SetReady ==
  /\ proc = "serving" /\ ~ready
  /\ ready' = TRUE
  /\ UNCHANGED <<dbVars, stage, proc, maintaining, history, sent, services, signalled,
                 pageVars, mishaps>>

\* Ten seconds after a failure the program exits.
ExitFailed ==
  /\ proc = "failing" /\ sent = "failed"
  /\ Ends
  /\ UNCHANGED <<dbVars, mishaps>>

\* The queue processor resumes the task left running.  A scan still open is
\* finished; of one that was stopped every phase is passed over, and the task
\* is completed all the same.
ResumeTask ==
  /\ proc = "serving" /\ services /\ rows.task = "running"
  /\ rows' = [rows EXCEPT !.task = "completed",
                          !.scan = IF @ = "open" THEN "completed" ELSE @]
  /\ UNCHANGED <<shape, version, meta, stage, procVars, pageVars, mishaps>>

\* The program is killed.
Crash ==
  /\ proc # "down" /\ Mishap
  /\ Ends
  /\ UNCHANGED dbVars

\* It is asked to stop: no connection is accepted any more, the queue
\* processor is told if it already listens,
Signal ==
  /\ Listening /\ Mishap
  /\ signalled' = TRUE
  /\ services' = FALSE
  /\ UNCHANGED <<dbVars, stage, proc, maintaining, history, sent, ready, pageVars>>

\* and once the pages have let go of their streams the server returns.  An
\* upgrade that is under way goes on to its end on its own thread; what was
\* to follow it does not.
ServerReturns ==
  /\ signalled /\ proc # "draining" /\ Connected = {}
  /\ IF proc = "upgrading" /\ version < CURRENT_SCHEMA_VERSION
     THEN /\ proc' = "draining"
          /\ UNCHANGED <<stage, maintaining, history, sent, ready, services, signalled, pageVars>>
     ELSE Ends
  /\ UNCHANGED <<dbVars, mishaps>>

Drained ==
  /\ proc = "draining" /\ version = CURRENT_SCHEMA_VERSION
  /\ Ends
  /\ UNCHANGED <<dbVars, mishaps>>
-----------------------------------------------------------------------------
\* The pages.  Where a request is answered by what is decided by the flag.

Answer == IF ready THEN "app" ELSE "loaded"

Visit(p) ==
  /\ page[p] = "away" /\ Listening
  /\ page' = [page EXCEPT ![p] = Answer]
  /\ UNCHANGED <<dbVars, stage, procVars, inbox, mishaps>>

\* The maintenance page opens its stream, and again each time the connection
\* breaks.  A server that did not start in maintenance mode has no such
\* address and answers with a page, which ends the attempts.
Subscribe(p) ==
  /\ page[p] = "loaded" /\ Listening
  /\ page' = [page EXCEPT ![p] = IF maintaining THEN "subscribed" ELSE "lost"]
  /\ UNCHANGED <<dbVars, stage, procVars, inbox, mishaps>>

ReadHistory_Skipped(p) ==
  /\ page[p] = "subscribed"
  /\ page' = [page EXCEPT ![p] = "watching"]
  /\ UNCHANGED <<dbVars, stage, procVars, inbox, mishaps>>

\* The handler, having subscribed, replays what was recorded before.
ReadHistory(p) ==
  /\ page[p] = "subscribed"
  /\ page' = [page EXCEPT ![p] = "watching"]
  /\ inbox' = [inbox EXCEPT ![p] = IF history # "none" THEN history ELSE @]
  /\ UNCHANGED <<dbVars, stage, procVars, mishaps>>

Receive(p) ==
  /\ page[p] = "watching" /\ inbox[p] # "none"
  /\ page' = [page EXCEPT ![p] = IF inbox[p] = "complete" THEN "reloading" ELSE "told"]
  /\ inbox' = [inbox EXCEPT ![p] = "none"]
  /\ UNCHANGED <<dbVars, stage, procVars, mishaps>>

\* Two seconds after complete; the server may be gone by then.
Reload(p) ==
  /\ page[p] = "reloading"
  /\ page' = [page EXCEPT ![p] = IF Listening THEN Answer ELSE "away"]
  /\ UNCHANGED <<dbVars, stage, procVars, inbox, mishaps>>

PageStep(p) == Subscribe(p) \/ ReadHistory(p) \/ Receive(p) \/ Reload(p)

Progress ==
  \/ Start \/ StartServices \/ Upgrade
  \/ Record \/ Broadcast \/ StartAppServices \/ SetReady \/ ExitFailed
  \/ ResumeTask \/ ServerReturns \/ Drained

Next ==
  \/ Progress
  \/ UpgradeFails
  \/ Crash
  \/ Signal
  \/ \E p \in Pages : Visit(p) \/ PageStep(p)

\* The program runs on, is started again when it ends (as a service manager
\* does), and the browsers go on; mishaps and visits are up to the world.
Fairness ==
  /\ WF_vars(Progress)
  /\ \A p \in Pages : WF_vars(PageStep(p))

Spec == Init /\ [][Next]_vars /\ Fairness
=============================================================================
