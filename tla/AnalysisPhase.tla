--------------------------- MODULE AnalysisPhase ---------------------------
(***************************************************************************)
(* Phase 3 of a scan: a dispatcher that fetches files in batches and sends *)
(* them through a bounded channel, worker threads that analyze them, and   *)
(* the tracker whose high water mark lets a resumed scan skip what is      *)
(* done.  ScanLifecycle takes each analysis for one step, Analyze; here is *)
(* everything around it.                                                   *)
(*                                                                         *)
(* Files are the item ids that need analysis.  They are fetched, sent and  *)
(* received in ascending order, so the batch and the channel are sets of   *)
(* which the least element comes first.  What is written for a file is     *)
(* ScanLifecycle's; here a file is                                         *)
(*   "todo"     not analyzed yet                                           *)
(*   "written"  analyzed and no longer a candidate                         *)
(*   "blank"    handled, but with nothing to show for it: the file guard   *)
(*              or an unreadable file; still a candidate                   *)
(*   "lost"     its transaction failed, or panicked                        *)
(***************************************************************************)
EXTENDS Integers, FiniteSets

CONSTANTS
  NumFiles,
  Threads,      \* analysis_threads of the configuration
  BatchSize,    \* files per fetch_next_batch, 100 in the code
  Capacity,     \* of the channel, 100 in the code
  MaxPanics,    \* bound: panics in persist_hash
  MaxFaults     \* bound: stops, pauses, crashes, failed statements

ASSUME AnalysisAssumption ==
  /\ NumFiles \in Nat /\ MaxPanics \in Nat /\ MaxFaults \in Nat
  /\ Threads \in Nat \ {0} /\ BatchSize \in Nat \ {0} /\ Capacity \in Nat \ {0}

Files == 1 .. NumFiles
Least(S) == CHOOSE i \in S : \A j \in S : i <= j
Workers == 1 .. Threads

VARIABLES
  scan,      \* "open" in this phase, "advanced", "stopped" or "error"
  file,      \* what has become of each file
  hwm,       \* high_water_mark in tasks.task_state
  pc,        \* the dispatcher
  cursor,    \* last_item_id
  batch,     \* fetched, not sent yet
  queue,     \* the channel
  worker,    \* what each thread does, with which file
  inFlight,  \* AnalysisTracker.in_flight
  intr,      \* the interrupt token, and who set it
  panics, faults

db == <<scan, file, hwm>>
dispatcher == <<pc, cursor, batch>>
vars == <<scan, file, hwm, pc, cursor, batch, queue, worker, inFlight, intr,
          panics, faults>>

(***************************************************************************)
(* pc      "off"     nobody is in the phase                                *)
(*         "fetch"   at the top of the loop                                *)
(*         "send"    sending the batch                                     *)
(*         "join"    sender dropped, waiting for the pool                  *)
(*         "left"    returned TaskInterrupted                              *)
(*         "failed"  returned another error                                *)
(* worker  "none" not started, "idle" in recv, "reading", "writing" and    *)
(*         "completing" a file, "gone" ended, "dead" panicked              *)
(***************************************************************************)
NoThreads == [w \in Workers |-> [at |-> "none", file |-> 0]]
Ended == {"none", "gone", "dead"}
Uninterrupted == intr = "no"

Init ==
  /\ scan = "open" /\ file = [i \in Files |-> "todo"] /\ hwm = 0
  /\ pc = "off" /\ cursor = 0 /\ batch = {}
  /\ queue = {} /\ worker = NoThreads /\ inFlight = {}
  /\ intr = "no" /\ panics = 0 /\ faults = 0
-----------------------------------------------------------------------------
(* The dispatcher *)

Candidates_NoCursor(after) == {i \in Files : file[i] # "written"}

Candidates(after) == {i \in Files : i > after /\ file[i] # "written"}

\* Fresh tracker and channel; no more threads than files.
StartPhase ==
  LET count == Cardinality(Candidates(hwm))
  IN /\ pc = "off" /\ scan = "open"
     /\ pc' = "fetch" /\ cursor' = hwm /\ batch' = {}
     /\ queue' = {} /\ inFlight' = {}
     /\ worker' = [w \in Workers |->
                     [at |-> IF w <= count THEN "idle" ELSE "none", file |-> 0]]
     /\ UNCHANGED <<db, intr, panics, faults>>

\* ORDER BY item_id LIMIT BatchSize
NextBatch ==
  LET all == Candidates(cursor)
  IN {i \in all : Cardinality({j \in all : j <= i}) <= BatchSize}

Fetch ==
  /\ pc = "fetch" /\ Uninterrupted /\ NextBatch # {}
  /\ batch' = NextBatch
  /\ inFlight' = inFlight \cup NextBatch
  /\ pc' = "send"
  /\ UNCHANGED <<db, cursor, queue, worker, intr, panics, faults>>

\* Out of the loop: interrupted, or no file is left.
EndLoop ==
  /\ pc = "fetch" /\ (Uninterrupted => NextBatch = {})
  /\ pc' = "join"
  /\ UNCHANGED <<db, cursor, batch, queue, worker, inFlight, intr, panics, faults>>

\* A full channel blocks; the token is not looked at.
Send ==
  /\ pc = "send" /\ Cardinality(queue) < Capacity
  /\ cursor' = Least(batch)
  /\ queue' = queue \cup {cursor'}
  /\ batch' = batch \ {cursor'}
  /\ pc' = IF batch' = {} THEN "fetch" ELSE "send"
  /\ UNCHANGED <<db, worker, inFlight, intr, panics, faults>>

Joined_NoJoin == pc = "join"

Joined == pc = "join" /\ \A w \in Workers : worker[w].at \in Ended

LeavePhase ==
  /\ Joined
  /\ IF Uninterrupted THEN scan' = "advanced" /\ pc' = "off"
                      ELSE scan' = scan /\ pc' = "left"
  /\ UNCHANGED <<file, hwm, cursor, batch, queue, worker, inFlight, intr, panics, faults>>
-----------------------------------------------------------------------------
(* The workers *)

Step(w, from, to) ==
  /\ worker[w].at = from
  /\ worker' = [worker EXCEPT ![w].at = to]

Receive(w) ==
  /\ worker[w].at = "idle" /\ queue # {}
  /\ worker' = [worker EXCEPT ![w] = [at |-> "reading", file |-> Least(queue)]]
  /\ queue' = queue \ {Least(queue)}
  /\ UNCHANGED <<db, dispatcher, inFlight, intr, panics, faults>>

Exit_SenderKept(w) ==
  /\ queue = {} /\ pc = "off"
  /\ Step(w, "idle", "gone")
  /\ UNCHANGED <<db, dispatcher, queue, inFlight, intr, panics, faults>>

Exit_Undrained(w) ==
  /\ pc \notin {"fetch", "send"}
  /\ Step(w, "idle", "gone")
  /\ UNCHANGED <<db, dispatcher, queue, inFlight, intr, panics, faults>>

\* The channel is empty and its sender dropped.
Exit(w) ==
  /\ queue = {} /\ pc \notin {"fetch", "send"}
  /\ Step(w, "idle", "gone")
  /\ UNCHANGED <<db, dispatcher, queue, inFlight, intr, panics, faults>>

\* Hashing and validating, up to the last look at the token.
Read(w) ==
  /\ Step(w, "reading", IF Uninterrupted THEN "writing" ELSE "idle")
  /\ UNCHANGED <<db, dispatcher, queue, inFlight, intr, panics, faults>>

Persist(w, outcome) ==
  /\ Step(w, "writing", "completing")
  /\ file' = [file EXCEPT ![worker[w].file] = outcome]
  /\ UNCHANGED <<scan, hwm, dispatcher, queue, inFlight, intr, panics, faults>>

\* Logged; the tracker is not told.
PersistFails(w) ==
  /\ faults < MaxFaults /\ faults' = faults + 1
  /\ Step(w, "writing", "idle")
  /\ file' = [file EXCEPT ![worker[w].file] = "lost"]
  /\ UNCHANGED <<scan, hwm, dispatcher, queue, inFlight, intr, panics>>

\* new_hash.unwrap(): rolled back, and the thread's loop is gone.
PersistPanics(w) ==
  /\ panics < MaxPanics /\ panics' = panics + 1
  /\ Step(w, "writing", "dead")
  /\ file' = [file EXCEPT ![worker[w].file] = "lost"]
  /\ UNCHANGED <<scan, hwm, dispatcher, queue, inFlight, intr, faults>>

NewHwm_Next(i) ==
  IF i # Least(inFlight) THEN hwm
  ELSE IF inFlight = {i} THEN i ELSE Least(inFlight \ {i})

\* AnalysisTracker::complete_item, under its mutex
NewHwm(i) ==
  IF i # Least(inFlight) THEN hwm
  ELSE IF inFlight = {i} THEN i ELSE Least(inFlight \ {i}) - 1

\* set_task_state refuses when the task is no longer running.
CompleteItem(w) ==
  LET i == worker[w].file
  IN /\ Step(w, "completing", "idle")
     /\ inFlight' = inFlight \ {i}
     /\ hwm' = IF scan = "open" THEN NewHwm(i) ELSE hwm
     /\ UNCHANGED <<scan, file, dispatcher, queue, intr, panics, faults>>
-----------------------------------------------------------------------------
(* The end of the task, and what else can happen to it *)

Discard(st) ==
  /\ scan' = st
  /\ file' = [i \in Files |-> "todo"]
  /\ pc' = "off"
  /\ intr' = "no"
  /\ UNCHANGED <<hwm, cursor, batch, queue, worker, inFlight, panics, faults>>

OnStopped == pc = "left" /\ intr = "stop" /\ Discard("stopped")

OnError == pc = "failed" /\ Discard("error")

OnPaused ==
  /\ pc = "left" /\ intr = "pause"
  /\ pc' = "off" /\ intr' = "no"
  /\ UNCHANGED <<db, cursor, batch, queue, worker, inFlight, panics, faults>>

Fault == faults < MaxFaults /\ faults' = faults + 1

\* The `?` on fetch_next_batch: nobody waits for the pool.
FetchFails ==
  /\ Fault
  /\ pc = "fetch" /\ Uninterrupted
  /\ pc' = "failed"
  /\ UNCHANGED <<db, cursor, batch, queue, worker, inFlight, intr, panics>>

Interrupt(who) ==
  /\ Fault
  /\ pc # "off" /\ Uninterrupted
  /\ intr' = who
  /\ UNCHANGED <<db, dispatcher, queue, worker, inFlight, panics>>

Crash ==
  /\ Fault
  /\ pc # "off" /\ pc' = "off" /\ intr' = "no"
  /\ cursor' = 0 /\ batch' = {} /\ queue' = {}
  /\ worker' = NoThreads /\ inFlight' = {}
  /\ UNCHANGED <<db, panics>>
-----------------------------------------------------------------------------
Dispatch ==
  StartPhase \/ Fetch \/ EndLoop \/ Send \/ LeavePhase \/ OnStopped \/ OnError \/ OnPaused

Work(w) ==
  \/ Receive(w) \/ Exit(w) \/ Read(w)
  \/ \E outcome \in {"written", "blank"} : Persist(w, outcome)
  \/ PersistPanics(w)
  \/ CompleteItem(w)

Next ==
  \/ Dispatch
  \/ \E w \in Workers : Work(w) \/ PersistFails(w)
  \/ FetchFails \/ Crash
  \/ \E who \in {"stop", "pause"} : Interrupt(who)

Spec == Init /\ [][Next]_vars

\* Threads are scheduled, a read of a file returns, a pause ends.
FairSpec == Spec /\ WF_vars(Dispatch) /\ \A w \in Workers : WF_vars(Work(w))
-----------------------------------------------------------------------------
TypeOK ==
  /\ scan \in {"open", "advanced", "stopped", "error"}
  /\ file \in [Files -> {"todo", "written", "blank", "lost"}]
  /\ hwm \in 0 .. NumFiles /\ cursor \in 0 .. NumFiles
  /\ pc \in {"off", "fetch", "send", "join", "left", "failed"}
  /\ batch \subseteq Files /\ queue \subseteq Files
  /\ worker \in [Workers -> [at : Ended \cup {"idle", "reading", "writing", "completing"},
                             file : 0 .. NumFiles]]
  /\ inFlight \subseteq Files
  /\ intr \in {"no", "stop", "pause"}

\* The high water mark never passes a file that was not handled, in whatever order
\* the workers finish and across crashes and pauses: a resumed scan starts after
\* it and would never look at that file again (AnalysisTracker::complete_item).
HwmSafe == scan = "open" => \A i \in 1 .. hwm : file[i] \in {"written", "blank"}

\* No file is analyzed again once its results are stored, by a second worker or by
\* a resumed scan: the second analysis would log an undo entry for its own update.
NeverTwice ==
  \A w \in Workers : worker[w].at \in {"reading", "writing"} =>
    file[worker[w].file] # "written"

\* When a stopped scan has been rolled back, no worker is left that could still
\* write for it.
StoppedLeavesNothing ==
  scan = "stopped" => /\ \A i \in Files : file[i] = "todo"
                      /\ \A w \in Workers : worker[w].at \in Ended

\* If one thread lives to see the end of the phase, every file was handed to a
\* thread before the scan went on to its next phase, in this run or an earlier one.
EveryFileTried ==
  scan = "advanced" /\ (\E w \in Workers : worker[w].at = "gone") =>
    \A i \in Files : file[i] # "todo"

\* The phase ends: blocked on a full channel, waiting for the pool, interrupted or
\* not.
PhaseEnds == pc # "off" ~> pc = "off"

\* scanner.rs:162 says of an interrupt that the module "exits cleanly with the scan,
\* and database, in a resumable state".
InterruptExits == intr # "no" ~> intr = "no"

\* undo_log.rs:31 says of the versions a scan created that they "are simply deleted
\* on rollback"; a scan that failed is rolled back as one that was stopped.
ErrorLeavesNothing == scan = "error" => \A i \in Files : file[i] = "todo"
=============================================================================
