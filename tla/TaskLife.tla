------------------------------ MODULE TaskLife ------------------------------
(***************************************************************************)
(* What the task manager promises of each task, whatever requests, pauses, *)
(* restarts and errors come in between: it is begun once, creates one scan *)
(* at most, the scan ends once, and only then is the task done.  Where the *)
(* scan cannot be rolled back the task is abandoned, for good.  One task   *)
(* at a time is busy.                                                      *)
(***************************************************************************)
EXTENDS Integers, Sequences

VARIABLE life   \* the stage of each task

Busy == {"begun", "scanning", "ended"}

Moves ==
  {<<"pending", "begun">>, <<"pending", "gone">>,
   <<"begun", "scanning">>, <<"scanning", "ended">>,
   <<"begun", "done">>, <<"ended", "done">>, <<"done", "gone">>,
   <<"scanning", "abandoned">>, <<"abandoned", "gone">>}

Init == life = <<>>

Next ==
  /\ Len(life') >= Len(life)
  /\ \A t \in DOMAIN life : life'[t] # life[t] => <<life[t], life'[t]>> \in Moves
  /\ \A t \in DOMAIN life' \ DOMAIN life : life'[t] \in {"pending", "begun"}
  /\ \A t, u \in DOMAIN life' : life'[t] \in Busy /\ life'[u] \in Busy => t = u

Spec == Init /\ [][Next]_life
=============================================================================
