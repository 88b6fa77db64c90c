--------------------------- MODULE CommandService ---------------------------
(***************************************************************************)
(* What ladaemon promises to the controller that talks to it, without      *)
(* threads, mutex or program counters: each accepted message adds a whole  *)
(* batch of commands behind those already pending, commands run one at a   *)
(* time in the order they were added, and the process may die, after which *)
(* nothing is accepted and nothing runs.                                   *)
(***************************************************************************)
EXTENDS Sequences

CONSTANT Batches        \* the batches one message can stand for

VARIABLES pending,      \* accepted commands that have not finished yet
          done,         \* the commands that have finished, oldest first
          alive         \* TRUE while the service runs

vars == <<pending, done, alive>>

Init ==
    /\ pending = <<>>
    /\ done = <<>>
    /\ alive = TRUE

\* One message is taken: its batch enters as a whole, behind the others.
Accept ==
    /\ alive
    /\ \E b \in Batches : pending' = pending \o b
    /\ UNCHANGED <<done, alive>>

\* The oldest pending command finishes.
Run ==
    /\ alive
    /\ pending # <<>>
    /\ done' = Append(done, Head(pending))
    /\ pending' = Tail(pending)
    /\ UNCHANGED alive

\* The service ends; what is pending is lost, it is kept in memory only.
Die ==
    /\ alive
    /\ alive' = FALSE
    /\ UNCHANGED <<pending, done>>

Next == Accept \/ Run \/ Die

Spec == Init /\ [][Next]_vars
=============================================================================
