------------------------------ MODULE TaskPool ------------------------------
(***************************************************************************)
(* What a thread pool promises its clients: a bounded FIFO queue of tasks, *)
(* a fixed set of executors that each run one task at a time, no task run  *)
(* twice, and, once the pool is closed, no task started any more: those    *)
(* still queued are dropped.  The pools of the repository are shown to     *)
(* implement this specification, or the runs show where they do not.       *)
(***************************************************************************)
EXTENDS Naturals, Sequences

CONSTANTS
  Tasks,
  Executors,
  Capacity,     \* most tasks that may be queued
  Idle          \* "no task"

VARIABLES
  queue,        \* the tasks accepted and not yet started, oldest first
  exec,         \* the task each executor runs, or Idle
  finished,     \* the tasks that have been run
  closed        \* has the pool been shut down?

vars == <<queue, exec, finished, closed>>

Queued == {queue[i] : i \in DOMAIN queue}
Running == {exec[e] : e \in Executors} \ {Idle}

Init ==
  /\ queue = <<>>
  /\ exec = [e \in Executors |-> Idle]
  /\ finished = {}
  /\ closed = FALSE

\* A task nobody has submitted before joins the end of the queue.
Accept(t) ==
  /\ ~closed
  /\ Len(queue) < Capacity
  /\ t \notin Queued \cup Running \cup finished
  /\ queue' = Append(queue, t)
  /\ UNCHANGED <<exec, finished, closed>>

\* An idle executor starts the oldest task.
Start(e) ==
  /\ ~closed
  /\ queue # <<>>
  /\ exec[e] = Idle
  /\ exec' = [exec EXCEPT ![e] = Head(queue)]
  /\ queue' = Tail(queue)
  /\ UNCHANGED <<finished, closed>>

Finish(e) ==
  /\ exec[e] # Idle
  /\ finished' = finished \cup {exec[e]}
  /\ exec' = [exec EXCEPT ![e] = Idle]
  /\ UNCHANGED <<queue, closed>>

Close ==
  /\ ~closed
  /\ closed' = TRUE
  /\ queue' = <<>>
  /\ UNCHANGED <<exec, finished>>

Next ==
  \/ \E t \in Tasks : Accept(t)
  \/ \E e \in Executors : Start(e) \/ Finish(e)
  \/ Close

Spec == Init /\ [][Next]_vars

=============================================================================
