------------------------------ MODULE TaskPool ------------------------------
(***************************************************************************)
(* What ThreadPool (thread_pool.hpp) promises to the code that uses it,    *)
(* with no thread, lock or condition variable in sight.  Tasks begin in    *)
(* the order they were submitted, each at most once; and once the pool is  *)
(* closed, which is what EpollNet::Run relies on before it frees every     *)
(* connection, no task is running and none will ever begin.                *)
(***************************************************************************)
EXTENDS Sequences, Functions

CONSTANT Task               \* the tasks that may be submitted

VARIABLES
  queue,                    \* submitted, not begun, oldest first
  running,                  \* begun, not finished
  finished,                 \* finished
  closed                    \* the pool has been stopped for good

poolVars == <<queue, running, finished, closed>>

Init ==
  /\ queue = << >>
  /\ running = {}
  /\ finished = {}
  /\ closed = FALSE

Submit(t) ==
  /\ t \notin Range(queue) \cup running \cup finished
  /\ queue' = Append(queue, t)
  /\ UNCHANGED <<running, finished, closed>>

Begin ==
  /\ ~closed
  /\ queue # << >>
  /\ running' = running \cup {Head(queue)}
  /\ queue' = Tail(queue)
  /\ UNCHANGED <<finished, closed>>

End(t) ==
  /\ t \in running
  /\ running' = running \ {t}
  /\ finished' = finished \cup {t}
  /\ UNCHANGED <<queue, closed>>

Close ==
  /\ running = {}
  /\ closed' = TRUE
  /\ UNCHANGED <<queue, running, finished>>

Next ==
  \/ \E t \in Task : Submit(t)
  \/ Begin
  \/ \E t \in Task : End(t)
  \/ Close

Spec == Init /\ [][Next]_poolVars
=============================================================================
