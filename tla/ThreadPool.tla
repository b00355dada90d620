----------------------------- MODULE ThreadPool -----------------------------
(***************************************************************************)
(* VWNet::ThreadPool of thread_pool.hpp: a FIFO of tasks behind Mutex_,    *)
(* workers that sleep on the condition variable TaskReady_, any number of  *)
(* threads that call Commit, and one owner that calls Start and Stop.      *)
(*                                                                         *)
(* Grain.  A step is the stretch between two points where another thread   *)
(* can see or change shared state.  Everything Commit does under Mutex_    *)
(* is one step, its notify_one is another.  In the worker, evaluating the  *)
(* wait predicate and joining the wait set are two steps: the predicate    *)
(* runs under Mutex_, which Stop never takes.  Joining the wait set and    *)
(* unlocking Mutex_ are one step, because condition_variable_any holds its *)
(* internal mutex across both and every notify takes that mutex.           *)
(*                                                                         *)
(* Running_ is a plain bool read and written without a lock.  The loop     *)
(* that reads it calls opaque lock functions, so a build re-reads it each  *)
(* time: a read returns the value before or after the racing write, and    *)
(* both are interleavings of single steps here.                            *)
(***************************************************************************)
EXTENDS Sequences, Functions, FiniteSets

CONSTANTS
  Worker,                   \* the threads Start() creates (ThreadCount_ of them)
  Producer,                 \* the threads that call Commit()
  Task,                     \* the tasks they commit
  NoTask,                   \* the empty std::function of an idle worker
  Nobody                    \* the holder of a free mutex

ASSUME PoolAssumption ==
  /\ IsFiniteSet(Worker)
  /\ IsFiniteSet(Producer)
  /\ NoTask \notin Task
  /\ Nobody \notin Worker

VARIABLES
  Running_,                 \* the flag every worker polls
  Tasks_,                   \* the queue, oldest first
  Mutex_,                   \* the worker holding Mutex_ between two steps
  pc,                       \* where each worker is in Work()
  job,                      \* the task each worker holds
  notifying,                \* producers between the unlock and notify_one
  owner,                    \* where the owner is: built, notifying, joining, stopped
  finished                  \* history: the tasks that have returned

vars == <<Running_, Tasks_, Mutex_, pc, job, notifying, owner, finished>>

In(label) == {w \in Worker : pc[w] = label}

Threads_ == Worker \ In("unborn")

\* The threads blocked in TaskReady_.wait().
TaskReady_ == In("waiting")

Goto(w, label) == pc' = [pc EXCEPT ![w] = label]

Init ==
  /\ Running_ = TRUE
  /\ Tasks_ = << >>
  /\ Mutex_ = Nobody
  /\ pc = [w \in Worker |-> "unborn"]
  /\ job = [w \in Worker |-> NoTask]
  /\ notifying = {}
  /\ owner = "built"
  /\ finished = {}

-----------------------------------------------------------------------------
(* Commit *)

\* Every task object is committed once.
Fresh(t) == t \notin Range(Tasks_) \cup Range(job) \cup finished

\* Mutant: notify_one only when the queue was empty.
CommitNotifiesIfEmpty(p, t) ==
  /\ p \notin notifying
  /\ Mutex_ = Nobody
  /\ Fresh(t)
  /\ Tasks_' = Append(Tasks_, t)
  /\ notifying' = IF Tasks_ = << >> THEN notifying \cup {p} ELSE notifying
  /\ UNCHANGED <<Running_, Mutex_, pc, job, owner, finished>>

\* The block that holds the lock_guard: emplace at the back, unlock.
Commit(p, t) ==
  /\ p \notin notifying
  /\ Mutex_ = Nobody
  /\ Fresh(t)
  /\ Tasks_' = Append(Tasks_, t)
  /\ notifying' = notifying \cup {p}
  /\ UNCHANGED <<Running_, Mutex_, pc, job, owner, finished>>

\* TaskReady_.notify_one(), after the unlock; lost when nobody waits.
NotifyOne(p) ==
  /\ p \in notifying
  /\ notifying' = notifying \ {p}
  /\ IF TaskReady_ = {}
     THEN UNCHANGED pc
     ELSE \E w \in TaskReady_ : Goto(w, "lock")
  /\ UNCHANGED <<Running_, Tasks_, Mutex_, job, owner, finished>>

-----------------------------------------------------------------------------
(* Work *)

\* while(Running_)
CheckRunning(w) ==
  /\ pc[w] = "loop"
  /\ Goto(w, IF Running_ THEN "lock" ELSE "exited")
  /\ UNCHANGED <<Running_, Tasks_, Mutex_, job, notifying, owner, finished>>

\* The lock_guard of a new cycle, or the relock of a wait() that was woken.
Acquire(w) ==
  /\ pc[w] = "lock"
  /\ Mutex_ = Nobody
  /\ Mutex_' = w
  /\ Goto(w, "locked")
  /\ UNCHANGED <<Running_, Tasks_, job, notifying, owner, finished>>

\* Mutant: the back is taken.
TakeTaskFromBack(w) ==
  /\ pc[w] = "locked"
  /\ Tasks_ # << >>
  /\ job' = [job EXCEPT ![w] = Tasks_[Len(Tasks_)]]
  /\ Tasks_' = SubSeq(Tasks_, 1, Len(Tasks_) - 1)
  /\ Mutex_' = Nobody
  /\ Goto(w, "run")
  /\ UNCHANGED <<Running_, notifying, owner, finished>>

\* The queue is not empty: move the front out, pop it, unlock.
TakeTask(w) ==
  /\ pc[w] = "locked"
  /\ Tasks_ # << >>
  /\ job' = [job EXCEPT ![w] = Head(Tasks_)]
  /\ Tasks_' = Tail(Tasks_)
  /\ Mutex_' = Nobody
  /\ Goto(w, "run")
  /\ UNCHANGED <<Running_, notifying, owner, finished>>

\* Mutant: the predicate is evaluated without Mutex_, as by a plain
\* "if(Tasks_.empty()) { unlock; wait; }".
PredicateFalseUnlocks(w) ==
  /\ pc[w] = "locked"
  /\ Tasks_ = << >>
  /\ Running_
  /\ Mutex_' = Nobody
  /\ Goto(w, "block")
  /\ UNCHANGED <<Running_, Tasks_, job, notifying, owner, finished>>

\* The predicate is false: wait() goes on to block, Mutex_ still held.
PredicateFalse(w) ==
  /\ pc[w] = "locked"
  /\ Tasks_ = << >>
  /\ Running_
  /\ Goto(w, "block")
  /\ UNCHANGED <<Running_, Tasks_, Mutex_, job, notifying, owner, finished>>

\* wait() joins the wait set and unlocks.
Block(w) ==
  /\ pc[w] = "block"
  /\ Mutex_' = Nobody
  /\ Goto(w, "waiting")
  /\ UNCHANGED <<Running_, Tasks_, job, notifying, owner, finished>>

\* The predicate holds for !Running_ alone: wait() returns, "else continue".
NothingToTake(w) ==
  /\ pc[w] = "locked"
  /\ Tasks_ = << >>
  /\ ~Running_
  /\ Mutex_' = Nobody
  /\ Goto(w, "loop")
  /\ UNCHANGED <<Running_, Tasks_, job, notifying, owner, finished>>

\* A condition variable may wake a thread nobody notified.
SpuriousWakeup(w) ==
  /\ pc[w] = "waiting"
  /\ Goto(w, "lock")
  /\ UNCHANGED <<Running_, Tasks_, Mutex_, job, notifying, owner, finished>>

\* Mutant: the local task outlives its turn of the loop.
FinishTaskKeepsJob(w) ==
  /\ pc[w] = "run"
  /\ finished' = finished \cup {job[w]}
  /\ Goto(w, "loop")
  /\ UNCHANGED <<Running_, Tasks_, Mutex_, job, notifying, owner>>

\* task() returns.
FinishTask(w) ==
  /\ pc[w] = "run"
  /\ finished' = finished \cup {job[w]}
  /\ job' = [job EXCEPT ![w] = NoTask]
  /\ Goto(w, "loop")
  /\ UNCHANGED <<Running_, Tasks_, Mutex_, notifying, owner>>

-----------------------------------------------------------------------------
(* Start and Stop *)

\* One turn of the loop in Start(): the new thread runs at once.
StartThread(w) ==
  /\ owner = "built"
  /\ pc[w] = "unborn"
  /\ Goto(w, "loop")
  /\ UNCHANGED <<Running_, Tasks_, Mutex_, job, notifying, owner, finished>>

\* Stop() is called after Start() has returned, or by the destructor of a
\* pool that was never started.
StopFlag ==
  /\ owner = "built"
  /\ Threads_ \in {{}, Worker}
  /\ Running_' = FALSE
  /\ owner' = "notifying"
  /\ UNCHANGED <<Tasks_, Mutex_, pc, job, notifying, finished>>

\* Mutant: notify_one instead of notify_all.
StopNotifiesOne ==
  /\ owner = "notifying"
  /\ IF TaskReady_ = {}
     THEN UNCHANGED pc
     ELSE \E w \in TaskReady_ : Goto(w, "lock")
  /\ owner' = "joining"
  /\ UNCHANGED <<Running_, Tasks_, Mutex_, job, notifying, finished>>

StopNotify ==
  /\ owner = "notifying"
  /\ pc' = [w \in Worker |-> IF pc[w] = "waiting" THEN "lock" ELSE pc[w]]
  /\ owner' = "joining"
  /\ UNCHANGED <<Running_, Tasks_, Mutex_, job, notifying, finished>>

\* Mutant: the threads are detached instead of joined.
StopDetaches ==
  /\ owner = "joining"
  /\ owner' = "stopped"
  /\ UNCHANGED <<Running_, Tasks_, Mutex_, pc, job, notifying, finished>>

\* The joins return one after the other: all of them have when every thread
\* has exited.  A later Stop() finds Running_ false and changes nothing.
StopJoin ==
  /\ owner = "joining"
  /\ Threads_ \subseteq In("exited")
  /\ owner' = "stopped"
  /\ UNCHANGED <<Running_, Tasks_, Mutex_, pc, job, notifying, finished>>

-----------------------------------------------------------------------------

Work(w) ==
  \/ CheckRunning(w)
  \/ Acquire(w)
  \/ TakeTask(w)
  \/ PredicateFalse(w)
  \/ Block(w)
  \/ NothingToTake(w)
  \/ FinishTask(w)

Stop == StopFlag \/ StopNotify \/ StopJoin

Next ==
  \/ \E p \in Producer, t \in Task : Commit(p, t)
  \/ \E p \in Producer : NotifyOne(p)
  \/ \E w \in Worker : Work(w)
  \/ \E w \in Worker : SpuriousWakeup(w)
  \/ \E w \in Worker : StartThread(w)
  \/ Stop

Spec == Init /\ [][Next]_vars

\* The scheduler runs every thread that can run; tasks return; a Commit and a
\* Stop in progress go on.  Nothing obliges anyone to commit, to stop, or to
\* wake spuriously.
Fairness ==
  /\ \A w \in Worker : WF_vars(Work(w))
  /\ \A p \in Producer : WF_vars(NotifyOne(p))
  /\ WF_vars(StopNotify \/ StopJoin)

FairSpec == Spec /\ Fairness

-----------------------------------------------------------------------------
(* Properties *)

Labels == {"unborn", "loop", "lock", "locked", "block", "waiting", "run", "exited"}

\* Types, and a worker holds a task exactly while it runs one.
TypeOK ==
  /\ Running_ \in BOOLEAN
  /\ Tasks_ \in Seq(Task)
  /\ Mutex_ \in Worker \cup {Nobody}
  /\ pc \in [Worker -> Labels]
  /\ job \in [Worker -> Task \cup {NoTask}]
  /\ \A w \in Worker : job[w] # NoTask <=> pc[w] = "run"
  /\ notifying \subseteq Producer
  /\ owner \in {"built", "notifying", "joining", "stopped"}
  /\ finished \subseteq Task

\* Mutex_ is held by exactly the worker between lock and unlock, and a worker
\* that found the predicate false still has an empty queue when it blocks: no
\* Commit can slip in between (the lost wakeup that Commit avoids and Stop,
\* which changes Running_ without Mutex_, does not).
LockInv ==
  /\ \A w \in Worker : Mutex_ = w <=> pc[w] \in {"locked", "block"}
  /\ In("block") # {} => Tasks_ = << >>
  /\ Running_ <=> owner = "built"

\* Workers that will look at the queue before they sleep or run a task.
Awake == In("loop") \cup In("lock") \cup In("locked")

\* No task waits behind a sleeping worker: while some worker sleeps on
\* TaskReady_, each queued task has a worker already on its way to the queue
\* or a notify_one still to come.  This is what one notify_one per Commit,
\* issued outside the lock, has to guarantee (Commit, Work).
NoSleepWhileBacklog ==
  Running_ /\ TaskReady_ # {} =>
    Len(Tasks_) <= Cardinality(Awake) + Cardinality(notifying)

\* A task is in one place only: once in the queue, in one worker, or done.
OnePlace ==
  /\ \A i, j \in DOMAIN Tasks_ : Tasks_[i] = Tasks_[j] => i = j
  /\ \A w \in Worker : job[w] \notin Range(Tasks_) \cup finished
  /\ \A v, w \in Worker : job[v] = job[w] /\ job[v] # NoTask => v = w
  /\ Range(Tasks_) \cap finished = {}

\* When Stop() has returned every thread has left Work() for good.
StoppedInv == owner = "stopped" => Threads_ \subseteq In("exited")

\* The inductive invariant of the proofs.
PoolInv == TypeOK /\ LockInv /\ NoSleepWhileBacklog /\ OnePlace /\ StoppedInv

\* The pool implements TaskPool: tasks begin in Commit order and at most once,
\* and when Stop() has returned none is running and none will begin.
TP == INSTANCE TaskPool WITH
        queue <- Tasks_,
        running <- Range(job) \ {NoTask},
        closed <- owner = "stopped"

ImplementsTaskPool == TP!Spec

\* A task committed to a started pool is run to its end unless Stop() comes
\* first: no wakeup is lost between Commit and Work.
EveryTaskRuns ==
  \A t \in Task :
    t \in Range(Tasks_) /\ Threads_ # {} ~> t \in finished \/ ~Running_

\* Stop() returns if no worker is between a false predicate and the wait set
\* when the flag falls: the window left open by writing Running_ and calling
\* notify_all without Mutex_ is the only way to lose the wakeup.
StopReturnsOutsideWindow ==
  owner = "notifying" /\ In("block") = {} ~> owner = "stopped"

\* Stop() returns once it is called (test/test.cpp calls it and then prints
\* "pool stopped").
StopReturns == owner = "notifying" ~> owner = "stopped"
=============================================================================
