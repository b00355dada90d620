-------------------------- MODULE ThreadPoolProofs --------------------------
(***************************************************************************)
(* Theorems about ThreadPool for any finite number of workers, any finite  *)
(* number of producers and any set of tasks.                               *)
(***************************************************************************)
EXTENDS ThreadPool, FiniteSetTheorems, SequenceTheorems, TLAPS

(***************************************************************************)
(* Types and the lock.  LockInv needs TypeOK and nothing else.             *)
(***************************************************************************)
LEMMA InitLock == Init => TypeOK /\ LockInv
BY PoolAssumption DEF Init, TypeOK, LockInv, Labels, In

LEMMA TypeStep == TypeOK /\ [Next]_vars => TypeOK'
<1> SUFFICES ASSUME TypeOK, [Next]_vars PROVE TypeOK'
  OBVIOUS
<1> USE PoolAssumption DEF TypeOK, Labels, Goto
<1>1. ASSUME NEW p \in Producer, NEW t \in Task, Commit(p, t) PROVE TypeOK'
  BY <1>1 DEF Commit
<1>2. ASSUME NEW p \in Producer, NotifyOne(p) PROVE TypeOK'
  BY <1>2 DEF NotifyOne, TaskReady_, In
<1>3. ASSUME NEW w \in Worker, Work(w) PROVE TypeOK'
  <2>1. CASE CheckRunning(w) BY <2>1 DEF CheckRunning
  <2>2. CASE Acquire(w) BY <2>2 DEF Acquire
  <2>3. CASE TakeTask(w)
    <3>1. Head(Tasks_) \in Task /\ Tail(Tasks_) \in Seq(Task)
      BY <2>3, HeadTailProperties DEF TakeTask
    <3>2. QED BY <2>3, <3>1 DEF TakeTask
  <2>4. CASE PredicateFalse(w) BY <2>4 DEF PredicateFalse
  <2>5. CASE Block(w) BY <2>5 DEF Block
  <2>6. CASE NothingToTake(w) BY <2>6 DEF NothingToTake
  <2>7. CASE FinishTask(w) BY <2>7 DEF FinishTask
  <2>8. QED BY <1>3, <2>1, <2>2, <2>3, <2>4, <2>5, <2>6, <2>7 DEF Work
<1>4. ASSUME NEW w \in Worker, SpuriousWakeup(w) PROVE TypeOK'
  BY <1>4 DEF SpuriousWakeup
<1>5. ASSUME NEW w \in Worker, StartThread(w) PROVE TypeOK'
  BY <1>5 DEF StartThread
<1>6. CASE Stop
  BY <1>6 DEF Stop, StopFlag, StopNotify, StopJoin
<1>7. CASE UNCHANGED vars
  BY <1>7 DEF vars
<1>8. QED
  BY <1>1, <1>2, <1>3, <1>4, <1>5, <1>6, <1>7 DEF Next

LEMMA LockStep == TypeOK /\ LockInv /\ [Next]_vars => LockInv'
<1> SUFFICES ASSUME TypeOK, LockInv, [Next]_vars PROVE LockInv'
  OBVIOUS
<1> USE PoolAssumption DEF TypeOK, LockInv, Labels, Goto, In
<1>1. ASSUME NEW p \in Producer, NEW t \in Task, Commit(p, t) PROVE LockInv'
  BY <1>1 DEF Commit
<1>2. ASSUME NEW p \in Producer, NotifyOne(p) PROVE LockInv'
  BY <1>2 DEF NotifyOne, TaskReady_
<1>3. ASSUME NEW w \in Worker, Work(w) PROVE LockInv'
  <2>1. CASE CheckRunning(w) BY <2>1 DEF CheckRunning
  <2>2. CASE Acquire(w) BY <2>2 DEF Acquire
  <2>3. CASE TakeTask(w) BY <2>3 DEF TakeTask
  <2>4. CASE PredicateFalse(w) BY <2>4 DEF PredicateFalse
  <2>5. CASE Block(w) BY <2>5 DEF Block
  <2>6. CASE NothingToTake(w) BY <2>6 DEF NothingToTake
  <2>7. CASE FinishTask(w) BY <2>7 DEF FinishTask
  <2>8. QED BY <1>3, <2>1, <2>2, <2>3, <2>4, <2>5, <2>6, <2>7 DEF Work
<1>4. ASSUME NEW w \in Worker, SpuriousWakeup(w) PROVE LockInv'
  BY <1>4 DEF SpuriousWakeup
<1>5. ASSUME NEW w \in Worker, StartThread(w) PROVE LockInv'
  BY <1>5 DEF StartThread
<1>6. CASE Stop
  BY <1>6 DEF Stop, StopFlag, StopNotify, StopJoin
<1>7. CASE UNCHANGED vars
  BY <1>7 DEF vars
<1>8. QED
  BY <1>1, <1>2, <1>3, <1>4, <1>5, <1>6, <1>7 DEF Next

\* Every reachable state is well typed (thread_pool.hpp, the members of
\* ThreadPool and the local task of Work).
THEOREM PoolTypes == Spec => []TypeOK
BY InitLock, TypeStep, PTL DEF Spec

\* Mutex_ protects the queue for any number of workers, and a worker never
\* blocks on TaskReady_ while the queue holds a task (Work, Commit).
THEOREM PoolLock == Spec => []LockInv
BY InitLock, LockStep, PoolTypes, PTL DEF Spec

-----------------------------------------------------------------------------
(***************************************************************************)
(* No task waits behind a sleeping worker.                                 *)
(***************************************************************************)

LEMMA FiniteParts ==
  ASSUME NEW S \in SUBSET Worker, NEW T \in SUBSET Producer
  PROVE  /\ IsFiniteSet(S) /\ Cardinality(S) \in Nat
         /\ IsFiniteSet(T) /\ Cardinality(T) \in Nat
BY PoolAssumption, FS_Subset, FS_CardinalityType

LEMMA BacklogStep ==
  TypeOK /\ LockInv /\ NoSleepWhileBacklog /\ [Next]_vars => NoSleepWhileBacklog'
<1> SUFFICES ASSUME TypeOK, LockInv, NoSleepWhileBacklog, [Next]_vars,
                    Running_', TaskReady_' # {}
             PROVE  Len(Tasks_') <= Cardinality(Awake') + Cardinality(notifying')
  BY DEF NoSleepWhileBacklog
<1> DEFINE Goal == Len(Tasks_') <= Cardinality(Awake') + Cardinality(notifying')
<1>t. TypeOK' /\ Len(Tasks_) \in Nat /\ Len(Tasks_') \in Nat
  BY TypeStep, LenProperties DEF TypeOK
<1>f. /\ IsFiniteSet(Awake) /\ IsFiniteSet(notifying)
      /\ Cardinality(Awake) \in Nat /\ Cardinality(notifying) \in Nat
      /\ Cardinality(Awake') \in Nat /\ Cardinality(notifying') \in Nat
  <2>1. Awake \subseteq Worker /\ Awake' \subseteq Worker
    BY DEF Awake, In
  <2>2. notifying \subseteq Producer /\ notifying' \subseteq Producer
    BY <1>t DEF TypeOK
  <2>3. QED
    BY <2>1, <2>2, FiniteParts
<1>1. ASSUME NEW p \in Producer, NEW t \in Task, Commit(p, t) PROVE Goal
  <2>1. Len(Tasks_') = Len(Tasks_) + 1
    BY <1>1, AppendProperties DEF Commit, TypeOK
  <2>2. Cardinality(notifying') = Cardinality(notifying) + 1
    BY <1>1, <1>f, FS_AddElement DEF Commit
  <2>3. Running_ /\ TaskReady_ # {} /\ Awake' = Awake
    BY <1>1 DEF Commit, TaskReady_, Awake, In
  <2>4. QED
    BY <1>t, <1>f, <2>1, <2>2, <2>3 DEF NoSleepWhileBacklog
<1>2. ASSUME NEW p \in Producer, NotifyOne(p) PROVE Goal
  <2>1. Running_ /\ Tasks_' = Tasks_
    BY <1>2 DEF NotifyOne
  <2>2. TaskReady_ # {}
    BY <1>2 DEF NotifyOne, TaskReady_, In
  <2>3. PICK w \in TaskReady_ : Goto(w, "lock")
    BY <1>2, <2>2 DEF NotifyOne
  <2>4. w \notin Awake /\ Awake' = Awake \cup {w}
    BY <2>3 DEF Goto, Awake, TaskReady_, In, TypeOK
  <2>5. Cardinality(Awake') = Cardinality(Awake) + 1
    BY <2>4, <1>f, FS_AddElement
  <2>6. Cardinality(notifying') = Cardinality(notifying) - 1
    BY <1>2, <1>f, FS_RemoveElement DEF NotifyOne
  <2>7. QED
    BY <1>t, <1>f, <2>1, <2>2, <2>5, <2>6 DEF NoSleepWhileBacklog
\* The steps below leave notifying alone.
<1>3. ASSUME NEW w \in Worker, CheckRunning(w) PROVE Goal
  <2>1. /\ Running_ /\ Tasks_' = Tasks_ /\ notifying' = notifying
        /\ pc[w] = "loop" /\ pc' = [pc EXCEPT ![w] = "lock"]
    BY <1>3 DEF CheckRunning, Goto
  <2>2. Awake' = Awake /\ TaskReady_' = TaskReady_
    BY <2>1 DEF Awake, TaskReady_, In, TypeOK
  <2>3. QED
    BY <1>t, <1>f, <2>1, <2>2 DEF NoSleepWhileBacklog
<1>4. ASSUME NEW w \in Worker, Acquire(w) PROVE Goal
  <2>1. Awake' = Awake /\ TaskReady_' = TaskReady_
    BY <1>4 DEF Acquire, Goto, Awake, TaskReady_, In, TypeOK
  <2>2. QED
    BY <1>4, <1>t, <1>f, <2>1 DEF Acquire, NoSleepWhileBacklog
<1>5. ASSUME NEW w \in Worker, TakeTask(w) PROVE Goal
  <2>1. Len(Tasks_') = Len(Tasks_) - 1
    BY <1>5, HeadTailProperties DEF TakeTask, TypeOK
  <2>2. w \in Awake /\ Awake' = Awake \ {w} /\ TaskReady_' = TaskReady_
    BY <1>5 DEF TakeTask, Goto, Awake, TaskReady_, In, TypeOK
  <2>3. Cardinality(Awake') = Cardinality(Awake) - 1
    BY <2>2, <1>f, FS_RemoveElement
  <2>4. QED
    BY <1>5, <1>t, <1>f, <2>1, <2>2, <2>3 DEF TakeTask, NoSleepWhileBacklog
<1>6. ASSUME NEW w \in Worker, PredicateFalse(w) \/ Block(w) \/ NothingToTake(w)
      PROVE  Goal
  <2>1. Tasks_' = << >>
    BY <1>6 DEF PredicateFalse, Block, NothingToTake, LockInv, In
  <2>2. QED
    BY <2>1, <1>f, <1>t, EmptySeq
<1>7. ASSUME NEW w \in Worker, FinishTask(w) \/ SpuriousWakeup(w) \/ StartThread(w)
      PROVE  Goal
  <2>1. w \notin Awake /\ Awake' = Awake \cup {w} /\ TaskReady_' \subseteq TaskReady_
    BY <1>7 DEF FinishTask, SpuriousWakeup, StartThread, Goto, Awake, TaskReady_,
                In, TypeOK
  <2>2. Cardinality(Awake') = Cardinality(Awake) + 1
    BY <2>1, <1>f, FS_AddElement
  <2>3. Running_ /\ Tasks_' = Tasks_ /\ notifying' = notifying
    BY <1>7 DEF FinishTask, SpuriousWakeup, StartThread
  <2>4. QED
    BY <1>t, <1>f, <2>1, <2>2, <2>3 DEF NoSleepWhileBacklog
<1>8. CASE Stop
  BY <1>8 DEF Stop, StopFlag, StopNotify, StopJoin, LockInv
<1>9. CASE UNCHANGED vars
  BY <1>9 DEF vars, NoSleepWhileBacklog, Awake, TaskReady_, In
<1>10. QED
  BY <1>1, <1>2, <1>3, <1>4, <1>5, <1>6, <1>7, <1>8, <1>9 DEF Next, Work

\* While a worker sleeps, every queued task has a worker on its way to it or
\* a notify_one still to come, for any number of workers and producers
\* (Commit's notify_one outside the lock, Work's wait).
THEOREM PoolBacklog == Spec => []NoSleepWhileBacklog
<1>1. Init => NoSleepWhileBacklog
  BY DEF Init, NoSleepWhileBacklog, TaskReady_, In
<1>2. QED
  BY <1>1, BacklogStep, PoolTypes, PoolLock, PTL DEF Spec

-----------------------------------------------------------------------------
(***************************************************************************)
(* A task is in one place.                                                 *)
(***************************************************************************)

LEMMA AppendOnce ==
  ASSUME NEW S, NEW s \in Seq(S), NEW e \in S
  PROVE  /\ Range(Append(s, e)) = Range(s) \cup {e}
         /\ e \notin Range(s) /\ (\A i, j \in DOMAIN s : s[i] = s[j] => i = j)
              => \A i, j \in DOMAIN Append(s, e) :
                   Append(s, e)[i] = Append(s, e)[j] => i = j
<1>1. /\ Len(s) \in Nat /\ DOMAIN s = 1 .. Len(s)
      /\ DOMAIN Append(s, e) = 1 .. Len(s) + 1
      /\ \A i \in 1 .. Len(s) : Append(s, e)[i] = s[i]
      /\ Append(s, e)[Len(s) + 1] = e
  BY AppendProperties, LenProperties
<1>2. \A i \in 1 .. Len(s) + 1 : i \in 1 .. Len(s) \/ i = Len(s) + 1
  BY <1>1
<1>3. \A i \in 1 .. Len(s) : s[i] \in Range(s)
  BY <1>1 DEF Range
<1>4. Range(Append(s, e)) \subseteq Range(s) \cup {e}
  BY <1>1, <1>2, <1>3 DEF Range
<1>5. Range(s) \cup {e} \subseteq Range(Append(s, e))
  <2>1. 1 .. Len(s) \subseteq DOMAIN Append(s, e) /\ Len(s) + 1 \in DOMAIN Append(s, e)
    BY <1>1
  <2>2. QED
    BY <1>1, <2>1 DEF Range
<1>6. QED
  BY <1>1, <1>2, <1>3, <1>4, <1>5

LEMMA TailOnce ==
  ASSUME NEW S, NEW s \in Seq(S), s # << >>,
         \A i, j \in DOMAIN s : s[i] = s[j] => i = j
  PROVE  /\ Range(Tail(s)) = Range(s) \ {Head(s)}
         /\ Head(s) \in Range(s)
         /\ \A i, j \in DOMAIN Tail(s) : Tail(s)[i] = Tail(s)[j] => i = j
<1>1. /\ Len(s) \in Nat /\ Len(s) > 0 /\ DOMAIN s = 1 .. Len(s)
      /\ Head(s) = s[1] /\ DOMAIN Tail(s) = 1 .. Len(s) - 1
      /\ \A i \in 1 .. Len(s) - 1 : Tail(s)[i] = s[i + 1]
  BY HeadTailProperties, LenProperties, EmptySeq
<1>2. ASSUME NEW i \in 1 .. Len(s) - 1
      PROVE  i + 1 \in 1 .. Len(s) /\ i + 1 # 1
  BY <1>1
<1>3. ASSUME NEW i \in 1 .. Len(s), i # 1
      PROVE  i - 1 \in 1 .. Len(s) - 1 /\ (i - 1) + 1 = i
  BY <1>1, <1>3
<1>4. Range(Tail(s)) \subseteq Range(s) \ {Head(s)}
  BY <1>1, <1>2 DEF Range
<1>5. Range(s) \ {Head(s)} \subseteq Range(Tail(s))
  <2>1. SUFFICES ASSUME NEW i \in 1 .. Len(s), s[i] # s[1]
                 PROVE  s[i] \in Range(Tail(s))
    BY <1>1 DEF Range
  <2>2. Tail(s)[i - 1] = s[i] /\ i - 1 \in DOMAIN Tail(s)
    BY <1>1, <1>3, <2>1
  <2>3. QED
    BY <2>2 DEF Range
<1>6. Head(s) \in Range(s)
  BY <1>1 DEF Range
<1>7. ASSUME NEW i \in DOMAIN Tail(s), NEW j \in DOMAIN Tail(s), Tail(s)[i] = Tail(s)[j]
      PROVE  i = j
  <2>1. i + 1 = j + 1 /\ i \in Nat /\ j \in Nat
    BY <1>1, <1>2, <1>7
  <2>2. QED
    BY <2>1
<1>8. QED
  BY <1>4, <1>5, <1>6, <1>7

LEMMA PlaceStep ==
  TypeOK /\ LockInv /\ OnePlace /\ [Next]_vars => OnePlace'
<1> SUFFICES ASSUME TypeOK, LockInv, OnePlace, [Next]_vars PROVE OnePlace'
  OBVIOUS
<1>t. /\ Tasks_ \in Seq(Task) /\ NoTask \notin Task
      /\ job \in [Worker -> Task \cup {NoTask}]
      /\ \A w \in Worker : job[w] # NoTask <=> pc[w] = "run"
      /\ finished \subseteq Task
  BY PoolAssumption DEF TypeOK
<1>n. NoTask \notin Range(Tasks_)
  BY <1>t, LenProperties DEF Range
<1>1. ASSUME NEW p \in Producer, NEW t \in Task, Commit(p, t) PROVE OnePlace'
  <2>1. /\ Tasks_' = Append(Tasks_, t) /\ job' = job /\ finished' = finished
        /\ t \notin Range(Tasks_) /\ t \notin Range(job) /\ t \notin finished
    BY <1>1 DEF Commit, Fresh
  <2>2. \A w \in Worker : job[w] # t
    BY <1>t, <2>1 DEF Range
  <2>3. /\ Range(Tasks_') = Range(Tasks_) \cup {t}
        /\ \A i, j \in DOMAIN Tasks_' : Tasks_'[i] = Tasks_'[j] => i = j
    BY <1>t, <2>1, AppendOnce DEF OnePlace
  <2>4. QED
    BY <2>1, <2>2, <2>3 DEF OnePlace
<1>2. ASSUME NEW w \in Worker, TakeTask(w) PROVE OnePlace'
  <2>1. /\ job' = [job EXCEPT ![w] = Head(Tasks_)] /\ Tasks_' = Tail(Tasks_)
        /\ finished' = finished /\ Tasks_ # << >>
    BY <1>2 DEF TakeTask
  <2>2. /\ Range(Tasks_') = Range(Tasks_) \ {Head(Tasks_)}
        /\ Head(Tasks_) \in Range(Tasks_)
        /\ \A i, j \in DOMAIN Tasks_' : Tasks_'[i] = Tasks_'[j] => i = j
    BY <1>t, <2>1, TailOnce DEF OnePlace
  <2>3. \A v \in Worker : job'[v] = IF v = w THEN Head(Tasks_) ELSE job[v]
    BY <1>t, <2>1
  <2>4. QED
    BY <1>n, <2>1, <2>2, <2>3 DEF OnePlace
<1>3. ASSUME NEW w \in Worker, FinishTask(w) PROVE OnePlace'
  <2>1. /\ job' = [job EXCEPT ![w] = NoTask] /\ Tasks_' = Tasks_
        /\ finished' = finished \cup {job[w]} /\ job[w] # NoTask
    BY <1>t, <1>3 DEF FinishTask
  <2>2. \A v \in Worker : job'[v] = IF v = w THEN NoTask ELSE job[v]
    BY <1>t, <2>1
  <2>3. NoTask \notin finished'
    BY <1>t, <2>1
  <2>4. QED
    BY <1>n, <2>1, <2>2, <2>3 DEF OnePlace
<1>4. CASE UNCHANGED <<Tasks_, job, finished>>
  BY <1>4 DEF OnePlace
<1>5. QED
  BY <1>1, <1>2, <1>3, <1>4 DEF Next, Work, Stop, NotifyOne, CheckRunning, Acquire,
     PredicateFalse, Block, NothingToTake, SpuriousWakeup, StartThread, StopFlag,
     StopNotify, StopJoin, vars

\* A task is never in two places: no worker runs a task another one runs, or
\* one that is still queued (Work's front/pop under Mutex_).
THEOREM PoolOnePlace == Spec => []OnePlace
<1>1. Init => OnePlace
  <2> SUFFICES ASSUME Init PROVE OnePlace
    OBVIOUS
  <2>1. /\ DOMAIN Tasks_ = {} /\ Range(Tasks_) = {} /\ finished = {}
        /\ \A w \in Worker : job[w] = NoTask
    BY DEF Init, Range
  <2>2. QED
    BY <2>1 DEF OnePlace
<1>2. QED
  BY <1>1, PlaceStep, PoolTypes, PoolLock, PTL DEF Spec

-----------------------------------------------------------------------------
(***************************************************************************)
(* Stop() and the refinement.                                              *)
(***************************************************************************)

LEMMA StoppedStep == TypeOK /\ LockInv /\ StoppedInv /\ [Next]_vars => StoppedInv'
<1> SUFFICES ASSUME TypeOK, LockInv, StoppedInv, [Next]_vars, owner' = "stopped"
             PROVE  Threads_' \subseteq In("exited")'
  BY DEF StoppedInv
<1> USE DEF Threads_, In, TypeOK, Goto
<1>1. CASE owner = "stopped"
  <2>1. \A w \in Worker : pc[w] \in {"unborn", "exited"}
    BY <1>1 DEF StoppedInv
  <2>2. pc' = pc
    BY <1>1, <2>1 DEF Next, Work, Stop, Commit, NotifyOne, TaskReady_, CheckRunning,
       Acquire, TakeTask, PredicateFalse, Block, NothingToTake, FinishTask,
       SpuriousWakeup, StartThread, StopFlag, StopNotify, StopJoin, vars
  <2>3. QED
    BY <2>1, <2>2
<1>2. CASE owner # "stopped"
  <2>1. StopJoin
    BY <1>2 DEF Next, Work, Stop, Commit, NotifyOne, CheckRunning,
       Acquire, TakeTask, PredicateFalse, Block, NothingToTake, FinishTask,
       SpuriousWakeup, StartThread, StopFlag, StopNotify, vars
  <2>2. QED
    BY <2>1 DEF StopJoin
<1>3. QED
  BY <1>1, <1>2

\* Once Stop() has returned every started thread has left Work(), for any
\* number of threads (Stop's joins).
THEOREM PoolStopped == Spec => []StoppedInv
<1>1. Init => StoppedInv
  BY DEF Init, StoppedInv
<1>2. QED
  BY <1>1, StoppedStep, PoolTypes, PoolLock, PTL DEF Spec

LEMMA AbstractStep ==
  TypeOK /\ LockInv /\ OnePlace /\ StoppedInv /\ [Next]_vars
    => [TP!Next]_(TP!poolVars)
<1> SUFFICES ASSUME TypeOK, LockInv, OnePlace, StoppedInv, [Next]_vars
             PROVE  TP!Next \/ UNCHANGED TP!poolVars
  BY DEF TP!Next, TP!poolVars
<1>t. /\ job \in [Worker -> Task \cup {NoTask}] /\ NoTask \notin Task
      /\ Tasks_ \in Seq(Task)
      /\ pc \in [Worker -> Labels]
      /\ \A w \in Worker : job[w] # NoTask <=> pc[w] = "run"
  BY PoolAssumption DEF TypeOK
<1>1. ASSUME NEW p \in Producer, NEW t \in Task, Commit(p, t) PROVE TP!Next
  BY <1>1 DEF Commit, Fresh, Range, TP!Range, TP!Next, TP!Submit
<1>2. ASSUME NEW w \in Worker, TakeTask(w) PROVE TP!Next
  <2>1. owner # "stopped"
    BY <1>2 DEF TakeTask, StoppedInv, Threads_, In
  <2>2. /\ Tasks_ # << >> /\ Tasks_' = Tail(Tasks_) /\ owner' = owner
        /\ finished' = finished /\ job' = [job EXCEPT ![w] = Head(Tasks_)]
        /\ job[w] = NoTask
    BY <1>2, <1>t DEF TakeTask
  <2>3. Head(Tasks_) \in Task
    BY <1>t, <2>2, HeadTailProperties
  <2>4. Range(job') \ {NoTask} = (Range(job) \ {NoTask}) \cup {Head(Tasks_)}
    BY <1>t, <2>2, <2>3 DEF Range
  <2>5. QED
    BY <2>1, <2>2, <2>4 DEF TP!Next, TP!Begin
<1>3. ASSUME NEW w \in Worker, FinishTask(w) PROVE TP!Next
  <2>1. /\ Tasks_' = Tasks_ /\ owner' = owner /\ job[w] \in Task
        /\ finished' = finished \cup {job[w]} /\ job' = [job EXCEPT ![w] = NoTask]
    BY <1>3, <1>t DEF FinishTask
  <2>2. \A v \in Worker : job[v] = job[w] => v = w
    BY <1>t, <2>1 DEF OnePlace
  <2>3. /\ Range(job') \ {NoTask} = (Range(job) \ {NoTask}) \ {job[w]}
        /\ job[w] \in Range(job) \ {NoTask}
    BY <1>t, <2>1, <2>2 DEF Range
  <2>4. QED
    BY <2>1, <2>3 DEF TP!Next, TP!End
<1>4. CASE StopJoin
  <2>1. \A w \in Worker : pc[w] \in {"unborn", "exited"}
    BY <1>4 DEF StopJoin, Threads_, In
  <2>2. Range(job) \ {NoTask} = {}
    BY <1>t, <2>1 DEF Range
  <2>3. QED
    BY <1>4, <2>2 DEF StopJoin, TP!Next, TP!Close
<1>5. CASE UNCHANGED <<Tasks_, job, finished, owner>>
  BY <1>5 DEF TP!poolVars
<1>6. CASE StopFlag \/ StopNotify
  BY <1>6 DEF StopFlag, StopNotify, TP!poolVars
<1>7. QED
  BY <1>1, <1>2, <1>3, <1>4, <1>5, <1>6 DEF Next, Work, Stop, NotifyOne,
     CheckRunning, Acquire, PredicateFalse, Block, NothingToTake, SpuriousWakeup,
     StartThread, vars

\* ThreadPool implements TaskPool for any number of threads and producers:
\* tasks begin in Commit order, each at most once, and none begins or is
\* running after Stop() has returned.
THEOREM PoolImplements == Spec => ImplementsTaskPool
<1>1. Init => TP!Init
  BY DEF Init, TP!Init, Range
<1>2. QED
  BY <1>1, AbstractStep, PoolTypes, PoolLock, PoolOnePlace, PoolStopped, PTL
     DEF Spec, ImplementsTaskPool, TP!Spec
=============================================================================
