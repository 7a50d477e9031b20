---------------------------- MODULE EagerPipeline ----------------------------
(***************************************************************************)
(* The eager pipeline: three pools of one worker each (thread_pool.h,      *)
(* thread_pool.cpp), for lowering, compilation and execution, through      *)
(* which every eager operation goes (eager_pipeline_utils.h), the threads  *)
(* of the program that submit operations and join the pipeline, and its    *)
(* release at the end of the process (HPUDevice.cpp).                      *)
(*                                                                         *)
(* What a thread has still to do in its present call is its plan, a        *)
(* sequence of calls on the pools; pc is the control point in the first of *)
(* them.  Workers call the pools as the program's threads do: a task of    *)
(* one stage enqueues its continuation in the next.  With the four-stage   *)
(* pipeline off the lowering task waits for the other pools and does the   *)
(* work of the three stages itself.  The GIL, the lowering thread's flag   *)
(* for HCCL and a process that has forked are left out.                    *)
(***************************************************************************)
EXTENDS Integers, Sequences, FiniteSets

CONSTANTS
  Producers,     \* the threads of the program that submit operations
  Joiners,       \* those of them that join the pipeline
  Capacity,      \* PT_HPU_THREAD_POOL_QUEUE_CAPACITY, 0 for no limit
  MaxTasks,      \* bound on the operations each producer submits
  MaxJoins,      \* bound on the joins before the last one
  MaxFailures,   \* bound on the exceptions the operations throw
  None

Lowering == 1
Compile  == 2
Execute  == 3
Stages   == 1 .. 3
Threads  == Producers \cup Stages
Tasks    == Producers \X (1 .. MaxTasks)
Noop     == <<None, 0>>

ASSUME PipelineAssumption ==
  /\ Producers \cap Stages = {} /\ IsFiniteSet(Producers)
  /\ Joiners \subseteq Producers
  /\ {Capacity, MaxTasks, MaxJoins, MaxFailures} \subseteq Nat
  /\ None \notin Threads \cup Tasks

VARIABLES
  tasks,               \* tasks_ of each pool
  active_task_count,   \* active_task_count_ of each pool
  ex_ptr,              \* ex_ptr_: the task whose exception is stored, or None
  stop,                \* stop_
  mutex,               \* the thread that holds mutex_ in waitWorkComplete
  asleep,              \* the threads blocked in cond_.wait
  pc, plan,            \* control point and calls to make, of each thread
  item,                \* the task in the hands of a thread
  caught,              \* the exception a thread is throwing, or None
  fourStage,           \* PT_HPU_EAGER_4_STAGE_PIPELINE_ENABLE
  submitted,           \* history: tasks in the pipeline or that were in it
  executed,            \* history: tasks done, in order
  suspect,             \* history: tasks submitted when an exception surfaced
  promised,            \* history: tasks submitted when a join began
  joined,              \* history: tasks that some join has vouched for
  begun, joins, failures   \* operations and joins begun, exceptions thrown

poolVars    == <<tasks, active_task_count, ex_ptr, stop, mutex, asleep>>
threadVars  == <<pc, plan, item, caught>>
historyVars == <<submitted, executed, suspect, promised, joined>>
boundVars   == <<begun, joins, failures>>
vars == <<poolVars, threadVars, fourStage, historyVars, boundVars>>

Call(op, s) == [op |-> op, pool |-> s]

Elements(s) == {s[i] : i \in DOMAIN s}

Init ==
  /\ tasks = [s \in Stages |-> <<>>]
  /\ active_task_count = [s \in Stages |-> 0]
  /\ ex_ptr = [s \in Stages |-> None]
  /\ stop = [s \in Stages |-> FALSE]
  /\ mutex = [s \in Stages |-> None]
  /\ asleep = [s \in Stages |-> {}]
  /\ pc = [t \in Threads |-> IF t \in Producers THEN "idle" ELSE "loop"]
  /\ plan = [t \in Threads |-> <<>>]
  /\ item = [t \in Threads |-> Noop]
  /\ caught = [t \in Threads |-> None]
  /\ fourStage \in BOOLEAN
  /\ submitted = {} /\ executed = <<>> /\ suspect = {} /\ joined = {}
  /\ promised = [p \in Producers |-> {}]
  /\ begun = [p \in Producers |-> 0]
  /\ joins = 0
  /\ failures = 0

----------------------------------------------------------------------------
(* Control: the calls of a thread's plan, one after the other. *)

At(t, loc)     == pc[t] = loc
Pool(t)        == Head(plan[t]).pool
Goto(t, loc)   == pc' = [pc EXCEPT ![t] = loc] /\ UNCHANGED plan

FirstStep(call) ==
  CASE call.op \in {"enqueue", "wait"} -> "rethrow"
    [] call.op = "inline"              -> "inline"
    [] call.op = "release"             -> "stop"

Begin(t, calls) ==
  /\ plan' = [plan EXCEPT ![t] = calls]
  /\ pc' = [pc EXCEPT ![t] = FirstStep(Head(calls))]

\* The call returns: the next one begins, or the plan is complete.
Return(t) ==
  LET rest == Tail(plan[t]) IN
  /\ plan' = [plan EXCEPT ![t] = rest]
  /\ pc' = [pc EXCEPT ![t] = IF rest /= <<>> THEN FirstStep(Head(rest))
                             ELSE IF t \in Producers THEN "idle" ELSE "dec"]

\* An exception leaves the plan: a worker's task ends, and the worker will
\* store it; it surfaces in a producer.
Throw(t, e) ==
  /\ plan' = [plan EXCEPT ![t] = <<>>]
  /\ pc' = [pc EXCEPT ![t] = IF t \in Producers THEN "idle" ELSE "catch"]
  /\ caught' = [caught EXCEPT ![t] = IF t \in Producers THEN None ELSE e]
  /\ item' = [item EXCEPT ![t] = Noop]
  /\ suspect' = IF t \in Producers THEN submitted ELSE suspect

----------------------------------------------------------------------------
(* The threads of the program. *)

\* PipelineTaskAllThreads: an operation is handed to the lowering thread.
BeginEnqueue(p) ==
  /\ At(p, "idle") /\ begun[p] < MaxTasks
  /\ begun' = [begun EXCEPT ![p] = @ + 1]
  /\ item' = [item EXCEPT ![p] = <<p, begun'[p]>>]
  /\ Begin(p, <<Call("enqueue", Lowering)>>)
  /\ UNCHANGED <<poolVars, caught, fourStage, historyVars, joins, failures>>

\* Fault: the last stage is waited for first.
JoinLastStageFirst == <<Call("wait", Execute), Call("wait", Compile),
                        Call("wait", Lowering)>>

\* The pools in the order JoinPipelineThreads waits for them.
JoinPipelineThreads == <<Call("wait", Lowering), Call("wait", Compile),
                         Call("wait", Execute)>>

BeginJoin(p) ==
  /\ At(p, "idle") /\ joins < MaxJoins
  /\ joins' = joins + 1
  /\ promised' = [promised EXCEPT ![p] = submitted]
  /\ Begin(p, JoinPipelineThreads)
  /\ UNCHANGED <<poolVars, item, caught, fourStage, submitted, executed,
                 suspect, joined, begun, failures>>

\* The end of the process: the program no longer submits, the pipeline is
\* joined once more and, unless that throws, its threads are released.
ThreadsRelease(p) ==
  /\ \A q \in Producers : At(q, "idle") /\ begun[q] = MaxTasks /\ joins = MaxJoins
  /\ joins' = joins + 1
  /\ promised' = [promised EXCEPT ![p] = submitted]
  /\ Begin(p, JoinPipelineThreads \o
              <<Call("release", Lowering), Call("release", Compile),
                Call("release", Execute)>>)
  /\ UNCHANGED <<poolVars, item, caught, fourStage, submitted, executed,
                 suspect, joined, begun, failures>>

----------------------------------------------------------------------------
(* A pool as its callers use it: RethrowIfException, enqueue,              *)
(* waitWorkComplete and the destructor.                                    *)

\* RethrowIfException reads ex_ptr_, at the start of enqueue and of
\* waitWorkComplete ("rethrow") and after the wait ("recheck") ...
ReadException(t) ==
  LET s == Pool(t) IN
  /\ pc[t] \in {"rethrow", "recheck"}
  /\ IF ex_ptr[s] /= None
     THEN caught' = [caught EXCEPT ![t] = ex_ptr[s]] /\ Goto(t, "clear")
     ELSE /\ CASE At(t, "recheck")                -> Return(t)
               [] Head(plan[t]).op = "enqueue"    -> Goto(t, "throttle")
               [] OTHER                           -> Goto(t, "check")
          /\ UNCHANGED caught
  /\ joined' = IF At(t, "recheck") /\ ex_ptr[s] = None /\ t \in Producers /\ s = Execute
               THEN joined \cup promised[t] ELSE joined
  /\ UNCHANGED <<poolVars, item, fourStage, submitted, executed, suspect,
                 promised, boundVars>>

\* ... and clears it later, without a lock, before it throws.
ClearException(t) ==
  /\ At(t, "clear")
  /\ ex_ptr' = [ex_ptr EXCEPT ![Pool(t)] = None]
  /\ Throw(t, caught[t])
  /\ UNCHANGED <<tasks, active_task_count, stop, mutex, asleep, fourStage,
                 submitted, executed, promised, joined, boundVars>>

\* Fault: the producer is throttled one task too late.
ThrottledBeyond(s) == Capacity > 0 /\ active_task_count[s] > Capacity

\* throttleIfNeeded: the producer has to wait.
Throttled(s) == Capacity > 0 /\ active_task_count[s] >= Capacity

Throttle(t) ==
  /\ At(t, "throttle")
  /\ Goto(t, IF Throttled(Pool(t)) THEN "spin" ELSE "count")
  /\ UNCHANGED <<poolVars, item, caught, fourStage, historyVars, boundVars>>

Spin(t) ==
  /\ At(t, "spin") /\ active_task_count[Pool(t)] <= Capacity \div 2
  /\ Goto(t, "count")
  /\ UNCHANGED <<poolVars, item, caught, fourStage, historyVars, boundVars>>

\* The task is counted before it is in the queue.
CountTask(t) ==
  /\ At(t, "count")
  /\ active_task_count' = [active_task_count EXCEPT ![Pool(t)] = @ + 1]
  /\ Goto(t, "push")
  /\ UNCHANGED <<tasks, ex_ptr, stop, mutex, asleep, item, caught, fourStage,
                 historyVars, boundVars>>

\* Fault: the queue is a stack.
PushInFront(queue, x) == <<x>> \o queue

\* BlockingQueue::push.
PushBack(queue, x) == Append(queue, x)

PushTask(t) ==
  LET s == Pool(t) IN
  /\ At(t, "push")
  /\ tasks' = [tasks EXCEPT ![s] = PushBack(@, item[t])]
  /\ item' = [item EXCEPT ![t] = Noop]
  /\ submitted' = submitted \cup ({item[t]} \ {Noop})
  /\ IF Head(plan[t]).op = "release" THEN Goto(t, "join") ELSE Return(t)
  /\ UNCHANGED <<active_task_count, ex_ptr, stop, mutex, asleep, caught,
                 fourStage, executed, suspect, promised, joined, boundVars>>

\* waitWorkComplete returns at once when nothing is active.
CheckActive(t) ==
  LET s == Pool(t)
      idle == active_task_count[s] = 0 \/ stop[s] IN
  /\ At(t, "check")
  /\ IF idle THEN Return(t) ELSE Goto(t, "lock")
  /\ joined' = IF idle /\ t \in Producers /\ s = Execute
               THEN joined \cup promised[t] ELSE joined
  /\ UNCHANGED <<poolVars, item, caught, fourStage, submitted, executed,
                 suspect, promised, boundVars>>

\* cond_.wait: with the mutex, the condition is evaluated ...
LockAndCheck(t) ==
  LET s == Pool(t) IN
  /\ At(t, "lock") /\ mutex[s] = None
  /\ IF active_task_count[s] = 0
     THEN Goto(t, "recheck") /\ UNCHANGED mutex
     ELSE Goto(t, "sleep") /\ mutex' = [mutex EXCEPT ![s] = t]
  /\ UNCHANGED <<tasks, active_task_count, ex_ptr, stop, asleep, item, caught,
                 fourStage, historyVars, boundVars>>

\* ... and the thread falls asleep and gives the mutex up.
FallAsleep(t) ==
  LET s == Pool(t) IN
  /\ At(t, "sleep")
  /\ mutex' = [mutex EXCEPT ![s] = None]
  /\ asleep' = [asleep EXCEPT ![s] = @ \cup {t}]
  /\ Goto(t, "asleep")
  /\ UNCHANGED <<tasks, active_task_count, ex_ptr, stop, item, caught,
                 fourStage, historyVars, boundVars>>

\* Fault: the destructor's empty task is not counted.
StopPoolUncounted(t) ==
  /\ At(t, "stop")
  /\ stop' = [stop EXCEPT ![Pool(t)] = TRUE]
  /\ Goto(t, "push")
  /\ UNCHANGED <<tasks, active_task_count, ex_ptr, mutex, asleep, item, caught,
                 fourStage, historyVars, boundVars>>

\* ~ThreadPoolBase: stop_ is set, an empty task counted and pushed to wake
\* the worker, and the worker joined.
StopPool(t) ==
  /\ At(t, "stop")
  /\ stop' = [stop EXCEPT ![Pool(t)] = TRUE]
  /\ Goto(t, "count")
  /\ UNCHANGED <<tasks, active_task_count, ex_ptr, mutex, asleep, item, caught,
                 fourStage, historyVars, boundVars>>

JoinWorker(t) ==
  /\ At(t, "join") /\ At(Pool(t), "exit")
  /\ Return(t)
  /\ UNCHANGED <<poolVars, item, caught, fourStage, historyVars, boundVars>>

----------------------------------------------------------------------------
(* The worker of a pool: main_loop and the stages of PipeliningExecutor. *)

CheckStop(w) ==
  /\ At(w, "loop")
  /\ Goto(w, IF stop[w] THEN "exit" ELSE "pop")
  /\ UNCHANGED <<poolVars, item, caught, fourStage, historyVars, boundVars>>

PopTask(w) ==
  /\ At(w, "pop") /\ tasks[w] /= <<>>
  /\ item' = [item EXCEPT ![w] = Head(tasks[w])]
  /\ tasks' = [tasks EXCEPT ![w] = Tail(@)]
  /\ Goto(w, "run")
  /\ UNCHANGED <<active_task_count, ex_ptr, stop, mutex, asleep, caught,
                 fourStage, historyVars, boundVars>>

\* The calls a stage makes once its own work is done.
Continuation(w) ==
  CASE fourStage /\ w < Execute    -> <<Call("enqueue", w + 1)>>
    [] ~fourStage /\ w = Lowering  -> <<Call("wait", Compile),
                                        Call("wait", Execute),
                                        Call("inline", Execute)>>
    [] OTHER                       -> <<>>

\* The operation takes effect: its recipe is launched.
TakesEffect(w) ==
  /\ executed' = Append(executed, item[w])
  /\ item' = [item EXCEPT ![w] = Noop]
  /\ UNCHANGED <<submitted, suspect, promised, joined>>

RunStage(w) ==
  /\ At(w, "run")
  /\ IF item[w] /= Noop /\ Continuation(w) /= <<>>
     THEN Begin(w, Continuation(w)) /\ UNCHANGED <<item, historyVars>>
     ELSE /\ Goto(w, "dec")
          /\ IF item[w] = Noop THEN UNCHANGED <<item, historyVars>>
             ELSE TakesEffect(w)
  /\ UNCHANGED <<poolVars, caught, fourStage, boundVars>>

\* Compilation and execution within the lowering task.
RunInline(w) ==
  /\ At(w, "inline")
  /\ TakesEffect(w) /\ Return(w)
  /\ UNCHANGED <<poolVars, caught, fourStage, boundVars>>

\* The code of a stage throws.
StageThrows(w) ==
  /\ pc[w] \in {"run", "inline"} /\ item[w] /= Noop
  /\ failures < MaxFailures
  /\ failures' = failures + 1
  /\ Throw(w, item[w])
  /\ UNCHANGED <<poolVars, fourStage, submitted, executed, promised, joined,
                 begun, joins>>

\* executePendingTask stores the exception, over one that is there already.
CatchException(w) ==
  /\ At(w, "catch")
  /\ ex_ptr' = [ex_ptr EXCEPT ![w] = caught[w]]
  /\ caught' = [caught EXCEPT ![w] = None]
  /\ Goto(w, "dec")
  /\ UNCHANGED <<tasks, active_task_count, stop, mutex, asleep, item,
                 fourStage, historyVars, boundVars>>

\* --active_task_count_, without the mutex.
FinishTask(w) ==
  /\ At(w, "dec")
  /\ active_task_count' = [active_task_count EXCEPT ![w] = @ - 1]
  /\ Goto(w, IF active_task_count[w] = 1 THEN "notify" ELSE "loop")
  /\ UNCHANGED <<tasks, ex_ptr, stop, mutex, asleep, item, caught, fourStage,
                 historyVars, boundVars>>

Wake(w) ==
  /\ asleep' = [asleep EXCEPT ![w] = {}]
  /\ pc' = [t \in Threads |-> IF t = w THEN "loop"
                              ELSE IF t \in asleep[w] THEN "lock" ELSE pc[t]]
  /\ UNCHANGED <<plan, tasks, active_task_count, ex_ptr, stop, mutex, item,
                 caught, fourStage, historyVars, boundVars>>

\* Fault: the waiters are notified without the mutex.
NotifyUnlocked(w) == At(w, "notify") /\ Wake(w)

\* cond_.notify_all with the mutex held.
NotifyAll(w) == At(w, "notify") /\ mutex[w] = None /\ Wake(w)

----------------------------------------------------------------------------
CallStep(t) ==
  \/ ReadException(t) \/ ClearException(t)
  \/ Throttle(t) \/ Spin(t) \/ CountTask(t) \/ PushTask(t)
  \/ CheckActive(t) \/ LockAndCheck(t) \/ FallAsleep(t)
  \/ StopPool(t) \/ JoinWorker(t)

WorkerStep(w) ==
  \/ CallStep(w)
  \/ CheckStop(w) \/ PopTask(w) \/ RunStage(w) \/ RunInline(w)
  \/ CatchException(w) \/ FinishTask(w) \/ NotifyAll(w)

Next ==
  \/ \E p \in Producers : BeginEnqueue(p)
  \/ \E p \in Joiners : BeginJoin(p) \/ ThreadsRelease(p)
  \/ \E p \in Producers : CallStep(p)
  \/ \E w \in Stages : WorkerStep(w) \/ StageThrows(w)

\* The threads are scheduled; nothing makes the program submit or join, and
\* nothing makes an operation fail.
Fairness ==
  /\ \A p \in Producers : WF_vars(CallStep(p))
  /\ \A w \in Stages : WF_vars(WorkerStep(w))

Spec == Init /\ [][Next]_vars /\ Fairness

----------------------------------------------------------------------------
(* Properties. *)

Locations ==
  {"idle", "rethrow", "recheck", "clear", "throttle", "spin", "count", "push",
   "check", "lock", "sleep", "asleep", "stop", "join", "inline",
   "loop", "pop", "run", "catch", "dec", "notify", "exit"}

\* Types; above all active_task_count_, which is unsigned, never passes zero
\* downwards, the destructor's empty task included.
TypeOK ==
  /\ tasks \in [Stages -> Seq(Tasks \cup {Noop})]
  /\ active_task_count \in [Stages -> Nat]
  /\ ex_ptr \in [Stages -> Tasks \cup {None}]
  /\ stop \in [Stages -> BOOLEAN]
  /\ mutex \in [Stages -> Threads \cup {None}]
  /\ asleep \in [Stages -> SUBSET Threads]
  /\ pc \in [Threads -> Locations]
  /\ item \in [Threads -> Tasks \cup {Noop}]
  /\ caught \in [Threads -> Tasks \cup {None}]
  /\ submitted \in SUBSET Tasks /\ executed \in Seq(Tasks)

\* An exception that has not surfaced yet: stored, or on its way.
ExceptionPending ==
  \/ \E s \in Stages : ex_ptr[s] /= None
  \/ \E t \in Threads : caught[t] /= None

\* When a join has returned without an exception, every operation submitted
\* before it began has been through all three stages, unless an exception has
\* surfaced since the operation was submitted or one is still to surface.
\* (The last case is a fact of the code: waitWorkComplete looks at ex_ptr_,
\* finds nothing, and returns if the failing task then ends before
\* active_task_count_ is read; the caller learns of it at its next call.)
JoinSound ==
  \/ joined \ suspect \subseteq Elements(executed)
  \/ ExceptionPending

\* The threads that enqueue into a pool: those of the program into the first,
\* the worker of the stage before into the others.
Enqueuers(s) == IF s = Lowering THEN Cardinality(Producers) ELSE 1

\* The tasks of a pool exceed its capacity only by the producers that have
\* passed throttleIfNeeded together: never by more than their number less
\* one, so not at all in the compile and execute pools (the destructor's
\* empty task apart).
QueueBounded ==
  \A s \in Stages :
    Capacity > 0 /\ ~stop[s] => active_task_count[s] <= Capacity + Enqueuers(s) - 1

\* The operations the pipeline holds, in the order they will be executed.  The
\* queue of a pool that is stopped holds only the destructor's empty task.
InFlight ==
  LET held(w)  == IF item[w] = Noop THEN <<>> ELSE <<item[w]>>
      queue(w) == IF stop[w] THEN <<>> ELSE tasks[w]
      stage(w) == held(w) \o queue(w)
  IN stage(Execute) \o stage(Compile) \o stage(Lowering)

\* The three pools together are one FIFO executor: operations take effect one
\* at a time, at most once, in the order of their submission, whatever the
\* interleaving of the stages; one that meets an exception is given up.
Fifo == INSTANCE FifoExecutor WITH waiting <- InFlight, done <- executed

PipelineIsFifo == Fifo!Spec

\* A join, or the release of the threads, returns to the program.
JoinReturns ==
  \A p \in Producers : (plan[p] /= <<>>) ~> (pc[p] = "idle")
=============================================================================
