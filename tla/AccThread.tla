------------------------------ MODULE AccThread ------------------------------
(***************************************************************************)
(* The accumulation thread of the lazy frontend (kernels_accumulation.cpp) *)
(* and the four queues it can be built on (acc_thread_pool.cpp, .h): one   *)
(* without a thread, whose tasks run in the thread that waits, one that    *)
(* counts its tasks, and one that waits for a marker, on a blocking queue  *)
(* or on a lock-free ring.                                                 *)
(*                                                                         *)
(* Threads of the program submit operations and call StepMarker, which     *)
(* waits for the accumulation thread and runs an operation of its own.     *)
(* Main holds Python's GIL in its calls.  A thread that frees the tensors  *)
(* of an operation needs the GIL, which is why a task that is done leaves  *)
(* them in a list of cleanup tasks.                                        *)
(***************************************************************************)
EXTENDS Integers, Sequences, FiniteSets

CONSTANTS
  Producers,     \* the threads of the program
  Main,          \* the one of them that runs Python
  Versions,      \* "sync", "counted", "blocking", "ring"
  RingSize,      \* max_size of LockFreeQueue
  MaxOps,        \* bound on the operations of each producer
  MaxFailures,   \* bound on the operations that throw
  None

Worker  == "worker"
Fast    == {"blocking", "ring"}
Threads == Producers \cup {Worker}
Ops     == Producers \X (1 .. MaxOps)

ASSUME AccThreadAssumption ==
  /\ Main \in Producers /\ IsFiniteSet(Producers) /\ Worker \notin Producers
  /\ Versions \subseteq {"sync", "counted"} \cup Fast
  /\ RingSize \in Nat \ {0, 1} /\ {MaxOps, MaxFailures} \subseteq Nat
  /\ None \notin Ops

VARIABLES
  version,
  tasks_,                  \* the queue, of all versions but the ring
  slots, head_, tail_, enter_, new_h,   \* the ring
  task_count_, stop_, ex_ptr_,
  task_in_progress_,
  cleanup_tasks,           \* operations whose tensors wait to be freed
  pc,
  item,                    \* what a thread has in hand
  promise,                 \* the producers whose marker has been reached
  begun,                   \* operations of each producer so far
  executed,                \* history: operations done, in order
  failed, refused,         \* history: operations that threw; whose call threw
  surfaced,                \* history: operations that threw before a call did
  missed,                  \* history: ... before a wait that returned, and no call did
  lost, overlap            \* history: an exception was overwritten; two calls at once

ring    == <<slots, head_, tail_, enter_, new_h>>
state   == <<task_count_, stop_, task_in_progress_, promise, cleanup_tasks>>
history == <<executed, failed, missed>>
vars == <<version, tasks_, ring, state, ex_ptr_, pc, item, begun, history, refused,
          surfaced, lost, overlap>>

Task(op)  == [kind |-> "task", of |-> op]
Marker(p) == [kind |-> "marker", of |-> p]
StopTask  == [kind |-> "stop", of |-> None]
Nothing   == [kind |-> "none", of |-> None]

Init ==
  /\ version \in Versions
  /\ tasks_ = <<>>
  /\ slots = [i \in 0 .. RingSize - 1 |-> Nothing]
  /\ head_ = 0 /\ tail_ = 0 /\ enter_ = FALSE
  /\ new_h = [p \in Producers |-> 0]
  /\ task_count_ = 0 /\ stop_ = FALSE /\ ex_ptr_ = None
  /\ task_in_progress_ = FALSE
  /\ cleanup_tasks = {}
  /\ pc = [t \in Threads |-> IF t \in Producers THEN "idle"
                             ELSE IF version = "sync" THEN "exited" ELSE "loop"]
  /\ item = [t \in Threads |-> Nothing]
  /\ promise = {}
  /\ begun = [p \in Producers |-> 0]
  /\ executed = <<>> /\ failed = {} /\ refused = {} /\ surfaced = {} /\ missed = {}
  /\ lost = FALSE /\ overlap = FALSE

----------------------------------------------------------------------------
At(t, loc)   == pc[t] = loc
Goto(t, loc) == pc' = [pc EXCEPT ![t] = loc]
Hold(t, x)   == item' = [item EXCEPT ![t] = x]
Kind(t)      == item[t].kind

\* The operation a call of p is about.
Op(p) == <<p, begun[p]>>

Tail_(s) == SubSeq(s, 2, Len(s))

\* A call throws.  Of the destructor that ends the process.
Throw(p) ==
  /\ Goto(p, IF Kind(p) = "stop" THEN "ended" ELSE "idle")
  /\ Hold(p, Nothing)
  /\ refused' = refused \cup (IF Kind(p) = "stop" THEN {} ELSE {Op(p)})

\* Main keeps the GIL for the length of a call, but not when the process ends.
GILHeld == Kind(Main) /= "stop" /\ pc[Main] \notin {"idle", "ended"}

----------------------------------------------------------------------------
(* The calls of the program.                                               *)

Leaving == Kind(Main) = "stop" \/ At(Main, "ended")

Begin(p) ==
  /\ At(p, "idle") /\ ~Leaving /\ begun[p] < MaxOps
  /\ begun' = [begun EXCEPT ![p] = @ + 1]
  /\ overlap' = (overlap \/ \E q \in Producers \ {p} : ~At(q, "idle"))

\* For a thread of the program: without a worker the flag is all there is to tell
\* whether it runs a task.
CanUseAccThread == version = "sync" => ~task_in_progress_

\* An operation of the program: submitted to the accumulation thread, or done
\* on the spot.
Submit(p) ==
  LET op == <<p, begun[p] + 1>> IN
  /\ Begin(p)
  /\ IF CanUseAccThread
     THEN /\ Goto(p, IF version = "sync" THEN "push" ELSE "check")
          /\ Hold(p, Task(op))
          /\ UNCHANGED executed
     ELSE executed' = Append(executed, op) /\ UNCHANGED <<pc, item>>
  /\ UNCHANGED <<version, tasks_, ring, state, ex_ptr_, failed, missed, refused, surfaced, lost>>

\* StepMarker: NoAccThread waits for the tasks that are pending.
StepMarker(p) ==
  /\ Begin(p)
  /\ Hold(p, Marker(p))
  /\ Goto(p, IF ~CanUseAccThread THEN "own"
             ELSE CASE version = "sync"     -> "enter"
                    [] version = "counted"  -> "spin"
                    [] OTHER                -> "check")
  /\ UNCHANGED <<version, tasks_, ring, state, ex_ptr_, history, refused, surfaced, lost>>

\* A wait returns without an exception.
Return(p) ==
  /\ Goto(p, "own")
  /\ missed' = missed \cup (failed \ surfaced)

\* ExecuteAllCleanupTasks, and the operation that StepMarker runs itself.
OwnOperation(p) ==
  /\ At(p, "own")
  /\ cleanup_tasks' = IF CanUseAccThread THEN {} ELSE cleanup_tasks
  /\ executed' = Append(executed, Op(p))
  /\ promise' = promise \ {p}
  /\ Goto(p, "idle") /\ Hold(p, Nothing)
  /\ UNCHANGED <<version, tasks_, ring, task_count_, stop_, task_in_progress_, ex_ptr_, begun,
                 failed, missed, refused, surfaced, lost, overlap>>

----------------------------------------------------------------------------
(* checkNoException, of the versions with a thread, which throws what is   *)
(* stored and forgets it, in two steps.  One version forgets it only if it *)
(* threw, the other only if it did not.  None of them holds a lock that    *)
(* the worker takes.                                                       *)

Forgets(rethrown) == rethrown = (version = "counted")

\* Where a call goes on when nothing is thrown.
AfterCheck(p) ==
  IF pc[p] \in {"check", "forget"} THEN "push" ELSE "own"

CheckException(p) ==
  /\ pc[p] \in {"check", "last check"}
  /\ IF ex_ptr_ /= None
     THEN surfaced' = failed /\ UNCHANGED missed
     ELSE /\ missed' = missed \cup (IF At(p, "last check") THEN failed \ surfaced ELSE {})
          /\ UNCHANGED surfaced
  /\ IF Forgets(ex_ptr_ /= None)
     THEN /\ Goto(p, IF ex_ptr_ /= None THEN "forget, throw"
                     ELSE IF At(p, "check") THEN "forget" ELSE "last forget")
          /\ UNCHANGED <<item, refused>>
     ELSE IF ex_ptr_ /= None THEN Throw(p)
     ELSE Goto(p, AfterCheck(p)) /\ UNCHANGED <<item, refused>>
  /\ UNCHANGED <<version, tasks_, ring, state, ex_ptr_, begun, executed, failed, lost, overlap>>

Forget(p) ==
  /\ pc[p] \in {"forget", "last forget", "forget, throw"}
  /\ ex_ptr_' = None
  /\ lost' = (lost \/ IF At(p, "forget, throw") THEN failed /= surfaced ELSE ex_ptr_ /= None)
  /\ IF At(p, "forget, throw") THEN Throw(p)
     ELSE Goto(p, AfterCheck(p)) /\ UNCHANGED <<item, refused>>
  /\ UNCHANGED <<version, tasks_, ring, state, begun, history, surfaced, overlap>>

----------------------------------------------------------------------------
(* push                                                                    *)

\* Fault: a task of the counting version is not counted.
AfterPushUncounted(p) ==
  CASE Kind(p) = "marker" -> "future"
    [] Kind(p) = "stop"   -> "join"
    [] OTHER              -> "idle"

\* Where a call goes on when its task is in the queue.
AfterPush(p) ==
  CASE Kind(p) = "marker"   -> "future"
    [] Kind(p) = "stop"     -> "join"
    [] version = "counted"  -> "count"
    [] OTHER                -> "idle"

\* Fault: the new task overtakes those that wait.
PushInFront(s, x) == <<x>> \o s

PushBack(s, x) == Append(s, x)

Push(p) ==
  /\ version /= "ring" /\ At(p, "push")
  /\ tasks_' = PushBack(tasks_, item[p])
  /\ Goto(p, AfterPush(p))
  /\ UNCHANGED <<version, ring, state, ex_ptr_, item, begun, history, refused, surfaced, lost,
                 overlap>>

Count(p) ==
  /\ At(p, "count")
  /\ task_count_' = task_count_ + 1
  /\ Goto(p, "idle")
  /\ UNCHANGED <<version, tasks_, ring, stop_, task_in_progress_, promise, cleanup_tasks,
                 ex_ptr_, item, begun, history, refused, surfaced, lost, overlap>>

\* The assertion that no other thread is in push, and the announcement that this
\* one is.
EnterRing(p) ==
  /\ version = "ring" /\ At(p, "push")
  /\ IF enter_ THEN Throw(p) ELSE Goto(p, "entered") /\ UNCHANGED <<item, refused>>
  /\ UNCHANGED <<version, tasks_, ring, state, ex_ptr_, begun, history, surfaced, lost, overlap>>

Next_(i) == (i + 1) % RingSize

\* Fault: nothing keeps the producer from overtaking the worker.
NeverFull(h) == FALSE

RingFull(h) == tail_ = h

\* The assertion that the ring is not full leaves enter_ set.
ReserveSlot(p) ==
  LET h == Next_(head_) IN
  /\ At(p, "entered")
  /\ enter_' = TRUE
  /\ IF RingFull(h) THEN Throw(p) /\ UNCHANGED new_h
     ELSE /\ Goto(p, "reserved")
          /\ new_h' = [new_h EXCEPT ![p] = h]
          /\ UNCHANGED <<item, refused>>
  /\ UNCHANGED <<version, tasks_, slots, head_, tail_, state, ex_ptr_, begun, history, surfaced,
                 lost, overlap>>

FillSlot(p) ==
  /\ At(p, "reserved")
  /\ slots' = [slots EXCEPT ![new_h[p]] = item[p]]
  /\ Goto(p, "filled")
  /\ UNCHANGED <<version, tasks_, head_, tail_, enter_, new_h, state, ex_ptr_, item, begun,
                 history, refused, surfaced, lost, overlap>>

PublishSlot(p) ==
  /\ At(p, "filled")
  /\ head_' = new_h[p] /\ enter_' = FALSE
  /\ Goto(p, AfterPush(p))
  /\ UNCHANGED <<version, tasks_, slots, tail_, new_h, state, ex_ptr_, item, begun, history,
                 refused, surfaced, lost, overlap>>

----------------------------------------------------------------------------
(* waitWorkComplete                                                        *)

\* Fault: the counting version does not check again when the count is zero.
SpinUnchecked(p) ==
  /\ At(p, "spin") /\ task_count_ = 0
  /\ Return(p)
  /\ UNCHANGED <<version, tasks_, ring, state, ex_ptr_, item, begun, executed, failed, refused,
                 surfaced, lost, overlap>>

Spin(p) ==
  /\ At(p, "spin") /\ task_count_ = 0
  /\ Goto(p, "last check")
  /\ UNCHANGED <<version, tasks_, ring, state, ex_ptr_, item, begun, history, refused, surfaced,
                 lost, overlap>>

AwaitMarker(p) ==
  /\ At(p, "future") /\ p \in promise
  /\ Goto(p, "last check")
  /\ UNCHANGED <<version, tasks_, ring, state, ex_ptr_, item, begun, history, refused, surfaced,
                 lost, overlap>>

\* Without a worker: the tasks are run by the thread that waits, one thread at a
\* time.
EnterFlush(p) ==
  /\ At(p, "enter")
  /\ IF task_in_progress_
     THEN Throw(p) /\ UNCHANGED task_in_progress_
     ELSE /\ task_in_progress_' = TRUE
          /\ Goto(p, "flush")
          /\ UNCHANGED <<item, refused>>
  /\ UNCHANGED <<version, tasks_, ring, task_count_, stop_, promise, cleanup_tasks, ex_ptr_,
                 begun, history, surfaced, lost, overlap>>

\* Fault: an operation that is done is freed by the thread that ran it.
KeepNothing(op) == {}

PushCleanupTask(op) == {op}

FlushTask(p) ==
  LET op == Head(tasks_).of IN
  /\ At(p, "flush") /\ tasks_ /= <<>>
  /\ tasks_' = Tail_(tasks_)
  /\ executed' = Append(executed, op)
  /\ cleanup_tasks' = cleanup_tasks \cup PushCleanupTask(op)
  /\ UNCHANGED <<version, ring, task_count_, stop_, task_in_progress_, promise, ex_ptr_, pc,
                 item, begun, failed, missed, refused, surfaced, lost, overlap>>

\* The exception leaves waitWorkComplete, and task_in_progress_ stays set.
FlushTaskThrows(p) ==
  /\ At(p, "flush") /\ tasks_ /= <<>> /\ Cardinality(failed) < MaxFailures
  /\ tasks_' = Tail_(tasks_)
  /\ failed' = failed \cup {Head(tasks_).of}
  /\ surfaced' = failed'
  /\ Throw(p)
  /\ UNCHANGED <<version, ring, state, ex_ptr_, begun, executed, missed, lost, overlap>>

Flushed(p) ==
  /\ At(p, "flush") /\ tasks_ = <<>>
  /\ task_in_progress_' = FALSE
  /\ Return(p)
  /\ UNCHANGED <<version, tasks_, ring, task_count_, stop_, promise, cleanup_tasks, ex_ptr_,
                 item, begun, executed, failed, refused, surfaced, lost, overlap>>

\* discardPendingTasks, which no version with a thread supports: the graph of
\* the pending tasks is known already, so they count as done.
Discard(p) ==
  /\ version = "sync" /\ At(p, "idle") /\ ~Leaving /\ tasks_ /= <<>>
  /\ tasks_' = <<>>
  /\ executed' = executed \o [i \in DOMAIN tasks_ |-> tasks_[i].of]
  /\ UNCHANGED <<version, ring, state, ex_ptr_, pc, item, begun, failed, missed, refused,
                 surfaced, lost, overlap>>

----------------------------------------------------------------------------
(* The worker: main_loop and executePendingTask.                           *)

\* The counting version looks at stop_ before every task; the others run what
\* they pop until stop_ is set, and then only the markers.
Available ==
  /\ At(Worker, "loop")
  /\ version = "counted" => ~stop_ /\ task_count_ > 0

PopTask ==
  /\ Available /\ version /= "ring" /\ tasks_ /= <<>>
  /\ tasks_' = Tail_(tasks_)
  /\ Hold(Worker, Head(tasks_))
  /\ Goto(Worker, "execute")
  /\ UNCHANGED <<version, ring, state, ex_ptr_, begun, history, refused, surfaced, lost, overlap>>

AdvanceTail ==
  /\ Available /\ version = "ring" /\ head_ /= tail_
  /\ tail_' = Next_(tail_)
  /\ Goto(Worker, "read")
  /\ UNCHANGED <<version, tasks_, slots, head_, enter_, new_h, state, ex_ptr_, item, begun,
                 history, refused, surfaced, lost, overlap>>

ReadSlot ==
  /\ At(Worker, "read")
  /\ Hold(Worker, slots[tail_])
  /\ Goto(Worker, "execute")
  /\ UNCHANGED <<version, tasks_, ring, state, ex_ptr_, begun, history, refused, surfaced, lost,
                 overlap>>

Executing(kind) == At(Worker, "execute") /\ Kind(Worker) = kind

Draining == stop_ /\ version \in Fast

\* Where the worker goes with its task done.
AfterTask == IF version = "counted" THEN "uncount" ELSE "loop"

\* Where it goes when the tensors of its task are freed by itself: they may be
\* Python's.
Frees == {AfterTask, "free"}

Execute ==
  LET op == item[Worker].of IN
  /\ Executing("task") /\ ~Draining
  /\ executed' = Append(executed, op)
  /\ cleanup_tasks' = cleanup_tasks \cup PushCleanupTask(op)
  /\ \E loc \in IF op \in cleanup_tasks' THEN {AfterTask} ELSE Frees : Goto(Worker, loc)
  /\ UNCHANGED <<version, tasks_, ring, task_count_, stop_, task_in_progress_, promise, ex_ptr_,
                 item, begun, failed, missed, refused, surfaced, lost, overlap>>

\* The task throws before its cleanup task is pushed.
ExecuteThrows ==
  /\ Executing("task") /\ ~Draining /\ Cardinality(failed) < MaxFailures
  /\ ex_ptr_' = item[Worker].of
  /\ failed' = failed \cup {item[Worker].of}
  /\ stop_' = (stop_ \/ version \in Fast)
  /\ \E loc \in Frees : Goto(Worker, loc)
  /\ UNCHANGED <<version, tasks_, ring, task_count_, task_in_progress_, promise, cleanup_tasks,
                 item, begun, executed, missed, refused, surfaced, lost, overlap>>

ReachMarker ==
  /\ Executing("marker")
  /\ promise' = promise \cup {item[Worker].of}
  /\ Goto(Worker, "loop")
  /\ UNCHANGED <<version, tasks_, ring, task_count_, stop_, task_in_progress_, cleanup_tasks,
                 ex_ptr_, item, begun, history, refused, surfaced, lost, overlap>>

ReachStop ==
  /\ Executing("stop") /\ ~Draining
  /\ stop_' = TRUE
  /\ Goto(Worker, "loop")
  /\ UNCHANGED <<version, tasks_, ring, task_count_, task_in_progress_, promise, cleanup_tasks,
                 ex_ptr_, item, begun, history, refused, surfaced, lost, overlap>>

Drop ==
  /\ Draining /\ (Executing("task") \/ Executing("stop"))
  /\ \E loc \in Frees : Goto(Worker, loc)
  /\ UNCHANGED <<version, tasks_, ring, state, ex_ptr_, item, begun, history, refused, surfaced,
                 lost, overlap>>

FreeTensors ==
  /\ At(Worker, "free") /\ ~GILHeld
  /\ Goto(Worker, AfterTask)
  /\ UNCHANGED <<version, tasks_, ring, state, ex_ptr_, item, begun, history, refused, surfaced,
                 lost, overlap>>

Uncount ==
  /\ At(Worker, "uncount")
  /\ task_count_' = task_count_ - 1
  /\ Goto(Worker, "loop")
  /\ UNCHANGED <<version, tasks_, ring, stop_, task_in_progress_, promise, cleanup_tasks, ex_ptr_,
                 item, begun, history, refused, surfaced, lost, overlap>>

LeaveLoop ==
  /\ At(Worker, "loop") /\ stop_
  /\ version \in Fast => tasks_ = <<>> /\ head_ = tail_
  /\ task_count_' = 0
  /\ Goto(Worker, "exited")
  /\ UNCHANGED <<version, tasks_, ring, stop_, task_in_progress_, promise, cleanup_tasks, ex_ptr_,
                 item, begun, history, refused, surfaced, lost, overlap>>

----------------------------------------------------------------------------
(* The end of the process: the destructor of the pool.                     *)

Exit ==
  /\ \A p \in Producers : At(p, "idle")
  /\ ~Leaving
  /\ Hold(Main, StopTask)
  /\ Goto(Main, IF version \in Fast THEN "push" ELSE "join")
  /\ stop_' = (stop_ \/ version = "counted")
  /\ UNCHANGED <<version, tasks_, ring, task_count_, task_in_progress_, promise, cleanup_tasks,
                 ex_ptr_, begun, history, refused, surfaced, lost, overlap>>

Join ==
  /\ At(Main, "join") /\ At(Worker, "exited")
  /\ Goto(Main, "ended") /\ Hold(Main, Nothing)
  /\ UNCHANGED <<version, tasks_, ring, state, ex_ptr_, begun, history, refused, surfaced, lost,
                 overlap>>

----------------------------------------------------------------------------
\* A step of a call that is under way.
CallStep(p) ==
  \/ OwnOperation(p) \/ CheckException(p) \/ Forget(p)
  \/ Push(p) \/ Count(p) \/ EnterRing(p) \/ ReserveSlot(p) \/ FillSlot(p) \/ PublishSlot(p)
  \/ Spin(p) \/ AwaitMarker(p)
  \/ EnterFlush(p) \/ FlushTask(p) \/ FlushTaskThrows(p) \/ Flushed(p)

WorkerStep ==
  \/ PopTask \/ AdvanceTail \/ ReadSlot
  \/ Execute \/ ExecuteThrows \/ ReachMarker \/ ReachStop \/ Drop
  \/ FreeTensors \/ Uncount \/ LeaveLoop

Next ==
  \/ \E p \in Producers : Submit(p) \/ StepMarker(p) \/ Discard(p) \/ CallStep(p)
  \/ WorkerStep
  \/ Exit \/ Join

Fairness ==
  /\ \A p \in Producers : WF_vars(CallStep(p))
  /\ WF_vars(WorkerStep) /\ WF_vars(Join)

Spec == Init /\ [][Next]_vars /\ Fairness

----------------------------------------------------------------------------
(* Properties.  In four situations the code does not keep its promises.    *)

\* Two calls of the program at once, which only the blocking queue is made for:
\* the counting version counts a task after it is in the queue, the ring and the
\* version without a worker allow one thread at a time.
Alone == overlap => version = "blocking"

\* A task threw in waitWorkComplete without a worker: the flag that says so stays
\* set, later operations are done on the spot, and those that are pending never.
Wedged == task_in_progress_ /\ \A p \in Producers : ~At(p, "flush")

\* The worker of a fast version left after an exception, between the check of a
\* wait and the push of its marker.
Stranded(p) ==
  /\ version \in Fast /\ failed /= {}
  /\ At(Worker, "exited") /\ At(p, "future") /\ p \notin promise

\* A task that threw, or was dropped, is freed by the worker, and Main waits for
\* the worker with the GIL.
GILDeadlock == failed /= {} /\ At(Worker, "free") /\ GILHeld

Indices == DOMAIN executed

\* The type of every variable, the bounds of the ring and of the count, and the
\* state of a pool at rest (acc_thread_pool.h): a count of what is queued, no
\* thread in push, no flag set.
TypeOK ==
  /\ version \in Versions
  /\ task_count_ \in 0 .. Cardinality(Ops)
  /\ {head_, tail_} \subseteq 0 .. RingSize - 1
  /\ {stop_, enter_, task_in_progress_, lost, overlap} \subseteq BOOLEAN
  /\ ex_ptr_ \in Ops \cup {None}
  /\ cleanup_tasks \cup failed \cup refused \cup surfaced \cup missed \subseteq Ops
  /\ promise \subseteq Producers
  /\ Alone /\ version = "counted" /\ (\A t \in Producers : At(t, "idle")) /\ At(Worker, "loop")
       => task_count_ = Len(tasks_)

\* Operations take effect once and in the order of the program, also those that
\* are done on the spot: before an operation, all earlier ones of its thread, but
\* for those that threw or whose call threw (run, waitWorkComplete).
InOrder ==
  Alone /\ ~lost /\ ~Wedged =>
    \A n \in Indices :
      LET Before == {executed[i] : i \in 1 .. n - 1} IN
      /\ executed[n] \notin Before
      /\ \A k \in 1 .. executed[n][2] - 1 :
           <<executed[n][1], k>> \in Before \cup failed \cup refused

\* A wait that returns hides no failure (checkNoException: "If exception occurred
\* then rethrow it in the main thread"), unless an exception that was stored while
\* checkNoException ran has been overwritten.
NoSilentFailure == lost \/ missed = {}

\* Every call ends, in particular Main's wait for a worker that frees tensors
\* (PushCleanupTask), and so does the process.
CallsReturn ==
  \A p \in Producers :
    ~At(p, "idle") ~>
      (At(p, "idle") \/ At(p, "ended") \/ Stranded(p) \/ GILDeadlock
       \/ (overlap /\ version = "ring"))
=============================================================================
