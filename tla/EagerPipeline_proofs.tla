------------------------ MODULE EagerPipeline_proofs ------------------------
(***************************************************************************)
(* Proofs about EagerPipeline, for any number of producers, any capacity   *)
(* and any bounds.                                                         *)
(*                                                                         *)
(* Every variable keeps its type, the unsigned counter of active tasks     *)
(* among them never passes zero downwards, and throttling bounds the       *)
(* queues.                                                                 *)
(*                                                                         *)
(* A join that returns without an exception has let every operation        *)
(* submitted before it through the three stages (JoinSound).  It waits for *)
(* the pools one after the other while others submit, so the invariant     *)
(* follows the operations promised to it: they are never in a pool the     *)
(* join has passed, because a task only moves to the next pool and the     *)
(* active_task_count_ of a pool covers it until it is there.               *)
(*                                                                         *)
(* And the three pools are one FIFO executor (PipelineIsFifo): what the    *)
(* pools hold, execution first and lowering last, is the executor's queue. *)
(* A step of a worker takes, hands on or drops the first task of its pool, *)
(* and a program's thread adds one at the end; a task takes effect only as *)
(* the first of all.                                                       *)
(***************************************************************************)
EXTENDS EagerPipeline, FiniteSetTheorems, SequenceTheorems, TLAPS

\* The locations of a thread in a call, all but "idle" and those of main_loop.
CallLocations ==
  {"rethrow", "recheck", "clear", "throttle", "spin", "count", "push",
   "check", "lock", "sleep", "asleep", "stop", "join", "inline"}

WorkerLocations == {"loop", "pop", "run", "catch", "dec", "notify", "exit"}

AllCalls == [op : {"enqueue", "wait", "release", "inline"}, pool : Stages]

\* The calls a thread may have to make: the program enqueues into the first
\* pool and releases, a worker enqueues into the next one.
Calls(t) ==
  {c \in AllCalls :
     /\ c.op = "enqueue" => IF t \in Producers THEN c.pool = Lowering ELSE c.pool = t + 1
     /\ c.op = "release" => t \in Producers
     /\ c.op = "inline" => t \in Stages}

\* The types of TypeOK, with a counter that may be negative, and of the rest.
Types ==
  /\ tasks \in [Stages -> Seq(Tasks \cup {Noop})]
  /\ active_task_count \in [Stages -> Int]
  /\ ex_ptr \in [Stages -> Tasks \cup {None}]
  /\ stop \in [Stages -> BOOLEAN]
  /\ mutex \in [Stages -> Threads \cup {None}]
  /\ asleep \in [Stages -> SUBSET Threads]
  /\ pc \in [Threads -> Locations]
  /\ item \in [Threads -> Tasks \cup {Noop}]
  /\ caught \in [Threads -> Tasks \cup {None}]
  /\ submitted \in SUBSET Tasks /\ executed \in Seq(Tasks)
  /\ begun \in [Producers -> 0 .. MaxTasks]
  /\ plan \in [Threads -> Seq(AllCalls)]

\* The locations of each kind of call, st being stop_ of the pools.
Fits(call, loc, st) ==
  \/ loc \in {"rethrow", "clear"} /\ call.op \in {"enqueue", "wait"}
  \/ loc \in {"throttle", "spin"} /\ call.op = "enqueue"
  \/ loc \in {"count", "push"} /\ call.op = "enqueue"
  \/ loc \in {"count", "push"} /\ call.op = "release" /\ st[call.pool]
  \/ loc \in {"check", "lock", "sleep", "asleep", "recheck"} /\ call.op = "wait"
  \/ loc \in {"stop", "join"} /\ call.op = "release"
  \/ loc = "inline" /\ call.op = "inline"

\* A thread in a call has a plan that begins with that call, and no other
\* thread has one; a worker keeps its task for the work it does itself.
ThreadOK(t) ==
  /\ plan[t] \in Seq(Calls(t))
  /\ IF pc[t] \in CallLocations THEN plan[t] # <<>> /\ Fits(Head(plan[t]), pc[t], stop)
                                 ELSE plan[t] = <<>>
  /\ \A i, j \in 1 .. Len(plan[t]) :
       plan[t][i].op = "inline" =>
         /\ item[t] # Noop /\ i = Len(plan[t])
         /\ plan[t][j].op # "enqueue"
  /\ t \in Producers => pc[t] \in CallLocations \cup {"idle"}
  /\ t \in Stages => pc[t] \in CallLocations \cup WorkerLocations

ControlOK ==
  /\ \A t \in Threads : ThreadOK(t)
  /\ \A s \in Stages : \A t \in asleep[s] : pc[t] = "asleep"

\* The threads that are at a location in a call on pool s.
In(loc, s) == {t \in Threads : pc[t] = loc /\ Pool(t) = s}

\* 1 while the worker of the pool has a task in its hands.
Busy(s) == IF pc[s] \in {"loop", "pop", "notify", "exit"} THEN 0 ELSE 1

\* A task is counted from before it is in the queue to its end.
TasksCounted ==
  \A s \in Stages :
    active_task_count[s] = Len(tasks[s]) + Cardinality(In("push", s)) + Busy(s)

\* The tasks counted and those that have passed throttleIfNeeded.
Throttling ==
  \A s \in Stages :
    Capacity > 0 /\ ~stop[s] =>
      active_task_count[s] + Cardinality(In("count", s)) <= Capacity + Enqueuers(s) - 1

\* A thread sleeps in the pool its call is on.
Sleeping == \A s \in Stages : \A t \in asleep[s] : Pool(t) = s

Inv == Types /\ ControlOK /\ Sleeping /\ TasksCounted /\ Throttling

-----------------------------------------------------------------------------
(* Sets and sequences. *)

\* A set with one element more.
LEMMA AddOne ==
  ASSUME NEW S, IsFiniteSet(S), NEW T, NEW x, x \notin S,
         \A z : z \in T <=> z \in S \/ z = x
  PROVE  IsFiniteSet(T) /\ Cardinality(T) = Cardinality(S) + 1 /\ Cardinality(S) \in Nat
<1>1. T = S \cup {x}
  OBVIOUS
<1> QED
  BY <1>1, FS_AddElement, FS_CardinalityType

\* A set with one element less.
LEMMA RemoveOne ==
  ASSUME NEW S, IsFiniteSet(S), NEW T, NEW x \in S,
         \A z : z \in T <=> z \in S /\ z # x
  PROVE  IsFiniteSet(T) /\ Cardinality(T) = Cardinality(S) - 1 /\ Cardinality(S) \in Nat
<1>1. T = S \ {x}
  OBVIOUS
<1> QED
  BY <1>1, FS_RemoveElement, FS_CardinalityType

\* What the rest of a plan holds.
LEMMA TailMembers ==
  ASSUME NEW C, NEW q \in Seq(C), q # <<>>, NEW r, r = Tail(q)
  PROVE  /\ r \in Seq(C) /\ Len(q) \in Nat \ {0} /\ Len(r) = Len(q) - 1
         /\ Head(q) = q[1] /\ q[1] \in C
         /\ \A i \in 1 .. Len(r) : r[i] = q[i + 1] /\ i + 1 \in 1 .. Len(q)
         /\ r # <<>> => Head(r) \in C
OBVIOUS

\* What the concatenation of two plans holds.
LEMMA ConcatMembers ==
  ASSUME NEW C, NEW q \in Seq(C), NEW r \in Seq(C), NEW s, s = q \o r
  PROVE  /\ s \in Seq(C) /\ Len(s) = Len(q) + Len(r)
         /\ \A i \in 1 .. Len(s) : s[i] = IF i <= Len(q) THEN q[i] ELSE r[i - Len(q)]
OBVIOUS

\* The facts about the constants.
LEMMA Constants ==
  /\ Producers \cap Stages = {} /\ Threads = Producers \cup Stages
  /\ IsFiniteSet(Producers) /\ IsFiniteSet(Threads)
  /\ Capacity \in Nat /\ MaxTasks \in Nat /\ None \notin Threads
<1>1. IsFiniteSet(Stages)
  <2>1. 1 \in Int /\ 3 \in Int
    OBVIOUS
  <2>2. IsFiniteSet(1 .. 3)
    BY <2>1, FS_Interval, Zenon
  <2> QED
    BY <2>2, Zenon DEF Stages
<1> QED
  BY <1>1, PipelineAssumption, FS_Union DEF Threads

-----------------------------------------------------------------------------
(* The control of a thread. *)

\* A call begins where it should.
LEMMA FirstStepFits ==
  ASSUME NEW c \in AllCalls, NEW st
  PROVE  /\ FirstStep(c) \in {"rethrow", "inline", "stop"}
         /\ Fits(c, FirstStep(c), st)
<1>1. c.op \in {"enqueue", "wait", "release", "inline"}
  BY DEF AllCalls
<1> QED
  BY <1>1 DEF FirstStep, Fits

\* Only thread t has moved.
Only(t) ==
  \A u \in Threads : u # t => /\ pc'[u] = pc[u] /\ plan'[u] = plan[u]
                              /\ item'[u] = item[u]

\* stop_ is never reset.
StopStays == \A s \in Stages : stop[s] => stop'[s]

\* When one thread has moved, the others are where they were.
LEMMA OthersOK ==
  ASSUME ControlOK, NEW t \in Threads, Only(t), StopStays, ThreadOK(t)'
  PROVE  \A u \in Threads : ThreadOK(u)'
<1> SUFFICES ASSUME NEW u \in Threads, u # t PROVE ThreadOK(u)'
  OBVIOUS
<1>1. ThreadOK(u) /\ pc'[u] = pc[u] /\ plan'[u] = plan[u] /\ item'[u] = item[u]
  BY DEF ControlOK, Only
<1>2. ASSUME NEW c \in AllCalls, NEW loc, Fits(c, loc, stop)
      PROVE  Fits(c, loc, stop')
  <2>1. c.pool \in Stages
    BY DEF AllCalls
  <2> QED
    BY <1>2, <2>1 DEF Fits, StopStays
<1>3. plan[u] # <<>> => Head(plan[u]) \in AllCalls
  <2>1. plan[u] \in Seq(Calls(u))
    BY <1>1 DEF ThreadOK
  <2>2. plan[u] # <<>> => Head(plan[u]) \in Calls(u)
    BY <2>1
  <2> QED
    BY <2>2 DEF Calls
<1> QED
  BY <1>1, <1>2, <1>3 DEF ThreadOK

\* A thread goes on within its call.
LEMMA GotoOK ==
  ASSUME Types, NEW t \in Threads, ThreadOK(t), NEW loc, Goto(t, loc),
         \A u \in Threads : u # t => item'[u] = item[u],
         item'[t] = item[t] \/ \A i \in 1 .. Len(plan[t]) : plan[t][i].op # "inline",
         loc \in CallLocations \/ (t \in Stages /\ loc \in WorkerLocations),
         IF loc \in CallLocations THEN plan[t] # <<>> /\ Fits(Head(plan[t]), loc, stop')
                                  ELSE plan[t] = <<>>
  PROVE  Only(t) /\ ThreadOK(t)' /\ pc'[t] = loc /\ plan' = plan
<1>1. /\ \A u \in Threads : pc'[u] = IF u = t THEN loc ELSE pc[u]
      /\ plan' = plan
  BY DEF Goto, Types
<1>2. Only(t)
  BY <1>1 DEF Only
<1>3. t \in Producers => t \notin Stages
  BY Constants
<1> QED
  BY <1>1, <1>2, <1>3 DEF ThreadOK

\* A call returns.
LEMMA ReturnOK ==
  ASSUME Types, NEW t \in Threads, ThreadOK(t), pc[t] \in CallLocations, Return(t),
         \A u \in Threads : u # t => item'[u] = item[u],
         item'[t] = item[t] \/ \A i \in 1 .. Len(plan[t]) : i > 1 => plan[t][i].op # "inline"
  PROVE  /\ Only(t) /\ ThreadOK(t)'
         /\ pc'[t] \in {"rethrow", "inline", "stop"}
              \cup (IF t \in Producers THEN {"idle"} ELSE {"dec"})
<1>1. PICK rest : rest = Tail(plan[t])
  OBVIOUS
<1>2. plan[t] \in Seq(Calls(t)) /\ plan[t] # <<>>
  BY DEF ThreadOK
<1>3. /\ rest \in Seq(Calls(t)) /\ Len(plan[t]) \in Nat \ {0} /\ Len(rest) = Len(plan[t]) - 1
      /\ \A i \in 1 .. Len(rest) : rest[i] = plan[t][i + 1] /\ i + 1 \in 1 .. Len(plan[t])
      /\ rest # <<>> => Head(rest) \in Calls(t)
  BY <1>1, <1>2, TailMembers
<1>4. PICK loc : loc = IF rest # <<>> THEN FirstStep(Head(rest))
                       ELSE IF t \in Producers THEN "idle" ELSE "dec"
  OBVIOUS
<1>5. /\ \A u \in Threads : pc'[u] = IF u = t THEN loc ELSE pc[u]
      /\ \A u \in Threads : plan'[u] = IF u = t THEN rest ELSE plan[u]
  BY <1>1, <1>4 DEF Return, Types
<1>6. rest # <<>> => loc \in {"rethrow", "inline", "stop"} /\ Fits(Head(rest), loc, stop')
  BY <1>3, <1>4, FirstStepFits DEF Calls
<1>7. rest = <<>> => loc = IF t \in Producers THEN "idle" ELSE "dec"
  BY <1>4
<1>8. ASSUME NEW i \in 1 .. Len(rest), NEW j \in 1 .. Len(rest), rest[i].op = "inline"
      PROVE  item'[t] # Noop /\ i = Len(rest) /\ rest[j].op # "enqueue"
  BY <1>3, <1>8 DEF ThreadOK
<1>9. Only(t)
  BY <1>5 DEF Only
<1>10. /\ plan'[t] = rest /\ pc'[t] = loc /\ t \in Producers \cup Stages
       /\ t \in Producers => t \notin Stages
  BY <1>5, Constants
<1>11. ThreadOK(t)'
  BY <1>3, <1>6, <1>7, <1>8, <1>10 DEF ThreadOK, CallLocations, WorkerLocations
<1> QED
  BY <1>6, <1>7, <1>9, <1>10, <1>11

\* A thread begins the calls of a plan.
LEMMA BeginOK ==
  ASSUME Types, NEW t \in Threads, NEW calls, calls \in Seq(Calls(t)), calls # <<>>,
         Begin(t, calls), \A u \in Threads : u # t => item'[u] = item[u],
         \A i, j \in 1 .. Len(calls) : calls[i].op = "inline" =>
           item'[t] # Noop /\ i = Len(calls) /\ calls[j].op # "enqueue"
  PROVE  Only(t) /\ ThreadOK(t)' /\ pc'[t] \in {"rethrow", "inline", "stop"}
<1>1. Head(calls) \in Calls(t)
  BY TailMembers
<1>2. PICK loc : loc = FirstStep(Head(calls))
  OBVIOUS
<1>3. loc \in {"rethrow", "inline", "stop"} /\ Fits(Head(calls), loc, stop')
  BY <1>1, <1>2, FirstStepFits DEF Calls
<1>4. /\ \A u \in Threads : pc'[u] = IF u = t THEN loc ELSE pc[u]
      /\ \A u \in Threads : plan'[u] = IF u = t THEN calls ELSE plan[u]
  BY <1>2 DEF Begin, Types
<1>5. Only(t)
  BY <1>4 DEF Only
<1>6. plan'[t] = calls /\ pc'[t] = loc
  BY <1>4
<1> QED
  BY <1>3, <1>5, <1>6 DEF ThreadOK, CallLocations

\* An exception ends the plan.
LEMMA ThrowOK ==
  ASSUME Types, NEW t \in Threads, NEW e, Throw(t, e)
  PROVE  /\ Only(t) /\ ThreadOK(t)' /\ pc'[t] = IF t \in Producers THEN "idle" ELSE "catch"
<1>1. /\ \A u \in Threads : pc'[u] = IF u = t THEN (IF t \in Producers THEN "idle" ELSE "catch")
                                              ELSE pc[u]
      /\ \A u \in Threads : plan'[u] = IF u = t THEN <<>> ELSE plan[u]
      /\ \A u \in Threads : item'[u] = IF u = t THEN Noop ELSE item[u]
  BY DEF Throw, Types
<1>2. Only(t)
  BY <1>1 DEF Only
<1>3. /\ plan'[t] = <<>> /\ t \in Producers \cup Stages
      /\ t \in Producers => t \notin Stages
      /\ pc'[t] = IF t \in Producers THEN "idle" ELSE "catch"
  BY <1>1, Constants
<1>4. <<>> \in Seq(Calls(t)) /\ Len(<<>>) = 0
  OBVIOUS
<1> QED
  BY <1>2, <1>3, <1>4 DEF ThreadOK, CallLocations, WorkerLocations

\* A thread that moves was not asleep, and nobody else falls asleep.
LEMMA AsleepOK ==
  ASSUME ControlOK, NEW t \in Threads, Only(t), Types, pc[t] # "asleep", asleep' = asleep
  PROVE  \A s \in Stages : \A u \in asleep'[s] : pc'[u] = "asleep"
<1> SUFFICES ASSUME NEW s \in Stages, NEW u \in asleep[s] PROVE pc'[u] = "asleep"
  OBVIOUS
<1>1. pc[u] = "asleep" /\ u \in Threads
  BY DEF ControlOK, Types
<1> QED
  BY <1>1 DEF Only

-----------------------------------------------------------------------------
(* What a step does to the counters of the pools. *)

\* Pools and control points of counted tasks stay.
Quiet(t) ==
  /\ UNCHANGED <<tasks, active_task_count, stop>>
  /\ {pc[t], pc'[t]} \cap {"count", "push"} = {}
  /\ t \in Stages =>
       (pc[t] \in {"loop", "pop", "notify", "exit"} <=> pc'[t] \in {"loop", "pop", "notify", "exit"})

\* Thread t passes throttleIfNeeded.
Passes(t) ==
  /\ UNCHANGED <<tasks, active_task_count, stop>>
  /\ pc[t] \in {"throttle", "spin"} /\ pc'[t] = "count" /\ plan' = plan
  /\ \/ ~Throttled(Pool(t))
     \/ active_task_count[Pool(t)] <= Capacity \div 2

\* Thread t stops a pool.
Stops(t) ==
  /\ UNCHANGED <<tasks, active_task_count>>
  /\ pc[t] = "stop" /\ pc'[t] = "count" /\ plan' = plan
  /\ stop' = [stop EXCEPT ![Pool(t)] = TRUE]

\* Thread t counts its task.
CountsTask(t) ==
  /\ UNCHANGED <<tasks, stop>>
  /\ pc[t] = "count" /\ pc'[t] = "push" /\ plan' = plan
  /\ active_task_count' = [active_task_count EXCEPT ![Pool(t)] = @ + 1]

\* Thread t puts its task into the queue.
PushesTask(t) ==
  /\ UNCHANGED <<active_task_count, stop>>
  /\ pc[t] = "push" /\ pc'[t] \notin {"count", "push"}
  /\ t \in Stages => pc'[t] \notin {"loop", "pop", "notify", "exit"}
  /\ tasks' = [tasks EXCEPT ![Pool(t)] = Append(@, item[t])]

\* Worker w takes a task from its queue.
PopsTask(w) ==
  /\ UNCHANGED <<active_task_count, stop>>
  /\ pc[w] = "pop" /\ pc'[w] = "run" /\ tasks[w] # <<>>
  /\ tasks' = [tasks EXCEPT ![w] = Tail(@)]

\* Worker w has finished a task.
FinishesTask(w) ==
  /\ UNCHANGED <<tasks, stop>>
  /\ pc[w] = "dec" /\ pc'[w] \in {"notify", "loop"}
  /\ active_task_count' = [active_task_count EXCEPT ![w] = @ - 1]

\* The call a thread is in.
LEMMA CurrentCall ==
  ASSUME Types, ControlOK, NEW t \in Threads
  PROVE  /\ ThreadOK(t)
         /\ t \in Producers => t \notin Stages
         /\ pc[t] \in CallLocations =>
              /\ plan[t] # <<>> /\ Fits(Head(plan[t]), pc[t], stop)
              /\ Head(plan[t]) \in Calls(t) /\ Head(plan[t]) = plan[t][1]
              /\ 1 \in 1 .. Len(plan[t]) /\ Pool(t) \in Stages
<1>1. ThreadOK(t) /\ (t \in Producers => t \notin Stages)
  BY Constants DEF ControlOK
<1>2. ASSUME pc[t] \in CallLocations
      PROVE  /\ plan[t] # <<>> /\ Fits(Head(plan[t]), pc[t], stop)
             /\ Head(plan[t]) \in Calls(t) /\ Head(plan[t]) = plan[t][1]
             /\ 1 \in 1 .. Len(plan[t])
  BY <1>1, <1>2, TailMembers DEF ThreadOK
<1>3. \A c \in Calls(t) : c.pool \in Stages
  BY DEF Calls, AllCalls
<1> QED
  BY <1>1, <1>2, <1>3 DEF Pool

\* A call goes on.
LEMMA GotoStep ==
  ASSUME Types, ControlOK, NEW t \in Threads, pc[t] \in CallLocations, pc[t] # "asleep",
         NEW loc \in CallLocations, Goto(t, loc), item' = item, asleep' = asleep,
         Fits(Head(plan[t]), loc, stop')
  PROVE  /\ Only(t) /\ ThreadOK(t)' /\ pc'[t] = loc /\ plan' = plan
         /\ \A s \in Stages : \A u \in asleep'[s] : pc'[u] = "asleep"
BY CurrentCall, GotoOK, AsleepOK

\* A call ends.
LEMMA ReturnStep ==
  ASSUME Types, ControlOK, NEW t \in Threads, pc[t] \in CallLocations, pc[t] # "asleep",
         Return(t), item' = item, asleep' = asleep
  PROVE  /\ Only(t) /\ ThreadOK(t)'
         /\ pc'[t] \in {"rethrow", "inline", "stop"}
              \cup (IF t \in Producers THEN {"idle"} ELSE {"dec"})
         /\ \A s \in Stages : \A u \in asleep'[s] : pc'[u] = "asleep"
BY CurrentCall, ReturnOK, AsleepOK

\* What a call does.
LEMMA CallStepControl ==
  ASSUME Types, ControlOK, NEW t \in Threads, CallStep(t)
  PROVE  /\ Only(t) /\ ThreadOK(t)' /\ StopStays
         /\ \A s \in Stages : \A u \in asleep'[s] : pc'[u] = "asleep"
         /\ Quiet(t) \/ Passes(t) \/ Stops(t) \/ CountsTask(t) \/ PushesTask(t)
<1> DEFINE Goal == /\ Only(t) /\ ThreadOK(t)' /\ StopStays
                   /\ \A s \in Stages : \A u \in asleep'[s] : pc'[u] = "asleep"
                   /\ Quiet(t) \/ Passes(t) \/ Stops(t) \/ CountsTask(t) \/ PushesTask(t)
<1>1. CASE ReadException(t)
  <2>1. /\ pc[t] \in {"rethrow", "recheck"} /\ item' = item /\ asleep' = asleep
        /\ UNCHANGED <<tasks, active_task_count, stop>>
        /\ pc[t] \in CallLocations
    BY <1>1 DEF ReadException, CallLocations, poolVars
  <2>2. Fits(Head(plan[t]), pc[t], stop) /\ t \in Producers \cup Stages
    BY <2>1, CurrentCall, Constants
  <2>3. CASE Return(t)
    BY <2>1, <2>2, <2>3, ReturnStep DEF Quiet, StopStays
  <2>4. ASSUME NEW loc, Goto(t, loc),
               \/ loc = "clear" /\ Head(plan[t]).op \in {"enqueue", "wait"}
               \/ loc = "throttle" /\ Head(plan[t]).op = "enqueue"
               \/ loc = "check" /\ Head(plan[t]).op = "wait"
        PROVE  Goal
    <3>1. loc \in CallLocations /\ Fits(Head(plan[t]), loc, stop') /\ loc \notin {"count", "push"}
      BY <2>4 DEF Fits, CallLocations
    <3>2. /\ Only(t) /\ ThreadOK(t)' /\ pc'[t] = loc
          /\ \A s \in Stages : \A u \in asleep'[s] : pc'[u] = "asleep"
      BY <2>1, <2>4, <3>1, GotoStep
    <3>3. Quiet(t)
      BY <2>1, <2>4, <3>2 DEF Quiet
    <3> QED
      BY <2>1, <3>2, <3>3 DEF StopStays
  <2>5. Head(plan[t]).op \in {"enqueue", "wait"} /\ (pc[t] = "recheck" => Head(plan[t]).op = "wait")
    BY <2>1, <2>2 DEF Fits
  <2>6. CASE ex_ptr[Pool(t)] # None
    BY <1>1, <2>4, <2>5, <2>6 DEF ReadException
  <2>7. CASE ex_ptr[Pool(t)] = None /\ pc[t] # "recheck"
    <3>1. CASE Head(plan[t]).op = "enqueue"
      BY <1>1, <2>4, <2>7, <3>1 DEF ReadException, At
    <3>2. CASE Head(plan[t]).op = "wait"
      BY <1>1, <2>4, <2>7, <3>2 DEF ReadException, At
    <3> QED
      BY <2>5, <3>1, <3>2
  <2>8. CASE ex_ptr[Pool(t)] = None /\ pc[t] = "recheck"
    <3>1. Return(t)
      BY <1>1, <2>5, <2>8 DEF ReadException, At
    <3> QED
      BY <2>3, <3>1
  <2> QED
    BY <2>6, <2>7, <2>8
<1>2. CASE ClearException(t)
  <2>1. /\ pc[t] = "clear" /\ pc[t] \in CallLocations /\ Throw(t, caught[t]) /\ asleep' = asleep
        /\ UNCHANGED <<tasks, active_task_count, stop>>
    BY <1>2 DEF ClearException, At, CallLocations
  <2>2. Only(t) /\ ThreadOK(t)' /\ pc'[t] \in {"idle", "catch"}
    BY <2>1, ThrowOK
  <2>3. \A s \in Stages : \A u \in asleep'[s] : pc'[u] = "asleep"
    BY <2>1, <2>2, AsleepOK
  <2> QED
    BY <2>1, <2>2, <2>3 DEF Quiet, StopStays
<1>3. CASE Throttle(t) \/ Spin(t)
  <2>1. /\ pc[t] \in {"throttle", "spin"} /\ pc[t] \in CallLocations /\ item' = item
        /\ asleep' = asleep /\ UNCHANGED <<tasks, active_task_count, stop>>
    BY <1>3 DEF Throttle, Spin, At, CallLocations, poolVars
  <2>2. Head(plan[t]).op = "enqueue"
    BY <2>1, CurrentCall DEF Fits
  <2>3. PICK loc \in {"count", "spin"} :
          /\ Goto(t, loc)
          /\ \/ loc = "spin"
             \/ ~Throttled(Pool(t))
             \/ active_task_count[Pool(t)] <= Capacity \div 2
    BY <1>3 DEF Throttle, Spin
  <2>4. loc \in CallLocations /\ Fits(Head(plan[t]), loc, stop')
    BY <2>2, <2>3 DEF Fits, CallLocations
  <2>5. /\ Only(t) /\ ThreadOK(t)' /\ pc'[t] = loc /\ plan' = plan
        /\ \A s \in Stages : \A u \in asleep'[s] : pc'[u] = "asleep"
    BY <2>1, <2>3, <2>4, GotoStep
  <2>6. CASE loc = "spin"
    BY <2>1, <2>5, <2>6 DEF Quiet, StopStays
  <2>7. CASE loc = "count"
    BY <2>1, <2>3, <2>5, <2>7 DEF Passes, StopStays
  <2> QED
    BY <2>6, <2>7
<1>4. CASE CountTask(t)
  <2>1. /\ pc[t] = "count" /\ pc[t] \in CallLocations /\ Goto(t, "push") /\ item' = item
        /\ asleep' = asleep /\ UNCHANGED <<tasks, stop>>
        /\ active_task_count' = [active_task_count EXCEPT ![Pool(t)] = @ + 1]
    BY <1>4 DEF CountTask, At, CallLocations
  <2>2. "push" \in CallLocations /\ Fits(Head(plan[t]), "push", stop')
    BY <2>1, CurrentCall DEF Fits, CallLocations
  <2>3. /\ Only(t) /\ ThreadOK(t)' /\ pc'[t] = "push" /\ plan' = plan
        /\ \A s \in Stages : \A u \in asleep'[s] : pc'[u] = "asleep"
    BY <2>1, <2>2, GotoStep
  <2> QED
    BY <2>1, <2>3 DEF CountsTask, StopStays
<1>5. CASE PushTask(t)
  <2>1. /\ pc[t] = "push" /\ pc[t] \in CallLocations /\ asleep' = asleep
        /\ UNCHANGED <<active_task_count, stop>>
        /\ tasks' = [tasks EXCEPT ![Pool(t)] = Append(@, item[t])]
        /\ \A u \in Threads : u # t => item'[u] = item[u]
    BY <1>5 DEF PushTask, PushBack, At, CallLocations, Types
  <2>2. /\ ThreadOK(t) /\ Head(plan[t]) = plan[t][1] /\ 1 \in 1 .. Len(plan[t])
        /\ Head(plan[t]) \in Calls(t) /\ plan[t] # <<>> /\ Fits(Head(plan[t]), pc[t], stop)
        /\ t \in Producers => t \notin Stages
    BY <2>1, CurrentCall
  <2>3. CASE Head(plan[t]).op = "release"
    <3>1. Goto(t, "join") /\ t \in Producers
      BY <1>5, <2>2, <2>3 DEF PushTask, Calls
    <3>2. \A i \in 1 .. Len(plan[t]) : plan[t][i].op # "inline"
      BY <2>2, <3>1 DEF ThreadOK, Calls
    <3>3. "join" \in CallLocations /\ Fits(Head(plan[t]), "join", stop')
      BY <2>3 DEF Fits, CallLocations
    <3>4. Only(t) /\ ThreadOK(t)' /\ pc'[t] = "join"
      BY <2>1, <2>2, <3>1, <3>2, <3>3, GotoOK
    <3>5. \A s \in Stages : \A u \in asleep'[s] : pc'[u] = "asleep"
      BY <2>1, <3>4, AsleepOK
    <3> QED
      BY <2>1, <3>4, <3>5 DEF PushesTask, StopStays
  <2>4. CASE Head(plan[t]).op # "release"
    <3>1. Return(t) /\ Head(plan[t]).op = "enqueue"
      BY <1>5, <2>1, <2>2, <2>4 DEF PushTask, Fits
    <3>2. \A i \in 1 .. Len(plan[t]) : plan[t][i].op # "inline"
      BY <2>2, <3>1 DEF ThreadOK
    <3>3. /\ Only(t) /\ ThreadOK(t)'
          /\ pc'[t] \in {"rethrow", "inline", "stop"}
               \cup (IF t \in Producers THEN {"idle"} ELSE {"dec"})
      BY <2>1, <2>2, <3>1, <3>2, ReturnOK
    <3>4. \A s \in Stages : \A u \in asleep'[s] : pc'[u] = "asleep"
      BY <2>1, <3>3, AsleepOK
    <3> QED
      BY <2>1, <2>2, <3>3, <3>4 DEF PushesTask, StopStays
  <2> QED
    BY <2>3, <2>4
<1>6. CASE CheckActive(t) \/ LockAndCheck(t) \/ JoinWorker(t)
  <2>1. /\ pc[t] \in {"check", "lock", "join"} /\ pc[t] \in CallLocations /\ item' = item
        /\ asleep' = asleep /\ UNCHANGED <<tasks, active_task_count, stop>>
    BY <1>6 DEF CheckActive, LockAndCheck, JoinWorker, At, CallLocations, poolVars
  <2>2. \/ Return(t)
        \/ \E loc \in {"lock", "recheck", "sleep"} : Goto(t, loc) /\ pc[t] # "join"
    BY <1>6 DEF CheckActive, LockAndCheck, JoinWorker, At
  <2>3. t \in Producers \cup Stages /\ (t \in Producers => t \notin Stages)
    BY Constants
  <2>4. CASE Return(t)
    BY <2>1, <2>3, <2>4, ReturnStep DEF Quiet, StopStays
  <2>5. ASSUME NEW loc \in {"lock", "recheck", "sleep"}, Goto(t, loc), pc[t] # "join"
        PROVE  Goal
    <3>1. loc \in CallLocations /\ Fits(Head(plan[t]), loc, stop')
      BY <2>1, <2>5, CurrentCall DEF Fits, CallLocations
    <3>2. /\ Only(t) /\ ThreadOK(t)' /\ pc'[t] = loc
          /\ \A s \in Stages : \A u \in asleep'[s] : pc'[u] = "asleep"
      BY <2>1, <2>5, <3>1, GotoStep
    <3> QED
      BY <2>1, <2>5, <3>2 DEF Quiet, StopStays
  <2> QED
    BY <2>2, <2>4, <2>5
<1>7. CASE FallAsleep(t)
  <2>1. /\ pc[t] = "sleep" /\ pc[t] \in CallLocations /\ item' = item
        /\ asleep' = [asleep EXCEPT ![Pool(t)] = @ \cup {t}]
        /\ UNCHANGED <<tasks, active_task_count, stop>> /\ Goto(t, "asleep")
    BY <1>7 DEF FallAsleep, At, CallLocations
  <2>2. "asleep" \in CallLocations /\ Fits(Head(plan[t]), "asleep", stop')
    BY <2>1, CurrentCall DEF Fits, CallLocations
  <2>3. Only(t) /\ ThreadOK(t)' /\ pc'[t] = "asleep"
    BY <2>1, <2>2, CurrentCall, GotoOK
  <2>4. \A s \in Stages : \A u \in asleep'[s] : pc'[u] = "asleep"
    <3> SUFFICES ASSUME NEW s \in Stages, NEW u \in asleep'[s] PROVE pc'[u] = "asleep"
      OBVIOUS
    <3>1. u \in asleep[s] \/ u = t
      BY <2>1 DEF Types
    <3>2. u \in asleep[s] => u \in Threads /\ pc[u] = "asleep"
      BY DEF Types, ControlOK
    <3> QED
      BY <2>3, <3>1, <3>2 DEF Only
  <2> QED
    BY <2>1, <2>3, <2>4 DEF Quiet, StopStays
<1>8. CASE StopPool(t)
  <2>1. /\ pc[t] = "stop" /\ pc[t] \in CallLocations /\ item' = item
        /\ asleep' = asleep /\ UNCHANGED <<tasks, active_task_count>> /\ Goto(t, "count")
        /\ stop' = [stop EXCEPT ![Pool(t)] = TRUE]
    BY <1>8 DEF StopPool, At, CallLocations
  <2>2. Head(plan[t]).op = "release" /\ Pool(t) \in Stages /\ Head(plan[t]).pool = Pool(t)
    BY <2>1, CurrentCall DEF Fits, Pool
  <2>3. stop'[Pool(t)] /\ StopStays
    BY <2>1, <2>2 DEF Types, StopStays
  <2>4. "count" \in CallLocations /\ Fits(Head(plan[t]), "count", stop')
    BY <2>2, <2>3 DEF Fits, CallLocations
  <2>5. /\ Only(t) /\ ThreadOK(t)' /\ pc'[t] = "count" /\ plan' = plan
        /\ \A s \in Stages : \A u \in asleep'[s] : pc'[u] = "asleep"
    BY <2>1, <2>4, GotoStep
  <2> QED
    BY <2>1, <2>3, <2>5 DEF Stops
<1> QED
  BY <1>1, <1>2, <1>3, <1>4, <1>5, <1>6, <1>7, <1>8 DEF CallStep

\* What a thread of the program does between calls.
LEMMA ProducerControl ==
  ASSUME Types, ControlOK, NEW p \in Producers,
         BeginEnqueue(p) \/ BeginJoin(p) \/ ThreadsRelease(p)
  PROVE  /\ Only(p) /\ ThreadOK(p)' /\ StopStays
         /\ \A s \in Stages : \A u \in asleep'[s] : pc'[u] = "asleep"
         /\ Quiet(p)
<1>0. /\ p \in Threads /\ p \notin Stages /\ pc[p] = "idle" /\ asleep' = asleep
      /\ UNCHANGED <<tasks, active_task_count, stop>>
      /\ \A u \in Threads : u # p => item'[u] = item[u]
  BY Constants DEF BeginEnqueue, BeginJoin, ThreadsRelease, At, poolVars, Types
<1>1. /\ \A s \in Stages : Call("wait", s) \in Calls(p) /\ Call("wait", s).op = "wait"
      /\ \A s \in Stages : Call("release", s) \in Calls(p) /\ Call("release", s).op = "release"
      /\ Call("enqueue", Lowering) \in Calls(p) /\ Call("enqueue", Lowering).op = "enqueue"
      /\ {Lowering, Compile, Execute} \subseteq Stages
  BY <1>0 DEF Call, Calls, AllCalls, Lowering, Compile, Execute, Stages
<1>2. ASSUME NEW calls \in Seq(Calls(p)), calls # <<>>, Begin(p, calls),
             \A i \in 1 .. Len(calls) : calls[i].op # "inline"
      PROVE  /\ Only(p) /\ ThreadOK(p)' /\ StopStays
             /\ \A s \in Stages : \A u \in asleep'[s] : pc'[u] = "asleep"
             /\ Quiet(p)
  <2>1. Only(p) /\ ThreadOK(p)' /\ pc'[p] \in {"rethrow", "inline", "stop"}
    BY <1>0, <1>2, BeginOK
  <2>2. \A s \in Stages : \A u \in asleep'[s] : pc'[u] = "asleep"
    BY <1>0, <2>1, AsleepOK
  <2> QED
    BY <1>0, <2>1, <2>2 DEF Quiet, StopStays
<1>3. CASE BeginEnqueue(p)
  <2>1. PICK c : c = Call("enqueue", Lowering)
    OBVIOUS
  <2>2. Begin(p, <<c>>) /\ c \in Calls(p) /\ c.op = "enqueue"
    BY <1>1, <1>3, <2>1 DEF BeginEnqueue
  <2>3. /\ <<c>> \in Seq(Calls(p)) /\ <<c>> # <<>>
        /\ \A i \in 1 .. Len(<<c>>) : <<c>>[i].op # "inline"
    BY <2>2
  <2> QED
    BY <1>2, <2>2, <2>3
<1>4. PICK a, b, c : a = Call("wait", Lowering) /\ b = Call("wait", Compile) /\ c = Call("wait", Execute)
  OBVIOUS
<1>5. /\ {a, b, c} \subseteq Calls(p) /\ a.op = "wait" /\ b.op = "wait" /\ c.op = "wait"
      /\ JoinPipelineThreads = <<a, b, c>>
  BY <1>1, <1>4 DEF JoinPipelineThreads
<1>6. CASE BeginJoin(p)
  <2>1. Begin(p, <<a, b, c>>)
    BY <1>5, <1>6 DEF BeginJoin
  <2>2. /\ <<a, b, c>> \in Seq(Calls(p)) /\ <<a, b, c>> # <<>>
        /\ \A i \in 1 .. Len(<<a, b, c>>) : <<a, b, c>>[i].op # "inline"
    BY <1>5
  <2> QED
    BY <1>2, <2>1, <2>2
<1>7. CASE ThreadsRelease(p)
  <2>1. PICK d, e, f : /\ d = Call("release", Lowering) /\ e = Call("release", Compile)
                       /\ f = Call("release", Execute)
    OBVIOUS
  <2>2. {d, e, f} \subseteq Calls(p) /\ d.op = "release" /\ e.op = "release" /\ f.op = "release"
    BY <1>1, <2>1
  <2>3. PICK q, r, calls : q = <<a, b, c>> /\ r = <<d, e, f>> /\ calls = q \o r
    OBVIOUS
  <2>4. /\ q \in Seq(Calls(p)) /\ \A i \in 1 .. Len(q) : q[i].op # "inline"
        /\ r \in Seq(Calls(p)) /\ \A i \in 1 .. Len(r) : r[i].op # "inline"
        /\ Len(q) = 3 /\ Len(r) = 3
    BY <1>5, <2>2, <2>3
  <2>5. Begin(p, calls)
    BY <1>5, <1>7, <2>1, <2>3 DEF ThreadsRelease
  <2>6. /\ calls \in Seq(Calls(p)) /\ calls # <<>>
        /\ \A i \in 1 .. Len(calls) : calls[i].op # "inline"
    <3>1. calls = q \o r
      BY <2>3
    <3>2. /\ calls \in Seq(Calls(p)) /\ Len(calls) = Len(q) + Len(r)
          /\ \A i \in 1 .. Len(calls) : calls[i] = IF i <= Len(q) THEN q[i] ELSE r[i - Len(q)]
      <4>1. q \in Seq(Calls(p)) /\ r \in Seq(Calls(p))
        BY <2>4
      <4> QED
        BY <3>1, <4>1, ConcatMembers
    <3>3. ASSUME NEW i \in 1 .. Len(calls)
          PROVE  calls[i].op # "inline"
      <4>1. CASE i <= Len(q)
        BY <2>4, <3>2, <4>1
      <4>2. CASE ~(i <= Len(q))
        <5>1. i - Len(q) \in 1 .. Len(r)
          BY <2>4, <3>2, <4>2
        <5> QED
          BY <2>4, <3>2, <4>2, <5>1
      <4> QED
        BY <4>1, <4>2
    <3>4. Len(calls) = 6
      BY <2>4, <3>2
    <3> QED
      BY <3>2, <3>3, <3>4
  <2> QED
    BY <1>2, <2>5, <2>6
<1> QED
  BY <1>3, <1>6, <1>7

\* What a worker does between calls.
LEMMA WorkerControl ==
  ASSUME Types, ControlOK, NEW w \in Stages,
         \/ CheckStop(w) \/ PopTask(w) \/ RunStage(w) \/ RunInline(w)
         \/ StageThrows(w) \/ CatchException(w) \/ FinishTask(w)
  PROVE  /\ Only(w) /\ ThreadOK(w)' /\ StopStays
         /\ \A s \in Stages : \A u \in asleep'[s] : pc'[u] = "asleep"
         /\ Quiet(w) \/ PopsTask(w) \/ FinishesTask(w)
<1>0. /\ w \in Threads /\ w \notin Producers /\ asleep' = asleep /\ stop' = stop
      /\ pc[w] # "asleep" /\ ThreadOK(w)
      /\ \A u \in Threads : u # w => item'[u] = item[u]
  BY Constants DEF CheckStop, PopTask, RunStage, RunInline, StageThrows, CatchException, FinishTask,
                   At, poolVars, historyVars, Types, ControlOK, TakesEffect, Throw
<1>1. StopStays
  BY <1>0 DEF StopStays
<1>2. ASSUME Only(w)
      PROVE  \A s \in Stages : \A u \in asleep'[s] : pc'[u] = "asleep"
  BY <1>0, <1>2, AsleepOK
<1>3. ASSUME NEW loc \in WorkerLocations, Goto(w, loc), pc[w] \notin CallLocations
      PROVE  Only(w) /\ ThreadOK(w)' /\ pc'[w] = loc
  <2>1. plan[w] = <<>> /\ loc \notin CallLocations
    BY <1>0, <1>3 DEF ThreadOK, CallLocations, WorkerLocations
  <2>2. \A i \in 1 .. Len(plan[w]) : plan[w][i].op # "inline"
    BY <2>1
  <2> QED
    BY <1>0, <1>3, <2>1, <2>2, GotoOK
<1>4. CASE CheckStop(w)
  <2>1. /\ pc[w] = "loop" /\ UNCHANGED <<tasks, active_task_count, stop>>
        /\ \E loc \in {"exit", "pop"} : Goto(w, loc)
    BY <1>4 DEF CheckStop, At, poolVars
  <2>2. Only(w) /\ ThreadOK(w)' /\ pc'[w] \in {"exit", "pop"}
    BY <1>3, <2>1 DEF CallLocations, WorkerLocations
  <2> QED
    BY <1>1, <1>2, <2>1, <2>2 DEF Quiet
<1>5. CASE PopTask(w)
  <2>1. /\ pc[w] = "pop" /\ UNCHANGED <<active_task_count, stop>> /\ Goto(w, "run")
        /\ tasks[w] # <<>> /\ tasks' = [tasks EXCEPT ![w] = Tail(@)]
    BY <1>5 DEF PopTask, At
  <2>2. Only(w) /\ ThreadOK(w)' /\ pc'[w] = "run"
    BY <1>3, <2>1 DEF CallLocations, WorkerLocations
  <2> QED
    BY <1>1, <1>2, <2>1, <2>2 DEF PopsTask
<1>6. CASE RunStage(w)
  <2>1. pc[w] = "run" /\ UNCHANGED <<tasks, active_task_count, stop>>
    BY <1>6 DEF RunStage, At, poolVars
  <2>2. CASE item[w] # Noop /\ Continuation(w) # <<>>
    <3>1. Begin(w, Continuation(w)) /\ item' = item
      BY <1>6, <2>2 DEF RunStage
    <3>2. PICK calls : calls = Continuation(w)
      OBVIOUS
    <3>3. PICK a, b, c, d : /\ a = Call("enqueue", w + 1) /\ b = Call("wait", Compile)
                            /\ c = Call("wait", Execute) /\ d = Call("inline", Execute)
      OBVIOUS
    <3>4. /\ (calls = <<a>> /\ w < Execute) \/ calls = <<b, c, d>>
      BY <2>2, <3>2, <3>3 DEF Continuation
    <3>5. /\ {b, c, d} \subseteq Calls(w) /\ (w < Execute => a \in Calls(w))
          /\ a.op = "enqueue" /\ b.op = "wait" /\ c.op = "wait" /\ d.op = "inline"
      BY <1>0, <3>3 DEF Call, Calls, AllCalls, Compile, Execute, Stages
    <3>6. /\ calls \in Seq(Calls(w)) /\ calls # <<>>
          /\ \A i, j \in 1 .. Len(calls) : calls[i].op = "inline" =>
               item'[w] # Noop /\ i = Len(calls) /\ calls[j].op # "enqueue"
      <4>1. CASE calls = <<a>> /\ w < Execute
        BY <3>5, <4>1
      <4>2. CASE calls = <<b, c, d>>
        BY <2>2, <3>1, <3>5, <4>2
      <4> QED
        BY <3>4, <4>1, <4>2
    <3>7. Only(w) /\ ThreadOK(w)' /\ pc'[w] \in {"rethrow", "inline", "stop"}
      BY <1>0, <3>1, <3>2, <3>6, BeginOK
    <3> QED
      BY <1>1, <1>2, <2>1, <3>7 DEF Quiet
  <2>3. CASE ~(item[w] # Noop /\ Continuation(w) # <<>>)
    <3>1. Goto(w, "dec")
      BY <1>6, <2>3 DEF RunStage
    <3>2. Only(w) /\ ThreadOK(w)' /\ pc'[w] = "dec"
      BY <1>3, <2>1, <3>1 DEF CallLocations, WorkerLocations
    <3> QED
      BY <1>1, <1>2, <2>1, <3>2 DEF Quiet
  <2> QED
    BY <2>2, <2>3
<1>7. CASE RunInline(w)
  <2>1. /\ pc[w] = "inline" /\ pc[w] \in CallLocations /\ Return(w)
        /\ UNCHANGED <<tasks, active_task_count, stop>>
    BY <1>7 DEF RunInline, At, poolVars, CallLocations
  <2>2. /\ Head(plan[w]).op = "inline" /\ Head(plan[w]) = plan[w][1] /\ 1 \in 1 .. Len(plan[w])
    BY <1>0, <2>1, CurrentCall DEF Fits
  <2>3. \A i \in 1 .. Len(plan[w]) : i > 1 => plan[w][i].op # "inline"
    BY <1>0, <2>2 DEF ThreadOK
  <2>4. /\ Only(w) /\ ThreadOK(w)'
        /\ pc'[w] \in {"rethrow", "inline", "stop"}
             \cup (IF w \in Producers THEN {"idle"} ELSE {"dec"})
    BY <1>0, <2>1, <2>3, ReturnOK
  <2> QED
    BY <1>0, <1>1, <1>2, <2>1, <2>4 DEF Quiet
<1>8. CASE StageThrows(w)
  <2>1. /\ pc[w] \in {"run", "inline"} /\ UNCHANGED <<tasks, active_task_count, stop>>
        /\ Throw(w, item[w])
    BY <1>8 DEF StageThrows, poolVars
  <2>2. Only(w) /\ ThreadOK(w)' /\ pc'[w] = "catch"
    BY <1>0, <2>1, ThrowOK
  <2> QED
    BY <1>1, <1>2, <2>1, <2>2 DEF Quiet
<1>9. CASE CatchException(w)
  <2>1. /\ pc[w] = "catch" /\ UNCHANGED <<tasks, active_task_count, stop>> /\ Goto(w, "dec")
    BY <1>9 DEF CatchException, At
  <2>2. Only(w) /\ ThreadOK(w)' /\ pc'[w] = "dec"
    BY <1>3, <2>1 DEF CallLocations, WorkerLocations
  <2> QED
    BY <1>1, <1>2, <2>1, <2>2 DEF Quiet
<1>10. CASE FinishTask(w)
  <2>1. /\ pc[w] = "dec" /\ UNCHANGED <<tasks, stop>>
        /\ active_task_count' = [active_task_count EXCEPT ![w] = @ - 1]
        /\ \E loc \in {"notify", "loop"} : Goto(w, loc)
    BY <1>10 DEF FinishTask, At
  <2>2. Only(w) /\ ThreadOK(w)' /\ pc'[w] \in {"notify", "loop"}
    BY <1>3, <2>1 DEF CallLocations, WorkerLocations
  <2> QED
    BY <1>1, <1>2, <2>1, <2>2 DEF FinishesTask
<1> QED
  BY <1>4, <1>5, <1>6, <1>7, <1>8, <1>9, <1>10

\* The worker wakes the waiters of its pool: they go for the mutex again.
LEMMA NotifyControl ==
  ASSUME Types, ControlOK, Sleeping, NEW w \in Stages, NotifyAll(w)
  PROVE  /\ ControlOK' /\ Sleeping'
         /\ UNCHANGED <<plan, tasks, active_task_count, stop>>
         /\ \A u \in Threads : pc'[u] = pc[u] \/ {pc[u], pc'[u]} \cap {"count", "push"} = {}
         /\ \A s \in Stages : Busy(s)' = Busy(s)
<1>1. /\ w \in Threads /\ pc[w] = "notify"
      /\ UNCHANGED <<plan, tasks, active_task_count, stop, item>>
      /\ \A s \in Stages : asleep'[s] = IF s = w THEN {} ELSE asleep[s]
      /\ \A u \in Threads : pc'[u] = IF u = w THEN "loop"
                                     ELSE IF u \in asleep[w] THEN "lock" ELSE pc[u]
  BY Constants DEF NotifyAll, Wake, At, Types
<1>2. /\ \A u \in Threads : ThreadOK(u)
      /\ \A s \in Stages : \A u \in asleep[s] : u \in Threads /\ pc[u] = "asleep"
  BY DEF ControlOK, Types
<1>3. ASSUME NEW u \in Threads
      PROVE  ThreadOK(u)'
  <2>1. ThreadOK(u) /\ plan'[u] = plan[u] /\ item'[u] = item[u] /\ stop' = stop
    BY <1>1, <1>2
  <2>2. CASE u = w
    <3>1. /\ pc[u] = "notify" /\ pc'[u] = "loop" /\ u \in Stages
          /\ pc[u] \notin CallLocations /\ pc'[u] \notin CallLocations
          /\ pc'[u] \in WorkerLocations
      BY <1>1, <2>2 DEF CallLocations, WorkerLocations
    <3>2. u \notin Producers
      BY <3>1, Constants
    <3> QED
      BY <2>1, <3>1, <3>2 DEF ThreadOK
  <2>3. CASE u # w /\ u \in asleep[w]
    <3>1. /\ pc[u] = "asleep" /\ pc'[u] = "lock"
          /\ pc[u] \in CallLocations /\ pc'[u] \in CallLocations
      BY <1>1, <1>2, <2>3 DEF CallLocations
    <3>2. Fits(Head(plan[u]), pc[u], stop) => Fits(Head(plan[u]), "lock", stop)
      BY <3>1 DEF Fits
    <3> QED
      BY <2>1, <3>1, <3>2 DEF ThreadOK
  <2>4. CASE u # w /\ u \notin asleep[w]
    <3>1. pc'[u] = pc[u]
      BY <1>1, <2>4
    <3> QED
      BY <2>1, <3>1 DEF ThreadOK
  <2> QED
    BY <2>2, <2>3, <2>4
<1>4. ASSUME NEW s \in Stages, NEW u \in asleep'[s]
      PROVE  pc'[u] = "asleep"
  <2>1. s # w /\ u \in asleep[s] /\ u \in Threads /\ pc[u] = "asleep" /\ u # w
    BY <1>1, <1>2, <1>4
  <2>2. u \notin asleep[w]
    BY <2>1 DEF Sleeping
  <2> QED
    BY <1>1, <2>1, <2>2
<1>5. ControlOK'
  BY <1>3, <1>4 DEF ControlOK
<1>6. Sleeping'
  BY <1>1 DEF Sleeping, Pool
<1>7. ASSUME NEW u \in Threads
      PROVE  pc'[u] = pc[u] \/ {pc[u], pc'[u]} \cap {"count", "push"} = {}
  BY <1>1, <1>2
<1>8. ASSUME NEW s \in Stages
      PROVE  Busy(s)' = Busy(s)
  <2>1. s \in Threads
    BY Constants
  <2>2. CASE s = w
    BY <1>1, <2>1, <2>2 DEF Busy
  <2>3. CASE s # w /\ s \in asleep[w]
    BY <1>1, <1>2, <2>1, <2>3 DEF Busy
  <2>4. CASE s # w /\ s \notin asleep[w]
    BY <1>1, <2>1, <2>4 DEF Busy
  <2> QED
    BY <2>2, <2>3, <2>4
<1> QED
  BY <1>1, <1>5, <1>6, <1>7, <1>8

\* Threads that do not move sleep on; one that falls asleep does so in the
\* pool its call is on.
LEMMA SleepingStep ==
  ASSUME Types, ControlOK, Sleeping, NEW t \in Threads, Only(t),
         \/ asleep' = asleep /\ pc[t] # "asleep"
         \/ FallAsleep(t)
  PROVE  Sleeping'
<1> SUFFICES ASSUME NEW s \in Stages, NEW u \in asleep'[s] PROVE Pool(u)' = s
  BY DEF Sleeping
<1>1. ASSUME NEW v \in asleep[s], v # t
      PROVE  Pool(v)' = s
  BY <1>1 DEF Sleeping, Only, Pool, Types
<1>2. CASE asleep' = asleep /\ pc[t] # "asleep"
  BY <1>1, <1>2 DEF ControlOK
<1>3. CASE FallAsleep(t)
  <2>1. /\ asleep' = [asleep EXCEPT ![Pool(t)] = @ \cup {t}] /\ plan' = plan
        /\ pc[t] = "sleep"
    BY <1>3 DEF FallAsleep, Goto, At
  <2>2. u \in asleep[s] \/ (u = t /\ s = Pool(t))
    BY <2>1 DEF Types
  <2>3. u = t => u \notin asleep[s]
    BY <2>1 DEF ControlOK
  <2> QED
    BY <1>1, <2>1, <2>2, <2>3 DEF Pool
<1> QED
  BY <1>2, <1>3

\* A step of one thread.
Moves(t) ==
  \/ CallStep(t)
  \/ t \in Producers /\ (BeginEnqueue(t) \/ BeginJoin(t) \/ ThreadsRelease(t))
  \/ /\ t \in Stages
     /\ \/ CheckStop(t) \/ PopTask(t) \/ RunStage(t) \/ RunInline(t)
        \/ StageThrows(t) \/ CatchException(t) \/ FinishTask(t)

\* The steps of Next are those of one thread, and the workers' notifications.
LEMMA Steps ==
  ASSUME Next
  PROVE  (\E t \in Threads : Moves(t)) \/ (\E w \in Stages : NotifyAll(w))
<1>1. Producers \subseteq Threads /\ Stages \subseteq Threads /\ Joiners \subseteq Producers
  BY PipelineAssumption, Constants
<1>2. CASE \E p \in Producers : BeginEnqueue(p)
  BY <1>1, <1>2 DEF Moves
<1>3. CASE \E p \in Joiners : BeginJoin(p) \/ ThreadsRelease(p)
  BY <1>1, <1>3 DEF Moves
<1>4. CASE \E p \in Producers : CallStep(p)
  BY <1>1, <1>4 DEF Moves
<1>5. CASE \E w \in Stages : WorkerStep(w) \/ StageThrows(w)
  BY <1>1, <1>5 DEF Moves, WorkerStep
<1> QED
  BY <1>2, <1>3, <1>4, <1>5 DEF Next

\* What one thread's step does to control and counters.
LEMMA MovesControl ==
  ASSUME Types, ControlOK, Sleeping, NEW t \in Threads, Moves(t)
  PROVE  /\ ControlOK' /\ Sleeping' /\ Only(t) /\ StopStays
         /\ \/ Quiet(t) \/ Passes(t) \/ Stops(t) \/ CountsTask(t) \/ PushesTask(t)
            \/ (t \in Stages /\ (PopsTask(t) \/ FinishesTask(t)))
<1>1. /\ Only(t) /\ ThreadOK(t)' /\ StopStays
      /\ \A s \in Stages : \A u \in asleep'[s] : pc'[u] = "asleep"
      /\ \/ Quiet(t) \/ Passes(t) \/ Stops(t) \/ CountsTask(t) \/ PushesTask(t)
         \/ (t \in Stages /\ (PopsTask(t) \/ FinishesTask(t)))
  <2>1. CASE CallStep(t)
    BY <2>1, CallStepControl
  <2>2. CASE t \in Producers /\ (BeginEnqueue(t) \/ BeginJoin(t) \/ ThreadsRelease(t))
    BY <2>2, ProducerControl
  <2>3. CASE /\ t \in Stages
             /\ \/ CheckStop(t) \/ PopTask(t) \/ RunStage(t) \/ RunInline(t)
                \/ StageThrows(t) \/ CatchException(t) \/ FinishTask(t)
    BY <2>3, WorkerControl
  <2> QED
    BY <2>1, <2>2, <2>3 DEF Moves
<1>2. \/ asleep' = asleep /\ pc[t] # "asleep"
      \/ FallAsleep(t)
  <2>1. CASE CallStep(t)
    BY <2>1 DEF CallStep, ReadException, ClearException, Throttle, Spin, CountTask, PushTask,
                CheckActive, LockAndCheck, StopPool, JoinWorker, At, poolVars
  <2>2. CASE t \in Producers /\ (BeginEnqueue(t) \/ BeginJoin(t) \/ ThreadsRelease(t))
    BY <2>2 DEF BeginEnqueue, BeginJoin, ThreadsRelease, At, poolVars
  <2>3. CASE /\ t \in Stages
             /\ \/ CheckStop(t) \/ PopTask(t) \/ RunStage(t) \/ RunInline(t)
                \/ StageThrows(t) \/ CatchException(t) \/ FinishTask(t)
    BY <2>3 DEF CheckStop, PopTask, RunStage, RunInline, StageThrows, CatchException,
                FinishTask, At, poolVars
  <2> QED
    BY <2>1, <2>2, <2>3 DEF Moves
<1>3. ControlOK'
  BY <1>1, OthersOK DEF ControlOK
<1>4. Sleeping'
  BY <1>1, <1>2, SleepingStep
<1> QED
  BY <1>1, <1>3, <1>4

-----------------------------------------------------------------------------
(* Types. *)

\* The types of pc and plan.
ControlTypes == pc \in [Threads -> Locations] /\ plan \in [Threads -> Seq(AllCalls)]

\* What becomes of them in the moves of a thread.
LEMMA MoveTypes ==
  ASSUME Types, ControlOK, NEW t \in Threads
  PROVE  /\ \A loc \in Locations : Goto(t, loc) => ControlTypes'
         /\ \A calls \in Seq(AllCalls) : (calls # <<>> /\ Begin(t, calls)) => ControlTypes'
         /\ (pc[t] \in CallLocations /\ Return(t)) => ControlTypes'
         /\ \A e : Throw(t, e) => ControlTypes'
<1>0. /\ {"idle", "dec", "catch", "rethrow", "inline", "stop"} \subseteq Locations
      /\ pc \in [Threads -> Locations] /\ plan \in [Threads -> Seq(AllCalls)]
  BY DEF Types, Locations
<1>1. \A loc \in Locations : Goto(t, loc) => ControlTypes'
  BY <1>0 DEF Goto, ControlTypes
<1>2. \A c \in AllCalls : FirstStep(c) \in Locations
  BY <1>0, FirstStepFits
<1>3. ASSUME NEW calls \in Seq(AllCalls), calls # <<>>, Begin(t, calls)
      PROVE  ControlTypes'
  <2>1. Head(calls) \in AllCalls
    BY <1>3
  <2>2. FirstStep(Head(calls)) \in Locations
    BY <1>2, <2>1
  <2> QED
    BY <1>0, <1>3, <2>2 DEF Begin, ControlTypes
<1>4. ASSUME pc[t] \in CallLocations, Return(t)
      PROVE  ControlTypes'
  <2>1. plan[t] \in Seq(AllCalls) /\ plan[t] # <<>>
    BY <1>0, <1>4 DEF ControlOK, ThreadOK
  <2>2. PICK rest : rest = Tail(plan[t])
    OBVIOUS
  <2>3. rest \in Seq(AllCalls) /\ (rest # <<>> => Head(rest) \in AllCalls)
    BY <2>1, <2>2, TailMembers
  <2>4. rest # <<>> => FirstStep(Head(rest)) \in Locations
    BY <1>2, <2>3
  <2>5. PICK loc : loc = IF rest # <<>> THEN FirstStep(Head(rest))
                         ELSE IF t \in Producers THEN "idle" ELSE "dec"
    OBVIOUS
  <2>6. loc \in Locations
    BY <1>0, <2>4, <2>5
  <2>7. plan' = [plan EXCEPT ![t] = rest] /\ pc' = [pc EXCEPT ![t] = loc]
    BY <1>4, <2>2, <2>5 DEF Return
  <2> QED
    BY <1>0, <2>3, <2>6, <2>7 DEF ControlTypes
<1>5. ASSUME NEW e, Throw(t, e)
      PROVE  ControlTypes'
  <2>1. <<>> \in Seq(AllCalls)
    OBVIOUS
  <2> QED
    BY <1>0, <1>5, <2>1 DEF Throw, ControlTypes
<1> QED
  BY <1>1, <1>3, <1>4, <1>5

\* The types of the rest.
DataTypes ==
  /\ tasks \in [Stages -> Seq(Tasks \cup {Noop})]
  /\ active_task_count \in [Stages -> Int]
  /\ ex_ptr \in [Stages -> Tasks \cup {None}]
  /\ stop \in [Stages -> BOOLEAN]
  /\ mutex \in [Stages -> Threads \cup {None}]
  /\ asleep \in [Stages -> SUBSET Threads]
  /\ item \in [Threads -> Tasks \cup {Noop}]
  /\ caught \in [Threads -> Tasks \cup {None}]
  /\ submitted \in SUBSET Tasks /\ executed \in Seq(Tasks)
  /\ begun \in [Producers -> 0 .. MaxTasks]

LEMMA TypesSplit == Types <=> ControlTypes /\ DataTypes
BY DEF Types, ControlTypes, DataTypes

\* The types of pc and plan in a call.
LEMMA CallControlTypes ==
  ASSUME Types, ControlOK, NEW t \in Threads, CallStep(t)
  PROVE  ControlTypes'
<1>1. \/ \E loc \in {"clear", "throttle", "check", "spin", "count", "push", "join",
                     "lock", "sleep", "asleep", "recheck"} : Goto(t, loc)
      \/ pc[t] \in CallLocations /\ Return(t)
      \/ \E e : Throw(t, e)
  <2>1. CASE ReadException(t)
    <3>1. \/ \E loc \in {"clear", "throttle", "check"} : Goto(t, loc)
          \/ Return(t)
      BY <2>1 DEF ReadException
    <3>2. pc[t] \in CallLocations
      BY <2>1 DEF ReadException, CallLocations
    <3> QED
      BY <3>1, <3>2
  <2>2. CASE ClearException(t)
    BY <2>2 DEF ClearException
  <2>3. CASE Throttle(t) \/ Spin(t) \/ CountTask(t) \/ FallAsleep(t) \/ StopPool(t)
    BY <2>3 DEF Throttle, Spin, CountTask, FallAsleep, StopPool
  <2>4. CASE PushTask(t)
    BY <2>4 DEF PushTask, At, CallLocations
  <2>5. CASE CheckActive(t)
    BY <2>5 DEF CheckActive, At, CallLocations
  <2>6. CASE LockAndCheck(t)
    BY <2>6 DEF LockAndCheck, At, CallLocations
  <2>7. CASE JoinWorker(t)
    BY <2>7 DEF JoinWorker, At, CallLocations
  <2> QED
    BY <2>1, <2>2, <2>3, <2>4, <2>5, <2>6, <2>7 DEF CallStep
<1>2. {"clear", "throttle", "check", "spin", "count", "push", "join",
       "lock", "sleep", "asleep", "recheck"} \subseteq Locations
  BY DEF Locations
<1> QED
  BY <1>1, <1>2, MoveTypes

\* The rest in a call.
LEMMA CallDataTypes ==
  ASSUME Types, ControlOK, NEW t \in Threads, CallStep(t)
  PROVE  DataTypes'
<1>0. DataTypes /\ (pc[t] \in CallLocations => Pool(t) \in Stages)
  BY TypesSplit, CurrentCall
<1>1. CASE ReadException(t)
  <2>1. /\ Pool(t) \in Stages
        /\ UNCHANGED <<poolVars, item, submitted, executed, begun>>
        /\ caught' = caught \/ caught' = [caught EXCEPT ![t] = ex_ptr[Pool(t)]]
    BY <1>0, <1>1 DEF ReadException, CallLocations, boundVars
  <2> QED
    BY <1>0, <2>1 DEF DataTypes, poolVars
<1>2. CASE ClearException(t)
  <2>1. /\ Pool(t) \in Stages
        /\ ex_ptr' = [ex_ptr EXCEPT ![Pool(t)] = None]
        /\ UNCHANGED <<tasks, active_task_count, stop, mutex, asleep, submitted, executed, begun>>
    BY <1>0, <1>2 DEF ClearException, CallLocations, boundVars, At
  <2>2. /\ caught' = [caught EXCEPT ![t] = None] \/ caught' = [caught EXCEPT ![t] = caught[t]]
        /\ item' = [item EXCEPT ![t] = Noop]
    BY <1>2 DEF ClearException, Throw
  <2> QED
    BY <1>0, <2>1, <2>2 DEF DataTypes
<1>3. CASE Throttle(t) \/ Spin(t) \/ CheckActive(t) \/ JoinWorker(t)
  BY <1>0, <1>3 DEF Throttle, Spin, CheckActive, JoinWorker, DataTypes, poolVars, historyVars, boundVars
<1>4. CASE CountTask(t)
  <2>1. /\ Pool(t) \in Stages
        /\ UNCHANGED <<tasks, ex_ptr, stop, mutex, asleep, item, caught, submitted, executed, begun>>
        /\ active_task_count' = [active_task_count EXCEPT ![Pool(t)] = @ + 1]
    BY <1>0, <1>4 DEF CountTask, CallLocations, boundVars, historyVars, At
  <2> QED
    BY <1>0, <2>1 DEF DataTypes
<1>5. CASE PushTask(t)
  <2>1. /\ Pool(t) \in Stages
        /\ UNCHANGED <<active_task_count, ex_ptr, stop, mutex, asleep, caught, executed, begun>>
        /\ tasks' = [tasks EXCEPT ![Pool(t)] = Append(@, item[t])]
        /\ item' = [item EXCEPT ![t] = Noop]
        /\ submitted' = submitted \cup ({item[t]} \ {Noop})
    BY <1>0, <1>5 DEF PushTask, PushBack, CallLocations, boundVars, At
  <2>2. item[t] \in Tasks \cup {Noop}
    BY <1>0 DEF DataTypes
  <2> QED
    BY <1>0, <2>1, <2>2 DEF DataTypes
<1>6. CASE LockAndCheck(t) \/ FallAsleep(t) \/ StopPool(t)
  <2>1. /\ Pool(t) \in Stages
        /\ UNCHANGED <<tasks, active_task_count, ex_ptr, item, caught, submitted, executed, begun>>
        /\ \/ mutex' = mutex
           \/ mutex' = [mutex EXCEPT ![Pool(t)] = t]
           \/ mutex' = [mutex EXCEPT ![Pool(t)] = None]
        /\ asleep' = asleep \/ asleep' = [asleep EXCEPT ![Pool(t)] = @ \cup {t}]
    BY <1>0, <1>6 DEF LockAndCheck, FallAsleep, StopPool, CallLocations, boundVars, historyVars, At
  <2>2. stop' = stop \/ stop' = [stop EXCEPT ![Pool(t)] = TRUE]
    BY <1>6 DEF LockAndCheck, FallAsleep, StopPool
  <2>3. stop' \in [Stages -> BOOLEAN]
    BY <1>0, <2>1, <2>2 DEF DataTypes
  <2>4. mutex' \in [Stages -> Threads \cup {None}]
    BY <1>0, <2>1 DEF DataTypes
  <2>5. asleep' \in [Stages -> SUBSET Threads]
    <3>1. CASE asleep' = asleep
      BY <1>0, <3>1 DEF DataTypes
    <3>2. CASE asleep' = [asleep EXCEPT ![Pool(t)] = @ \cup {t}]
      <4>1. asleep[Pool(t)] \cup {t} \in SUBSET Threads
        BY <1>0, <2>1 DEF DataTypes
      <4> QED
        BY <1>0, <2>1, <3>2, <4>1 DEF DataTypes
    <3> QED
      BY <2>1, <3>1, <3>2
  <2> QED
    BY <1>0, <2>1, <2>3, <2>4, <2>5 DEF DataTypes
<1> QED
  BY <1>1, <1>2, <1>3, <1>4, <1>5, <1>6 DEF CallStep

\* The types after what a thread of the program does between calls.
LEMMA ProducerTypes ==
  ASSUME Types, ControlOK, NEW p \in Producers,
         BeginEnqueue(p) \/ BeginJoin(p) \/ ThreadsRelease(p)
  PROVE  Types'
<1>0. DataTypes /\ p \in Threads
  BY TypesSplit, Constants
<1>1. /\ {Call("enqueue", Lowering), Call("wait", Lowering), Call("wait", Compile),
          Call("wait", Execute), Call("release", Lowering), Call("release", Compile),
          Call("release", Execute)} \subseteq AllCalls
  BY DEF Call, AllCalls, Lowering, Compile, Execute, Stages
<1>2. ASSUME NEW a \in AllCalls, NEW b \in AllCalls, NEW c \in AllCalls,
             NEW d \in AllCalls, NEW e \in AllCalls, NEW f \in AllCalls
      PROVE  /\ <<a>> \in Seq(AllCalls) /\ <<a>> # <<>>
             /\ <<a, b, c>> \in Seq(AllCalls) /\ <<a, b, c>> # <<>>
             /\ <<a, b, c>> \o <<d, e, f>> \in Seq(AllCalls)
             /\ <<a, b, c>> \o <<d, e, f>> # <<>>
  <2>1. <<a, b, c>> \in Seq(AllCalls) /\ <<d, e, f>> \in Seq(AllCalls)
    OBVIOUS
  <2>2. PICK q, r, s : q = <<a, b, c>> /\ r = <<d, e, f>> /\ s = q \o r
    OBVIOUS
  <2>3. s \in Seq(AllCalls) /\ Len(s) = Len(q) + Len(r)
    BY <2>1, <2>2, ConcatMembers
  <2>4. Len(q) = 3 /\ Len(r) = 3
    BY <2>2
  <2>5. Len(s) = 6
    BY <2>3, <2>4
  <2>6. s # <<>>
    <3>1. s = <<>> => Len(s) = 0
      BY <2>3, EmptySeq
    <3> QED
      BY <2>5, <3>1
  <2> QED
    BY <2>1, <2>2, <2>3, <2>6
<1>3. ASSUME NEW calls, calls \in Seq(AllCalls), calls # <<>>, Begin(p, calls)
      PROVE  ControlTypes'
  BY <1>0, <1>3, MoveTypes
<1>4. CASE BeginEnqueue(p)
  <2>1. PICK a : a = Call("enqueue", Lowering)
    OBVIOUS
  <2>2. ControlTypes'
    <3>1. <<a>> \in Seq(AllCalls) /\ <<a>> # <<>>
      BY <1>1, <1>2, <2>1
    <3>2. Begin(p, <<a>>)
      BY <1>4, <2>1 DEF BeginEnqueue
    <3> QED
      BY <1>3, <3>1, <3>2
  <2>3. /\ UNCHANGED <<poolVars, caught, submitted, executed>>
        /\ begun[p] < MaxTasks /\ begun' = [begun EXCEPT ![p] = @ + 1]
        /\ item' = [item EXCEPT ![p] = <<p, begun'[p]>>]
    BY <1>4 DEF BeginEnqueue, historyVars
  <2>4. MaxTasks \in Nat /\ begun \in [Producers -> 0 .. MaxTasks]
    BY <1>0, Constants DEF DataTypes
  <2>5. begun'[p] = begun[p] + 1 /\ begun'[p] \in 1 .. MaxTasks
    BY <2>3, <2>4
  <2>6. <<p, begun'[p]>> \in Tasks /\ begun' \in [Producers -> 0 .. MaxTasks]
    BY <2>3, <2>4, <2>5 DEF Tasks
  <2>7. DataTypes'
    BY <1>0, <2>3, <2>6 DEF DataTypes, poolVars
  <2> QED
    BY <2>2, <2>7, TypesSplit DEF Types, ControlTypes, DataTypes
<1>5. CASE BeginJoin(p) \/ ThreadsRelease(p)
  <2>1. \/ Begin(p, JoinPipelineThreads)
        \/ Begin(p, JoinPipelineThreads \o
                    <<Call("release", Lowering), Call("release", Compile),
                      Call("release", Execute)>>)
    BY <1>5 DEF BeginJoin, ThreadsRelease
  <2>2. ControlTypes'
    BY <1>1, <1>2, <1>3, <2>1 DEF JoinPipelineThreads
  <2>3. UNCHANGED <<poolVars, item, caught, submitted, executed, begun>>
    BY <1>5 DEF BeginJoin, ThreadsRelease
  <2>4. DataTypes'
    BY <1>0, <2>3 DEF DataTypes, poolVars
  <2> QED
    BY <2>2, <2>4 DEF Types, ControlTypes, DataTypes
<1> QED
  BY <1>4, <1>5

\* The types after what a worker does between calls.
LEMMA WorkerTypes ==
  ASSUME Types, ControlOK, NEW w \in Stages,
         \/ CheckStop(w) \/ PopTask(w) \/ RunStage(w) \/ RunInline(w)
         \/ StageThrows(w) \/ CatchException(w) \/ FinishTask(w) \/ NotifyAll(w)
  PROVE  Types'
<1>0. /\ DataTypes /\ ControlTypes /\ w \in Threads
      /\ {"exit", "pop", "run", "dec", "loop", "notify", "lock"} \subseteq Locations
  BY TypesSplit, Constants DEF Locations
<1>1. CASE CheckStop(w)
  <2>1. ControlTypes'
    BY <1>0, <1>1, MoveTypes DEF CheckStop
  <2>2. DataTypes'
    BY <1>0, <1>1 DEF CheckStop, DataTypes, poolVars, historyVars, boundVars
  <2> QED
    BY <2>1, <2>2 DEF Types, ControlTypes, DataTypes
<1>2. CASE PopTask(w)
  <2>1. ControlTypes'
    BY <1>0, <1>2, MoveTypes DEF PopTask
  <2>2. PICK q : q = tasks[w]
    OBVIOUS
  <2>3. q \in Seq(Tasks \cup {Noop}) /\ q # <<>>
    BY <1>0, <1>2, <2>2 DEF PopTask, DataTypes
  <2>4. Head(q) \in Tasks \cup {Noop} /\ Tail(q) \in Seq(Tasks \cup {Noop})
    BY <2>3
  <2>5. /\ tasks' = [tasks EXCEPT ![w] = Tail(q)] /\ item' = [item EXCEPT ![w] = Head(q)]
        /\ UNCHANGED <<active_task_count, ex_ptr, stop, mutex, asleep, caught, submitted,
                       executed, begun>>
    BY <1>2, <2>2 DEF PopTask, historyVars, boundVars
  <2>6. DataTypes'
    BY <1>0, <2>4, <2>5 DEF DataTypes
  <2> QED
    BY <2>1, <2>6 DEF Types, ControlTypes, DataTypes
<1>3. ASSUME item[w] # Noop, TakesEffect(w), UNCHANGED <<poolVars, caught, boundVars>>
      PROVE  DataTypes'
  <2>1. item[w] \in Tasks
    BY <1>0, <1>3 DEF DataTypes
  <2>2. /\ executed' = Append(executed, item[w]) /\ item' = [item EXCEPT ![w] = Noop]
        /\ UNCHANGED <<poolVars, caught, submitted, begun>>
    BY <1>3 DEF TakesEffect, boundVars
  <2> QED
    BY <1>0, <2>1, <2>2 DEF DataTypes, poolVars
<1>4. CASE RunStage(w)
  <2>1. UNCHANGED <<poolVars, caught, boundVars>>
    BY <1>4 DEF RunStage
  <2>2. CASE item[w] # Noop /\ Continuation(w) # <<>>
    <3>1. Begin(w, Continuation(w)) /\ UNCHANGED <<item, historyVars>>
      BY <1>4, <2>2 DEF RunStage
    <3>2. Continuation(w) \in Seq(AllCalls)
      <4>1. w < Execute => Call("enqueue", w + 1) \in AllCalls
        BY DEF Call, AllCalls, Execute, Stages
      <4>2. {Call("wait", Compile), Call("wait", Execute), Call("inline", Execute)} \subseteq AllCalls
        BY DEF Call, AllCalls, Compile, Execute, Stages
      <4>3. PICK a, b, c, d : /\ a = Call("enqueue", w + 1) /\ b = Call("wait", Compile)
                              /\ c = Call("wait", Execute) /\ d = Call("inline", Execute)
        OBVIOUS
      <4>4. /\ w < Execute => <<a>> \in Seq(AllCalls)
            /\ <<b, c, d>> \in Seq(AllCalls)
        BY <4>1, <4>2, <4>3
      <4>5. (Continuation(w) = <<a>> /\ w < Execute) \/ Continuation(w) = <<b, c, d>>
        BY <2>2, <4>3 DEF Continuation
      <4> QED
        BY <4>4, <4>5
    <3>3. ControlTypes'
      BY <1>0, <2>2, <3>1, <3>2, MoveTypes
    <3>4. DataTypes'
      BY <1>0, <2>1, <3>1 DEF DataTypes, poolVars, historyVars, boundVars
    <3> QED
      BY <3>3, <3>4 DEF Types, ControlTypes, DataTypes
  <2>3. CASE ~(item[w] # Noop /\ Continuation(w) # <<>>)
    <3>1. ControlTypes'
      BY <1>0, <1>4, <2>3, MoveTypes DEF RunStage
    <3>2. CASE item[w] = Noop
      <4>1. UNCHANGED <<item, historyVars>>
        BY <1>4, <2>3, <3>2 DEF RunStage
      <4>2. DataTypes'
        BY <1>0, <2>1, <4>1 DEF DataTypes, poolVars, historyVars, boundVars
      <4> QED
        BY <3>1, <4>2 DEF Types, ControlTypes, DataTypes
    <3>3. CASE item[w] # Noop
      <4>1. TakesEffect(w)
        BY <1>4, <2>3, <3>3 DEF RunStage
      <4>2. DataTypes'
        BY <1>3, <2>1, <3>3, <4>1
      <4> QED
        BY <3>1, <4>2 DEF Types, ControlTypes, DataTypes
    <3> QED
      BY <3>2, <3>3
  <2> QED
    BY <2>2, <2>3
<1>5. CASE RunInline(w)
  <2>1. /\ pc[w] = "inline" /\ pc[w] \in CallLocations /\ Return(w) /\ TakesEffect(w)
        /\ UNCHANGED <<poolVars, caught, boundVars>>
    BY <1>5 DEF RunInline, At, CallLocations
  <2>2. /\ Head(plan[w]).op = "inline" /\ Head(plan[w]) = plan[w][1] /\ 1 \in 1 .. Len(plan[w])
        /\ ThreadOK(w)
    BY <1>0, <2>1, CurrentCall DEF Fits
  <2>3. item[w] # Noop
    BY <2>2 DEF ThreadOK
  <2>4. ControlTypes'
    BY <1>0, <2>1, MoveTypes
  <2>5. DataTypes'
    BY <1>3, <2>1, <2>3
  <2> QED
    BY <2>4, <2>5 DEF Types, ControlTypes, DataTypes
<1>6. CASE StageThrows(w)
  <2>1. /\ Throw(w, item[w]) /\ item[w] \in Tasks
        /\ UNCHANGED <<poolVars, submitted, executed, begun>>
    BY <1>0, <1>6 DEF StageThrows, DataTypes
  <2>2. ControlTypes'
    BY <1>0, <2>1, MoveTypes
  <2>3. /\ caught' = [caught EXCEPT ![w] = None] \/ caught' = [caught EXCEPT ![w] = item[w]]
        /\ item' = [item EXCEPT ![w] = Noop]
    BY <2>1 DEF Throw
  <2>4. caught' \in [Threads -> Tasks \cup {None}] /\ item' \in [Threads -> Tasks \cup {Noop}]
    BY <1>0, <2>1, <2>3 DEF DataTypes
  <2>5. DataTypes'
    BY <1>0, <2>1, <2>4 DEF DataTypes, poolVars
  <2> QED
    BY <2>2, <2>5 DEF Types, ControlTypes, DataTypes
<1>7. CASE CatchException(w)
  <2>1. ControlTypes'
    BY <1>0, <1>7, MoveTypes DEF CatchException
  <2>2. /\ ex_ptr' = [ex_ptr EXCEPT ![w] = caught[w]] /\ caught' = [caught EXCEPT ![w] = None]
        /\ UNCHANGED <<tasks, active_task_count, stop, mutex, asleep, item, submitted,
                       executed, begun>>
    BY <1>7 DEF CatchException, historyVars, boundVars
  <2>3. DataTypes'
    BY <1>0, <2>2 DEF DataTypes
  <2> QED
    BY <2>1, <2>3 DEF Types, ControlTypes, DataTypes
<1>8. CASE FinishTask(w)
  <2>1. ControlTypes'
    BY <1>0, <1>8, MoveTypes DEF FinishTask
  <2>2. /\ active_task_count' = [active_task_count EXCEPT ![w] = @ - 1]
        /\ UNCHANGED <<tasks, ex_ptr, stop, mutex, asleep, item, caught, submitted,
                       executed, begun>>
    BY <1>8 DEF FinishTask, historyVars, boundVars
  <2>3. DataTypes'
    BY <1>0, <2>2 DEF DataTypes
  <2> QED
    BY <2>1, <2>3 DEF Types, ControlTypes, DataTypes
<1>9. CASE NotifyAll(w)
  <2>1. /\ asleep' = [asleep EXCEPT ![w] = {}]
        /\ pc' = [t \in Threads |-> IF t = w THEN "loop"
                                    ELSE IF t \in asleep[w] THEN "lock" ELSE pc[t]]
        /\ UNCHANGED <<plan, tasks, active_task_count, ex_ptr, stop, mutex, item, caught,
                       submitted, executed, begun>>
    BY <1>9 DEF NotifyAll, Wake, historyVars, boundVars
  <2>2. ControlTypes'
    BY <1>0, <2>1 DEF ControlTypes
  <2>3. DataTypes'
    BY <1>0, <2>1 DEF DataTypes
  <2> QED
    BY <2>2, <2>3 DEF Types, ControlTypes, DataTypes
<1> QED
  BY <1>1, <1>2, <1>4, <1>5, <1>6, <1>7, <1>8, <1>9

\* The types after a step.
LEMMA TypesStep ==
  ASSUME Types, ControlOK, Next
  PROVE  Types'
<1>1. CASE \E w \in Stages : NotifyAll(w)
  BY <1>1, WorkerTypes
<1>2. ASSUME NEW t \in Threads, Moves(t)
      PROVE  Types'
  <2>1. CASE CallStep(t)
    BY <2>1, CallControlTypes, CallDataTypes DEF Types, ControlTypes, DataTypes
  <2>2. CASE ~CallStep(t)
    BY <1>2, <2>2, ProducerTypes, WorkerTypes DEF Moves
  <2> QED
    BY <2>1, <2>2
<1> QED
  BY <1>1, <1>2, Steps

-----------------------------------------------------------------------------
(* The counters. *)

\* A thread that is not at a location, before and after.
LEMMA InStays ==
  ASSUME NEW t \in Threads, Only(t), NEW loc, pc[t] # loc, pc'[t] # loc, NEW s
  PROVE  In(loc, s)' = In(loc, s)
BY DEF Only, In, Pool

\* A thread that gets to a location in its call.
LEMMA InEnters ==
  ASSUME NEW t \in Threads, Only(t), NEW loc, pc[t] # loc, pc'[t] = loc, plan' = plan, NEW s
  PROVE  /\ s # Pool(t) => In(loc, s)' = In(loc, s)
         /\ s = Pool(t) => t \notin In(loc, s)
                           /\ \A u : u \in In(loc, s)' <=> u \in In(loc, s) \/ u = t
BY DEF Only, In, Pool

\* A thread that leaves a location.
LEMMA InLeaves ==
  ASSUME NEW t \in Threads, Only(t), NEW loc, pc[t] = loc, pc'[t] # loc, NEW s
  PROVE  /\ s # Pool(t) => In(loc, s)' = In(loc, s)
         /\ s = Pool(t) => t \in In(loc, s)
                           /\ \A u : u \in In(loc, s)' <=> u \in In(loc, s) /\ u # t
BY DEF Only, In, Pool

LEMMA InFinite ==
  ASSUME NEW loc, NEW s
  PROVE  IsFiniteSet(In(loc, s)) /\ Cardinality(In(loc, s)) \in Nat
BY Constants, FS_Subset, FS_CardinalityType DEF In

\* The task in a worker's hands, when another thread moves or the worker
\* stays in its task or out of one.
LEMMA BusyStays ==
  ASSUME NEW t \in Threads, Only(t), NEW s \in Stages,
         t \in Stages => (pc[t] \in {"loop", "pop", "notify", "exit"}
                            <=> pc'[t] \in {"loop", "pop", "notify", "exit"})
  PROVE  Busy(s)' = Busy(s)
<1>1. s \in Threads
  BY Constants
<1>2. CASE s = t
  BY <1>2 DEF Busy
<1>3. CASE s # t
  BY <1>1, <1>3 DEF Busy, Only
<1> QED
  BY <1>2, <1>3

\* The tasks of the pools remain counted.
LEMMA CountedStep ==
  ASSUME Types, ControlOK, TasksCounted, NEW t \in Threads, Only(t),
         \/ Quiet(t) \/ Passes(t) \/ Stops(t) \/ CountsTask(t) \/ PushesTask(t)
         \/ (t \in Stages /\ (PopsTask(t) \/ FinishesTask(t)))
  PROVE  TasksCounted'
<1> SUFFICES ASSUME NEW s \in Stages
             PROVE  active_task_count'[s] = Len(tasks'[s]) + Cardinality(In("push", s)') + Busy(s)'
  BY DEF TasksCounted
<1>0. /\ active_task_count[s] = Len(tasks[s]) + Cardinality(In("push", s)) + Busy(s)
      /\ Len(tasks[s]) \in Nat /\ Cardinality(In("push", s)) \in Nat
      /\ IsFiniteSet(In("push", s)) /\ Busy(s) \in {0, 1}
      /\ tasks[s] \in Seq(Tasks \cup {Noop}) /\ active_task_count[s] \in Int
  BY InFinite DEF TasksCounted, Types, Busy
<1>1. CASE Quiet(t) \/ Passes(t) \/ Stops(t)
  <2>1. /\ UNCHANGED <<tasks, active_task_count>> /\ pc[t] # "push" /\ pc'[t] # "push"
        /\ t \in Stages => (pc[t] \in {"loop", "pop", "notify", "exit"}
                              <=> pc'[t] \in {"loop", "pop", "notify", "exit"})
    BY <1>1 DEF Quiet, Passes, Stops
  <2>2. In("push", s)' = In("push", s) /\ Busy(s)' = Busy(s)
    BY <2>1, InStays, BusyStays
  <2> QED
    BY <1>0, <2>1, <2>2
<1>2. CASE CountsTask(t)
  <2>1. /\ tasks' = tasks /\ pc[t] = "count" /\ pc'[t] = "push" /\ plan' = plan
        /\ active_task_count' = [active_task_count EXCEPT ![Pool(t)] = @ + 1]
    BY <1>2 DEF CountsTask
  <2>2. Busy(s)' = Busy(s)
    BY <2>1, BusyStays
  <2>3. CASE s = Pool(t)
    <3>1. Cardinality(In("push", s)') = Cardinality(In("push", s)) + 1
      BY <1>0, <2>1, <2>3, InEnters, AddOne
    <3>2. active_task_count'[s] = active_task_count[s] + 1
      BY <2>1, <2>3 DEF Types
    <3> QED
      BY <1>0, <2>1, <2>2, <3>1, <3>2
  <2>4. CASE s # Pool(t)
    <3>1. In("push", s)' = In("push", s)
      BY <2>1, <2>4, InEnters
    <3>2. active_task_count'[s] = active_task_count[s]
      BY <2>1, <2>4 DEF Types
    <3> QED
      BY <1>0, <2>1, <2>2, <3>1, <3>2
  <2> QED
    BY <2>3, <2>4
<1>3. CASE PushesTask(t)
  <2>1. /\ active_task_count' = active_task_count /\ pc[t] = "push" /\ pc'[t] # "push"
        /\ tasks' = [tasks EXCEPT ![Pool(t)] = Append(@, item[t])]
        /\ t \in Stages => (pc[t] \in {"loop", "pop", "notify", "exit"}
                              <=> pc'[t] \in {"loop", "pop", "notify", "exit"})
    BY <1>3 DEF PushesTask
  <2>2. Busy(s)' = Busy(s)
    BY <2>1, BusyStays
  <2>3. CASE s = Pool(t)
    <3>1. Cardinality(In("push", s)') = Cardinality(In("push", s)) - 1
      BY <1>0, <2>1, <2>3, InLeaves, RemoveOne
    <3>2. item[t] \in Tasks \cup {Noop}
      BY DEF Types
    <3>3. tasks'[s] = Append(tasks[s], item[t])
      BY <2>1, <2>3 DEF Types
    <3>4. Len(tasks'[s]) = Len(tasks[s]) + 1
      BY <1>0, <3>2, <3>3
    <3> QED
      BY <1>0, <2>1, <2>2, <3>1, <3>4
  <2>4. CASE s # Pool(t)
    <3>1. In("push", s)' = In("push", s)
      BY <2>1, <2>4, InLeaves
    <3>2. tasks'[s] = tasks[s]
      BY <2>1, <2>4 DEF Types
    <3> QED
      BY <1>0, <2>1, <2>2, <3>1, <3>2
  <2> QED
    BY <2>3, <2>4
<1>4. CASE t \in Stages /\ PopsTask(t)
  <2>1. /\ active_task_count' = active_task_count /\ pc[t] = "pop" /\ pc'[t] = "run"
        /\ tasks[t] # <<>> /\ tasks' = [tasks EXCEPT ![t] = Tail(@)]
    BY <1>4 DEF PopsTask
  <2>2. In("push", s)' = In("push", s)
    BY <2>1, InStays
  <2>3. CASE s = t
    <3>1. Busy(s) = 0 /\ Busy(s)' = 1
      BY <2>1, <2>3 DEF Busy
    <3>2. tasks'[s] = Tail(tasks[s])
      BY <2>1, <2>3 DEF Types
    <3>3. Len(tasks'[s]) = Len(tasks[s]) - 1
      <4>1. PICK q, r : q = tasks[s] /\ r = Tail(q)
        OBVIOUS
      <4>2. q \in Seq(Tasks \cup {Noop}) /\ q # <<>>
        BY <1>0, <2>1, <2>3, <4>1
      <4>3. Len(r) = Len(q) - 1
        BY <4>1, <4>2, TailMembers
      <4> QED
        BY <3>2, <4>1, <4>3
    <3> QED
      BY <1>0, <2>1, <2>2, <3>1, <3>3
  <2>4. CASE s # t
    <3>1. Busy(s)' = Busy(s)
      BY <2>4, Constants DEF Busy, Only
    <3>2. tasks'[s] = tasks[s]
      BY <2>1, <2>4 DEF Types
    <3> QED
      BY <1>0, <2>1, <2>2, <3>1, <3>2
  <2> QED
    BY <2>3, <2>4
<1>5. CASE t \in Stages /\ FinishesTask(t)
  <2>1. /\ tasks' = tasks /\ pc[t] = "dec" /\ pc'[t] \in {"notify", "loop"}
        /\ active_task_count' = [active_task_count EXCEPT ![t] = @ - 1]
    BY <1>5 DEF FinishesTask
  <2>2. In("push", s)' = In("push", s)
    BY <2>1, InStays
  <2>3. CASE s = t
    <3>1. Busy(s) = 1 /\ Busy(s)' = 0
      BY <2>1, <2>3 DEF Busy
    <3>2. active_task_count'[s] = active_task_count[s] - 1
      BY <2>1, <2>3 DEF Types
    <3> QED
      BY <1>0, <2>1, <2>2, <3>1, <3>2
  <2>4. CASE s # t
    <3>1. Busy(s)' = Busy(s)
      BY <2>4, Constants DEF Busy, Only
    <3>2. active_task_count'[s] = active_task_count[s]
      BY <2>1, <2>4 DEF Types
    <3> QED
      BY <1>0, <2>1, <2>2, <3>1, <3>2
  <2> QED
    BY <2>3, <2>4
<1> QED
  BY <1>1, <1>2, <1>3, <1>4, <1>5

\* While a pool is not stopped, only those that enqueue into it count tasks.
LEMMA CountersEnqueue ==
  ASSUME Types, ControlOK, NEW s \in Stages, ~stop[s]
  PROVE  Cardinality(In("count", s)) <= Enqueuers(s) /\ Enqueuers(s) \in Nat
<1>1. ASSUME NEW t \in In("count", s)
      PROVE  IF s = Lowering THEN t \in Producers ELSE t = s - 1
  <2>1. t \in Threads /\ pc[t] = "count" /\ Pool(t) = s /\ pc[t] \in CallLocations
    BY DEF In, CallLocations
  <2>2. /\ Head(plan[t]) \in Calls(t) /\ Fits(Head(plan[t]), pc[t], stop)
        /\ Head(plan[t]).pool = s
    BY <2>1, CurrentCall DEF Pool
  <2>3. Head(plan[t]).op = "enqueue"
    BY <2>1, <2>2 DEF Fits
  <2>4. IF t \in Producers THEN s = Lowering ELSE s = t + 1
    BY <2>2, <2>3 DEF Calls
  <2>5. t \in Producers \/ t \in Stages
    BY <2>1, Constants
  <2> QED
    BY <2>4, <2>5 DEF Lowering, Stages
<1>2. CASE s = Lowering
  <2>1. In("count", s) \subseteq Producers
    BY <1>1, <1>2
  <2> QED
    BY <1>2, <2>1, Constants, FS_Subset, FS_CardinalityType DEF Enqueuers
<1>3. CASE s # Lowering
  <2>1. In("count", s) \subseteq {s - 1}
    BY <1>1, <1>3
  <2>2. IsFiniteSet({s - 1}) /\ Cardinality({s - 1}) = 1
    BY FS_Singleton
  <2>3. Cardinality(In("count", s)) <= 1
    BY <2>1, <2>2, FS_Subset
  <2> QED
    BY <1>3, <2>3 DEF Enqueuers
<1> QED
  BY <1>2, <1>3

\* The bound of the queues is kept.
LEMMA ThrottlingStep ==
  ASSUME Types, ControlOK, TasksCounted, Throttling, Types', ControlOK',
         NEW t \in Threads, Only(t), StopStays,
         \/ Quiet(t) \/ Passes(t) \/ Stops(t) \/ CountsTask(t) \/ PushesTask(t)
         \/ (t \in Stages /\ (PopsTask(t) \/ FinishesTask(t)))
  PROVE  Throttling'
<1> SUFFICES ASSUME NEW s \in Stages, Capacity > 0, ~stop'[s]
             PROVE  active_task_count'[s] + Cardinality(In("count", s)') <= Capacity + Enqueuers(s) - 1
  BY DEF Throttling, Enqueuers
<1>0. /\ active_task_count[s] + Cardinality(In("count", s)) <= Capacity + Enqueuers(s) - 1
      /\ active_task_count[s] \in Int /\ Cardinality(In("count", s)) \in Nat
      /\ IsFiniteSet(In("count", s))
      /\ Enqueuers(s) \in Nat /\ Capacity \in Nat
      /\ Cardinality(In("count", s)') <= Enqueuers(s) /\ Cardinality(In("count", s)') \in Nat
  <2>1. ~stop[s]
    BY DEF StopStays
  <2>2. Cardinality(In("count", s)') <= Enqueuers(s)'
    <3>1. (Types /\ ControlOK /\ s \in Stages /\ ~stop[s] =>
             Cardinality(In("count", s)) <= Enqueuers(s))'
      BY CountersEnqueue, PTL
    <3> QED
      BY <3>1
  <2>3. Cardinality(In("count", s)') \in Nat
    BY Constants, FS_Subset, FS_CardinalityType DEF In
  <2> QED
    BY <2>1, <2>2, <2>3, CountersEnqueue, InFinite, Constants DEF Throttling, Types, Enqueuers
<1>1. CASE Quiet(t) \/ PushesTask(t) \/ (t \in Stages /\ PopsTask(t))
  <2>1. active_task_count' = active_task_count /\ pc[t] # "count" /\ pc'[t] # "count"
    BY <1>1 DEF Quiet, PushesTask, PopsTask
  <2>2. In("count", s)' = In("count", s)
    BY <2>1, InStays
  <2> QED
    BY <1>0, <2>1, <2>2
<1>2. CASE Passes(t)
  <2>1. /\ active_task_count' = active_task_count /\ pc[t] # "count" /\ pc'[t] = "count"
        /\ plan' = plan
        /\ ~Throttled(Pool(t)) \/ active_task_count[Pool(t)] <= Capacity \div 2
    BY <1>2 DEF Passes
  <2>2. CASE s = Pool(t)
    <3>1. Capacity \div 2 <= Capacity - 1
      BY <1>0
    <3>2. active_task_count[s] <= Capacity - 1
      BY <1>0, <2>1, <2>2, <3>1 DEF Throttled
    <3> QED
      BY <1>0, <2>1, <3>2
  <2>3. CASE s # Pool(t)
    <3>1. In("count", s)' = In("count", s)
      BY <2>1, <2>3, InEnters
    <3> QED
      BY <1>0, <2>1, <3>1
  <2> QED
    BY <2>2, <2>3
<1>3. CASE Stops(t)
  <2>1. /\ active_task_count' = active_task_count /\ pc[t] # "count" /\ pc'[t] = "count"
        /\ plan' = plan /\ stop' = [stop EXCEPT ![Pool(t)] = TRUE]
    BY <1>3 DEF Stops
  <2>2. s # Pool(t)
    BY <2>1 DEF Types
  <2>3. In("count", s)' = In("count", s)
    BY <2>1, <2>2, InEnters
  <2> QED
    BY <1>0, <2>1, <2>3
<1>4. CASE CountsTask(t)
  <2>1. /\ pc[t] = "count" /\ pc'[t] # "count"
        /\ active_task_count' = [active_task_count EXCEPT ![Pool(t)] = @ + 1]
    BY <1>4 DEF CountsTask
  <2>2. CASE s = Pool(t)
    <3>1. Cardinality(In("count", s)') = Cardinality(In("count", s)) - 1
      BY <1>0, <2>1, <2>2, InLeaves, RemoveOne
    <3>2. active_task_count'[s] = active_task_count[s] + 1
      BY <2>1, <2>2 DEF Types
    <3> QED
      BY <1>0, <3>1, <3>2
  <2>3. CASE s # Pool(t)
    <3>1. In("count", s)' = In("count", s)
      BY <2>1, <2>3, InLeaves
    <3>2. active_task_count'[s] = active_task_count[s]
      BY <2>1, <2>3 DEF Types
    <3> QED
      BY <1>0, <3>1, <3>2
  <2> QED
    BY <2>2, <2>3
<1>5. CASE t \in Stages /\ FinishesTask(t)
  <2>1. /\ pc[t] # "count" /\ pc'[t] # "count"
        /\ active_task_count' = [active_task_count EXCEPT ![t] = @ - 1]
    BY <1>5 DEF FinishesTask
  <2>2. In("count", s)' = In("count", s)
    BY <2>1, InStays
  <2>3. active_task_count'[s] <= active_task_count[s] /\ active_task_count'[s] \in Int
    <3>1. active_task_count \in [Stages -> Int] /\ active_task_count[s] \in Int
      BY DEF Types
    <3>2. CASE s = t
      BY <2>1, <3>1, <3>2
    <3>3. CASE s # t
      BY <2>1, <3>1, <3>3
    <3> QED
      BY <3>2, <3>3
  <2> QED
    BY <1>0, <2>2, <2>3
<1> QED
  BY <1>1, <1>2, <1>3, <1>4, <1>5

-----------------------------------------------------------------------------
(* The invariant. *)

\* The pools are empty, their workers in main_loop, the program elsewhere.
LEMMA Initially == Init => Inv
<1> SUFFICES ASSUME Init PROVE Inv
  OBVIOUS
<1>1. /\ Producers \cap Stages = {} /\ Threads = Producers \cup Stages /\ MaxTasks \in Nat
  BY Constants
<1>2. /\ \A t \in Threads : pc[t] = IF t \in Producers THEN "idle" ELSE "loop"
      /\ \A t \in Threads : plan[t] = <<>>
      /\ \A s \in Stages : asleep[s] = {} /\ tasks[s] = <<>> /\ active_task_count[s] = 0
  BY DEF Init
<1>3. Types
  <2>1. <<>> \in Seq(AllCalls) /\ <<>> \in Seq(Tasks \cup {Noop}) /\ <<>> \in Seq(Tasks)
    OBVIOUS
  <2>2. {"idle", "loop"} \subseteq Locations /\ 0 \in 0 .. MaxTasks /\ 0 \in Int
    BY <1>1 DEF Locations
  <2> QED
    BY <1>1, <2>1, <2>2 DEF Init, Types
<1>4. ASSUME NEW t \in Threads
      PROVE  ThreadOK(t)
  <2>1. plan[t] \in Seq(Calls(t)) /\ plan[t] = <<>> /\ Len(plan[t]) = 0
    BY <1>2, EmptySeq
  <2>2. /\ pc[t] \notin CallLocations
        /\ t \in Producers => pc[t] = "idle"
        /\ t \in Stages => pc[t] = "loop"
    BY <1>1, <1>2 DEF CallLocations
  <2> QED
    BY <2>1, <2>2 DEF ThreadOK, WorkerLocations
<1>5. ControlOK /\ Sleeping
  BY <1>2, <1>4 DEF ControlOK, Sleeping
<1>6. ASSUME NEW s \in Stages, NEW loc \in {"push", "count"}
      PROVE  In(loc, s) = {} /\ Cardinality(In(loc, s)) = 0
  <2>1. In(loc, s) = {}
    BY <1>1, <1>2 DEF In
  <2> QED
    BY <2>1, FS_EmptySet
<1>7. TasksCounted
  <2> SUFFICES ASSUME NEW s \in Stages
               PROVE  active_task_count[s] = Len(tasks[s]) + Cardinality(In("push", s)) + Busy(s)
    BY DEF TasksCounted
  <2>1. Busy(s) = 0
    BY <1>1, <1>2 DEF Busy
  <2> QED
    BY <1>2, <1>6, <2>1
<1>8. Throttling
  <2> SUFFICES ASSUME NEW s \in Stages, Capacity > 0
               PROVE  active_task_count[s] + Cardinality(In("count", s)) <= Capacity + Enqueuers(s) - 1
    BY DEF Throttling
  <2>1. Enqueuers(s) \in Nat /\ Capacity \in Nat
    BY Constants, FS_CardinalityType DEF Enqueuers
  <2> QED
    BY <1>2, <1>6, <2>1
<1> QED
  BY <1>3, <1>5, <1>7, <1>8 DEF Inv

\* Every step preserves the invariant.
LEMMA InvStep == Inv /\ [Next]_vars => Inv'
<1> SUFFICES ASSUME Inv, [Next]_vars PROVE Inv'
  OBVIOUS
<1>0. Types /\ ControlOK /\ Sleeping /\ TasksCounted /\ Throttling
  BY DEF Inv
<1>1. CASE UNCHANGED vars
  <2>1. UNCHANGED <<tasks, active_task_count, ex_ptr, stop, mutex, asleep, pc, plan, item,
                    caught, submitted, executed, begun>>
    BY <1>1 DEF vars, poolVars, threadVars, historyVars, boundVars
  <2>2. Types'
    BY <1>0, <2>1 DEF Types
  <2>3. ControlOK' /\ Sleeping'
    BY <1>0, <2>1 DEF ControlOK, ThreadOK, Fits, Sleeping, Pool
  <2>4. TasksCounted' /\ Throttling'
    BY <1>0, <2>1 DEF TasksCounted, Throttling, In, Busy, Pool, Enqueuers
  <2> QED
    BY <2>2, <2>3, <2>4 DEF Inv
<1>2. CASE Next
  <2>1. Types'
    BY <1>0, <1>2, TypesStep
  <2>2. ASSUME NEW t \in Threads, Moves(t)
        PROVE  ControlOK' /\ Sleeping' /\ TasksCounted' /\ Throttling'
    <3>1. /\ ControlOK' /\ Sleeping' /\ Only(t) /\ StopStays
          /\ \/ Quiet(t) \/ Passes(t) \/ Stops(t) \/ CountsTask(t) \/ PushesTask(t)
             \/ (t \in Stages /\ (PopsTask(t) \/ FinishesTask(t)))
      BY <1>0, <2>2, MovesControl
    <3>2. TasksCounted'
      BY <1>0, <3>1, CountedStep
    <3>3. Throttling'
      BY <1>0, <2>1, <3>1, ThrottlingStep
    <3> QED
      BY <3>1, <3>2, <3>3
  <2>3. ASSUME NEW w \in Stages, NotifyAll(w)
        PROVE  ControlOK' /\ Sleeping' /\ TasksCounted' /\ Throttling'
    <3>1. /\ ControlOK' /\ Sleeping'
          /\ UNCHANGED <<plan, tasks, active_task_count, stop>>
          /\ \A u \in Threads : pc'[u] = pc[u] \/ {pc[u], pc'[u]} \cap {"count", "push"} = {}
          /\ \A s \in Stages : Busy(s)' = Busy(s)
      BY <1>0, <2>3, NotifyControl
    <3>2. ASSUME NEW loc \in {"count", "push"}, NEW s \in Stages
          PROVE  In(loc, s)' = In(loc, s)
      BY <3>1 DEF In, Pool
    <3>3. TasksCounted'
      BY <1>0, <3>1, <3>2 DEF TasksCounted
    <3>4. Throttling'
      BY <1>0, <3>1, <3>2 DEF Throttling, Enqueuers
    <3> QED
      BY <3>1, <3>3, <3>4
  <2> QED
    BY <1>2, <2>1, <2>2, <2>3, Steps DEF Inv
<1> QED
  BY <1>1, <1>2

\* The invariant gives the two properties.
LEMMA InvSuffices == Inv => TypeOK /\ QueueBounded
<1> SUFFICES ASSUME Inv PROVE TypeOK /\ QueueBounded
  OBVIOUS
<1>1. ASSUME NEW s \in Stages
      PROVE  /\ active_task_count[s] \in Nat
             /\ Capacity > 0 /\ ~stop[s] => active_task_count[s] <= Capacity + Enqueuers(s) - 1
  <2>1. /\ active_task_count[s] = Len(tasks[s]) + Cardinality(In("push", s)) + Busy(s)
        /\ Len(tasks[s]) \in Nat /\ Cardinality(In("push", s)) \in Nat /\ Busy(s) \in Nat
    BY InFinite DEF Inv, TasksCounted, Types, Busy
  <2>2. active_task_count[s] \in Nat
    BY <2>1
  <2>3. ASSUME Capacity > 0, ~stop[s]
        PROVE  active_task_count[s] <= Capacity + Enqueuers(s) - 1
    <3>1. active_task_count[s] + Cardinality(In("count", s)) <= Capacity + Enqueuers(s) - 1
      BY <2>3 DEF Inv, Throttling
    <3>2. /\ Cardinality(In("count", s)) \in Nat /\ Capacity \in Nat
          /\ Enqueuers(s) \in Nat
      BY InFinite, Constants, FS_CardinalityType DEF Enqueuers
    <3> QED
      BY <2>2, <3>1, <3>2
  <2> QED
    BY <2>2, <2>3
<1>2. active_task_count \in [Stages -> Nat]
  BY <1>1 DEF Inv, Types
<1> QED
  BY <1>1, <1>2 DEF Inv, Types, TypeOK, QueueBounded

\* The types, and above all that active_task_count_, an unsigned counter that
\* main_loop decrements without the mutex, never passes zero downwards: it is
\* the number of tasks in the queue, about to be pushed, and in the worker's
\* hands, the destructor's empty task included.
THEOREM TypeCorrect == Spec => []TypeOK
<1>1. Inv => TypeOK
  BY InvSuffices
<1> QED
  BY Initially, InvStep, <1>1, PTL DEF Spec

\* Throttling bounds the queues: the producers that read active_task_count_
\* in throttleIfNeeded and count their task later exceed the capacity by less
\* than their number.
THEOREM QueuesBounded == Spec => []QueueBounded
<1>1. Inv => QueueBounded
  BY InvSuffices
<1> QED
  BY Initially, InvStep, <1>1, PTL DEF Spec

-----------------------------------------------------------------------------
(* Joining the pipeline. *)


\* A producer's call b may come after its call a: the pools are waited for in
\* order, and released only after that.
Follows(a, b) ==
  \/ a.op = "wait" /\ b.op = "wait" /\ b.pool = a.pool + 1
  \/ a.op = "wait" /\ a.pool = Execute /\ b.op = "release"
  \/ a.op = "release" /\ b.op = "release"

\* The order of the calls of a plan.  A worker never ends one with a wait.
PlanOK(t) ==
  IF t \in Producers
  THEN \A i \in 1 .. Len(plan[t]) - 1 : Follows(plan[t][i], plan[t][i + 1])
  ELSE \A i \in 1 .. Len(plan[t]) : plan[t][i].op = "wait" => i < Len(plan[t])

\* A worker that is not in a stage has no task in its hands, and a thread that
\* throws or stores an exception has one.
HandsOK(t) ==
  /\ t \in Stages /\ pc[t] \in {"loop", "pop", "notify", "exit", "dec", "catch"} =>
       item[t] = Noop
  /\ pc[t] \in {"clear", "catch"} => caught[t] # None

Releases(p) == \E i \in 1 .. Len(plan[p]) : plan[p][i].op = "release"

\* The pools are released once, when the program no longer does anything else,
\* and a pool is stopped only then.
ReleaseOK ==
  /\ joins \in Nat
  /\ joins > MaxJoins =>
       /\ \A p \in Producers : begun[p] = MaxTasks
       /\ \A p, q \in Producers : pc[p] # "idle" /\ pc[q] # "idle" => p = q
  /\ \A p \in Producers : Releases(p) => joins > MaxJoins
  /\ \A s \in Stages : stop[s] =>
       /\ joins > MaxJoins
       /\ \A p \in Producers : plan[p] # <<>> => Head(plan[p]).op = "release"

\* Task x is in the queue of a stage or in the hands of its worker.
Inside(x, s) == item[s] = x \/ x \in Elements(tasks[s])

\* A task that a producer holds is not in the pipeline yet, those in it were
\* submitted.
NewTasks ==
  /\ \A x \in submitted : x[2] <= begun[x[1]]
  /\ \A p \in Producers : item[p] # Noop => item[p] = <<p, begun[p]>> /\ item[p] \notin submitted
  /\ \A s \in Stages : \A x \in Tasks : Inside(x, s) => x \in submitted
  /\ Elements(executed) \subseteq submitted
  /\ suspect \subseteq submitted /\ joined \subseteq submitted
  /\ promised \in [Producers -> SUBSET submitted]

\* Task x has been executed, or will be.
Kept(x) == x \in Elements(executed) \/ \E s \in Stages : Inside(x, s)

\* No task is lost without an exception.
Accounted == ExceptionPending \/ \A x \in submitted \ suspect : Kept(x)

\* The pools whose work the join of p has waited for.
Passed(p, s) ==
  /\ plan[p] # <<>> /\ Head(plan[p]).op = "wait"
  /\ s < Pool(p) \/ (s = Pool(p) /\ pc[p] = "recheck")

\* What was in the pipeline when a join began does not come back.
PassedOK ==
  \A p \in Producers : \A s \in Stages : Passed(p, s) => \A x \in promised[p] : ~Inside(x, s)

JoinInv ==
  /\ \A t \in Threads : PlanOK(t) /\ HandsOK(t)
  /\ ReleaseOK /\ NewTasks /\ Accounted /\ PassedOK /\ JoinSound

-----------------------------------------------------------------------------
(* Sequences. *)

\* The elements of a queue when one is added or taken.
LEMMA ElementsOf ==
  ASSUME NEW S, NEW q \in Seq(S), NEW x \in S
  PROVE  /\ \A y : y \in Elements(Append(q, x)) <=> y \in Elements(q) \/ y = x
         /\ q # <<>> => \A y : y \in Elements(q) <=> y = Head(q) \/ y \in Elements(Tail(q))
         /\ Len(q) = 0 => Elements(q) = {}
<1>1. PICK r : r = Append(q, x)
  OBVIOUS
<1>2. /\ DOMAIN r = 1 .. Len(q) + 1 /\ DOMAIN q = 1 .. Len(q) /\ Len(q) \in Nat
      /\ \A i \in 1 .. Len(q) : r[i] = q[i]
      /\ r[Len(q) + 1] = x
  BY <1>1
<1>3. ASSUME NEW y
      PROVE  y \in Elements(r) <=> y \in Elements(q) \/ y = x
  <2>1. ASSUME NEW i \in DOMAIN r, y = r[i] PROVE y \in Elements(q) \/ y = x
    <3>1. i \in 1 .. Len(q) \/ i = Len(q) + 1
      BY <1>2, <2>1
    <3> QED
      BY <1>2, <2>1, <3>1 DEF Elements
  <2>2. ASSUME NEW i \in DOMAIN q, y = q[i] PROVE y \in Elements(r)
    <3>1. i \in DOMAIN r /\ r[i] = y
      BY <1>2, <2>2
    <3> QED
      BY <3>1 DEF Elements
  <2>3. Len(q) + 1 \in DOMAIN r
    BY <1>2
  <2> QED
    BY <1>2, <2>1, <2>2, <2>3 DEF Elements
<1>4. ASSUME q # <<>>, NEW y
      PROVE  y \in Elements(q) <=> y = Head(q) \/ y \in Elements(Tail(q))
  <2>1. PICK s : s = Tail(q)
    OBVIOUS
  <2>2. /\ DOMAIN s = 1 .. Len(q) - 1 /\ Len(q) \in Nat \ {0} /\ Head(q) = q[1]
        /\ \A i \in 1 .. Len(q) - 1 : s[i] = q[i + 1]
    BY <1>4, <2>1, TailMembers
  <2>3. ASSUME NEW i \in DOMAIN q, y = q[i] PROVE y = Head(q) \/ y \in Elements(s)
    <3>1. i = 1 \/ (i - 1 \in DOMAIN s /\ i - 1 + 1 = i)
      BY <1>2, <2>2
    <3>2. i - 1 \in DOMAIN s => s[i - 1] = y
      BY <1>2, <2>2, <2>3
    <3> QED
      BY <2>2, <2>3, <3>1, <3>2 DEF Elements
  <2>4. ASSUME NEW i \in DOMAIN s, y = s[i] PROVE y \in Elements(q)
    <3>1. i + 1 \in DOMAIN q /\ q[i + 1] = y
      BY <1>2, <2>2, <2>4
    <3> QED
      BY <3>1 DEF Elements
  <2>5. 1 \in DOMAIN q
    BY <1>2, <2>2
  <2> QED
    BY <2>1, <2>2, <2>3, <2>4, <2>5 DEF Elements
<1>5. Len(q) = 0 => Elements(q) = {}
  BY <1>2 DEF Elements
<1> QED
  BY <1>1, <1>3, <1>4, <1>5

-----------------------------------------------------------------------------
(* The plans. *)

\* Facts of the constants the proofs below use.
LEMMA Distinct ==
  /\ \A p \in Producers : p \in Threads /\ p \notin Stages
  /\ \A w \in Stages : w \in Threads /\ w \notin Producers
  /\ Noop \notin Tasks /\ None \notin Tasks
  /\ {MaxTasks, MaxJoins} \subseteq Nat /\ Joiners \subseteq Producers
  /\ Stages = {Lowering, Compile, Execute}
BY PipelineAssumption, Constants DEF Noop, Tasks, Stages, Lowering, Compile, Execute

\* The rest of a plan is in order.
LEMMA TailOK ==
  ASSUME NEW t \in Threads, Types, PlanOK(t), plan[t] # <<>>, plan'[t] = Tail(plan[t])
  PROVE  PlanOK(t)' /\ (Releases(t)' => Releases(t))
<1>1. PICK q, r : q = plan[t] /\ r = plan'[t]
  OBVIOUS
<1>2. /\ Len(q) \in Nat \ {0} /\ Len(r) = Len(q) - 1
      /\ \A i \in 1 .. Len(r) : r[i] = q[i + 1] /\ i + 1 \in 1 .. Len(q)
  <2>1. q \in Seq(AllCalls) /\ q # <<>> /\ r = Tail(q)
    BY <1>1 DEF Types
  <2> QED
    BY <2>1, TailMembers
<1>3. ASSUME t \in Producers, NEW i \in 1 .. Len(r) - 1
      PROVE  Follows(r[i], r[i + 1])
  <2>1. /\ i + 1 \in 1 .. Len(q) - 1 /\ i \in 1 .. Len(r) /\ i + 1 \in 1 .. Len(r)
        /\ r[i] = q[i + 1] /\ r[i + 1] = q[i + 1 + 1]
    BY <1>2, <1>3
  <2> QED
    BY <1>1, <1>3, <2>1 DEF PlanOK
<1>4. ASSUME t \notin Producers, NEW i \in 1 .. Len(r), r[i].op = "wait"
      PROVE  i < Len(r)
  <2>1. i + 1 \in 1 .. Len(q) /\ q[i + 1].op = "wait"
    BY <1>2, <1>4
  <2>2. i + 1 < Len(q)
    BY <1>1, <1>4, <2>1 DEF PlanOK
  <2> QED
    BY <1>2, <2>2
<1>5. Releases(t)' => Releases(t)
  BY <1>1, <1>2 DEF Releases
<1> QED
  BY <1>1, <1>3, <1>4, <1>5 DEF PlanOK

\* An empty plan.
LEMMA EmptyOK ==
  ASSUME NEW t, plan'[t] = <<>>
  PROVE  PlanOK(t)' /\ ~Releases(t)'
<1>1. Len(plan'[t]) = 0
  BY EmptySeq
<1> QED
  BY <1>1 DEF PlanOK, Releases

\* The program begins a call: the plan is in order, and begins with the first pool.
LEMMA Begun ==
  ASSUME Types, NEW p \in Producers, BeginEnqueue(p) \/ BeginJoin(p) \/ ThreadsRelease(p)
  PROVE  /\ PlanOK(p)' /\ plan'[p] # <<>> /\ Pool(p)' = Lowering /\ pc'[p] = "rethrow"
         /\ \/ BeginEnqueue(p) /\ plan'[p] = <<Call("enqueue", Lowering)>>
            \/ /\ \A i \in 1 .. Len(plan'[p]) : plan'[p][i].op # "enqueue"
               /\ Head(plan'[p]).op = "wait" /\ (BeginJoin(p) \/ ThreadsRelease(p))
         /\ Releases(p)' => ThreadsRelease(p)
<1>1. PICK a, b, c, d, e, f, g :
        /\ a = Call("wait", Lowering) /\ b = Call("wait", Compile) /\ c = Call("wait", Execute)
        /\ d = Call("release", Lowering) /\ e = Call("release", Compile)
        /\ f = Call("release", Execute) /\ g = Call("enqueue", Lowering)
  OBVIOUS
<1>2. /\ a.op = "wait" /\ a.pool = 1 /\ b.op = "wait" /\ b.pool = 2 /\ c.op = "wait" /\ c.pool = 3
      /\ d.op = "release" /\ e.op = "release" /\ f.op = "release"
      /\ g.op = "enqueue" /\ g.pool = 1 /\ Lowering = 1 /\ Execute = 3
  BY <1>1 DEF Call, Lowering, Compile, Execute
<1>3. ASSUME NEW calls, Begin(p, calls)
      PROVE  plan'[p] = calls /\ pc'[p] = FirstStep(Head(calls))
  BY <1>3, Distinct DEF Begin, Types
<1>4. FirstStep(a) = "rethrow" /\ FirstStep(g) = "rethrow"
  BY <1>2 DEF FirstStep
<1>5. CASE BeginEnqueue(p)
  <2>1. plan'[p] = <<g>> /\ pc'[p] = FirstStep(Head(<<g>>))
    BY <1>1, <1>3, <1>5 DEF BeginEnqueue
  <2>2. plan'[p] # <<>> /\ Head(plan'[p]) = g /\ Len(plan'[p]) = 1 /\ plan'[p][1] = g
    BY <2>1
  <2>3. PlanOK(p)' /\ ~Releases(p)'
    BY <1>2, <2>2 DEF PlanOK, Releases
  <2> QED
    BY <1>1, <1>2, <1>4, <1>5, <2>1, <2>2, <2>3 DEF Pool
<1>6. CASE BeginJoin(p)
  <2>1. plan'[p] = <<a, b, c>> /\ pc'[p] = FirstStep(Head(<<a, b, c>>))
    BY <1>1, <1>3, <1>6 DEF BeginJoin, JoinPipelineThreads
  <2>2. /\ plan'[p] # <<>> /\ Head(plan'[p]) = a /\ Len(plan'[p]) = 3 /\ plan'[p][1] = a
        /\ plan'[p][2] = b /\ plan'[p][3] = c
    BY <2>1
  <2>3. PlanOK(p)' /\ ~Releases(p)'
    BY <1>2, <2>2 DEF PlanOK, Releases, Follows
  <2>4. \A i \in 1 .. Len(plan'[p]) : plan'[p][i].op # "enqueue"
    BY <1>2, <2>2
  <2> QED
    BY <1>2, <1>4, <1>6, <2>1, <2>2, <2>3, <2>4 DEF Pool
<1>7. CASE ThreadsRelease(p)
  <2>1. PICK q, r, calls : q = <<a, b, c>> /\ r = <<d, e, f>> /\ calls = q \o r
    OBVIOUS
  <2>2. plan'[p] = calls /\ pc'[p] = FirstStep(Head(calls))
    BY <1>1, <1>3, <1>7, <2>1 DEF ThreadsRelease, JoinPipelineThreads
  <2>3. PICK S : S = {a, b, c, d, e, f}
    OBVIOUS
  <2>4. /\ q \in Seq(S) /\ r \in Seq(S) /\ Len(q) = 3 /\ Len(r) = 3
        /\ q[1] = a /\ q[2] = b /\ q[3] = c /\ r[1] = d /\ r[2] = e /\ r[3] = f
    BY <2>1, <2>3
  <2>5. /\ calls \in Seq(S) /\ Len(calls) = 6
        /\ \A i \in 1 .. 6 : calls[i] = IF i <= 3 THEN q[i] ELSE r[i - 3]
    BY <2>1, <2>4, ConcatMembers
  <2>6. /\ calls[1] = a /\ calls[2] = b /\ calls[3] = c /\ calls[4] = d /\ calls[5] = e
        /\ calls[6] = f
    BY <2>4, <2>5
  <2>7. calls # <<>> /\ Head(calls) = a
    <3>1. Len(<<>>) = 0
      OBVIOUS
    <3>2. calls # <<>>
      BY <2>5, <3>1
    <3>3. Head(calls) = calls[1]
      BY <2>5, <3>2, TailMembers
    <3> QED
      BY <2>6, <3>2, <3>3
  <2>8. ASSUME NEW i \in 1 .. 5
        PROVE  Follows(calls[i], calls[i + 1])
    <3>1. i = 1 \/ i = 2 \/ i = 3 \/ i = 4 \/ i = 5
      OBVIOUS
    <3>2. /\ Follows(a, b) /\ Follows(b, c) /\ Follows(c, d) /\ Follows(d, e) /\ Follows(e, f)
      BY <1>2 DEF Follows
    <3> QED
      BY <2>6, <3>1, <3>2
  <2>9. PlanOK(p)'
    BY <2>2, <2>5, <2>8 DEF PlanOK
  <2>10. \A i \in 1 .. Len(plan'[p]) : plan'[p][i].op # "enqueue"
    <3>1. ASSUME NEW i \in 1 .. 6 PROVE calls[i].op # "enqueue"
      <4>1. i = 1 \/ i = 2 \/ i = 3 \/ i = 4 \/ i = 5 \/ i = 6
        OBVIOUS
      <4> QED
        BY <1>2, <2>6, <4>1
    <3> QED
      BY <2>2, <2>5, <3>1
  <2> QED
    BY <1>2, <1>4, <1>7, <2>2, <2>7, <2>9, <2>10 DEF Pool
<1> QED
  BY <1>5, <1>6, <1>7

\* What becomes of a plan in a step of its thread, other than the beginning of a
\* call by the program.
LEMMA PlanMoves ==
  ASSUME Types, ControlOK, NEW t \in Threads, PlanOK(t), Moves(t),
         ~(t \in Producers /\ (BeginEnqueue(t) \/ BeginJoin(t) \/ ThreadsRelease(t)))
  PROVE  /\ \/ plan'[t] = plan[t]
            \/ plan[t] # <<>> /\ plan'[t] = Tail(plan[t])
            \/ plan'[t] = <<>>
            \/ t \in Stages /\ RunStage(t) /\ PlanOK(t)'
         /\ t \in Producers => CallStep(t)
         /\ CallStep(t) => pc[t] \in CallLocations
<1>0. (t \in Producers => t \notin Stages) /\ (t \in Stages => t \notin Producers)
  BY Distinct
<1>1. CASE CallStep(t)
  <2>1. pc[t] \in CallLocations
    BY <1>1 DEF CallStep, ReadException, ClearException, Throttle, Spin, CountTask, PushTask,
                CheckActive, LockAndCheck, FallAsleep, StopPool, JoinWorker, At, CallLocations
  <2>2. \/ plan' = plan
        \/ Return(t)
        \/ \E e : Throw(t, e)
    BY <1>1 DEF CallStep, ReadException, ClearException, Throttle, Spin, CountTask, PushTask,
                CheckActive, LockAndCheck, FallAsleep, StopPool, JoinWorker, Goto
  <2>3. Return(t) => plan'[t] = Tail(plan[t])
    BY DEF Return, Types
  <2>4. (\E e : Throw(t, e)) => plan'[t] = <<>>
    BY DEF Throw, Types
  <2>5. plan[t] # <<>>
    BY <2>1, CurrentCall
  <2> QED
    BY <1>1, <2>1, <2>2, <2>3, <2>4, <2>5
<1>2. CASE t \in Stages /\ RunInline(t)
  <2>1. pc[t] \in CallLocations /\ plan'[t] = Tail(plan[t])
    BY <1>2 DEF RunInline, Return, Types, At, CallLocations
  <2>2. plan[t] # <<>>
    BY <2>1, CurrentCall
  <2> QED
    BY <1>0, <1>2, <2>1, <2>2 DEF CallStep, ReadException, ClearException, Throttle, Spin,
       CountTask, PushTask, CheckActive, LockAndCheck, FallAsleep, StopPool, JoinWorker, At, RunInline
<1>3. CASE t \in Stages /\ StageThrows(t)
  <2>1. plan'[t] = <<>> /\ pc[t] \in {"run", "inline"}
    BY <1>3 DEF StageThrows, Throw, Types
  <2> QED
    BY <1>0, <1>3, <2>1, <1>1
<1>4. CASE t \in Stages /\ RunStage(t)
  <2>1. CASE plan' = plan
    BY <1>0, <1>1, <1>4, <2>1
  <2>2. CASE plan' # plan
    <3>1. PICK a, b, c, d : /\ a = Call("enqueue", t + 1) /\ b = Call("wait", Compile)
                            /\ c = Call("wait", Execute) /\ d = Call("inline", Execute)
      OBVIOUS
    <3>2. a.op = "enqueue" /\ b.op = "wait" /\ c.op = "wait" /\ d.op = "inline"
      BY <3>1 DEF Call
    <3>3. plan'[t] = Continuation(t) /\ Continuation(t) # <<>>
      BY <1>4, <2>2 DEF RunStage, Begin, Goto, Types
    <3>4. plan'[t] = <<a>> \/ plan'[t] = <<b, c, d>>
      BY <3>1, <3>3 DEF Continuation
    <3>5. PlanOK(t)'
      <4>1. CASE plan'[t] = <<a>>
        <5>1. Len(plan'[t]) = 1 /\ plan'[t][1] = a
          BY <4>1
        <5> QED
          BY <1>0, <1>4, <3>2, <5>1 DEF PlanOK
      <4>2. CASE plan'[t] = <<b, c, d>>
        <5>1. Len(plan'[t]) = 3 /\ plan'[t][3] = d
          BY <4>2
        <5> QED
          BY <1>0, <1>4, <3>2, <5>1 DEF PlanOK
      <4> QED
        BY <3>4, <4>1, <4>2
    <3> QED
      BY <1>0, <1>1, <1>4, <3>5
  <2> QED
    BY <2>1, <2>2
<1>5. CASE t \in Stages /\ (CheckStop(t) \/ PopTask(t) \/ CatchException(t) \/ FinishTask(t))
  <2>1. plan' = plan
    BY <1>5 DEF CheckStop, PopTask, CatchException, FinishTask, Goto
  <2> QED
    BY <1>0, <1>1, <1>5, <2>1
<1> QED
  BY <1>1, <1>2, <1>3, <1>4, <1>5 DEF Moves

\* Plans stay in order.
LEMMA PlansStep ==
  ASSUME Types, ControlOK, Sleeping, NEW t \in Threads, Moves(t), \A u \in Threads : PlanOK(u)
  PROVE  \A u \in Threads : PlanOK(u)'
<1>1. Only(t)
  BY MovesControl
<1>2. ASSUME NEW u \in Threads, u # t PROVE PlanOK(u)'
  BY <1>1, <1>2 DEF Only, PlanOK
<1>3. PlanOK(t)'
  <2>1. CASE t \in Producers /\ (BeginEnqueue(t) \/ BeginJoin(t) \/ ThreadsRelease(t))
    BY <2>1, Begun
  <2>2. CASE ~(t \in Producers /\ (BeginEnqueue(t) \/ BeginJoin(t) \/ ThreadsRelease(t)))
    <3>1. plan'[t] = plan[t] => PlanOK(t)'
      BY DEF PlanOK
    <3> QED
      BY <2>2, <3>1, PlanMoves, TailOK, EmptyOK
  <2> QED
    BY <2>1, <2>2
<1> QED
  BY <1>2, <1>3

-----------------------------------------------------------------------------
(* What threads hold. *)

\* Where a call that returns goes.
LEMMA ReturnTo ==
  ASSUME Types, ControlOK, NEW t \in Threads, pc[t] \in CallLocations, Return(t)
  PROVE  /\ plan'[t] = Tail(plan[t]) /\ plan[t] # <<>>
         /\ pc'[t] \in {"rethrow", "inline", "stop", "idle", "dec"}
         /\ plan'[t] # <<>> => pc'[t] \notin {"idle", "dec"}
<1>1. PICK rest : rest = Tail(plan[t])
  OBVIOUS
<1>2. plan[t] \in Seq(AllCalls) /\ plan[t] # <<>>
  BY CurrentCall DEF Types
<1>3. rest # <<>> => Head(rest) \in AllCalls
  BY <1>1, <1>2, TailMembers
<1>4. plan'[t] = rest /\ pc'[t] = IF rest # <<>> THEN FirstStep(Head(rest))
                                  ELSE IF t \in Producers THEN "idle" ELSE "dec"
  BY <1>1 DEF Return, Types
<1>5. rest # <<>> => FirstStep(Head(rest)) \in {"rethrow", "inline", "stop"}
  BY <1>3, FirstStepFits
<1> QED
  BY <1>1, <1>2, <1>4, <1>5

\* A worker that has waited has something left to do.
LEMMA WorkerGoesOn ==
  ASSUME Types, NEW t \in Threads, PlanOK(t), t \in Stages, plan[t] # <<>>,
         Head(plan[t]).op = "wait", plan'[t] = Tail(plan[t])
  PROVE  plan'[t] # <<>>
<1>1. plan[t] \in Seq(AllCalls)
  BY DEF Types
<1>2. /\ Len(plan[t]) \in Nat \ {0} /\ Len(plan'[t]) = Len(plan[t]) - 1
      /\ Head(plan[t]) = plan[t][1]
  BY <1>1, TailMembers
<1>3. 1 < Len(plan[t])
  BY <1>2, Distinct DEF PlanOK
<1>4. ASSUME NEW n \in Nat, NEW r, Len(r) = n - 1, 1 < n
      PROVE  r # <<>>
  <2>1. Len(<<>>) = 0
    OBVIOUS
  <2> QED
    BY <1>4, <2>1
<1> QED
  BY <1>2, <1>3, <1>4

\* What a thread holds after a step of a call.
LEMMA CallHands ==
  ASSUME Types, ControlOK, NEW t \in Threads, PlanOK(t), HandsOK(t), CallStep(t)
  PROVE  HandsOK(t)' /\ \A u \in Threads : u # t => caught'[u] = caught[u]
<1>0. /\ t \in Stages => t \notin Producers
      /\ pc \in [Threads -> Locations] /\ caught \in [Threads -> Tasks \cup {None}]
      /\ item \in [Threads -> Tasks \cup {Noop}]
  BY Distinct DEF Types
<1>1. /\ plan[t] # <<>> /\ Fits(Head(plan[t]), pc[t], stop) /\ Head(plan[t]) \in Calls(t)
      /\ pc[t] \in CallLocations
  <2>1. pc[t] \in CallLocations
    BY DEF CallStep, ReadException, ClearException, Throttle, Spin, CountTask, PushTask,
           CheckActive, LockAndCheck, FallAsleep, StopPool, JoinWorker, At, CallLocations
  <2> QED
    BY <2>1, CurrentCall
<1>2. ASSUME NEW loc, Goto(t, loc), loc \in CallLocations, loc # "clear" \/ caught'[t] # None
      PROVE  HandsOK(t)'
  <2>1. pc'[t] = loc
    BY <1>0, <1>2 DEF Goto
  <2> QED
    BY <1>2, <2>1 DEF HandsOK, CallLocations
<1>3. ASSUME Return(t), t \notin Stages \/ Head(plan[t]).op = "wait" \/ item'[t] = Noop
      PROVE  HandsOK(t)'
  <2>1. /\ plan'[t] = Tail(plan[t])
        /\ pc'[t] \in {"rethrow", "inline", "stop", "idle", "dec"}
        /\ plan'[t] # <<>> => pc'[t] \notin {"idle", "dec"}
    BY <1>1, <1>3, ReturnTo
  <2>2. t \in Stages /\ Head(plan[t]).op = "wait" => plan'[t] # <<>>
    BY <1>1, <2>1, WorkerGoesOn
  <2> QED
    BY <1>3, <2>1, <2>2 DEF HandsOK
<1>4. CASE ReadException(t)
  <2>1. pc[t] \in {"rethrow", "recheck"}
    BY <1>4 DEF ReadException
  <2>2. CASE ex_ptr[Pool(t)] # None
    <3>1. caught' = [caught EXCEPT ![t] = ex_ptr[Pool(t)]] /\ Goto(t, "clear")
      BY <1>4, <2>2 DEF ReadException
    <3> QED
      BY <1>0, <1>2, <2>2, <3>1 DEF CallLocations
  <2>3. CASE ~(ex_ptr[Pool(t)] # None)
    <3>1. /\ UNCHANGED caught
          /\ \/ At(t, "recheck") /\ Return(t)
             \/ Goto(t, "throttle") \/ Goto(t, "check")
      BY <1>4, <2>3 DEF ReadException
    <3>2. At(t, "recheck") => Head(plan[t]).op = "wait"
      BY <1>1 DEF Fits, At
    <3> QED
      BY <1>2, <1>3, <3>1, <3>2 DEF CallLocations
  <2> QED
    BY <2>2, <2>3
<1>5. CASE ClearException(t)
  <2>1. At(t, "clear") /\ Throw(t, caught[t])
    BY <1>5 DEF ClearException
  <2>2. /\ pc'[t] = IF t \in Producers THEN "idle" ELSE "catch"
        /\ caught'[t] = IF t \in Producers THEN None ELSE caught[t]
        /\ item'[t] = Noop
        /\ \A u \in Threads : u # t => caught'[u] = caught[u]
    BY <1>0, <2>1 DEF Throw
  <2>3. caught[t] # None
    BY <2>1 DEF HandsOK, At
  <2> QED
    BY <1>0, <2>2, <2>3 DEF HandsOK
<1>6. CASE \/ Throttle(t) \/ Spin(t) \/ CountTask(t) \/ LockAndCheck(t) \/ FallAsleep(t)
           \/ StopPool(t)
  <2>1. /\ UNCHANGED caught
        /\ \E loc \in {"spin", "count", "push", "recheck", "sleep", "asleep"} : Goto(t, loc)
    BY <1>6 DEF Throttle, Spin, CountTask, LockAndCheck, FallAsleep, StopPool
  <2> QED
    BY <1>2, <2>1 DEF CallLocations
<1>7. CASE PushTask(t)
  <2>1. UNCHANGED caught /\ item'[t] = Noop /\ (Goto(t, "join") \/ Return(t))
    BY <1>0, <1>7 DEF PushTask
  <2> QED
    BY <1>2, <1>3, <2>1 DEF CallLocations
<1>8. CASE CheckActive(t)
  <2>1. At(t, "check") /\ UNCHANGED caught /\ (Goto(t, "lock") \/ Return(t))
    BY <1>8 DEF CheckActive
  <2>2. Head(plan[t]).op = "wait"
    BY <1>1, <2>1 DEF Fits, At
  <2> QED
    BY <1>2, <1>3, <2>1, <2>2 DEF CallLocations
<1>9. CASE JoinWorker(t)
  <2>1. At(t, "join") /\ UNCHANGED caught /\ Return(t)
    BY <1>9 DEF JoinWorker
  <2>2. Head(plan[t]).op = "release"
    BY <1>1, <2>1 DEF Fits, At
  <2>3. t \notin Stages
    BY <1>0, <1>1, <2>2 DEF Calls
  <2> QED
    BY <1>3, <2>1, <2>3
<1> QED
  BY <1>4, <1>5, <1>6, <1>7, <1>8, <1>9 DEF CallStep

\* What a worker holds after a step between its calls.
LEMMA WorkerHands ==
  ASSUME Types, ControlOK, NEW t \in Stages, HandsOK(t),
         \/ CheckStop(t) \/ PopTask(t) \/ RunStage(t) \/ RunInline(t)
         \/ StageThrows(t) \/ CatchException(t) \/ FinishTask(t)
  PROVE  HandsOK(t)' /\ \A u \in Threads : u # t => caught'[u] = caught[u]
<1>0. /\ t \in Threads /\ t \notin Producers /\ Noop \notin Tasks /\ None \notin Tasks
      /\ pc \in [Threads -> Locations] /\ caught \in [Threads -> Tasks \cup {None}]
      /\ item \in [Threads -> Tasks \cup {Noop}]
  BY Distinct DEF Types
<1>1. CASE CheckStop(t)
  <2>1. /\ pc[t] = "loop" /\ pc'[t] \in {"exit", "pop"} /\ item' = item /\ caught' = caught
    BY <1>0, <1>1 DEF CheckStop, At, Goto
  <2> QED
    BY <2>1 DEF HandsOK
<1>2. CASE PopTask(t)
  <2>1. pc'[t] = "run" /\ caught' = caught
    BY <1>0, <1>2 DEF PopTask, Goto
  <2> QED
    BY <2>1 DEF HandsOK
<1>3. CASE RunStage(t)
  <2>1. caught' = caught
    BY <1>3 DEF RunStage
  <2>2. CASE item[t] # Noop /\ Continuation(t) # <<>>
    <3>1. PICK a, b : a = Call("enqueue", t + 1) /\ b = Call("wait", Compile)
      OBVIOUS
    <3>2. Head(Continuation(t)) = a \/ Head(Continuation(t)) = b
      BY <2>2, <3>1 DEF Continuation
    <3>3. FirstStep(a) = "rethrow" /\ FirstStep(b) = "rethrow"
      BY <3>1 DEF Call, FirstStep
    <3>4. pc'[t] = "rethrow"
      BY <1>0, <1>3, <2>2, <3>2, <3>3 DEF RunStage, Begin
    <3> QED
      BY <2>1, <3>4 DEF HandsOK
  <2>3. CASE ~(item[t] # Noop /\ Continuation(t) # <<>>)
    <3>1. Goto(t, "dec") /\ ((item[t] = Noop /\ item' = item) \/ TakesEffect(t))
      BY <1>3, <2>3 DEF RunStage
    <3>2. pc'[t] = "dec" /\ item'[t] = Noop
      BY <1>0, <3>1 DEF Goto, TakesEffect
    <3> QED
      BY <2>1, <3>2 DEF HandsOK
  <2> QED
    BY <2>2, <2>3
<1>4. CASE RunInline(t)
  <2>1. pc[t] \in CallLocations /\ Return(t) /\ caught' = caught /\ item'[t] = Noop
    BY <1>0, <1>4 DEF RunInline, At, CallLocations, TakesEffect
  <2>2. pc'[t] \in {"rethrow", "inline", "stop", "idle", "dec"}
    BY <1>0, <2>1, ReturnTo
  <2> QED
    BY <2>1, <2>2 DEF HandsOK
<1>5. CASE StageThrows(t)
  <2>1. item[t] # Noop /\ Throw(t, item[t])
    BY <1>5 DEF StageThrows
  <2>2. /\ pc'[t] = "catch" /\ caught'[t] = item[t] /\ item'[t] = Noop
        /\ \A u \in Threads : u # t => caught'[u] = caught[u]
    BY <1>0, <2>1 DEF Throw
  <2>3. item[t] # None
    BY <1>0, <2>1
  <2> QED
    BY <2>2, <2>3 DEF HandsOK
<1>6. CASE CatchException(t)
  <2>1. /\ pc[t] = "catch" /\ pc'[t] = "dec" /\ item' = item
        /\ \A u \in Threads : u # t => caught'[u] = caught[u]
    BY <1>0, <1>6 DEF CatchException, At, Goto
  <2> QED
    BY <2>1 DEF HandsOK
<1>7. CASE FinishTask(t)
  <2>1. pc[t] = "dec" /\ pc'[t] \in {"notify", "loop"} /\ item' = item /\ caught' = caught
    BY <1>0, <1>7 DEF FinishTask, At, Goto
  <2> QED
    BY <2>1 DEF HandsOK
<1> QED
  BY <1>1, <1>2, <1>3, <1>4, <1>5, <1>6, <1>7

\* What the threads hold after a step of one of them.
LEMMA HandsStep ==
  ASSUME Types, ControlOK, Sleeping, NEW t \in Threads, Moves(t),
         \A u \in Threads : PlanOK(u) /\ HandsOK(u)
  PROVE  \A u \in Threads : HandsOK(u)'
<1>1. Only(t) /\ (t \in Producers => t \notin Stages)
  BY MovesControl, Distinct
<1>2. HandsOK(t)' /\ \A u \in Threads : u # t => caught'[u] = caught[u]
  <2>1. CASE CallStep(t)
    BY <2>1, CallHands
  <2>2. CASE t \in Producers /\ (BeginEnqueue(t) \/ BeginJoin(t) \/ ThreadsRelease(t))
    <3>1. caught' = caught /\ pc'[t] = "rethrow"
      BY <2>2, Begun DEF BeginEnqueue, BeginJoin, ThreadsRelease
    <3> QED
      BY <1>1, <2>2, <3>1 DEF HandsOK
  <2>3. CASE /\ t \in Stages
             /\ \/ CheckStop(t) \/ PopTask(t) \/ RunStage(t) \/ RunInline(t)
                \/ StageThrows(t) \/ CatchException(t) \/ FinishTask(t)
    BY <2>3, WorkerHands
  <2> QED
    BY <2>1, <2>2, <2>3 DEF Moves
<1>3. ASSUME NEW u \in Threads, u # t PROVE HandsOK(u)'
  BY <1>1, <1>2, <1>3 DEF Only, HandsOK
<1> QED
  BY <1>2, <1>3

-----------------------------------------------------------------------------
(* What is in the pools. *)

\* A task comes into a pool only by a push.
LEMMA Inflow ==
  ASSUME Types, NEW t \in Threads, Moves(t), NEW x \in Tasks, NEW s \in Stages, Inside(x, s)'
  PROVE  Inside(x, s) \/ (PushTask(t) /\ x = item[t] /\ s = Pool(t))
<1>0. /\ s \in Threads /\ s \notin Producers /\ Noop \notin Tasks /\ x # Noop
      /\ item \in [Threads -> Tasks \cup {Noop}]
      /\ tasks \in [Stages -> Seq(Tasks \cup {Noop})]
  BY Distinct DEF Types
<1>1. ASSUME tasks' = tasks, item'[s] = item[s] \/ item'[s] = Noop
      PROVE  Inside(x, s)
  BY <1>0, <1>1 DEF Inside
<1>2. CASE PushTask(t)
  <2>1. /\ tasks' = [tasks EXCEPT ![Pool(t)] = Append(@, item[t])]
        /\ item' = [item EXCEPT ![t] = Noop]
    BY <1>2 DEF PushTask, PushBack
  <2>2. item'[s] = item[s] \/ item'[s] = Noop
    BY <1>0, <2>1
  <2>3. CASE s = Pool(t)
    <3>1. tasks'[s] = Append(tasks[s], item[t])
      BY <1>0, <2>1, <2>3
    <3>2. item[t] \in Tasks \cup {Noop} /\ tasks[s] \in Seq(Tasks \cup {Noop})
      BY <1>0
    <3>3. x \in Elements(tasks'[s]) => x \in Elements(tasks[s]) \/ x = item[t]
      BY <3>1, <3>2, ElementsOf
    <3> QED
      BY <1>0, <1>2, <2>2, <2>3, <3>3 DEF Inside
  <2>4. CASE s # Pool(t)
    <3>1. tasks'[s] = tasks[s]
      BY <1>0, <2>1, <2>4
    <3> QED
      BY <1>0, <2>2, <3>1 DEF Inside
  <2> QED
    BY <2>3, <2>4
<1>3. CASE t \in Stages /\ PopTask(t)
  <2>1. /\ tasks[t] # <<>> /\ tasks' = [tasks EXCEPT ![t] = Tail(@)]
        /\ item' = [item EXCEPT ![t] = Head(tasks[t])]
    BY <1>3 DEF PopTask
  <2>2. CASE s = t
    <3>1. tasks'[s] = Tail(tasks[s]) /\ item'[s] = Head(tasks[s]) /\ tasks[s] # <<>>
      BY <1>0, <2>1, <2>2
    <3>2. tasks[s] \in Seq(Tasks \cup {Noop})
      BY <1>0
    <3>3. x \in Elements(tasks[s]) <=> x = Head(tasks[s]) \/ x \in Elements(Tail(tasks[s]))
      BY <3>1, <3>2, ElementsOf
    <3> QED
      BY <3>1, <3>3 DEF Inside
  <2>3. CASE s # t
    BY <1>0, <2>1, <2>3 DEF Inside
  <2> QED
    BY <2>2, <2>3
<1>4. CASE CallStep(t) /\ ~PushTask(t)
  <2>1. tasks' = tasks /\ (item' = item \/ item' = [item EXCEPT ![t] = Noop])
    BY <1>4 DEF CallStep, ReadException, ClearException, Throttle, Spin, CountTask,
                CheckActive, LockAndCheck, FallAsleep, StopPool, JoinWorker, poolVars, Throw
  <2> QED
    BY <1>0, <1>1, <2>1
<1>5. CASE t \in Producers /\ (BeginEnqueue(t) \/ BeginJoin(t) \/ ThreadsRelease(t))
  <2>1. tasks' = tasks /\ item'[s] = item[s]
    BY <1>0, <1>5 DEF BeginEnqueue, BeginJoin, ThreadsRelease, poolVars
  <2> QED
    BY <1>1, <2>1
<1>6. CASE t \in Stages /\ \/ CheckStop(t) \/ RunStage(t) \/ RunInline(t)
                           \/ StageThrows(t) \/ CatchException(t) \/ FinishTask(t)
  <2>1. tasks' = tasks /\ (item' = item \/ item' = [item EXCEPT ![t] = Noop])
    BY <1>6 DEF CheckStop, RunStage, RunInline, StageThrows, CatchException, FinishTask,
                poolVars, Throw, TakesEffect
  <2> QED
    BY <1>0, <1>1, <2>1
<1> QED
  BY <1>2, <1>3, <1>4, <1>5, <1>6 DEF Moves

\* A task is executed when it was in the hands of a worker.
LEMMA Outflow ==
  ASSUME Types, ControlOK, NEW t \in Threads, Moves(t)
  PROVE  \/ executed' = executed
         \/ /\ executed' = Append(executed, item[t]) /\ item[t] \in Tasks /\ t \in Stages
            /\ tasks' = tasks /\ item' = [item EXCEPT ![t] = Noop]
            /\ pc[t] \in {"run", "inline"}
<1>1. CASE CallStep(t)
  BY <1>1 DEF CallStep, ReadException, ClearException, Throttle, Spin, CountTask, PushTask,
              CheckActive, LockAndCheck, FallAsleep, StopPool, JoinWorker, historyVars
<1>2. CASE t \in Producers /\ (BeginEnqueue(t) \/ BeginJoin(t) \/ ThreadsRelease(t))
  BY <1>2 DEF BeginEnqueue, BeginJoin, ThreadsRelease, historyVars
<1>3. CASE /\ t \in Stages
           /\ \/ CheckStop(t) \/ PopTask(t) \/ StageThrows(t) \/ CatchException(t) \/ FinishTask(t)
  BY <1>3 DEF CheckStop, PopTask, StageThrows, CatchException, FinishTask, historyVars
<1>4. CASE t \in Stages /\ RunStage(t)
  <2>1. executed' = executed \/ (TakesEffect(t) /\ item[t] # Noop)
    BY <1>4 DEF RunStage, historyVars
  <2>2. item[t] # Noop => item[t] \in Tasks
    BY DEF Types
  <2> QED
    BY <1>4, <2>1, <2>2 DEF RunStage, poolVars, TakesEffect, At
<1>5. CASE t \in Stages /\ RunInline(t)
  <2>1. item[t] \in Tasks
    <3>1. pc[t] = "inline" /\ pc[t] \in CallLocations
      BY <1>5 DEF RunInline, At, CallLocations
    <3>2. plan[t][1].op = "inline" /\ 1 \in 1 .. Len(plan[t])
      BY <3>1, CurrentCall DEF Fits
    <3>3. item[t] # Noop
      BY <3>2 DEF ControlOK, ThreadOK
    <3> QED
      BY <3>3 DEF Types
  <2> QED
    BY <1>5, <2>1 DEF RunInline, poolVars, TakesEffect, At
<1> QED
  BY <1>1, <1>2, <1>3, <1>4, <1>5 DEF Moves

-----------------------------------------------------------------------------
(* The release, and the tasks that are not in the pipeline yet. *)

\* The program begins a call.
Begins(t) == t \in Producers /\ (BeginEnqueue(t) \/ BeginJoin(t) \/ ThreadsRelease(t))

\* What the other steps do to the history and the bounds.
LEMMA Frame ==
  ASSUME Types, NEW t \in Threads, Moves(t), ~Begins(t)
  PROVE  /\ UNCHANGED <<begun, joins, promised>>
         /\ submitted' = submitted \/ PushTask(t)
         /\ suspect' = suspect \/ suspect' = submitted
         /\ joined' = joined \/ (t \in Producers /\ joined' = joined \cup promised[t])
         /\ stop' = stop \/ StopPool(t)
         /\ pc[t] # "idle"
         /\ t \in Producers => item'[t] = item[t] \/ item'[t] = Noop
<1>0. (t \in Producers => t \notin Stages) /\ item \in [Threads -> Tasks \cup {Noop}]
  BY Distinct DEF Types
<1>1. CASE CallStep(t)
  <2>1. UNCHANGED <<begun, joins, promised>> /\ pc[t] # "idle"
    BY <1>1 DEF CallStep, ReadException, ClearException, Throttle, Spin, CountTask, PushTask,
                CheckActive, LockAndCheck, FallAsleep, StopPool, JoinWorker, At, historyVars,
                boundVars, Throw
  <2>2. submitted' = submitted \/ PushTask(t)
    BY <1>1 DEF CallStep, ReadException, ClearException, Throttle, Spin, CountTask,
                CheckActive, LockAndCheck, FallAsleep, JoinWorker, historyVars, StopPool
  <2>6. stop' = stop \/ StopPool(t)
    BY <1>1 DEF CallStep, ReadException, ClearException, Throttle, Spin, CountTask,
                CheckActive, LockAndCheck, FallAsleep, JoinWorker, poolVars, PushTask
  <2>3. suspect' = suspect \/ suspect' = submitted
    BY <1>1 DEF CallStep, ReadException, ClearException, Throttle, Spin, CountTask, PushTask,
                CheckActive, LockAndCheck, FallAsleep, StopPool, JoinWorker, historyVars, Throw
  <2>4. joined' = joined \/ (t \in Producers /\ joined' = joined \cup promised[t])
    BY <1>1 DEF CallStep, ReadException, ClearException, Throttle, Spin, CountTask, PushTask,
                CheckActive, LockAndCheck, FallAsleep, StopPool, JoinWorker, historyVars
  <2>5. item'[t] = item[t] \/ item'[t] = Noop
    BY <1>0, <1>1 DEF CallStep, ReadException, ClearException, Throttle, Spin, CountTask, PushTask,
                CheckActive, LockAndCheck, FallAsleep, StopPool, JoinWorker, Throw
  <2> QED
    BY <2>1, <2>2, <2>3, <2>4, <2>5, <2>6
<1>2. CASE t \in Stages /\ \/ CheckStop(t) \/ PopTask(t) \/ RunStage(t) \/ RunInline(t)
                           \/ StageThrows(t) \/ CatchException(t) \/ FinishTask(t)
  <2>1. /\ UNCHANGED <<begun, joins, promised, submitted, joined, stop>>
        /\ pc[t] # "idle" /\ (suspect' = suspect \/ suspect' = submitted)
    BY <1>2 DEF CheckStop, PopTask, RunStage, RunInline, StageThrows, CatchException, FinishTask,
                At, historyVars, boundVars, poolVars, Throw, TakesEffect
  <2> QED
    BY <1>0, <1>2, <2>1
<1> QED
  BY <1>1, <1>2 DEF Moves, Begins

\* A step of one thread keeps ReleaseOK.
LEMMA ReleaseStep ==
  ASSUME Types, ControlOK, Sleeping, NEW t \in Threads, Moves(t), ReleaseOK,
         \A u \in Threads : PlanOK(u)
  PROVE  ReleaseOK'
<1>0. /\ Only(t) /\ ControlOK' /\ {MaxTasks, MaxJoins} \subseteq Nat /\ joins \in Nat
      /\ \A p \in Producers : p \in Threads /\ p \notin Stages /\ begun[p] \in 0 .. MaxTasks
  BY MovesControl, Distinct DEF Types, ReleaseOK
<1>1. \A p \in Producers : pc[p] = "idle" => plan[p] = <<>>
  BY <1>0 DEF ControlOK, ThreadOK, CallLocations
<1>2. CASE BeginEnqueue(t) /\ t \in Producers
  <2>1. /\ begun[t] # MaxTasks /\ UNCHANGED <<joins, stop>> /\ ~Releases(t)'
    <3>1. begun[t] < MaxTasks /\ UNCHANGED <<joins, stop>>
      BY <1>2 DEF BeginEnqueue, poolVars
    <3>2. begun[t] # MaxTasks
      BY <1>0, <1>2, <3>1
    <3>3. ~ThreadsRelease(t)
      BY <1>2, <3>2 DEF ThreadsRelease
    <3> QED
      BY <1>2, <3>1, <3>2, <3>3, Begun
  <2>2. ~(joins > MaxJoins)
    BY <1>2, <2>1 DEF ReleaseOK
  <2>3. \A p \in Producers : Releases(p)' => Releases(p)
    BY <1>0, <2>1 DEF Only, Releases
  <2> QED
    BY <2>1, <2>2, <2>3 DEF ReleaseOK
<1>3. CASE BeginJoin(t) /\ t \in Producers
  <2>1. /\ joins < MaxJoins /\ joins' = joins + 1 /\ UNCHANGED <<begun, stop>> /\ ~Releases(t)'
    <3>1. /\ joins < MaxJoins /\ joins' = joins + 1 /\ UNCHANGED <<begun, stop>>
      BY <1>3 DEF BeginJoin, poolVars
    <3>2. ~ThreadsRelease(t)
      BY <1>0, <1>3, <3>1 DEF ThreadsRelease
    <3> QED
      BY <1>3, <3>1, <3>2, Begun
  <2>2. ~(joins > MaxJoins) /\ ~(joins' > MaxJoins) /\ joins' \in Nat
    BY <1>0, <2>1
  <2>3. \A p \in Producers : Releases(p)' => Releases(p)
    BY <1>0, <2>1 DEF Only, Releases
  <2> QED
    BY <2>1, <2>2, <2>3 DEF ReleaseOK
<1>4. CASE ThreadsRelease(t) /\ t \in Producers
  <2>1. /\ \A q \in Producers : pc[q] = "idle" /\ begun[q] = MaxTasks
        /\ joins = MaxJoins /\ joins' = joins + 1 /\ UNCHANGED <<begun, stop>>
    BY <1>4 DEF ThreadsRelease, poolVars, At
  <2>2. ~(joins > MaxJoins) /\ joins' > MaxJoins /\ joins' \in Nat
    BY <1>0, <2>1
  <2>3. \A q \in Producers : q # t => pc'[q] = "idle"
    BY <1>0, <2>1 DEF Only
  <2>4. \A s \in Stages : ~stop[s]
    BY <2>2 DEF ReleaseOK
  <2> QED
    BY <2>1, <2>2, <2>3, <2>4 DEF ReleaseOK
<1>5. CASE ~Begins(t)
  <2>1. UNCHANGED <<begun, joins>> /\ (stop' = stop \/ StopPool(t)) /\ pc[t] # "idle"
    BY <1>5, Frame
  <2>2. t \in Producers => /\ \/ plan'[t] = plan[t]
                              \/ plan[t] # <<>> /\ plan'[t] = Tail(plan[t])
                              \/ plan'[t] = <<>>
                           /\ pc[t] \in CallLocations
    BY <1>0, <1>5, PlanMoves DEF Begins
  <2>3. \A p \in Producers : Releases(p)' => Releases(p)
    <3>1. \A p \in Producers : p # t => (Releases(p)' => Releases(p))
      BY <1>0 DEF Only, Releases
    <3>2. plan'[t] = plan[t] => (Releases(t)' => Releases(t))
      BY DEF Releases
    <3> QED
      BY <2>2, <3>1, <3>2, TailOK, EmptyOK
  <2>4. \A p, q \in Producers : pc'[p] # "idle" /\ pc'[q] # "idle" => pc[p] # "idle" /\ pc[q] # "idle"
    BY <1>0, <2>1 DEF Only
  <2>5. ASSUME NEW p \in Producers, plan[p] # <<>> => Head(plan[p]).op = "release", plan'[p] # <<>>
        PROVE  Head(plan'[p]).op = "release"
    <3>1. CASE p # t
      BY <1>0, <2>5, <3>1 DEF Only
    <3>2. CASE p = t /\ plan[t] # <<>> /\ plan'[t] = Tail(plan[t])
      <4>1. PICK q, r : q = plan[t] /\ r = plan'[t]
        OBVIOUS
      <4>2. q \in Seq(AllCalls) /\ q # <<>> /\ r = Tail(q) /\ r # <<>>
        BY <2>5, <3>2, <4>1 DEF Types
      <4>3. /\ Len(q) \in Nat \ {0} /\ Len(r) = Len(q) - 1 /\ Head(q) = q[1]
            /\ \A i \in 1 .. Len(r) : r[i] = q[i + 1] /\ i + 1 \in 1 .. Len(q)
            /\ r \in Seq(AllCalls)
        BY <4>2, TailMembers
      <4>4. Len(r) \in Nat \ {0} /\ Head(r) = r[1]
        BY <4>2, <4>3, TailMembers
      <4>5. 1 \in 1 .. Len(q) - 1 /\ r[1] = q[1 + 1]
        BY <4>3, <4>4
      <4>6. Follows(q[1], q[1 + 1])
        BY <3>2, <4>1, <4>5, <2>5 DEF PlanOK
      <4>7. q[1].op = "release"
        BY <2>5, <3>2, <4>1, <4>3
      <4> QED
        BY <3>2, <4>1, <4>4, <4>5, <4>6, <4>7 DEF Follows
    <3> QED
      BY <2>2, <2>5, <3>1, <3>2
  <2>6. ASSUME StopPool(t)
        PROVE  /\ joins > MaxJoins
               /\ \A p \in Producers : plan[p] # <<>> => Head(plan[p]).op = "release"
    <3>1. /\ pc[t] = "stop" /\ pc[t] \in CallLocations
      BY <2>6 DEF StopPool, At, CallLocations
    <3>2. /\ Head(plan[t]).op = "release" /\ t \in Producers
          /\ 1 \in 1 .. Len(plan[t]) /\ Head(plan[t]) = plan[t][1]
      BY <3>1, CurrentCall, Constants DEF Fits, Calls
    <3>3. joins > MaxJoins
      BY <3>2 DEF ReleaseOK, Releases
    <3>4. \A p \in Producers : p # t => pc[p] = "idle"
      BY <2>1, <3>2, <3>3 DEF ReleaseOK
    <3> QED
      BY <1>1, <3>2, <3>3, <3>4
  <2>7. ASSUME NEW s \in Stages, stop'[s]
        PROVE  /\ joins > MaxJoins
               /\ \A p \in Producers : plan[p] # <<>> => Head(plan[p]).op = "release"
    BY <2>1, <2>6, <2>7 DEF ReleaseOK
  <2> QED
    BY <2>1, <2>3, <2>4, <2>5, <2>7 DEF ReleaseOK
<1> QED
  BY <1>2, <1>3, <1>4, <1>5 DEF Begins

\* A step of one thread keeps NewTasks.
LEMMA NewTasksStep ==
  ASSUME Types, ControlOK, Sleeping, NEW t \in Threads, Moves(t), NewTasks
  PROVE  NewTasks'
<1>0. /\ Only(t) /\ submitted \subseteq Tasks /\ Noop \notin Tasks
      /\ item \in [Threads -> Tasks \cup {Noop}]
      /\ \A p \in Producers : p \in Threads /\ p \notin Stages /\ begun[p] \in 0 .. MaxTasks
      /\ begun \in [Producers -> 0 .. MaxTasks] /\ MaxTasks \in Nat
  BY MovesControl, Distinct DEF Types
<1>1. /\ \A x \in submitted : x[1] \in Producers /\ x[2] \in Nat /\ x[2] <= begun[x[1]]
      /\ \A p \in Producers : item[p] # Noop => item[p] = <<p, begun[p]>> /\ item[p] \notin submitted
  BY <1>0 DEF NewTasks, Tasks
<1>2. /\ submitted \subseteq submitted'
      /\ submitted' = submitted \/ (PushTask(t) /\ submitted' = submitted \cup ({item[t]} \ {Noop}))
  <2>1. PushTask(t) => submitted' = submitted \cup ({item[t]} \ {Noop})
    BY DEF PushTask
  <2>2. Begins(t) => submitted' = submitted
    BY DEF Begins, BeginEnqueue, BeginJoin, ThreadsRelease, historyVars
  <2> QED
    BY <2>1, <2>2, Frame
<1>3. \A s \in Stages : \A x \in Tasks : Inside(x, s)' => x \in submitted'
  <2>1. PushTask(t) => submitted' = submitted \cup ({item[t]} \ {Noop})
    BY DEF PushTask
  <2> QED
    BY <1>0, <1>2, <2>1, Inflow DEF NewTasks
<1>4. Elements(executed)' \subseteq submitted'
  <2>1. CASE executed' = executed
    BY <1>2, <2>1 DEF NewTasks, Elements
  <2>2. CASE executed' = Append(executed, item[t]) /\ item[t] \in Tasks /\ t \in Stages
    <3>1. item[t] \in submitted
      BY <2>2 DEF NewTasks, Inside
    <3>2. executed \in Seq(Tasks)
      BY DEF Types
    <3>3. \A y : y \in Elements(executed') <=> y \in Elements(executed) \/ y = item[t]
      BY <2>2, <3>2, ElementsOf
    <3>4. \A y : y \in Elements(executed') => y \in submitted'
      BY <1>2, <3>1, <3>3 DEF NewTasks
    <3> QED
      BY <3>4 DEF Elements
  <2> QED
    BY <2>1, <2>2, Outflow
<1>5. suspect' \subseteq submitted' /\ joined' \subseteq submitted'
      /\ promised' \in [Producers -> SUBSET submitted']
  <2>1. CASE Begins(t)
    <3>1. /\ UNCHANGED <<suspect, joined>>
          /\ promised' = promised \/ promised' = [promised EXCEPT ![t] = submitted]
      BY <2>1 DEF Begins, BeginEnqueue, BeginJoin, ThreadsRelease, historyVars
    <3>2. promised' \in [Producers -> SUBSET submitted]
      BY <3>1 DEF NewTasks
    <3>3. submitted' = submitted
      BY <2>1 DEF Begins, BeginEnqueue, BeginJoin, ThreadsRelease, historyVars
    <3> QED
      BY <3>1, <3>2, <3>3 DEF NewTasks
  <2>2. CASE ~Begins(t)
    <3>1. promised' = promised /\ promised \in [Producers -> SUBSET submitted]
      BY <2>2, Frame DEF NewTasks
    <3>2. promised' \in [Producers -> SUBSET submitted']
      BY <1>2, <3>1
    <3> QED
      BY <1>2, <2>2, <3>1, <3>2, Frame DEF NewTasks
  <2> QED
    BY <2>1, <2>2
<1>6. /\ \A x \in submitted' : x[2] <= begun'[x[1]]
      /\ \A p \in Producers : item'[p] # Noop => item'[p] = <<p, begun'[p]>> /\ item'[p] \notin submitted'
  <2>1. CASE BeginEnqueue(t) /\ t \in Producers
    <3>1. /\ begun' = [begun EXCEPT ![t] = @ + 1] /\ item' = [item EXCEPT ![t] = <<t, begun'[t]>>]
          /\ submitted' = submitted
      BY <2>1 DEF BeginEnqueue, historyVars
    <3>2. /\ \A p \in Producers : begun'[p] = IF p = t THEN begun[p] + 1 ELSE begun[p]
          /\ \A p \in Producers : item'[p] = IF p = t THEN <<t, begun[t] + 1>> ELSE item[p]
      BY <1>0, <2>1, <3>1
    <3>3. <<t, begun[t] + 1>> \notin submitted
      <4>1. <<t, begun[t] + 1>>[1] = t /\ <<t, begun[t] + 1>>[2] = begun[t] + 1
        OBVIOUS
      <4> QED
        BY <1>0, <1>1, <2>1, <4>1
    <3>4. \A x \in submitted : x[2] <= begun'[x[1]]
      BY <1>0, <1>1, <3>2
    <3> QED
      BY <1>1, <2>1, <3>1, <3>2, <3>3, <3>4
  <2>2. CASE (BeginJoin(t) \/ ThreadsRelease(t)) /\ t \in Producers
    <3>1. UNCHANGED <<begun, item, submitted>>
      BY <2>2 DEF BeginJoin, ThreadsRelease
    <3> QED
      BY <1>1, <3>1
  <2>3. CASE ~Begins(t)
    <3>1. /\ begun' = begun
          /\ t \in Producers => item'[t] = item[t] \/ item'[t] = Noop
      BY <2>3, Frame
    <3>2. \A p \in Producers : item'[p] = item[p] \/ item'[p] = Noop
      BY <1>0, <3>1 DEF Only
    <3>3. CASE submitted' = submitted
      BY <1>1, <3>1, <3>2, <3>3
    <3>4. CASE PushTask(t) /\ submitted' = submitted \cup ({item[t]} \ {Noop}) /\ t \in Producers
      <4>1. item'[t] = Noop
        BY <1>0, <3>4 DEF PushTask
      <4>2. ASSUME NEW p \in Producers, item'[p] # Noop
            PROVE  item'[p] = <<p, begun'[p]>> /\ item'[p] \notin submitted'
        <5>1. p # t /\ item'[p] = item[p]
          BY <3>2, <4>1, <4>2
        <5>2. item[p] = <<p, begun[p]>> /\ item[p] \notin submitted
          BY <1>1, <4>2, <5>1
        <5>3. item[t] # Noop => item[p] # item[t]
          BY <1>1, <3>4, <5>1, <5>2
        <5> QED
          BY <3>1, <3>4, <5>1, <5>2, <5>3
      <4>3. item[t] # Noop => item[t][2] <= begun[item[t][1]]
        <5>1. <<t, begun[t]>>[1] = t /\ <<t, begun[t]>>[2] = begun[t] /\ begun[t] <= begun[t]
          BY <1>0, <3>4
        <5> QED
          BY <1>1, <3>4, <5>1
      <4> QED
        BY <1>1, <3>1, <3>4, <4>2, <4>3
    <3>5. CASE PushTask(t) /\ submitted' = submitted \cup ({item[t]} \ {Noop}) /\ t \in Stages
      <4>1. item[t] # Noop => item[t] \in submitted
        BY <1>0, <3>5 DEF NewTasks, Inside
      <4> QED
        BY <3>3, <3>5, <4>1
    <3> QED
      BY <1>2, <3>3, <3>4, <3>5, Constants
  <2> QED
    BY <2>1, <2>2, <2>3 DEF Begins
<1> QED
  BY <1>3, <1>4, <1>5, <1>6 DEF NewTasks

-----------------------------------------------------------------------------
(* Exceptions. *)

\* An exception that is pending stays so until it surfaces in the program.
LEMMA PendingStep ==
  ASSUME Types, NEW t \in Threads, Moves(t), HandsOK(t), ExceptionPending, ~ExceptionPending'
  PROVE  suspect' = submitted /\ UNCHANGED <<submitted, joined, executed>>
<1>0. /\ caught \in [Threads -> Tasks \cup {None}] /\ None \notin Tasks /\ Noop \notin Tasks
      /\ ex_ptr \in [Stages -> Tasks \cup {None}]
      /\ item \in [Threads -> Tasks \cup {Noop}]
      /\ t \in Stages => t \notin Producers
      /\ \A s \in Stages : s \in Threads
  BY Distinct DEF Types
<1>1. ~(ex_ptr' = ex_ptr /\ caught' = caught)
  BY DEF ExceptionPending
<1>2. \A u \in Threads : caught'[u] = None
  BY DEF ExceptionPending
<1>3. \A s \in Stages : ex_ptr'[s] = None
  BY DEF ExceptionPending
<1>4. CASE ReadException(t)
  <2>1. ex_ptr' = ex_ptr /\ (caught' = caught \/ caught' = [caught EXCEPT ![t] = ex_ptr[Pool(t)]])
        /\ (ex_ptr[Pool(t)] # None \/ caught' = caught)
    BY <1>4 DEF ReadException, poolVars
  <2>2. caught'[t] = ex_ptr[Pool(t)] /\ ex_ptr[Pool(t)] # None
    BY <1>0, <1>1, <2>1
  <2> QED
    BY <1>2, <2>2
<1>5. CASE ClearException(t)
  <2>1. /\ pc[t] = "clear" /\ Throw(t, caught[t])
        /\ UNCHANGED <<submitted, joined, executed>>
    BY <1>5 DEF ClearException, At
  <2>2. caught[t] # None
    BY <2>1 DEF HandsOK
  <2>3. caught'[t] = IF t \in Producers THEN None ELSE caught[t]
    BY <1>0, <2>1 DEF Throw
  <2>4. t \in Producers
    BY <1>2, <2>2, <2>3
  <2> QED
    BY <2>1, <2>4 DEF Throw
<1>6. CASE t \in Stages /\ StageThrows(t)
  <2>1. Throw(t, item[t]) /\ item[t] # Noop
    BY <1>6 DEF StageThrows
  <2>2. caught'[t] = item[t] /\ item[t] # None
    BY <1>0, <1>6, <2>1 DEF Throw
  <2> QED
    BY <1>2, <2>2
<1>7. CASE t \in Stages /\ CatchException(t)
  <2>1. pc[t] = "catch" /\ ex_ptr' = [ex_ptr EXCEPT ![t] = caught[t]]
    BY <1>7 DEF CatchException, At
  <2>2. ex_ptr'[t] = caught[t] /\ caught[t] # None
    BY <1>0, <1>7, <2>1 DEF HandsOK
  <2> QED
    BY <1>3, <1>7, <2>2
<1>8. CASE \/ Throttle(t) \/ Spin(t) \/ CountTask(t) \/ PushTask(t)
           \/ CheckActive(t) \/ LockAndCheck(t) \/ FallAsleep(t)
           \/ StopPool(t) \/ JoinWorker(t)
           \/ BeginEnqueue(t) \/ BeginJoin(t) \/ ThreadsRelease(t)
  <2>1. ex_ptr' = ex_ptr /\ caught' = caught
    BY <1>8 DEF Throttle, Spin, CountTask, PushTask, CheckActive, LockAndCheck, FallAsleep,
                StopPool, JoinWorker, BeginEnqueue, BeginJoin, ThreadsRelease, poolVars
  <2> QED
    BY <1>1, <2>1
<1>9. CASE CheckStop(t) \/ PopTask(t) \/ RunStage(t) \/ RunInline(t) \/ FinishTask(t)
  <2>1. ex_ptr' = ex_ptr /\ caught' = caught
    BY <1>9 DEF CheckStop, PopTask, RunStage, RunInline, FinishTask, poolVars
  <2> QED
    BY <1>1, <2>1
<1> QED
  BY <1>4, <1>5, <1>6, <1>7, <1>8, <1>9 DEF Moves, CallStep

\* A task goes from the hands of a thread, if no exception arises, into the
\* queue of the next stage, or takes effect.
LEMMA HandedOn ==
  ASSUME Types, ControlOK, NEW t \in Stages, Moves(t), HandsOK(t), ~ExceptionPending',
         NEW x \in Tasks, item[t] = x, item'[t] # x
  PROVE  Kept(x)'
<1>0. /\ t \in Threads /\ t \notin Producers /\ None \notin Tasks /\ Noop \notin Tasks
      /\ caught \in [Threads -> Tasks \cup {None}]
      /\ item \in [Threads -> Tasks \cup {Noop}]
  BY Distinct DEF Types
<1>1. caught'[t] = None
  BY <1>0 DEF ExceptionPending
<1>2. CASE PushTask(t)
  <2>1. pc[t] \in CallLocations
    BY <1>2 DEF PushTask, At, CallLocations
  <2>2. Pool(t) \in Stages
    BY <1>0, <2>1, CurrentCall
  <2>3. tasks' = [tasks EXCEPT ![Pool(t)] = Append(@, item[t])]
    BY <1>2 DEF PushTask, PushBack
  <2>4. PICK s \in Stages : s = Pool(t)
    BY <2>2
  <2>5. tasks'[s] = Append(tasks[s], item[t]) /\ tasks[s] \in Seq(Tasks \cup {Noop})
    BY <2>3, <2>4 DEF Types
  <2>6. x \in Elements(tasks'[s])
    BY <2>5, ElementsOf
  <2> QED
    BY <2>6 DEF Kept, Inside, Elements
<1>3. CASE executed' = Append(executed, item[t])
  <2>1. executed \in Seq(Tasks)
    BY DEF Types
  <2>2. x \in Elements(executed')
    BY <1>3, <2>1, ElementsOf
  <2> QED
    BY <2>2 DEF Kept, Elements
<1>4. CASE ClearException(t) \/ StageThrows(t)
  <2>1. \E e : e # None /\ Throw(t, e)
    BY <1>0, <1>4 DEF ClearException, StageThrows, HandsOK, At
  <2>2. caught'[t] # None
    BY <1>0, <2>1 DEF Throw
  <2> QED
    BY <1>1, <2>2
<1>5. CASE PopTask(t)
  BY <1>0, <1>5 DEF PopTask, At, HandsOK
<1>6. CASE RunStage(t) \/ RunInline(t)
  <2>1. executed' = Append(executed, item[t]) \/ item' = item
    BY <1>6 DEF RunStage, RunInline, TakesEffect
  <2> QED
    BY <1>3, <2>1
<1>7. CASE \/ ReadException(t) \/ Throttle(t) \/ Spin(t) \/ CountTask(t)
           \/ CheckActive(t) \/ LockAndCheck(t) \/ FallAsleep(t)
           \/ StopPool(t) \/ JoinWorker(t)
           \/ CheckStop(t) \/ CatchException(t) \/ FinishTask(t)
  <2>1. item' = item
    BY <1>7 DEF ReadException, Throttle, Spin, CountTask, CheckActive, LockAndCheck, FallAsleep,
                StopPool, JoinWorker, CheckStop, CatchException, FinishTask
  <2> QED
    BY <2>1
<1> QED
  BY <1>0, <1>2, <1>4, <1>5, <1>6, <1>7 DEF Moves, CallStep

\* Without an exception a task stays in the pipeline until it is executed.
LEMMA KeptStep ==
  ASSUME Types, ControlOK, Sleeping, NEW t \in Threads, Moves(t), \A u \in Threads : HandsOK(u),
         ~ExceptionPending', NEW x \in Tasks, Kept(x)
  PROVE  Kept(x)'
<1>0. /\ Only(t) /\ Noop \notin Tasks
      /\ \A s \in Stages : s \in Threads /\ s \notin Producers
      /\ tasks \in [Stages -> Seq(Tasks \cup {Noop})] /\ executed \in Seq(Tasks)
      /\ item \in [Threads -> Tasks \cup {Noop}]
  BY MovesControl, Distinct DEF Types
<1>1. CASE x \in Elements(executed)
  <2>1. executed' = executed \/ (executed' = Append(executed, item[t]) /\ item[t] \in Tasks)
    BY Outflow
  <2>2. item[t] \in Tasks => x \in Elements(Append(executed, item[t]))
    BY <1>0, <1>1, ElementsOf
  <2>3. x \in Elements(executed')
    BY <1>1, <2>1, <2>2
  <2> QED
    BY <2>3 DEF Kept, Elements
<1>2. ASSUME NEW s \in Stages, item[s] = x
      PROVE  Kept(x)'
  <2>1. CASE item'[s] = x
    BY <2>1 DEF Kept, Inside
  <2>2. CASE item'[s] # x
    <3>1. s = t
      BY <1>0, <1>2, <2>2 DEF Only
    <3> QED
      BY <1>2, <2>2, <3>1, HandedOn
  <2> QED
    BY <2>1, <2>2
<1>3. ASSUME NEW s \in Stages, x \in Elements(tasks[s])
      PROVE  Kept(x)'
  <2>1. CASE tasks'[s] = tasks[s]
    BY <1>3, <2>1 DEF Kept, Inside, Elements
  <2>2. CASE PushTask(t) /\ tasks'[s] # tasks[s]
    <3>1. tasks' = [tasks EXCEPT ![Pool(t)] = Append(@, item[t])] /\ s = Pool(t)
      BY <1>0, <2>2 DEF PushTask, PushBack
    <3>2. tasks'[s] = Append(tasks[s], item[t]) /\ item[t] \in Tasks \cup {Noop}
      BY <1>0, <3>1
    <3>3. x \in Elements(tasks'[s])
      BY <1>0, <1>3, <3>2, ElementsOf
    <3> QED
      BY <3>3 DEF Kept, Inside, Elements
  <2>3. CASE t \in Stages /\ PopTask(t) /\ tasks'[s] # tasks[s]
    <3>1. /\ tasks' = [tasks EXCEPT ![t] = Tail(@)] /\ item' = [item EXCEPT ![t] = Head(tasks[t])]
          /\ tasks[t] # <<>> /\ s = t
      BY <1>0, <2>3 DEF PopTask
    <3>2. tasks'[s] = Tail(tasks[s]) /\ item'[s] = Head(tasks[s]) /\ tasks[s] # <<>>
      BY <1>0, <3>1
    <3>3. /\ x = Head(tasks[s]) \/ x \in Elements(Tail(tasks[s]))
      <4>1. Noop \in Tasks \cup {Noop} /\ tasks[s] \in Seq(Tasks \cup {Noop})
        BY <1>0
      <4> QED
        BY <1>3, <3>2, <4>1, ElementsOf
    <3>4. x = item'[s] \/ x \in Elements(tasks'[s])
      BY <3>2, <3>3
    <3> QED
      BY <3>4 DEF Kept, Inside, Elements
  <2>4. PushTask(t) \/ (t \in Stages /\ PopTask(t)) \/ tasks' = tasks
    <3>1. CASE CallStep(t)
      BY <3>1 DEF CallStep, ReadException, ClearException, Throttle, Spin, CountTask,
                  CheckActive, LockAndCheck, FallAsleep, StopPool, JoinWorker, poolVars
    <3>2. CASE t \in Producers /\ (BeginEnqueue(t) \/ BeginJoin(t) \/ ThreadsRelease(t))
      BY <3>2 DEF BeginEnqueue, BeginJoin, ThreadsRelease, poolVars
    <3>3. CASE t \in Stages /\ \/ CheckStop(t) \/ RunStage(t) \/ RunInline(t)
                               \/ StageThrows(t) \/ CatchException(t) \/ FinishTask(t)
      BY <3>3 DEF CheckStop, RunStage, RunInline, StageThrows, CatchException, FinishTask, poolVars
    <3> QED
      BY <3>1, <3>2, <3>3 DEF Moves
  <2> QED
    BY <2>1, <2>2, <2>3, <2>4
<1> QED
  BY <1>1, <1>2, <1>3 DEF Kept, Inside

\* A step of one thread keeps Accounted.
LEMMA AccountedStep ==
  ASSUME Types, ControlOK, Sleeping, NEW t \in Threads, Moves(t), NewTasks, Accounted,
         \A u \in Threads : HandsOK(u)
  PROVE  Accounted'
<1> SUFFICES ASSUME ~ExceptionPending', NEW x \in submitted', x \notin suspect'
             PROVE  Kept(x)'
  BY DEF Accounted
<1>0. Noop \notin Tasks /\ submitted \subseteq Tasks /\ item \in [Threads -> Tasks \cup {Noop}]
  BY Distinct DEF Types
<1>1. CASE ExceptionPending
  <2>1. suspect' = submitted /\ submitted' = submitted
    BY <1>1, PendingStep
  <2> QED
    BY <2>1
<1>2. CASE ~ExceptionPending /\ x \in submitted
  <2>1. suspect' = suspect \/ suspect' = submitted
    <3>1. Begins(t) => suspect' = suspect
      BY DEF Begins, BeginEnqueue, BeginJoin, ThreadsRelease, historyVars
    <3> QED
      BY <3>1, Frame
  <2>2. Kept(x)
    BY <1>2, <2>1 DEF Accounted
  <2> QED
    BY <1>0, <1>2, <2>2, KeptStep
<1>3. CASE x \notin submitted
  <2>1. PushTask(t)
    <3>1. Begins(t) => submitted' = submitted
      BY DEF Begins, BeginEnqueue, BeginJoin, ThreadsRelease, historyVars
    <3> QED
      BY <1>3, <3>1, Frame
  <2>2. x = item[t] /\ x \in Tasks
    BY <1>0, <1>3, <2>1 DEF PushTask
  <2>3. tasks' = [tasks EXCEPT ![Pool(t)] = Append(@, item[t])] /\ pc[t] \in CallLocations
    BY <2>1 DEF PushTask, PushBack, At, CallLocations
  <2>4. PICK s \in Stages : s = Pool(t)
    BY <2>3, CurrentCall
  <2>5. tasks'[s] = Append(tasks[s], x) /\ tasks[s] \in Seq(Tasks \cup {Noop})
    BY <2>2, <2>3, <2>4 DEF Types
  <2>6. x \in Elements(tasks'[s])
    BY <2>2, <2>5, ElementsOf
  <2> QED
    BY <2>6 DEF Kept, Inside, Elements
<1> QED
  BY <1>1, <1>2, <1>3

-----------------------------------------------------------------------------
(* Waiting for the pools. *)

\* A pool that counts no task holds none.
LEMMA IdleEmpty ==
  ASSUME Types, TasksCounted, NEW s \in Stages, HandsOK(s), active_task_count[s] = 0, NEW x \in Tasks
  PROVE  ~Inside(x, s)
<1>1. tasks[s] \in Seq(Tasks \cup {Noop}) /\ Len(tasks[s]) \in Nat /\ x # Noop
  BY Distinct DEF Types
<1>2. Cardinality(In("push", s)) \in Nat /\ Busy(s) \in Nat
  BY InFinite DEF Busy
<1>3. active_task_count[s] = Len(tasks[s]) + Cardinality(In("push", s)) + Busy(s)
  BY DEF TasksCounted
<1>4. Len(tasks[s]) = 0 /\ Busy(s) = 0
  BY <1>1, <1>2, <1>3
<1>5. item[s] = Noop
  BY <1>4 DEF Busy, HandsOK
<1>6. DOMAIN tasks[s] = {}
  BY <1>1, <1>4
<1>7. Elements(tasks[s]) = {}
  BY <1>6 DEF Elements
<1> QED
  BY <1>1, <1>5, <1>7 DEF Inside

\* A wait comes only after that for the pool before.
LEMMA NextWait ==
  ASSUME Types, NEW t \in Threads, t \in Producers, PlanOK(t), plan[t] # <<>>,
         plan'[t] = Tail(plan[t]), plan'[t] # <<>>, Head(plan'[t]).op = "wait"
  PROVE  Head(plan[t]).op = "wait" /\ Pool(t)' = Pool(t) + 1
<1>1. PICK q, r : q = plan[t] /\ r = plan'[t]
  OBVIOUS
<1>2. /\ Len(q) \in Nat \ {0} /\ Len(r) = Len(q) - 1 /\ Head(q) = q[1]
      /\ \A i \in 1 .. Len(r) : r[i] = q[i + 1] /\ i + 1 \in 1 .. Len(q)
      /\ r \in Seq(AllCalls)
  <2>1. q \in Seq(AllCalls) /\ q # <<>> /\ r = Tail(q)
    BY <1>1 DEF Types
  <2> QED
    BY <2>1, TailMembers
<1>3. Len(r) \in Nat \ {0} /\ Head(r) = r[1]
  BY <1>1, <1>2, TailMembers
<1>4. 1 \in 1 .. Len(q) - 1 /\ r[1] = q[1 + 1]
  BY <1>2, <1>3
<1>5. Follows(q[1], q[1 + 1])
  BY <1>1, <1>4 DEF PlanOK
<1>6. r[1].op = "wait"
  BY <1>1, <1>3
<1>7. q[1].op = "wait" /\ r[1].pool = q[1].pool + 1
  BY <1>4, <1>5, <1>6 DEF Follows
<1>8. Head(plan[t]) = q[1] /\ Head(plan'[t]) = r[1]
  BY <1>1, <1>2, <1>3
<1> QED
  BY <1>7, <1>8 DEF Pool

\* While a producer waits for a pool, the pool is not stopped.
LEMMA NotStopped ==
  ASSUME ReleaseOK, NEW t \in Producers, plan[t] # <<>>, Head(plan[t]).op = "wait", NEW s \in Stages
  PROVE  ~stop[s]
BY DEF ReleaseOK

\* A join passes a pool when the pool is idle.
LEMMA PassedFrom ==
  ASSUME Types, ControlOK, Sleeping, NEW t \in Threads, Moves(t), ReleaseOK, PlanOK(t), NewTasks,
         NEW p \in Producers, NEW s \in Stages, Passed(p, s)'
  PROVE  \/ Passed(p, s) /\ promised'[p] = promised[p]
         \/ active_task_count[s] = 0 /\ UNCHANGED <<tasks, item, promised>>
<1>0. /\ Only(t) /\ p \in Threads /\ p \notin Stages /\ Stages = 1 .. 3
      /\ pc \in [Threads -> Locations]
  BY MovesControl, Distinct DEF Stages, Types
<1>1. CASE p # t
  <2>1. Passed(p, s)
    BY <1>0, <1>1 DEF Passed, Only, Pool
  <2>2. promised'[p] = promised[p]
    <3>1. CASE Begins(t)
      <4>1. promised' = promised \/ promised' = [promised EXCEPT ![t] = submitted]
        BY <3>1 DEF Begins, BeginEnqueue, BeginJoin, ThreadsRelease, historyVars
      <4> QED
        BY <1>1, <4>1 DEF NewTasks
    <3>2. CASE ~Begins(t)
      BY <3>2, Frame
    <3> QED
      BY <3>1, <3>2
  <2> QED
    BY <2>1, <2>2
<1>2. CASE p = t /\ Begins(t)
  <2>1. Pool(p)' = 1 /\ pc'[p] = "rethrow"
    BY <1>2, Begun DEF Begins, Lowering
  <2> QED
    BY <1>0, <2>1 DEF Passed
<1>3. CASE p = t /\ ~Begins(t)
  <2>1. promised' = promised /\ CallStep(t) /\ pc[t] \in CallLocations
    BY <1>0, <1>3, Frame, PlanMoves DEF Begins
  <2>2. /\ plan[t] # <<>> /\ Fits(Head(plan[t]), pc[t], stop) /\ Pool(t) \in 1 .. 3
    BY <1>0, <2>1, CurrentCall
  <2>3. ASSUME plan' = plan, pc'[t] # "recheck"
        PROVE  Passed(p, s)
    BY <1>3, <2>3 DEF Passed, Pool
  <2>4. ASSUME Return(t)
        PROVE  Head(plan[t]).op = "wait" /\ (s < Pool(t) \/ s = Pool(t))
    <3>1. /\ plan'[t] = Tail(plan[t]) /\ pc'[t] # "recheck"
      BY <2>1, <2>4, ReturnTo
    <3>2. plan'[t] # <<>> /\ Head(plan'[t]).op = "wait" /\ s < Pool(t)'
      BY <1>3, <3>1 DEF Passed
    <3>3. Head(plan[t]).op = "wait" /\ Pool(t)' = Pool(t) + 1
      BY <1>3, <2>2, <3>1, <3>2, NextWait
    <3> QED
      BY <1>0, <2>2, <3>2, <3>3
  <2>5. CASE ReadException(t)
    <3>1. CASE Return(t) /\ At(t, "recheck")
      BY <1>3, <2>1, <2>2, <2>4, <3>1 DEF Passed, At
    <3>2. CASE \E loc \in {"clear", "throttle", "check"} : Goto(t, loc)
      <4>1. plan' = plan /\ pc'[t] # "recheck"
        BY <1>0, <3>2 DEF Goto
      <4> QED
        BY <1>3, <2>1, <2>3, <4>1
    <3> QED
      BY <2>5, <3>1, <3>2 DEF ReadException
  <2>6. CASE CheckActive(t)
    <3>1. CASE Return(t)
      <4>1. active_task_count[Pool(t)] = 0 \/ stop[Pool(t)] \/ Goto(t, "lock")
        BY <2>6 DEF CheckActive
      <4>2. ~stop[Pool(t)]
        BY <1>0, <1>3, <2>2, <2>4, <3>1, NotStopped
      <4>3. ~Goto(t, "lock")
        <5>1. pc'[t] # "lock"
          BY <2>1, <3>1, ReturnTo
        <5> QED
          BY <1>0, <5>1 DEF Goto
      <4>4. UNCHANGED <<tasks, item, promised>>
        BY <2>6 DEF CheckActive, poolVars
      <4>5. s = Pool(t) \/ Passed(p, s)
        BY <1>3, <2>2, <2>4, <3>1 DEF Passed
      <4> QED
        BY <1>3, <2>1, <4>1, <4>2, <4>3, <4>4, <4>5
    <3>2. CASE Goto(t, "lock")
      <4>1. plan' = plan /\ pc'[t] # "recheck"
        BY <1>0, <3>2 DEF Goto
      <4> QED
        BY <1>3, <2>1, <2>3, <4>1
    <3> QED
      BY <2>6, <3>1, <3>2 DEF CheckActive
  <2>7. CASE LockAndCheck(t)
    <3>1. /\ plan' = plan /\ UNCHANGED <<tasks, item, promised>>
          /\ active_task_count[Pool(t)] = 0 \/ pc'[t] # "recheck"
      BY <1>0, <2>7 DEF LockAndCheck, Goto, historyVars
    <3>2. pc'[t] = "recheck" => Passed(p, s) \/ s = Pool(t)
      BY <1>3, <3>1 DEF Passed, Pool
    <3> QED
      BY <1>3, <2>1, <2>3, <3>1, <3>2
  <2>8. CASE Throttle(t) \/ Spin(t) \/ CountTask(t) \/ FallAsleep(t) \/ StopPool(t)
    <3>1. \E loc \in {"spin", "count", "push", "asleep"} : Goto(t, loc)
      BY <2>8 DEF Throttle, Spin, CountTask, FallAsleep, StopPool
    <3>2. plan' = plan /\ pc'[t] # "recheck"
      BY <1>0, <3>1 DEF Goto
    <3> QED
      BY <1>3, <2>1, <2>3, <3>2
  <2>9. CASE PushTask(t) \/ JoinWorker(t)
    <3>1. Head(plan[t]).op # "wait"
      BY <2>2, <2>9 DEF PushTask, JoinWorker, At, Fits
    <3>2. ~Return(t)
      BY <2>4, <3>1
    <3>3. Goto(t, "join")
      BY <2>9, <3>2 DEF PushTask, JoinWorker
    <3>4. plan' = plan /\ pc'[t] # "recheck"
      BY <1>0, <3>3 DEF Goto
    <3> QED
      BY <1>3, <2>1, <2>3, <3>4
  <2>10. CASE ClearException(t)
    <3>1. plan'[t] = <<>>
      BY <2>10 DEF ClearException, Throw, Types
    <3> QED
      BY <1>3, <3>1 DEF Passed
  <2> QED
    BY <2>1, <2>5, <2>6, <2>7, <2>8, <2>9, <2>10 DEF CallStep
<1> QED
  BY <1>1, <1>2, <1>3

\* A step of one thread keeps PassedOK: a task in a pool that a join has passed
\* would have come from the pool before, or from a producer.
LEMMA PassedStep ==
  ASSUME Types, ControlOK, Sleeping, TasksCounted, NEW t \in Threads, Moves(t), ReleaseOK, NewTasks,
         PassedOK, \A u \in Threads : PlanOK(u) /\ HandsOK(u)
  PROVE  PassedOK'
<1> SUFFICES ASSUME NEW p \in Producers, NEW s \in Stages, Passed(p, s)', NEW x \in promised'[p],
                    Inside(x, s)'
             PROVE  FALSE
  BY DEF PassedOK
<1>0. Noop \notin Tasks /\ Stages = 1 .. 3 /\ p \in Threads /\ s \in Threads
  BY Distinct DEF Stages
<1>1. promised[p] \subseteq submitted /\ submitted \subseteq Tasks
  BY DEF NewTasks, Types
<1>2. CASE Passed(p, s) /\ promised'[p] = promised[p]
  <2>1. x \in submitted /\ x \in Tasks /\ ~Inside(x, s)
    BY <1>1, <1>2 DEF PassedOK
  <2>2. PushTask(t) /\ x = item[t] /\ s = Pool(t)
    BY <2>1, Inflow
  <2>3. t \in Stages
    BY <1>0, <2>1, <2>2, Constants DEF NewTasks
  <2>4. s = t + 1
    <3>1. pc[t] = "push" /\ pc[t] \in CallLocations
      BY <2>2 DEF PushTask, At, CallLocations
    <3>2. Head(plan[t]) \in Calls(t) /\ Head(plan[t]).op \in {"enqueue", "release"}
      BY <3>1, CurrentCall DEF Fits
    <3> QED
      BY <2>2, <2>3, <3>2, Distinct DEF Calls, Pool
  <2>5. Passed(p, t)
    <3>1. plan[p] # <<>> /\ Head(plan[p]).op = "wait" /\ (s < Pool(p) \/ s = Pool(p))
      BY <1>2 DEF Passed
    <3>2. pc[p] \in CallLocations
      BY <1>0, <3>1 DEF ControlOK, ThreadOK
    <3>3. Pool(p) \in 1 .. 3
      BY <1>0, <3>2, CurrentCall
    <3>4. t < Pool(p)
      BY <1>0, <2>3, <2>4, <3>1, <3>3
    <3> QED
      BY <3>1, <3>4 DEF Passed
  <2>6. Inside(x, t)
    BY <2>2, <2>3 DEF Inside
  <2> QED
    BY <1>2, <2>3, <2>5, <2>6 DEF PassedOK
<1>3. CASE active_task_count[s] = 0 /\ UNCHANGED <<tasks, item, promised>>
  <2>1. x \in Tasks /\ Inside(x, s)
    BY <1>1, <1>3 DEF Inside, Elements
  <2> QED
    BY <1>0, <1>3, <2>1, IdleEmpty
<1> QED
  BY <1>2, <1>3, PassedFrom

\* When the wait for the last pool is over, nothing that was promised to the join
\* is in a pool.
LEMMA LastWait ==
  ASSUME Types, TasksCounted, NEW t \in Producers, ReleaseOK, NewTasks, PassedOK,
         \A u \in Threads : HandsOK(u),
         plan[t] # <<>>, Head(plan[t]).op = "wait", Pool(t) = Execute,
         \/ pc[t] = "recheck"
         \/ active_task_count[Execute] = 0 \/ stop[Execute]
  PROVE  \A x \in promised[t] : \A s \in Stages : ~Inside(x, s)
<1> SUFFICES ASSUME NEW x \in promised[t], NEW s \in Stages PROVE ~Inside(x, s)
  OBVIOUS
<1>0. /\ Stages = 1 .. 3 /\ Execute = 3 /\ s \in Threads
  BY Distinct DEF Stages, Execute
<1>1. ~stop[Execute]
  BY <1>0, NotStopped
<1>2. x \in Tasks
  BY DEF NewTasks, Types
<1>3. CASE Passed(t, s)
  BY <1>3 DEF PassedOK
<1>4. CASE ~Passed(t, s)
  <2>1. s = Execute /\ active_task_count[s] = 0
    BY <1>0, <1>1, <1>4 DEF Passed
  <2> QED
    BY <1>0, <1>2, <2>1, IdleEmpty
<1> QED
  BY <1>3, <1>4

\* A join ends when nothing that was promised to it is in a pool.
LEMMA JoinEnds ==
  ASSUME Types, ControlOK, TasksCounted, NEW t \in Threads, Moves(t), ReleaseOK, NewTasks, PassedOK,
         \A u \in Threads : HandsOK(u), joined' # joined
  PROVE  /\ t \in Producers /\ joined' = joined \cup promised[t] /\ executed' = executed
         /\ \A x \in promised[t] : \A s \in Stages : ~Inside(x, s)
<1>1. /\ t \in Producers /\ joined' = joined \cup promised[t]
  <2>1. Begins(t) => joined' = joined
    BY DEF Begins, BeginEnqueue, BeginJoin, ThreadsRelease, historyVars
  <2> QED
    BY <2>1, Frame
<1>2. t \notin Stages /\ ~Begins(t)
  BY <1>1, Distinct DEF Begins, BeginEnqueue, BeginJoin, ThreadsRelease, historyVars
<1>3. /\ executed' = executed /\ Pool(t) = Execute
      /\ \/ pc[t] = "recheck"
         \/ pc[t] = "check" /\ (active_task_count[Execute] = 0 \/ stop[Execute])
  <2>1. CASE ReadException(t)
    BY <2>1 DEF ReadException, At
  <2>2. CASE CheckActive(t)
    BY <2>2 DEF CheckActive, At
  <2>3. CASE \/ ClearException(t) \/ Throttle(t) \/ Spin(t) \/ CountTask(t) \/ PushTask(t)
             \/ LockAndCheck(t) \/ FallAsleep(t) \/ StopPool(t) \/ JoinWorker(t)
    <3>1. joined' = joined
      BY <2>3 DEF ClearException, Throttle, Spin, CountTask, PushTask, LockAndCheck, FallAsleep,
                  StopPool, JoinWorker, historyVars
    <3> QED
      BY <3>1
  <2> QED
    BY <1>1, <1>2, <2>1, <2>2, <2>3 DEF Moves, CallStep, Begins
<1>4. plan[t] # <<>> /\ Head(plan[t]).op = "wait"
  <2>1. pc[t] \in CallLocations
    BY <1>3 DEF CallLocations
  <2> QED
    BY <1>3, <2>1, CurrentCall DEF Fits
<1> QED
  BY <1>1, <1>3, <1>4, LastWait

\* A step of one thread keeps JoinSound.
LEMMA SoundStep ==
  ASSUME Types, ControlOK, TasksCounted, NEW t \in Threads, Moves(t), ReleaseOK, NewTasks, PassedOK,
         Accounted, JoinSound, \A u \in Threads : HandsOK(u)
  PROVE  JoinSound'
<1> SUFFICES ASSUME ~ExceptionPending', NEW x \in joined', x \notin suspect'
             PROVE  x \in Elements(executed')
  BY DEF JoinSound, Elements
<1>1. CASE ExceptionPending
  <2>1. suspect' = submitted /\ joined' = joined
    BY <1>1, PendingStep
  <2> QED
    BY <2>1 DEF NewTasks
<1>2. CASE ~ExceptionPending
  <2>1. suspect' = suspect \/ suspect' = submitted
    <3>1. Begins(t) => suspect' = suspect
      BY DEF Begins, BeginEnqueue, BeginJoin, ThreadsRelease, historyVars
    <3> QED
      BY <3>1, Frame
  <2>2. CASE x \in joined
    <3>1. x \in submitted /\ x \in Elements(executed)
      BY <1>2, <2>1, <2>2 DEF NewTasks, JoinSound
    <3>2. executed \in Seq(Tasks)
      BY DEF Types
    <3>3. item[t] \in Tasks => x \in Elements(Append(executed, item[t]))
      BY <3>1, <3>2, ElementsOf
    <3> QED
      BY <3>1, <3>3, Outflow
  <2>3. CASE x \notin joined
    <3>1. /\ t \in Producers /\ x \in promised[t] /\ executed' = executed
          /\ \A s \in Stages : ~Inside(x, s)
      BY <2>3, JoinEnds
    <3>2. x \in submitted
      BY <3>1 DEF NewTasks
    <3>3. Kept(x)
      BY <1>2, <2>1, <3>2 DEF Accounted, NewTasks
    <3> QED
      BY <3>1, <3>3 DEF Kept
  <2> QED
    BY <2>2, <2>3
<1> QED
  BY <1>1, <1>2

-----------------------------------------------------------------------------
(* The invariant, and the theorem. *)

LEMMA JoinInitially == Init => JoinInv
<1> SUFFICES ASSUME Init PROVE JoinInv
  OBVIOUS
<1>1. /\ \A t \in Threads : /\ plan[t] = <<>> /\ Len(plan[t]) = 0 /\ item[t] = Noop
                            /\ pc[t] \in {"idle", "loop"}
      /\ \A p \in Producers : pc[p] = "idle"
      /\ \A s \in Stages : tasks[s] = <<>> /\ ~stop[s]
  BY Distinct, EmptySeq DEF Init
<1>2. /\ submitted = {} /\ executed = <<>> /\ suspect = {} /\ joined = {} /\ joins = 0
      /\ promised = [p \in Producers |-> {}]
  BY DEF Init
<1>3. ASSUME NEW t \in Threads PROVE PlanOK(t) /\ HandsOK(t)
  BY <1>1 DEF PlanOK, HandsOK
<1>4. ReleaseOK
  <2>1. ~(joins > MaxJoins) /\ joins \in Nat
    BY <1>2, Distinct
  <2> QED
    BY <1>1, <2>1, Distinct DEF ReleaseOK, Releases
<1>5. \A x \in Tasks : \A s \in Stages : ~Inside(x, s)
  BY <1>1, Distinct DEF Inside, Elements
<1>6. Elements(executed) = {}
  BY <1>2 DEF Elements
<1>7. NewTasks
  BY <1>1, <1>2, <1>5, <1>6, Distinct DEF NewTasks
<1>8. PassedOK /\ Accounted /\ JoinSound
  BY <1>1, <1>2, Distinct DEF PassedOK, Passed, Accounted, JoinSound
<1> QED
  BY <1>3, <1>4, <1>7, <1>8 DEF JoinInv

\* A worker that wakes the waiters changes nothing the invariant is about.
LEMMA NotifyKeeps ==
  ASSUME Types, ControlOK, NEW w \in Stages, NotifyAll(w), JoinInv
  PROVE  JoinInv'
<1>1. /\ UNCHANGED <<plan, tasks, ex_ptr, stop, item, caught, historyVars, boundVars>>
      /\ \A u \in Threads : pc'[u] = IF u = w THEN "loop"
                                     ELSE IF u \in asleep[w] THEN "lock" ELSE pc[u]
      /\ pc[w] = "notify" /\ w \in Threads /\ w \notin Producers
  BY Distinct DEF NotifyAll, Wake, At
<1>2. \A u \in asleep[w] : pc[u] = "asleep"
  BY DEF ControlOK
<1>3. UNCHANGED <<submitted, executed, suspect, promised, joined, begun, joins>>
  BY <1>1 DEF historyVars, boundVars
<1>4. ASSUME NEW u \in Threads PROVE PlanOK(u)' /\ HandsOK(u)'
  <2>1. PlanOK(u) /\ HandsOK(u)
    BY DEF JoinInv
  <2>2. /\ pc'[u] \in {"clear", "catch"} => pc[u] \in {"clear", "catch"}
        /\ pc'[u] \in {"loop", "pop", "notify", "exit", "dec", "catch"} =>
             pc[u] \in {"loop", "pop", "notify", "exit", "dec", "catch"}
    BY <1>1
  <2> QED
    BY <1>1, <2>1, <2>2 DEF PlanOK, HandsOK
<1>5. ReleaseOK'
  <2>1. \A p \in Producers : pc'[p] # "idle" => pc[p] # "idle"
    BY <1>1, <1>2, Distinct
  <2> QED
    BY <1>1, <1>3, <2>1 DEF JoinInv, ReleaseOK, Releases
<1>6. NewTasks' /\ Accounted' /\ JoinSound'
  BY <1>1, <1>3 DEF JoinInv, NewTasks, Accounted, Kept, Inside, JoinSound, ExceptionPending, Elements
<1>7. PassedOK'
  <2>1. ASSUME NEW p \in Producers, NEW s \in Stages, Passed(p, s)' PROVE Passed(p, s)
    BY <1>1, <2>1, Distinct DEF Passed, Pool
  <2>2. \A x : \A s \in Stages : Inside(x, s)' => Inside(x, s)
    BY <1>1 DEF Inside, Elements
  <2> QED
    BY <1>3, <2>1, <2>2 DEF JoinInv, PassedOK
<1> QED
  BY <1>4, <1>5, <1>6, <1>7 DEF JoinInv

\* Every step keeps the invariant.
LEMMA JoinInvStep == Inv /\ JoinInv /\ [Next]_vars => JoinInv'
<1> SUFFICES ASSUME Inv, JoinInv, [Next]_vars PROVE JoinInv'
  OBVIOUS
<1>0. /\ Types /\ ControlOK /\ Sleeping /\ TasksCounted
      /\ ReleaseOK /\ NewTasks /\ Accounted /\ PassedOK /\ JoinSound
      /\ \A t \in Threads : PlanOK(t) /\ HandsOK(t)
  BY DEF Inv, JoinInv
<1>1. CASE UNCHANGED vars
  <2>1. UNCHANGED <<tasks, active_task_count, ex_ptr, stop, pc, plan, item, caught,
                    submitted, executed, suspect, promised, joined, begun, joins>>
    BY <1>1 DEF vars, poolVars, threadVars, historyVars, boundVars
  <2>2. ReleaseOK' /\ \A t \in Threads : PlanOK(t)' /\ HandsOK(t)'
    BY <1>0, <2>1 DEF ReleaseOK, Releases, PlanOK, HandsOK
  <2>3. NewTasks' /\ Accounted' /\ JoinSound'
    BY <1>0, <2>1 DEF NewTasks, Accounted, Kept, Inside, JoinSound, ExceptionPending, Elements
  <2>4. PassedOK'
    BY <1>0, <2>1 DEF PassedOK, Passed, Pool, Inside, Elements
  <2> QED
    BY <2>2, <2>3, <2>4 DEF JoinInv
<1>2. ASSUME NEW t \in Threads, Moves(t) PROVE JoinInv'
  <2>1. \A u \in Threads : PlanOK(u)' /\ HandsOK(u)'
    BY <1>0, <1>2, PlansStep, HandsStep
  <2>2. ReleaseOK'
    BY <1>0, <1>2, ReleaseStep
  <2>3. NewTasks'
    BY <1>0, <1>2, NewTasksStep
  <2>4. Accounted'
    BY <1>0, <1>2, AccountedStep
  <2>5. PassedOK'
    BY <1>0, <1>2, PassedStep
  <2>6. JoinSound'
    BY <1>0, <1>2, SoundStep
  <2> QED
    BY <2>1, <2>2, <2>3, <2>4, <2>5, <2>6 DEF JoinInv
<1>3. CASE Next
  BY <1>0, <1>2, <1>3, Steps, NotifyKeeps
<1> QED
  BY <1>1, <1>3

\* The inductive invariant: where an operation of the pipeline can be, and what
\* the joins, the exceptions and the release have to do with it.
THEOREM JoinInvariant == Spec => [](Inv /\ JoinInv)
<1>1. Init => Inv /\ JoinInv
  BY Initially, JoinInitially
<1>2. Inv /\ JoinInv /\ [Next]_vars => Inv' /\ JoinInv'
  BY InvStep, JoinInvStep
<1> QED
  BY <1>1, <1>2, PTL DEF Spec

\* When JoinPipelineThreads has returned without an exception, every operation
\* submitted before has been through all three stages, unless an exception has
\* surfaced since it was submitted or is still to surface.
THEOREM JoinsAreSound == Spec => []JoinSound
<1>1. JoinInv => JoinSound
  BY DEF JoinInv
<1> QED
  BY <1>1, JoinInvariant, PTL

-----------------------------------------------------------------------------
(* The pools are one FIFO executor.                                        *)

\* A thread in enqueue holds the task it enqueues, and does nothing after it; a
\* producer holds none in its other calls.
HeldOK(t) ==
  /\ \A i \in 1 .. Len(plan[t]) : plan[t][i].op = "enqueue" => Len(plan[t]) = 1 /\ item[t] # Noop
  /\ t \in Producers /\ item[t] # Noop => plan[t] # <<>> /\ Head(plan[t]).op = "enqueue"

\* The lowering worker does the work of all stages, and the others nothing, or
\* each does its own.
ModeOK ==
  /\ \A w \in Stages : \A i \in 1 .. Len(plan[w]) :
       IF fourStage THEN plan[w][i].op = "enqueue"
                    ELSE w = Lowering /\ plan[w][i].op \in {"wait", "inline"}
  /\ fourStage \/ \A x \in Tasks : ~Inside(x, Compile) /\ ~Inside(x, Execute)

\* When the pools are being released, nothing is left in them.
Emptied ==
  /\ joins > MaxJoins =>
       \A p \in Producers : item[p] = Noop /\ (pc[p] # "idle" => promised[p] = submitted)
  /\ \/ \E s \in Stages : stop[s]
     \/ \E p \in Producers : plan[p] # <<>> /\ Head(plan[p]).op = "release"
     => \A x \in Tasks : \A s \in Stages : ~Inside(x, s)

\* The empty task of the destructor goes only into a pool that is stopped.
NoopsStop == \A s \in Stages : Noop \in Elements(tasks[s]) => stop[s]

FifoInv == (\A t \in Threads : HeldOK(t)) /\ ModeOK /\ Emptied /\ NoopsStop

\* What the work of a stage is followed by.
LEMMA Continues ==
  ASSUME Types, ControlOK, NEW w \in Stages, RunStage(w)
  PROVE  \/ plan' = plan /\ plan[w] = <<>> /\ pc[w] = "run"
         \/ /\ item' = item /\ item[w] # Noop /\ executed' = executed
            /\ \/ fourStage /\ w < Execute /\ plan'[w] = <<Call("enqueue", w + 1)>>
               \/ /\ ~fourStage /\ w = Lowering
                  /\ plan'[w] = <<Call("wait", Compile), Call("wait", Execute), Call("inline", Execute)>>
<1>1. w \in Threads /\ pc[w] = "run"
  BY Distinct DEF RunStage, At
<1>2. plan[w] = <<>>
  BY <1>1 DEF ControlOK, ThreadOK, CallLocations
<1>3. CASE item[w] # Noop /\ Continuation(w) # <<>>
  <2>1. plan'[w] = Continuation(w) /\ item' = item /\ executed' = executed
    BY <1>1, <1>3 DEF RunStage, Begin, Types, historyVars
  <2> QED
    BY <1>3, <2>1 DEF Continuation
<1>4. CASE ~(item[w] # Noop /\ Continuation(w) # <<>>)
  BY <1>1, <1>2, <1>4 DEF RunStage, Goto
<1> QED
  BY <1>3, <1>4

\* The calls of a plan that has become shorter were in it.
LEMMA ShorterPlan ==
  ASSUME Types, NEW t \in Threads,
         \/ plan'[t] = plan[t]
         \/ plan[t] # <<>> /\ plan'[t] = Tail(plan[t])
         \/ plan'[t] = <<>>
  PROVE  /\ \A i \in 1 .. Len(plan'[t]) : \E j \in 1 .. Len(plan[t]) : plan'[t][i] = plan[t][j]
         /\ (plan'[t] # plan[t] /\ Len(plan[t]) = 1) => plan'[t] = <<>>
         /\ plan'[t] # <<>> =>
              1 \in 1 .. Len(plan'[t]) /\ Head(plan'[t]) = plan'[t][1]
<1>1. PICK q, r : q = plan[t] /\ r = plan'[t]
  OBVIOUS
<1>2. q \in Seq(AllCalls)
  BY <1>1 DEF Types
<1>3. CASE r = q
  BY <1>1, <1>2, <1>3, TailMembers
<1>4. CASE q # <<>> /\ r = Tail(q)
  <2>1. /\ r \in Seq(AllCalls) /\ Len(q) \in Nat \ {0} /\ Len(r) = Len(q) - 1
        /\ \A i \in 1 .. Len(r) : r[i] = q[i + 1] /\ i + 1 \in 1 .. Len(q)
    BY <1>2, <1>4, TailMembers
  <2>2. r # <<>> => Len(r) \in Nat \ {0} /\ Head(r) = r[1]
    BY <2>1, TailMembers
  <2>3. Len(q) = 1 => r = <<>>
    <3>1. Len(q) = 1 => Len(r) = 0
      BY <2>1
    <3> QED
      BY <2>2, <3>1
  <2>4. \A i \in 1 .. Len(r) : \E j \in 1 .. Len(q) : r[i] = q[j]
    BY <2>1
  <2> QED
    BY <1>1, <2>1, <2>2, <2>3, <2>4
<1>5. CASE r = <<>>
  BY <1>1, <1>5
<1> QED
  BY <1>1, <1>3, <1>4, <1>5

\* What a thread holds to enqueue.
LEMMA HeldOwn ==
  ASSUME Types, ControlOK, Sleeping, NEW t \in Threads, Moves(t), PlanOK(t), HeldOK(t)
  PROVE  HeldOK(t)'
<1>0. Only(t) /\ item \in [Threads -> Tasks \cup {Noop}] /\ Noop \notin Tasks
  BY MovesControl, Distinct DEF Types
<1>2. CASE Begins(t)
  <2>1. CASE BeginEnqueue(t) /\ plan'[t] = <<Call("enqueue", Lowering)>> /\ t \in Producers
    <3>1. item'[t] = <<t, begun'[t]>> /\ begun'[t] \in Nat \ {0}
      BY <1>0, <2>1, Distinct DEF BeginEnqueue, Types
    <3>2. item'[t] # Noop
      BY <3>1 DEF Noop
    <3>3. Len(plan'[t]) = 1 /\ plan'[t] # <<>> /\ Head(plan'[t]).op = "enqueue"
      BY <2>1 DEF Call
    <3> QED
      BY <3>2, <3>3 DEF HeldOK
  <2>2. CASE /\ \A i \in 1 .. Len(plan'[t]) : plan'[t][i].op # "enqueue"
             /\ BeginJoin(t) \/ ThreadsRelease(t)
    <3>1. item' = item /\ pc[t] = "idle" /\ t \in Producers
      BY <1>2, <2>2 DEF Begins, BeginJoin, ThreadsRelease, At
    <3>2. plan[t] = <<>>
      BY <3>1 DEF ControlOK, ThreadOK, CallLocations
    <3>3. item'[t] = Noop
      BY <3>1, <3>2 DEF HeldOK
    <3> QED
      BY <2>2, <3>3 DEF HeldOK
  <2> QED
    BY <1>2, <2>1, <2>2, Begun DEF Begins
<1>3. CASE t \in Stages /\ RunStage(t)
  <2>1. t \notin Producers
    BY <1>3, Distinct
  <2>2. CASE plan' = plan /\ plan[t] = <<>>
    <3>1. Len(plan'[t]) = 0
      BY <2>2, EmptySeq
    <3> QED
      BY <2>1, <3>1 DEF HeldOK
  <2>3. PICK a, b, c, d : /\ a = Call("enqueue", t + 1) /\ b = Call("wait", Compile)
                          /\ c = Call("wait", Execute) /\ d = Call("inline", Execute)
    OBVIOUS
  <2>4. b.op = "wait" /\ c.op = "wait" /\ d.op = "inline"
    BY <2>3 DEF Call
  <2>5. CASE item' = item /\ item[t] # Noop /\ plan'[t] = <<a>>
    <3>1. Len(plan'[t]) = 1
      BY <2>5
    <3> QED
      BY <2>1, <2>5, <3>1 DEF HeldOK
  <2>6. CASE plan'[t] = <<b, c, d>>
    <3>1. \A i \in 1 .. Len(plan'[t]) : plan'[t][i].op # "enqueue"
      BY <2>4, <2>6
    <3> QED
      BY <2>1, <3>1 DEF HeldOK
  <2> QED
    BY <1>3, <2>2, <2>3, <2>5, <2>6, Continues
<1>4. CASE ~Begins(t) /\ ~(t \in Stages /\ RunStage(t))
  <2>1. \/ plan'[t] = plan[t]
        \/ plan[t] # <<>> /\ plan'[t] = Tail(plan[t])
        \/ plan'[t] = <<>>
    BY <1>4, PlanMoves DEF Begins
  <2>2. \A i \in 1 .. Len(plan'[t]) : plan'[t][i].op = "enqueue" =>
          plan'[t] = plan[t] /\ i \in 1 .. Len(plan[t]) /\ Len(plan[t]) = 1 /\ item[t] # Noop
    <3> SUFFICES ASSUME NEW i \in 1 .. Len(plan'[t]), plan'[t][i].op = "enqueue"
                 PROVE  /\ plan'[t] = plan[t] /\ i \in 1 .. Len(plan[t]) /\ Len(plan[t]) = 1
                        /\ item[t] # Noop
      OBVIOUS
    <3>1. PICK j \in 1 .. Len(plan[t]) : plan'[t][i] = plan[t][j]
      BY <2>1, ShorterPlan
    <3>2. Len(plan[t]) = 1 /\ item[t] # Noop
      BY <3>1 DEF HeldOK
    <3>3. plan'[t] = plan[t]
      <4>1. plan'[t] # <<>>
        BY EmptySeq
      <4> QED
        BY <2>1, <3>2, <4>1, ShorterPlan
    <3> QED
      BY <3>2, <3>3
  <2>3. CASE item'[t] = item[t] /\ plan'[t] = plan[t]
    BY <2>3 DEF HeldOK
  <2>4. CASE item'[t] = Noop /\ plan'[t] # plan[t]
    BY <2>2, <2>4 DEF HeldOK
  <2>5. CASE item'[t] = item[t] /\ Head(plan[t]).op # "enqueue" /\ plan'[t] # plan[t]
    BY <2>2, <2>5 DEF HeldOK
  <2>6. CASE t \notin Producers /\ plan[t] = <<>>
    <3>1. Len(plan[t]) = 0
      BY <2>6, EmptySeq
    <3> QED
      BY <2>2, <2>6, <3>1 DEF HeldOK
  <2>7. CASE CallStep(t)
    <3>1. pc[t] \in CallLocations
      BY <1>4, <2>7, PlanMoves DEF Begins
    <3>2. Fits(Head(plan[t]), pc[t], stop) /\ plan[t] # <<>>
      BY <3>1, CurrentCall
    <3>3. ASSUME Return(t) \/ ClearException(t) PROVE plan'[t] # plan[t]
      <4>1. PICK q : q = plan[t]
        OBVIOUS
      <4>2. q \in Seq(AllCalls) /\ q # <<>>
        BY <3>2, <4>1 DEF Types
      <4>3. Tail(q) # q
        <5>1. Len(Tail(q)) = Len(q) - 1 /\ Len(q) \in Nat
          BY <4>2, TailMembers
        <5> QED
          BY <5>1
      <4>4. plan'[t] = Tail(plan[t]) \/ plan'[t] = <<>>
        BY <3>3 DEF Return, ClearException, Throw, Types
      <4> QED
        BY <4>1, <4>2, <4>3, <4>4
    <3>4. CASE PushTask(t)
      <4>1. item'[t] = Noop
        BY <1>0, <3>4 DEF PushTask
      <4>2. CASE Head(plan[t]).op = "release"
        <5>1. t \in Producers
          BY <3>1, <4>2, CurrentCall, Constants DEF Calls
        <5>2. item[t] = Noop
          BY <4>2, <5>1 DEF HeldOK
        <5> QED
          BY <2>3, <2>4, <4>1, <5>2
      <4>3. CASE Head(plan[t]).op # "release"
        BY <2>4, <3>3, <3>4, <4>1, <4>3 DEF PushTask
      <4> QED
        BY <4>2, <4>3
    <3>5. CASE ClearException(t)
      <4>1. item'[t] = Noop
        BY <1>0, <3>5 DEF ClearException, Throw
      <4> QED
        BY <2>4, <3>3, <3>5, <4>1
    <3>6. CASE ReadException(t) \/ CheckActive(t) \/ JoinWorker(t)
      <4>1. item' = item /\ (plan' = plan \/ (Return(t) /\ pc[t] \in {"recheck", "check", "join"}))
        BY <3>6 DEF ReadException, CheckActive, JoinWorker, Goto, At
      <4>2. pc[t] \in {"recheck", "check", "join"} => Head(plan[t]).op # "enqueue"
        BY <3>2 DEF Fits
      <4> QED
        BY <2>3, <2>5, <4>1, <4>2
    <3>7. CASE \/ Throttle(t) \/ Spin(t) \/ CountTask(t) \/ LockAndCheck(t) \/ FallAsleep(t)
               \/ StopPool(t)
      <4>1. item' = item /\ plan' = plan
        BY <3>7 DEF Throttle, Spin, CountTask, LockAndCheck, FallAsleep, StopPool, Goto
      <4> QED
        BY <2>3, <4>1
    <3> QED
      BY <2>7, <3>4, <3>5, <3>6, <3>7 DEF CallStep
  <2>8. CASE t \in Stages /\ ~CallStep(t)
    <3>1. t \notin Producers
      BY <2>8, Distinct
    <3>2. CASE RunInline(t)
      <4>1. pc[t] \in CallLocations /\ Head(plan[t]).op = "inline" /\ Return(t)
        <5>1. pc[t] = "inline" /\ Return(t) /\ pc[t] \in CallLocations
          BY <3>2 DEF RunInline, At, CallLocations
        <5> QED
          BY <5>1, CurrentCall DEF Fits
      <4>2. \A i \in 1 .. Len(plan[t]) : plan[t][i].op # "enqueue"
        <5>1. plan[t][1].op = "inline" /\ 1 \in 1 .. Len(plan[t])
          BY <4>1, CurrentCall
        <5> QED
          BY <5>1 DEF ControlOK, ThreadOK
      <4> QED
        BY <2>2, <3>1, <4>2 DEF HeldOK
    <3>3. CASE StageThrows(t)
      <4>1. plan'[t] = <<>>
        BY <3>3 DEF StageThrows, Throw, Types
      <4>2. Len(plan'[t]) = 0
        BY <4>1, EmptySeq
      <4> QED
        BY <3>1, <4>2 DEF HeldOK
    <3>4. CASE CheckStop(t) \/ PopTask(t) \/ CatchException(t) \/ FinishTask(t)
      <4>1. pc[t] \in WorkerLocations
        BY <3>4 DEF CheckStop, PopTask, CatchException, FinishTask, At, WorkerLocations
      <4>2. plan[t] = <<>>
        BY <4>1 DEF ControlOK, ThreadOK, CallLocations, WorkerLocations
      <4> QED
        BY <2>6, <3>1, <4>2
    <3> QED
      BY <1>4, <2>8, <3>1, <3>2, <3>3, <3>4 DEF Moves
  <2> QED
    BY <1>4, <2>7, <2>8, Constants DEF Moves, Begins
<1> QED
  BY <1>2, <1>3, <1>4

LEMMA HeldStep ==
  ASSUME Types, ControlOK, Sleeping, NEW t \in Threads, Moves(t),
         \A u \in Threads : PlanOK(u) /\ HeldOK(u)
  PROVE  \A u \in Threads : HeldOK(u)'
<1>1. Only(t)
  BY MovesControl
<1>2. ASSUME NEW u \in Threads, u # t PROVE HeldOK(u)'
  BY <1>1, <1>2 DEF Only, HeldOK
<1> QED
  BY <1>2, HeldOwn

\* The settings do not change.
LEMMA ModeFixed ==
  ASSUME NEW t \in Threads, Moves(t)
  PROVE  fourStage' = fourStage
<1>1. CASE CallStep(t)
  BY <1>1 DEF CallStep, ReadException, ClearException, Throttle, Spin, CountTask, PushTask,
              CheckActive, LockAndCheck, FallAsleep, StopPool, JoinWorker
<1>2. CASE t \in Producers /\ (BeginEnqueue(t) \/ BeginJoin(t) \/ ThreadsRelease(t))
  BY <1>2 DEF BeginEnqueue, BeginJoin, ThreadsRelease
<1>3. CASE t \in Stages /\ \/ CheckStop(t) \/ PopTask(t) \/ RunStage(t) \/ RunInline(t)
                           \/ StageThrows(t) \/ CatchException(t) \/ FinishTask(t)
  BY <1>3 DEF CheckStop, PopTask, RunStage, RunInline, StageThrows, CatchException, FinishTask
<1> QED
  BY <1>1, <1>2, <1>3 DEF Moves

\* What a push is for.
LEMMA PushFor ==
  ASSUME Types, ControlOK, NEW t \in Threads, PushTask(t), HeldOK(t), PlanOK(t)
  PROVE  /\ Pool(t) \in Stages
         /\ \/ /\ Head(plan[t]).op = "enqueue" /\ item[t] \in Tasks /\ plan[t][1].op = "enqueue"
               /\ 1 \in 1 .. Len(plan[t])
               /\ t \in Producers => Pool(t) = Lowering
               /\ t \notin Producers => Pool(t) = t + 1
            \/ /\ Head(plan[t]).op = "release" /\ t \in Producers /\ item[t] = Noop /\ stop[Pool(t)]
<1>1. pc[t] = "push" /\ pc[t] \in CallLocations
  BY DEF PushTask, At, CallLocations
<1>2. /\ Fits(Head(plan[t]), "push", stop) /\ Head(plan[t]) \in Calls(t)
      /\ Head(plan[t]) = plan[t][1] /\ 1 \in 1 .. Len(plan[t]) /\ Pool(t) \in Stages
  BY <1>1, CurrentCall
<1>3. CASE Head(plan[t]).op = "enqueue"
  <2>1. item[t] # Noop
    BY <1>2, <1>3 DEF HeldOK
  <2>2. item[t] \in Tasks
    BY <2>1 DEF Types
  <2> QED
    BY <1>2, <1>3, <2>2 DEF Calls, Pool
<1>4. CASE Head(plan[t]).op # "enqueue"
  <2>1. Head(plan[t]).op = "release" /\ stop[Pool(t)] /\ t \in Producers
    BY <1>2, <1>4 DEF Fits, Calls, Pool
  <2>2. item[t] = Noop
    BY <2>1 DEF HeldOK
  <2> QED
    BY <1>2, <2>1, <2>2
<1> QED
  BY <1>3, <1>4

\* How a queue changes.
LEMMA QueueMoves ==
  ASSUME NEW t \in Threads, Moves(t)
  PROVE  \/ tasks' = tasks
         \/ PushTask(t) /\ tasks' = [tasks EXCEPT ![Pool(t)] = Append(@, item[t])]
         \/ t \in Stages /\ PopTask(t) /\ tasks' = [tasks EXCEPT ![t] = Tail(@)] /\ tasks[t] # <<>>
<1>1. CASE CallStep(t)
  BY <1>1 DEF CallStep, ReadException, ClearException, Throttle, Spin, CountTask, PushTask, PushBack,
              CheckActive, LockAndCheck, FallAsleep, StopPool, JoinWorker, poolVars
<1>2. CASE t \in Producers /\ (BeginEnqueue(t) \/ BeginJoin(t) \/ ThreadsRelease(t))
  BY <1>2 DEF BeginEnqueue, BeginJoin, ThreadsRelease, poolVars
<1>3. CASE t \in Stages /\ \/ CheckStop(t) \/ PopTask(t) \/ RunStage(t) \/ RunInline(t)
                           \/ StageThrows(t) \/ CatchException(t) \/ FinishTask(t)
  BY <1>3 DEF CheckStop, PopTask, RunStage, RunInline, StageThrows, CatchException, FinishTask, poolVars
<1> QED
  BY <1>1, <1>2, <1>3 DEF Moves

\* The work of the stages is divided as the setting says.
LEMMA ModeStep ==
  ASSUME Types, ControlOK, Sleeping, NEW t \in Threads, Moves(t), ModeOK,
         \A u \in Threads : PlanOK(u) /\ HeldOK(u)
  PROVE  ModeOK'
<1>0. /\ Only(t) /\ fourStage' = fourStage
      /\ \A w \in Stages : w \in Threads /\ w \notin Producers
      /\ Stages = 1 .. 3 /\ Lowering = 1 /\ Compile = 2 /\ Execute = 3
  BY MovesControl, ModeFixed, Distinct DEF Stages, Lowering, Compile, Execute
<1>1. ASSUME NEW w \in Stages, NEW i \in 1 .. Len(plan'[w])
      PROVE  IF fourStage THEN plan'[w][i].op = "enqueue"
                          ELSE w = Lowering /\ plan'[w][i].op \in {"wait", "inline"}
  <2>1. CASE w # t
    BY <1>0, <1>1, <2>1 DEF Only, ModeOK
  <2>2. CASE w = t /\ RunStage(t)
    <3>1. CASE plan' = plan
      BY <1>1, <3>1 DEF ModeOK
    <3>2. PICK a, b, c, d : /\ a = Call("enqueue", t + 1) /\ b = Call("wait", Compile)
                            /\ c = Call("wait", Execute) /\ d = Call("inline", Execute)
      OBVIOUS
    <3>3. a.op = "enqueue" /\ b.op = "wait" /\ c.op = "wait" /\ d.op = "inline"
      BY <3>2 DEF Call
    <3>4. CASE fourStage /\ plan'[t] = <<a>>
      BY <1>1, <2>2, <3>3, <3>4
    <3>5. CASE ~fourStage /\ w = Lowering /\ plan'[t] = <<b, c, d>>
      <4>1. Len(plan'[t]) = 3
        BY <3>5
      <4>2. i = 1 \/ i = 2 \/ i = 3
        BY <1>1, <2>2, <4>1
      <4> QED
        BY <1>1, <2>2, <3>3, <3>5, <4>2
    <3> QED
      BY <2>2, <3>1, <3>2, <3>4, <3>5, Continues
  <2>3. CASE w = t /\ ~RunStage(t)
    <3>1. \/ plan'[t] = plan[t]
          \/ plan[t] # <<>> /\ plan'[t] = Tail(plan[t])
          \/ plan'[t] = <<>>
      BY <1>0, <2>3, PlanMoves
    <3>2. PICK j \in 1 .. Len(plan[t]) : plan'[t][i] = plan[t][j]
      BY <1>1, <2>3, <3>1, ShorterPlan
    <3> QED
      BY <1>1, <2>3, <3>2 DEF ModeOK
  <2> QED
    BY <2>1, <2>2, <2>3
<1>2. ASSUME ~fourStage, NEW x \in Tasks, NEW s \in {Compile, Execute}, Inside(x, s)'
      PROVE  FALSE
  <2>1. ~Inside(x, s) /\ s \in Stages
    BY <1>0, <1>2 DEF ModeOK
  <2>2. PushTask(t) /\ x = item[t] /\ s = Pool(t)
    BY <1>2, <2>1, Inflow
  <2>3. x # Noop
    BY Distinct
  <2>4. plan[t][1].op = "enqueue" /\ 1 \in 1 .. Len(plan[t]) /\ (t \in Producers => Pool(t) = Lowering)
    BY <2>2, <2>3, PushFor
  <2>5. t \in Stages
    BY <1>0, <1>2, <2>2, <2>4, Constants
  <2> QED
    BY <1>2, <2>4, <2>5 DEF ModeOK
<1> QED
  BY <1>0, <1>1, <1>2 DEF ModeOK

\* The empty task is pushed into stopped pools.
LEMMA NoopsStep ==
  ASSUME Types, ControlOK, Sleeping, NEW t \in Threads, Moves(t), NoopsStop,
         \A u \in Threads : PlanOK(u) /\ HeldOK(u)
  PROVE  NoopsStop'
<1> SUFFICES ASSUME NEW s \in Stages, Noop \in Elements(tasks'[s]) PROVE stop'[s]
  BY DEF NoopsStop, Elements
<1>0. /\ StopStays /\ tasks \in [Stages -> Seq(Tasks \cup {Noop})] /\ tasks[s] \in Seq(Tasks \cup {Noop})
      /\ item[t] \in Tasks \cup {Noop} /\ Noop \in Tasks \cup {Noop}
  BY MovesControl DEF Types
<1>1. CASE Noop \in Elements(tasks[s])
  BY <1>0, <1>1 DEF NoopsStop, StopStays
<1>2. CASE Noop \notin Elements(tasks[s])
  <2>1. CASE PushTask(t) /\ tasks' = [tasks EXCEPT ![Pool(t)] = Append(@, item[t])]
    <3>1. s = Pool(t) /\ tasks'[s] = Append(tasks[s], item[t])
      BY <1>0, <1>2, <2>1
    <3>2. item[t] = Noop
      BY <1>0, <1>2, <3>1, ElementsOf
    <3>3. stop[s]
      BY <2>1, <3>1, <3>2, PushFor, Distinct
    <3> QED
      BY <1>0, <3>3 DEF StopStays
  <2>2. CASE tasks' = [tasks EXCEPT ![t] = Tail(@)] /\ tasks[t] # <<>>
    <3>1. s = t /\ tasks'[s] = Tail(tasks[s]) /\ tasks[s] # <<>>
      BY <1>0, <1>2, <2>2
    <3> QED
      BY <1>0, <1>2, <3>1, ElementsOf
  <2> QED
    BY <1>2, <2>1, <2>2, QueueMoves
<1> QED
  BY <1>1, <1>2

\* A thread comes to release a pool from another one, or from the end of a join
\* that found the pools empty.
LEMMA ReleaseBegins ==
  ASSUME Types, ControlOK, Sleeping, TasksCounted, NEW t \in Threads, Moves(t),
         ReleaseOK, NewTasks, PassedOK, \A u \in Threads : PlanOK(u) /\ HandsOK(u),
         NEW p \in Producers, plan'[p] # <<>>, Head(plan'[p]).op = "release",
         plan[p] = <<>> \/ Head(plan[p]).op # "release"
  PROVE  /\ UNCHANGED <<tasks, item>> /\ pc[p] # "idle" /\ Releases(p)
         /\ \A x \in promised[p] : \A s \in Stages : ~Inside(x, s)
<1>0. Only(t) /\ p \in Threads /\ p \notin Stages /\ plan \in [Threads -> Seq(AllCalls)]
  BY MovesControl, Distinct DEF Types
<1>1. p = t
  BY <1>0 DEF Only
<1>2. ~Begins(t)
  <2>1. ASSUME Begins(t) PROVE Head(plan'[t]).op # "release"
    <3>1. CASE plan'[t] = <<Call("enqueue", Lowering)>>
      <4>1. PICK c : c = Call("enqueue", Lowering)
        OBVIOUS
      <4>2. Head(plan'[t]) = c
        BY <3>1, <4>1
      <4> QED
        BY <4>1, <4>2 DEF Call
    <3> QED
      BY <2>1, <3>1, Begun DEF Begins
  <2> QED
    BY <1>1, <2>1
<1>3. CallStep(t) /\ pc[t] \in CallLocations /\ pc[t] # "idle"
  BY <1>0, <1>1, <1>2, PlanMoves DEF Begins, CallLocations
<1>4. plan[t] # <<>> /\ Fits(Head(plan[t]), pc[t], stop) /\ Pool(t) \in Stages
  BY <1>3, CurrentCall
<1>5. plan'[t] = Tail(plan[t]) /\ plan[t] # <<>>
  <2>1. plan'[t] # plan[t]
    BY <1>1, <1>4
  <2> QED
    BY <1>0, <1>1, <1>2, <2>1, PlanMoves DEF Begins
<1>6. /\ Head(plan[t]).op = "wait" /\ Pool(t) = Execute /\ Releases(t)
  <2>1. PICK q, r : q = plan[t] /\ r = plan'[t]
    OBVIOUS
  <2>2. q \in Seq(AllCalls) /\ q # <<>> /\ r = Tail(q) /\ r # <<>>
    BY <1>0, <1>1, <1>5, <2>1
  <2>3. /\ Len(q) \in Nat \ {0} /\ Len(r) = Len(q) - 1 /\ Head(q) = q[1]
        /\ \A i \in 1 .. Len(r) : r[i] = q[i + 1] /\ i + 1 \in 1 .. Len(q)
        /\ r \in Seq(AllCalls)
    BY <2>2, TailMembers
  <2>4. Len(r) \in Nat \ {0} /\ Head(r) = r[1]
    BY <2>2, <2>3, TailMembers
  <2>5. 1 \in 1 .. Len(r) /\ 1 \in 1 .. Len(q) - 1 /\ 1 + 1 \in 1 .. Len(q) /\ Head(r) = q[1 + 1]
    BY <2>3, <2>4
  <2>6. Follows(Head(q), Head(r))
    BY <1>1, <2>1, <2>3, <2>5 DEF PlanOK
  <2>7. Head(r).op = "release" /\ Head(q).op # "release"
    BY <1>1, <1>4, <2>1
  <2>8. Releases(t)
    BY <2>1, <2>5, <2>7 DEF Releases
  <2> QED
    BY <2>1, <2>6, <2>7, <2>8 DEF Follows, Pool
<1>7. /\ UNCHANGED <<tasks, item>>
      /\ pc[t] = "recheck" \/ active_task_count[Execute] = 0 \/ stop[Execute]
  <2>1. Return(t) \/ ClearException(t)
    <3>1. ASSUME NEW loc, Goto(t, loc) PROVE plan'[t] = plan[t]
      BY <3>1 DEF Goto
    <3>2. plan'[t] # plan[t]
      BY <1>1, <1>4
    <3> QED
      BY <1>3, <3>1, <3>2 DEF CallStep, ReadException, Throttle, Spin, CountTask, PushTask, CheckActive,
         LockAndCheck, FallAsleep, StopPool, JoinWorker
  <2>2. ~ClearException(t)
    <3>1. ClearException(t) => plan'[t] = <<>>
      BY <1>0 DEF ClearException, Throw
    <3> QED
      BY <1>1, <3>1
  <2>3. ASSUME NEW loc \in Locations PROVE ~Goto(t, loc)
    <3>1. Goto(t, loc) => plan'[t] = plan[t]
      BY DEF Goto
    <3> QED
      BY <1>1, <1>4, <3>1
  <2>4. ReadException(t) \/ CheckActive(t)
    <3>1. ~PushTask(t) /\ ~JoinWorker(t)
      BY <1>4, <1>6 DEF PushTask, JoinWorker, At, Fits
    <3>2. \A loc \in {"spin", "count", "recheck", "push", "sleep", "asleep"} : ~Goto(t, loc)
      BY <2>3 DEF Locations
    <3> QED
      BY <1>3, <2>2, <3>1, <3>2 DEF CallStep, Throttle, Spin, CountTask, LockAndCheck, FallAsleep, StopPool
  <2>5. CASE ReadException(t)
    <3>1. \A loc \in {"clear", "throttle", "check"} : ~Goto(t, loc)
      BY <2>3 DEF Locations
    <3>2. pc[t] = "recheck"
      BY <2>5, <3>1 DEF ReadException, At
    <3> QED
      BY <2>5, <3>2 DEF ReadException, poolVars
  <2>6. CASE CheckActive(t)
    <3>1. ~Goto(t, "lock")
      BY <2>3 DEF Locations
    <3>2. active_task_count[Pool(t)] = 0 \/ stop[Pool(t)]
      BY <2>6, <3>1 DEF CheckActive
    <3> QED
      BY <1>6, <2>6, <3>2 DEF CheckActive, poolVars
  <2> QED
    BY <2>4, <2>5, <2>6
<1>8. \A x \in promised[t] : \A s \in Stages : ~Inside(x, s)
  BY <1>1, <1>4, <1>6, <1>7, LastWait
<1> QED
  BY <1>1, <1>3, <1>6, <1>7, <1>8

\* Once the program no longer submits, nothing is submitted.
LEMMA NoMore ==
  ASSUME Types, ControlOK, Sleeping, NEW t \in Threads, Moves(t), ReleaseOK, NewTasks, Emptied,
         joins > MaxJoins, \A u \in Threads : PlanOK(u) /\ HeldOK(u)
  PROVE  ~Begins(t) /\ submitted' = submitted
<1>1. MaxJoins \in Nat /\ joins \in Nat /\ Noop \notin Tasks
  BY Distinct DEF ReleaseOK
<1>2. ~Begins(t)
  <2>1. ~(t \in Producers /\ (BeginJoin(t) \/ ThreadsRelease(t)))
    BY <1>1 DEF BeginJoin, ThreadsRelease
  <2>2. ~(t \in Producers /\ BeginEnqueue(t))
    BY <1>1, Distinct DEF BeginEnqueue, ReleaseOK
  <2> QED
    BY <2>1, <2>2 DEF Begins
<1>3. CASE PushTask(t)
  <2>1. submitted' = submitted \cup ({item[t]} \ {Noop})
    BY <1>3 DEF PushTask
  <2>2. t \in Producers => item[t] = Noop
    BY DEF Emptied
  <2>3. t \in Stages /\ item[t] \in Tasks => item[t] \in submitted
    BY DEF NewTasks, Inside
  <2>4. item[t] \in Tasks \cup {Noop}
    BY DEF Types
  <2> QED
    BY <1>2, <2>1, <2>2, <2>3, <2>4, Constants
<1> QED
  BY <1>2, <1>3, Frame

\* A step of one thread keeps Emptied.
LEMMA EmptiedStep ==
  ASSUME Types, ControlOK, Sleeping, TasksCounted, NEW t \in Threads, Moves(t),
         ReleaseOK, NewTasks, PassedOK, Emptied,
         \A u \in Threads : PlanOK(u) /\ HandsOK(u) /\ HeldOK(u)
  PROVE  Emptied'
<1>0. /\ Only(t) /\ MaxJoins \in Nat /\ joins \in Nat /\ Noop \notin Tasks
      /\ \A p \in Producers : p \in Threads /\ p \notin Stages
      /\ \A s \in Stages : s \in Threads
      /\ item \in [Threads -> Tasks \cup {Noop}]
  BY MovesControl, Distinct DEF ReleaseOK, Types
<1>1. ASSUME joins' > MaxJoins, NEW p \in Producers
      PROVE  item'[p] = Noop /\ (pc'[p] # "idle" => promised'[p] = submitted')
  <2>1. CASE joins > MaxJoins
    <3>1. ~Begins(t) /\ submitted' = submitted
      BY <2>1, NoMore
    <3>2. promised' = promised /\ pc[t] # "idle" /\ (t \in Producers => item'[t] = item[t] \/ item'[t] = Noop)
      BY <3>1, Frame
    <3>3. item[p] = Noop /\ (pc[p] # "idle" => promised[p] = submitted)
      BY <2>1 DEF Emptied
    <3> QED
      BY <1>0, <3>1, <3>2, <3>3 DEF Only
  <2>2. CASE ~(joins > MaxJoins)
    <3>1. t \in Producers /\ (BeginJoin(t) \/ ThreadsRelease(t))
      <4>1. joins' # joins
        BY <1>1, <2>2
      <4>2. Begins(t)
        BY <4>1, Frame
      <4> QED
        BY <4>1, <4>2 DEF Begins, BeginEnqueue
    <3>2. ThreadsRelease(t)
      <4>1. BeginJoin(t) => ~(joins' > MaxJoins)
        BY <1>0 DEF BeginJoin
      <4> QED
        BY <1>1, <3>1, <4>1
    <3>3. /\ \A q \in Producers : pc[q] = "idle"
          /\ promised' = [promised EXCEPT ![t] = submitted] /\ item' = item /\ submitted' = submitted
      BY <3>2 DEF ThreadsRelease, At
    <3>4. plan[p] = <<>> /\ HeldOK(p)
      BY <1>0, <3>3 DEF ControlOK, ThreadOK, CallLocations
    <3>5. item[p] = Noop
      BY <3>4 DEF HeldOK
    <3>6. pc'[p] # "idle" => p = t
      BY <1>0, <3>3 DEF Only
    <3>7. promised'[t] = submitted
      BY <3>1, <3>3 DEF NewTasks
    <3> QED
      BY <3>3, <3>5, <3>6, <3>7
  <2> QED
    BY <2>1, <2>2
<1>2. ASSUME \/ \E s \in Stages : stop[s]
             \/ \E p \in Producers : plan[p] # <<>> /\ Head(plan[p]).op = "release"
      PROVE  \A x \in Tasks : \A s \in Stages : ~Inside(x, s)'
  <2>1. joins > MaxJoins
    <3>1. ASSUME NEW p \in Producers, plan[p] # <<>>, Head(plan[p]).op = "release"
          PROVE  Releases(p)
      <4>1. plan[p] \in Seq(AllCalls)
        BY <1>0 DEF Types
      <4>2. Head(plan[p]) = plan[p][1] /\ 1 \in 1 .. Len(plan[p])
        BY <3>1, <4>1, TailMembers
      <4> QED
        BY <3>1, <4>2 DEF Releases
    <3> QED
      BY <1>2, <3>1 DEF ReleaseOK
  <2>2. \A x \in Tasks : \A s \in Stages : ~Inside(x, s)
    BY <1>2 DEF Emptied
  <2>3. item[t] \notin Tasks
    BY <1>0, <2>1, <2>2, Constants DEF Emptied, Inside
  <2> QED
    BY <2>2, <2>3, Inflow
<1>3. ASSUME NEW s \in Stages, stop'[s], ~stop[s]
      PROVE  \E p \in Producers : plan[p] # <<>> /\ Head(plan[p]).op = "release"
  <2>1. stop' # stop
    BY <1>3
  <2>2. StopPool(t)
    <3>1. Begins(t) => stop' = stop
      BY DEF Begins, BeginEnqueue, BeginJoin, ThreadsRelease, poolVars
    <3> QED
      BY <2>1, <3>1, Frame
  <2>3. pc[t] = "stop" /\ pc[t] \in CallLocations
    BY <2>2 DEF StopPool, At, CallLocations
  <2>4. plan[t] # <<>> /\ Fits(Head(plan[t]), "stop", stop) /\ Head(plan[t]) \in Calls(t)
    BY <2>3, CurrentCall
  <2>5. Head(plan[t]).op = "release" /\ t \in Producers
    BY <2>4 DEF Fits, Calls
  <2> QED
    BY <2>4, <2>5
<1>4. ASSUME NEW p \in Producers, plan'[p] # <<>>, Head(plan'[p]).op = "release",
             plan[p] = <<>> \/ Head(plan[p]).op # "release"
      PROVE  \A x \in Tasks : \A s \in Stages : ~Inside(x, s)'
  <2>1. /\ UNCHANGED <<tasks, item>> /\ pc[p] # "idle" /\ Releases(p)
        /\ \A x \in promised[p] : \A s \in Stages : ~Inside(x, s)
    BY <1>4, ReleaseBegins
  <2>2. joins > MaxJoins
    BY <2>1 DEF ReleaseOK
  <2>3. promised[p] = submitted
    BY <2>1, <2>2 DEF Emptied
  <2>4. \A x \in Tasks : \A s \in Stages : ~Inside(x, s)
    BY <2>1, <2>3 DEF NewTasks
  <2> QED
    BY <2>1, <2>4 DEF Inside, Elements
<1>5. ASSUME \/ \E s \in Stages : stop'[s]
             \/ \E p \in Producers : plan'[p] # <<>> /\ Head(plan'[p]).op = "release"
      PROVE  \A x \in Tasks : \A s \in Stages : ~Inside(x, s)'
  BY <1>2, <1>3, <1>4, <1>5
<1> QED
  BY <1>1, <1>5 DEF Emptied

\* A worker that wakes the waiters changes nothing of this.
LEMMA NotifyKeepsFifo ==
  ASSUME Types, ControlOK, NEW w \in Stages, NotifyAll(w), FifoInv
  PROVE  FifoInv'
<1>1. /\ UNCHANGED <<plan, tasks, stop, item, fourStage, historyVars, boundVars>>
      /\ \A u \in Threads : pc'[u] = IF u = w THEN "loop"
                                     ELSE IF u \in asleep[w] THEN "lock" ELSE pc[u]
  BY DEF NotifyAll, Wake
<1>2. \A u \in asleep[w] : pc[u] = "asleep"
  BY DEF ControlOK
<1>3. \A p \in Producers : pc'[p] # "idle" => pc[p] # "idle"
  BY <1>1, <1>2, Distinct
<1>4. UNCHANGED <<submitted, promised, joins>>
  BY <1>1 DEF historyVars, boundVars
<1>5. (\A u \in Threads : HeldOK(u)') /\ ModeOK' /\ NoopsStop'
  BY <1>1 DEF FifoInv, HeldOK, ModeOK, NoopsStop, Inside, Elements
<1>6. Emptied'
  BY <1>1, <1>3, <1>4 DEF FifoInv, Emptied, Inside, Elements
<1> QED
  BY <1>5, <1>6 DEF FifoInv

LEMMA FifoInitially == Init => FifoInv
<1> SUFFICES ASSUME Init PROVE FifoInv
  OBVIOUS
<1>1. /\ \A t \in Threads : plan[t] = <<>> /\ Len(plan[t]) = 0 /\ item[t] = Noop
      /\ \A s \in Stages : s \in Threads /\ tasks[s] = <<>> /\ DOMAIN tasks[s] = {} /\ ~stop[s]
  BY Distinct, EmptySeq DEF Init
<1>2. joins = 0 /\ MaxJoins \in Nat /\ Stages = {Lowering, Compile, Execute} /\ Noop \notin Tasks
  BY Distinct DEF Init
<1>3. \A p \in Producers : p \in Threads
  BY Distinct
<1>4. \A s \in Stages : Elements(tasks[s]) = {}
  BY <1>1 DEF Elements
<1>5. \A x \in Tasks : \A s \in Stages : ~Inside(x, s)
  BY <1>1, <1>2, <1>4 DEF Inside
<1>6. (\A t \in Threads : HeldOK(t)) /\ NoopsStop
  BY <1>1, <1>4 DEF HeldOK, NoopsStop
<1>7. ModeOK
  BY <1>1, <1>2, <1>5 DEF ModeOK
<1>8. Emptied
  BY <1>1, <1>2, <1>3, <1>5 DEF Emptied
<1> QED
  BY <1>6, <1>7, <1>8 DEF FifoInv

LEMMA FifoInvStep == Inv /\ JoinInv /\ FifoInv /\ [Next]_vars => FifoInv'
<1> SUFFICES ASSUME Inv, JoinInv, FifoInv, [Next]_vars PROVE FifoInv'
  OBVIOUS
<1>0. /\ Types /\ ControlOK /\ Sleeping /\ TasksCounted /\ ReleaseOK /\ NewTasks /\ PassedOK
      /\ \A t \in Threads : PlanOK(t) /\ HandsOK(t) /\ HeldOK(t)
      /\ ModeOK /\ Emptied /\ NoopsStop
  BY DEF Inv, JoinInv, FifoInv
<1>1. CASE UNCHANGED vars
  <2>1. UNCHANGED <<tasks, stop, pc, plan, item, fourStage, submitted, promised, joins>>
    BY <1>1 DEF vars, poolVars, threadVars, historyVars, boundVars
  <2> QED
    BY <1>0, <2>1 DEF FifoInv, HeldOK, ModeOK, NoopsStop, Emptied, Inside, Elements
<1>2. ASSUME NEW t \in Threads, Moves(t) PROVE FifoInv'
  <2>1. \A u \in Threads : HeldOK(u)'
    BY <1>0, <1>2, HeldStep
  <2>2. ModeOK'
    BY <1>0, <1>2, ModeStep
  <2>3. NoopsStop'
    BY <1>0, <1>2, NoopsStep
  <2>4. Emptied'
    BY <1>0, <1>2, EmptiedStep
  <2> QED
    BY <2>1, <2>2, <2>3, <2>4 DEF FifoInv
<1>3. CASE Next
  BY <1>0, <1>2, <1>3, Steps, NotifyKeepsFifo
<1> QED
  BY <1>1, <1>3

\* A member is added at the end of the second of two sequences.
LEMMA AddedLast ==
  ASSUME NEW S, NEW a \in Seq(S), NEW b \in Seq(S), NEW x \in S
  PROVE  a \o Append(b, x) = Append(a \o b, x)
<1>1. PICK h : h = <<x>>
  OBVIOUS
<1>2. h \in Seq(S) /\ a \o b \in Seq(S)
  BY <1>1, ConcatProperties
<1>3. Append(a \o b, x) = (a \o b) \o h /\ Append(b, x) = b \o h
  BY <1>1, <1>2, AppendIsConcat
<1>4. (a \o b) \o h = a \o (b \o h)
  BY <1>2, ConcatAssociative
<1> QED
  BY <1>3, <1>4

\* Three sequences are joined in either order.
LEMMA Regrouped ==
  ASSUME NEW S, NEW a \in Seq(S), NEW b \in Seq(S), NEW c \in Seq(S),
         NEW u, u = a \o b, NEW v, v = b \o c
  PROVE  u \o c = a \o v
BY ConcatAssociative

\* The first member of a sequence, and the rest.
LEMMA First ==
  ASSUME NEW S, NEW a \in Seq(S), NEW x \in S
  PROVE  <<x>> \o a # <<>> /\ Head(<<x>> \o a) = x /\ Tail(<<x>> \o a) = a
<1>1. PICK s, h : s = <<x>> \o a /\ h = <<x>>
  OBVIOUS
<1>2. h \in Seq(S) /\ Len(h) = 1 /\ h[1] = x
  BY <1>1
<1>3. /\ s \in Seq(S) /\ Len(s) = 1 + Len(a) /\ Len(a) \in Nat
      /\ \A i \in 1 .. 1 + Len(a) : s[i] = IF i <= 1 THEN h[i] ELSE a[i - 1]
  BY <1>1, <1>2, ConcatProperties, LenProperties
<1>4. s # <<>> /\ s[1] = x
  <2>1. 1 \in 1 .. 1 + Len(a) /\ Len(s) # 0
    BY <1>3
  <2> QED
    BY <1>2, <1>3, <2>1, EmptySeq
<1>5. PICK r : r = Tail(s)
  OBVIOUS
<1>6. /\ r \in Seq(S) /\ Len(r) = Len(s) - 1 /\ Head(s) = s[1]
      /\ \A i \in 1 .. Len(r) : r[i] = s[i + 1]
  BY <1>3, <1>4, <1>5, TailMembers
<1>7. r = a
  <2>1. Len(r) = Len(a)
    BY <1>3, <1>6
  <2>2. \A i \in 1 .. Len(r) : r[i] = a[i]
    <3> SUFFICES ASSUME NEW i \in 1 .. Len(r) PROVE r[i] = a[i]
      OBVIOUS
    <3>1. i + 1 \in 1 .. 1 + Len(a) /\ ~(i + 1 <= 1) /\ (i + 1) - 1 = i
      BY <1>3, <2>1
    <3> QED
      BY <1>3, <1>6, <3>1
  <2> QED
    BY <1>6, <2>1, <2>2, SeqEqual
<1> QED
  BY <1>1, <1>4, <1>5, <1>6, <1>7

\* The end of a sequence.
LEMMA Ending ==
  ASSUME NEW S, NEW s \in Seq(S), NEW m \in 1 .. Len(s) + 1,
         NEW v, v = SubSeq(s, m, Len(s))
  PROVE  /\ v \in Seq(S) /\ Len(v) = Len(s) - m + 1
         /\ \A j \in 1 .. Len(v) : \A k \in 1 .. Len(s) : k = m + j - 1 => v[j] = s[k]
<1>1. PICK n : n = Len(s)
  OBVIOUS
<1>2. n \in Nat /\ m \in Int /\ m <= n + 1 /\ \A j \in m .. n : s[j] \in S
  BY <1>1
<1>3. /\ v \in Seq(S) /\ Len(v) = IF m <= n THEN n - m + 1 ELSE 0
      /\ \A j \in 1 .. n - m + 1 : v[j] = s[m + j - 1]
  BY <1>1, <1>2, SubSeqProperties
<1>4. Len(v) = n - m + 1
  BY <1>2, <1>3
<1> QED
  BY <1>1, <1>2, <1>3, <1>4

\* Sequence s without one of its members is t.
Shortens(s, t) == \E i \in DOMAIN s : SubSeq(s, 1, i - 1) \o SubSeq(s, i + 1, Len(s)) = t

\* The first member of the second of two sequences is taken out.
LEMMA TakenOut ==
  ASSUME NEW S, NEW a \in Seq(S), NEW r \in Seq(S), r # <<>>
  PROVE  Shortens(a \o r, a \o Tail(r))
<1>1. PICK s, b : s = a \o r /\ b = Tail(r)
  OBVIOUS
<1>2. /\ b \in Seq(S) /\ Len(r) = 1 + Len(b) /\ Len(b) \in Nat /\ Len(a) \in Nat
      /\ \A j \in 1 .. Len(b) : b[j] = r[j + 1]
  <2>1. /\ b \in Seq(S) /\ Len(r) \in Nat \ {0} /\ Len(b) = Len(r) - 1
        /\ \A j \in 1 .. Len(b) : b[j] = r[j + 1]
    BY <1>1, TailMembers
  <2>2. Len(a) \in Nat /\ Len(b) \in Nat
    BY <2>1, LenProperties
  <2> QED
    BY <2>1, <2>2
<1>3. /\ s \in Seq(S) /\ Len(s) = Len(a) + (1 + Len(b)) /\ DOMAIN s = 1 .. Len(s)
      /\ \A j \in 1 .. Len(a) + (1 + Len(b)) : s[j] = IF j <= Len(a) THEN a[j] ELSE r[j - Len(a)]
  <2>1. /\ s \in Seq(S) /\ Len(s) = Len(a) + Len(r)
        /\ \A j \in 1 .. Len(a) + Len(r) : s[j] = IF j <= Len(a) THEN a[j] ELSE r[j - Len(a)]
    BY <1>1, ConcatProperties
  <2> QED
    BY <1>2, <2>1, LenProperties
<1>4. PICK i : i = Len(a) + 1
  OBVIOUS
<1>5. i \in DOMAIN s /\ i \in Nat /\ i - 1 = Len(a) /\ i + 1 = Len(a) + 2 /\ Len(s) \in Nat
  BY <1>2, <1>3, <1>4
<1>6. PICK u, v : u = SubSeq(s, 1, i - 1) /\ v = SubSeq(s, i + 1, Len(s))
  OBVIOUS
<1>7. u = a
  <2>1. \A j \in 1 .. i - 1 : s[j] = a[j] /\ s[j] \in S
    <3> SUFFICES ASSUME NEW j \in 1 .. i - 1 PROVE s[j] = a[j] /\ s[j] \in S
      OBVIOUS
    <3>1. j \in 1 .. Len(a) + (1 + Len(b)) /\ j <= Len(a) /\ j \in 1 .. Len(s)
      BY <1>2, <1>3, <1>5
    <3> QED
      BY <1>3, <3>1, ElementOfSeq
  <2>2. /\ u \in Seq(S) /\ Len(u) = IF 1 <= i - 1 THEN (i - 1) - 1 + 1 ELSE 0
        /\ \A j \in 1 .. (i - 1) - 1 + 1 : u[j] = s[1 + j - 1]
    <3>1. PICK n : n = i - 1
      OBVIOUS
    <3>2. n \in Int /\ \A j \in 1 .. n : s[j] \in S
      BY <1>5, <2>1, <3>1
    <3>3. /\ SubSeq(s, 1, n) \in Seq(S)
          /\ Len(SubSeq(s, 1, n)) = IF 1 <= n THEN n - 1 + 1 ELSE 0
          /\ \A j \in 1 .. n - 1 + 1 : SubSeq(s, 1, n)[j] = s[1 + j - 1]
      BY <3>2, SubSeqProperties
    <3> QED
      BY <1>6, <3>1, <3>3
  <2>3. Len(u) = Len(a)
    BY <1>2, <1>5, <2>2
  <2>4. \A j \in 1 .. Len(u) : u[j] = a[j]
    <3> SUFFICES ASSUME NEW j \in 1 .. Len(u) PROVE u[j] = a[j]
      OBVIOUS
    <3>1. j \in 1 .. (i - 1) - 1 + 1 /\ j \in 1 .. i - 1 /\ 1 + j - 1 = j
      BY <1>2, <1>5, <2>3
    <3> QED
      BY <2>1, <2>2, <3>1
  <2> QED
    BY <2>2, <2>3, <2>4, SeqEqual
<1>8. v = b
  <2>1. PICK n, m : n = Len(b) /\ m = i + 1
    OBVIOUS
  <2>2. n \in Nat /\ i \in Nat \ {0} /\ Len(s) = i + n /\ m = i + 1 /\ m \in 1 .. Len(s) + 1
    BY <1>2, <1>3, <1>4, <1>5, <2>1
  <2>3. /\ v \in Seq(S) /\ Len(v) = Len(s) - m + 1
        /\ \A j \in 1 .. Len(v) : \A k \in 1 .. Len(s) : k = m + j - 1 => v[j] = s[k]
    <3>1. s \in Seq(S) /\ v = SubSeq(s, m, Len(s))
      BY <1>3, <1>6, <2>1
    <3>2. m \in 1 .. Len(s) + 1
      BY <2>2
    <3>3. v \in Seq(S) /\ Len(v) = Len(s) - m + 1
      BY <3>1, <3>2, Ending
    <3>4. ASSUME NEW j \in 1 .. Len(v), NEW k \in 1 .. Len(s), k = m + j - 1 PROVE v[j] = s[k]
      BY <3>1, <3>2, <3>4, Ending
    <3> QED
      BY <3>3, <3>4
  <2>4. Len(v) = n
    BY <2>2, <2>3
  <2>5. ASSUME NEW j \in 1 .. n PROVE v[j] = b[j]
    <3>1. PICK k : k = i + j
      OBVIOUS
    <3>2. /\ k \in 1 .. Len(s) /\ k = m + j - 1 /\ j \in 1 .. Len(v)
      BY <2>2, <2>4, <3>1
    <3>3. /\ k \in 1 .. Len(a) + (1 + Len(b)) /\ ~(k <= Len(a))
          /\ k - Len(a) = j + 1 /\ j \in 1 .. Len(b)
      BY <1>2, <1>3, <1>4, <2>1, <2>2, <3>1, <3>2
    <3>4. s[k] = r[j + 1] /\ r[j + 1] = b[j]
      BY <1>2, <1>3, <3>3
    <3> QED
      BY <2>3, <3>2, <3>4
  <2>6. b \in Seq(S) /\ v \in Seq(S) /\ Len(v) = Len(b) /\ \A j \in 1 .. Len(v) : v[j] = b[j]
    BY <1>2, <2>1, <2>3, <2>4, <2>5
  <2> QED
    BY <2>6, SeqEqual
<1> QED
  BY <1>1, <1>5, <1>6, <1>7, <1>8 DEF Shortens

\* What the pool of worker w holds, in the order it is worked off.
HeldBy(w)  == IF item[w] = Noop THEN <<>> ELSE <<item[w]>>
QueueOf(w) == IF stop[w] THEN <<>> ELSE tasks[w]
Holds(w)   == HeldBy(w) \o QueueOf(w)

LEMMA InFlightIs ==
  /\ InFlight = (Holds(Execute) \o Holds(Compile)) \o Holds(Lowering)
  /\ InFlight' = (Holds(Execute)' \o Holds(Compile)') \o Holds(Lowering)'
BY DEF InFlight, Holds, HeldBy, QueueOf

\* A pool holds the tasks that are inside.
LEMMA HoldsInside ==
  ASSUME Types, NoopsStop, NEW w \in Stages
  PROVE  /\ HeldBy(w) \in Seq(Tasks) /\ QueueOf(w) \in Seq(Tasks) /\ Holds(w) \in Seq(Tasks)
         /\ \A i \in 1 .. Len(Holds(w)) : Inside(Holds(w)[i], w) /\ Holds(w)[i] \in Tasks
         /\ (\A x \in Tasks : ~Inside(x, w)) => Holds(w) = <<>>
<1>1. PICK h, q, s : h = HeldBy(w) /\ q = QueueOf(w) /\ s = Holds(w)
  OBVIOUS
<1>2. item[w] \in Tasks \cup {Noop} /\ tasks[w] \in Seq(Tasks \cup {Noop})
  BY Distinct DEF Types
<1>3. h \in Seq(Tasks) /\ \A i \in 1 .. Len(h) : Inside(h[i], w)
  <2>1. CASE item[w] = Noop
    BY <1>1, <2>1, EmptySeq DEF HeldBy
  <2>2. CASE item[w] # Noop
    <3>1. h = <<item[w]>> /\ Len(h) = 1 /\ \A i \in 1 .. 1 : h[i] = item[w]
      BY <1>1, <2>2 DEF HeldBy
    <3> QED
      BY <1>2, <2>2, <3>1 DEF Inside
  <2> QED
    BY <2>1, <2>2
<1>4. q \in Seq(Tasks) /\ \A i \in 1 .. Len(q) : Inside(q[i], w)
  <2>1. CASE stop[w]
    BY <1>1, <2>1, EmptySeq DEF QueueOf
  <2>2. CASE ~stop[w]
    <3>1. q = tasks[w] /\ q \in Seq(Tasks \cup {Noop}) /\ DOMAIN q = 1 .. Len(q) /\ Len(q) \in Nat
      BY <1>1, <1>2, <2>2, LenProperties DEF QueueOf
    <3>2. Noop \notin Elements(q)
      BY <2>2, <3>1 DEF NoopsStop
    <3>3. \A i \in 1 .. Len(q) : q[i] \in Elements(q) /\ q[i] \in Tasks
      BY <3>1, <3>2, ElementOfSeq DEF Elements
    <3>4. q \in [1 .. Len(q) -> Tasks]
      BY <3>1, <3>3, LenProperties
    <3>5. q \in Seq(Tasks)
      BY <3>1, <3>4
    <3> QED
      BY <3>1, <3>3, <3>5 DEF Inside
  <2> QED
    BY <2>1, <2>2
<1>5. /\ s \in Seq(Tasks) /\ Len(s) = Len(h) + Len(q) /\ Len(h) \in Nat /\ Len(q) \in Nat
      /\ \A i \in 1 .. Len(s) : s[i] = IF i <= Len(h) THEN h[i] ELSE q[i - Len(h)]
  BY <1>1, <1>3, <1>4, ConcatMembers, LenProperties DEF Holds
<1>6. \A i \in 1 .. Len(s) : Inside(s[i], w) /\ s[i] \in Tasks
  <2> SUFFICES ASSUME NEW i \in 1 .. Len(s) PROVE Inside(s[i], w) /\ s[i] \in Tasks
    OBVIOUS
  <2>1. s[i] \in Tasks
    BY <1>5, ElementOfSeq
  <2>2. CASE i <= Len(h)
    <3>1. i \in 1 .. Len(h) /\ s[i] = h[i]
      BY <1>5, <2>2
    <3> QED
      BY <1>3, <2>1, <3>1
  <2>3. CASE ~(i <= Len(h))
    <3>1. i - Len(h) \in 1 .. Len(q) /\ s[i] = q[i - Len(h)]
      BY <1>5, <2>3
    <3> QED
      BY <1>4, <2>1, <3>1
  <2> QED
    BY <2>2, <2>3
<1>7. ASSUME \A x \in Tasks : ~Inside(x, w) PROVE s = <<>>
  <2>1. ~(1 \in 1 .. Len(s))
    BY <1>6, <1>7
  <2> QED
    BY <1>5, <2>1, EmptySeq
<1> QED
  BY <1>1, <1>3, <1>4, <1>5, <1>6, <1>7

\* How the thread's hands change.
LEMMA HandMoves ==
  ASSUME NEW t \in Threads, Moves(t)
  PROVE  \/ item' = item
         \/ t \in Producers /\ \E x : item' = [item EXCEPT ![t] = x]
         \/ PushTask(t)
         \/ t \in Stages /\ PopTask(t)
         \/ t \in Stages /\ item' = [item EXCEPT ![t] = Noop] /\ UNCHANGED <<tasks, stop>>
<1>1. CASE CallStep(t)
  <2>1. CASE ClearException(t)
    BY <2>1, Constants DEF ClearException, Throw, Threads
  <2>2. CASE ~ClearException(t)
    BY <1>1, <2>2 DEF CallStep, ReadException, Throttle, Spin, CountTask, CheckActive, LockAndCheck,
                      FallAsleep, StopPool, JoinWorker
  <2> QED
    BY <2>1, <2>2
<1>2. CASE t \in Producers /\ (BeginEnqueue(t) \/ BeginJoin(t) \/ ThreadsRelease(t))
  BY <1>2 DEF BeginEnqueue, BeginJoin, ThreadsRelease
<1>3. CASE t \in Stages /\ \/ CheckStop(t) \/ PopTask(t) \/ RunStage(t) \/ RunInline(t)
                           \/ StageThrows(t) \/ CatchException(t) \/ FinishTask(t)
  BY <1>3 DEF CheckStop, RunStage, RunInline, TakesEffect, StageThrows, Throw, CatchException, FinishTask,
              poolVars
<1> QED
  BY <1>1, <1>2, <1>3 DEF Moves

\* A pool that a step leaves alone.
LEMMA SamePool ==
  ASSUME NEW w \in Stages, item'[w] = item[w], tasks'[w] = tasks[w], stop'[w] = stop[w]
  PROVE  Holds(w)' = Holds(w)
BY DEF Holds, HeldBy, QueueOf

\* A worker has no longer the task it had.
LEMMA LetGo ==
  ASSUME Types, NoopsStop, NEW w \in Stages, item[w] \in Tasks, item'[w] = Noop,
         tasks'[w] = tasks[w], stop'[w] = stop[w]
  PROVE  Holds(w)' \in Seq(Tasks) /\ Holds(w) = <<item[w]>> \o Holds(w)'
<1>1. HeldBy(w) = <<item[w]>> /\ HeldBy(w)' = <<>> /\ QueueOf(w)' = QueueOf(w)
  BY Distinct DEF HeldBy, QueueOf
<1>2. Holds(w)' = QueueOf(w) /\ QueueOf(w) \in Seq(Tasks)
  BY <1>1, HoldsInside, ConcatEmptySeq DEF Holds
<1> QED
  BY <1>1, <1>2 DEF Holds

\* A task comes into the queue of a pool.
LEMMA Comes ==
  ASSUME Types, NoopsStop, NEW w \in Stages, NEW x \in Tasks, item'[w] = item[w],
         ~stop[w], ~stop'[w], tasks'[w] = Append(tasks[w], x)
  PROVE  Holds(w)' = Append(Holds(w), x)
<1>1. PICK h, q, s : h = HeldBy(w) /\ q = QueueOf(w) /\ s = Holds(w)
  OBVIOUS
<1>2. h \in Seq(Tasks) /\ q \in Seq(Tasks) /\ s = h \o q /\ s \in Seq(Tasks)
  BY <1>1, HoldsInside DEF Holds
<1>3. HeldBy(w)' = h /\ QueueOf(w)' = Append(q, x)
  BY <1>1 DEF HeldBy, QueueOf
<1>4. h \o Append(q, x) = Append(h \o q, x)
  BY <1>2, AddedLast
<1>5. Holds(w)' = h \o Append(q, x)
  BY <1>3 DEF Holds
<1> QED
  BY <1>1, <1>2, <1>4, <1>5

\* A worker takes a task from its queue: the pool holds what it did.
LEMMA Taken ==
  ASSUME Types, ControlOK, Emptied, NoopsStop, NEW w \in Stages, PopTask(w), HandsOK(w), NEW v \in Stages
  PROVE  Holds(v)' = Holds(v)
<1>0. w \in Threads /\ v \in Threads /\ pc[w] = "pop" /\ Noop \notin Tasks
  BY Distinct DEF PopTask, At
<1>1. /\ item[w] = Noop /\ stop' = stop /\ tasks[w] # <<>>
      /\ item'[w] = Head(tasks[w]) /\ tasks'[w] = Tail(tasks[w])
      /\ \A u \in Stages : u # w => item'[u] = item[u] /\ tasks'[u] = tasks[u]
  BY <1>0, Distinct DEF PopTask, HandsOK, Types
<1>2. CASE v # w
  BY <1>1, <1>2, SamePool
<1>3. CASE v = w
  <2>1. PICK q, x, r : q = tasks[w] /\ x = Head(q) /\ r = Tail(q)
    OBVIOUS
  <2>2. q \in Seq(Tasks \cup {Noop}) /\ q # <<>> /\ x \in Elements(q) /\ x \in Tasks \cup {Noop}
    <3>1. q \in Seq(Tasks \cup {Noop}) /\ q # <<>>
      BY <1>1, <2>1 DEF Types
    <3>2. x = q[1] /\ x \in Tasks \cup {Noop} /\ 1 \in DOMAIN q
      BY <2>1, <3>1, TailMembers
    <3> QED
      BY <3>1, <3>2 DEF Elements
  <2>3. CASE x = Noop
    <3>1. stop[w]
      BY <2>1, <2>2, <2>3 DEF NoopsStop
    <3> QED
      BY <1>1, <1>3, <2>1, <2>3, <3>1 DEF Holds, HeldBy, QueueOf
  <2>4. CASE x # Noop
    <3>1. x \in Tasks /\ Inside(x, w)
      BY <2>1, <2>2, <2>4 DEF Inside
    <3>2. ~stop[w]
      BY <3>1 DEF Emptied
    <3>3. /\ HeldBy(w) = <<>> /\ HeldBy(w)' = <<x>>
          /\ QueueOf(w) = q /\ QueueOf(w)' = r
      BY <1>1, <2>1, <2>4, <3>2 DEF HeldBy, QueueOf
    <3>4. q \in Seq(Tasks)
      BY <3>3, HoldsInside
    <3>5. <<>> \o q = q /\ q = <<x>> \o r
      <4>1. <<>> \o q = q
        BY <3>4, ConcatEmptySeq
      <4>2. r \in Seq(Tasks) /\ Len(q) \in Nat \ {0} /\ Len(r) = Len(q) - 1 /\ x = q[1]
            /\ \A i \in 1 .. Len(r) : r[i] = q[i + 1] /\ i + 1 \in 1 .. Len(q)
        BY <2>1, <2>2, <3>4, TailMembers
      <4>3. PICK h, s : h = <<x>> /\ s = h \o r
        OBVIOUS
      <4>4. h \in Seq(Tasks) /\ Len(h) = 1 /\ h[1] = x
        BY <3>1, <4>3
      <4>5. /\ s \in Seq(Tasks) /\ Len(s) = Len(h) + Len(r)
            /\ \A i \in 1 .. Len(s) : s[i] = IF i <= Len(h) THEN h[i] ELSE r[i - Len(h)]
        BY <4>2, <4>3, <4>4, ConcatMembers
      <4>6. Len(s) = Len(q)
        BY <4>2, <4>4, <4>5
      <4>7. ASSUME NEW i \in 1 .. Len(s) PROVE s[i] = q[i]
        <5>1. CASE i = 1
          <6>1. s[i] = h[i]
            BY <4>4, <4>5, <5>1
          <6> QED
            BY <4>2, <4>4, <5>1, <6>1
        <5>2. CASE i # 1
          <6>1. i - 1 \in 1 .. Len(r) /\ ~(i <= Len(h)) /\ (i - 1) + 1 = i /\ i - Len(h) = i - 1
            BY <4>2, <4>4, <4>6, <5>2
          <6> QED
            BY <4>2, <4>5, <6>1
        <5> QED
          BY <5>1, <5>2
      <4> QED
        BY <3>4, <4>1, <4>3, <4>5, <4>6, <4>7, SeqEqual
    <3> QED
      BY <1>3, <3>3, <3>5 DEF Holds
  <2> QED
    BY <2>3, <2>4
<1> QED
  BY <1>2, <1>3

\* The pools are as they were.
Same(W) == \A w \in W : Holds(w)' = Holds(w)

\* A new task comes in at the end.
Arrives(x) ==
  /\ x \in Tasks \ submitted /\ executed' = executed
  /\ Holds(Lowering)' = Append(Holds(Lowering), x)
  /\ Same({Compile, Execute})

\* A task goes from one pool to the next.
GoesOn(w, x) ==
  /\ w \in {Lowering, Compile} /\ x \in Tasks /\ executed' = executed
  /\ Holds(w)' \in Seq(Tasks) /\ Holds(w) = <<x>> \o Holds(w)'
  /\ Holds(w + 1)' = Append(Holds(w + 1), x)
  /\ Same(Stages \ {w, w + 1})

\* A task leaves the pipeline, done, as the first of all, or given up.
Leaves(w, x) ==
  /\ w \in Stages /\ x \in Tasks
  /\ Holds(w)' \in Seq(Tasks) /\ Holds(w) = <<x>> \o Holds(w)'
  /\ Same(Stages \ {w})
  /\ \/ executed' = executed
     \/ executed' = Append(executed, x) /\ \A v \in Stages : v > w => Holds(v) = <<>>

\* A push.
LEMMA Pushed ==
  ASSUME Types, ControlOK, ReleaseOK, NewTasks, Emptied, NoopsStop, NEW t \in Threads, PushTask(t),
         PlanOK(t), HeldOK(t)
  PROVE  Arrives(item[t]) \/ GoesOn(t, item[t]) \/ (executed' = executed /\ Same(Stages))
<1>0. /\ Stages = {Lowering, Compile, Execute} /\ Lowering = 1 /\ Compile = 2 /\ Execute = 3
      /\ Noop \notin Tasks /\ \A s \in Stages : s \in Threads /\ s \notin Producers
      /\ t \in Producers \/ t \in Stages
  BY Distinct, Constants DEF Lowering, Compile, Execute
<1>1. PICK s, x : s = Pool(t) /\ x = item[t]
  OBVIOUS
<1>2. /\ s \in Stages /\ executed' = executed /\ stop' = stop
      /\ item' = [item EXCEPT ![t] = Noop]
      /\ tasks'[s] = Append(tasks[s], x)
      /\ \A v \in Stages : v # s => tasks'[v] = tasks[v]
  BY <1>1, PushFor DEF PushTask, PushBack, Types
<1>3. item'[t] = Noop /\ \A v \in Stages : v # t => item'[v] = item[v]
  BY <1>0, <1>2 DEF Types
<1>4. ASSUME NEW v \in Stages, v # t, v # s PROVE Holds(v)' = Holds(v)
  BY <1>2, <1>3, <1>4, SamePool
<1>5. CASE Head(plan[t]).op = "enqueue"
  <2>1. x \in Tasks /\ (t \in Producers => s = Lowering) /\ (t \notin Producers => s = t + 1)
    BY <1>1, <1>5, PushFor
  <2>2. ~stop[s]
    <3>1. CASE t \in Producers
      <4>1. stop[s] => joins > MaxJoins
        BY <1>2 DEF ReleaseOK
      <4>2. joins > MaxJoins => item[t] = Noop
        BY <3>1 DEF Emptied
      <4> QED
        BY <1>0, <1>1, <2>1, <4>1, <4>2
    <3>2. CASE t \in Stages
      <4>1. Inside(x, t)
        BY <1>1 DEF Inside
      <4> QED
        BY <1>2, <2>1, <3>2, <4>1 DEF Emptied
    <3> QED
      BY <1>0, <3>1, <3>2
  <2>3. s # t /\ Holds(s)' = Append(Holds(s), x)
    <3>1. s # t
      BY <1>0, <1>2, <2>1
    <3> QED
      BY <1>2, <1>3, <2>1, <2>2, <3>1, Comes
  <2>4. CASE t \in Producers
    <3>1. x \notin submitted
      BY <1>0, <1>1, <2>1, <2>4 DEF NewTasks
    <3>2. Compile # t /\ Execute # t
      BY <1>0, <2>4
    <3> QED
      BY <1>0, <1>1, <1>2, <1>4, <2>1, <2>3, <2>4, <3>1, <3>2 DEF Arrives, Same
  <2>5. CASE t \in Stages
    <3>1. s = t + 1 /\ t \in {Lowering, Compile}
      BY <1>0, <1>2, <2>1, <2>5
    <3>2. Holds(t)' \in Seq(Tasks) /\ Holds(t) = <<x>> \o Holds(t)'
      BY <1>1, <1>2, <1>3, <2>1, <2>3, <2>5, LetGo
    <3> QED
      BY <1>1, <1>2, <1>4, <2>1, <2>3, <3>1, <3>2 DEF GoesOn, Same
  <2> QED
    BY <1>0, <2>4, <2>5
<1>6. CASE Head(plan[t]).op # "enqueue"
  <2>1. t \in Producers /\ item[t] = Noop /\ stop[s]
    BY <1>1, <1>6, PushFor
  <2>2. \A v \in Stages : item'[v] = item[v]
    BY <1>0, <1>3, <2>1
  <2>3. Holds(s)' = Holds(s)
    <3>1. HeldBy(s)' = HeldBy(s)
      BY <1>2, <2>2 DEF HeldBy
    <3>2. QueueOf(s)' = <<>> /\ QueueOf(s) = <<>>
      BY <1>2, <2>1 DEF QueueOf
    <3> QED
      BY <3>1, <3>2 DEF Holds
  <2> QED
    BY <1>0, <1>2, <1>4, <2>1, <2>3 DEF Same
<1> QED
  BY <1>5, <1>6

\* A pool is stopped when it is empty.
LEMMA Stopped ==
  ASSUME Types, ControlOK, Emptied, NoopsStop, NEW t \in Threads, StopPool(t), NEW w \in Stages
  PROVE  Holds(w)' = Holds(w)
<1>1. pc[t] = "stop" /\ pc[t] \in CallLocations
  BY DEF StopPool, At, CallLocations
<1>2. /\ plan[t] # <<>> /\ Head(plan[t]).op = "release" /\ t \in Producers /\ Pool(t) \in Stages
  BY <1>1, CurrentCall DEF Fits, Calls
<1>3. \A x \in Tasks : ~Inside(x, w)
  BY <1>2 DEF Emptied
<1>4. stop' = [stop EXCEPT ![Pool(t)] = TRUE] /\ UNCHANGED <<tasks, item>>
  BY DEF StopPool
<1>5. CASE w # Pool(t)
  BY <1>4, <1>5, SamePool DEF Types
<1>6. CASE w = Pool(t)
  <2>1. HeldBy(w) \in Seq(Tasks) /\ QueueOf(w) \in Seq(Tasks) /\ HeldBy(w) \o QueueOf(w) = <<>>
    BY <1>3, HoldsInside DEF Holds
  <2>2. QueueOf(w) = <<>>
    BY <2>1, ConcatEqualIffEmpty
  <2>3. QueueOf(w)' = <<>> /\ HeldBy(w)' = HeldBy(w)
    BY <1>4, <1>6 DEF QueueOf, HeldBy, Types
  <2> QED
    BY <2>2, <2>3 DEF Holds
<1> QED
  BY <1>5, <1>6

\* Whose task takes effect: nothing is before it.
LEMMA Effective ==
  ASSUME Types, ControlOK, NewTasks, ModeOK, NoopsStop, NEW w \in Stages, HeldOK(w), Moves(w),
         item[w] \in Tasks, executed' # executed
  PROVE  \A v \in Stages : v > w => Holds(v) = <<>>
<1>0. /\ Stages = {Lowering, Compile, Execute} /\ Lowering = 1 /\ Compile = 2 /\ Execute = 3
      /\ Noop \notin Tasks /\ w \in Threads /\ w \notin Producers
  BY Distinct DEF Lowering, Compile, Execute
<1>1. RunStage(w) \/ RunInline(w)
  <2>1. ~CallStep(w)
    BY DEF CallStep, ReadException, ClearException, Throttle, Spin, CountTask, PushTask,
           CheckActive, LockAndCheck, FallAsleep, StopPool, JoinWorker, historyVars
  <2>2. ~CheckStop(w) /\ ~PopTask(w) /\ ~StageThrows(w) /\ ~CatchException(w) /\ ~FinishTask(w)
    BY DEF CheckStop, PopTask, StageThrows, CatchException, FinishTask, historyVars
  <2> QED
    BY <1>0, <2>1, <2>2 DEF Moves
<1>2. CASE fourStage
  <2>1. RunStage(w)
    <3>1. RunInline(w) => 1 \in 1 .. Len(plan[w]) /\ plan[w][1].op = "inline"
      <4>1. RunInline(w) => pc[w] = "inline" /\ pc[w] \in CallLocations
        BY DEF RunInline, At, CallLocations
      <4> QED
        BY <1>0, <4>1, CurrentCall DEF Fits
    <3> QED
      BY <1>1, <1>2, <3>1 DEF ModeOK
  <2>2. Continuation(w) = <<>>
    BY <1>0, <2>1 DEF RunStage, historyVars
  <2>3. w = Execute
    <3>1. PICK c : c = Call("enqueue", w + 1)
      OBVIOUS
    <3>2. <<c>> # <<>>
      OBVIOUS
    <3>3. ~(fourStage /\ w < Execute)
      BY <2>2, <3>1, <3>2 DEF Continuation
    <3> QED
      BY <1>0, <1>2, <3>3
  <2> QED
    BY <1>0, <2>3
<1>3. CASE ~fourStage
  <2>1. \A v \in {Compile, Execute} : \A x \in Tasks : ~Inside(x, v)
    BY <1>3 DEF ModeOK
  <2>2. \A v \in {Compile, Execute} : Holds(v) = <<>>
    BY <1>0, <2>1, HoldsInside
  <2> QED
    BY <1>0, <2>2
<1> QED
  BY <1>2, <1>3

\* What a step of a thread is for the pipeline.
LEMMA PipelineMoves ==
  ASSUME Types, ControlOK, Sleeping, ReleaseOK, NewTasks, ModeOK, Emptied, NoopsStop,
         NEW t \in Threads, Moves(t), \A u \in Threads : PlanOK(u) /\ HandsOK(u) /\ HeldOK(u)
  PROVE  \/ Arrives(item[t]) \/ GoesOn(t, item[t]) \/ Leaves(t, item[t])
         \/ executed' = executed /\ Same(Stages)
<1>0. /\ item \in [Threads -> Tasks \cup {Noop}]
      /\ t \in Producers \/ t \in Stages
      /\ \A w \in Stages : w \in Threads /\ w \notin Producers
  BY Distinct, Constants DEF Types
<1>1. CASE PushTask(t)
  BY <1>1, Pushed
<1>2. CASE t \in Stages /\ PopTask(t)
  BY <1>2, Taken DEF Same, PopTask, historyVars
<1>3. CASE StopPool(t)
  BY <1>3, Stopped DEF Same, StopPool, historyVars
<1>4. CASE ~PushTask(t) /\ ~(t \in Stages /\ PopTask(t)) /\ ~StopPool(t)
  <2>1. tasks' = tasks /\ stop' = stop
    <3>1. Begins(t) => stop' = stop
      BY DEF Begins, BeginEnqueue, BeginJoin, ThreadsRelease, poolVars
    <3> QED
      BY <1>4, <3>1, QueueMoves, Frame
  <2>2. CASE \A w \in Stages : item'[w] = item[w]
    <3>1. Same(Stages)
      BY <2>1, <2>2, SamePool DEF Same
    <3>2. executed' = executed
      <4>1. ASSUME executed' # executed PROVE FALSE
        <5>1. item[t] \in Tasks /\ t \in Stages /\ item' = [item EXCEPT ![t] = Noop]
          BY <4>1, Outflow
        <5>2. item'[t] = Noop
          BY <1>0, <5>1
        <5> QED
          BY <2>2, <5>1, <5>2, Distinct
      <4> QED
        BY <4>1
    <3> QED
      BY <3>1, <3>2
  <2>3. CASE ~(\A w \in Stages : item'[w] = item[w])
    <3>1. t \in Stages /\ item' = [item EXCEPT ![t] = Noop]
      BY <1>0, <1>4, <2>3, HandMoves
    <3>2. item[t] \in Tasks /\ item'[t] = Noop /\ \A w \in Stages : w # t => item'[w] = item[w]
      <4>1. item'[t] = Noop /\ \A w \in Stages : w # t => item'[w] = item[w]
        BY <1>0, <3>1
      <4>2. item[t] # Noop
        BY <2>3, <4>1
      <4> QED
        BY <1>0, <4>1, <4>2
    <3>3. Holds(t)' \in Seq(Tasks) /\ Holds(t) = <<item[t]>> \o Holds(t)'
      BY <2>1, <3>1, <3>2, LetGo
    <3>4. Same(Stages \ {t})
      BY <2>1, <3>2, SamePool DEF Same
    <3>5. \/ executed' = executed
          \/ executed' = Append(executed, item[t]) /\ \A v \in Stages : v > t => Holds(v) = <<>>
      <4>1. executed' = executed \/ executed' = Append(executed, item[t])
        BY Outflow
      <4> QED
        BY <3>1, <3>2, <4>1, Effective
    <3> QED
      BY <3>1, <3>2, <3>3, <3>4, <3>5 DEF Leaves
  <2> QED
    BY <2>2, <2>3
<1> QED
  BY <1>1, <1>2, <1>3, <1>4

\* The three pools are different ones.
LEMMA Three ==
  /\ Stages = {Lowering, Compile, Execute} /\ Lowering + 1 = Compile /\ Compile + 1 = Execute
  /\ Lowering # Compile /\ Compile # Execute /\ Lowering # Execute
  /\ Compile > Lowering /\ Execute > Lowering /\ Execute > Compile
BY DEF Stages, Lowering, Compile, Execute

\* An operation that arrives is submitted to the executor.
LEMMA ArrivesIsSubmit ==
  ASSUME Types, NewTasks, NoopsStop, NEW x, Arrives(x)
  PROVE  Fifo!Next
<1>1. PICK a, b, c : a = Holds(Execute) /\ b = Holds(Compile) /\ c = Holds(Lowering)
  OBVIOUS
<1>2. a \in Seq(Tasks) /\ b \in Seq(Tasks) /\ c \in Seq(Tasks) /\ x \in Tasks \ submitted
  BY <1>1, HoldsInside, Three DEF Arrives
<1>3. PICK s : s = (a \o b) \o c
  OBVIOUS
<1>4. InFlight = s /\ s \in Seq(Tasks)
  BY <1>1, <1>2, <1>3, InFlightIs, ConcatProperties
<1>5. InFlight' = Append(s, x)
  <2>1. InFlight' = (a \o b) \o Append(c, x)
    BY <1>1, InFlightIs DEF Arrives, Same
  <2> QED
    <3>1. PICK d : d = a \o b
      OBVIOUS
    <3>2. d \in Seq(Tasks) /\ c \in Seq(Tasks) /\ x \in Tasks
      BY <1>2, <3>1, ConcatProperties
    <3>3. d \o Append(c, x) = Append(d \o c, x)
      BY <3>2, AddedLast
    <3> QED
      BY <1>3, <2>1, <3>1, <3>3
<1>6. x \notin Fifo!Elements(s)
  <2>1. ASSUME NEW i \in 1 .. Len(s) PROVE s[i] # x
    <3>1. PICK d : d = a \o b
      OBVIOUS
    <3>2. /\ d \in Seq(Tasks) /\ Len(d) = Len(a) + Len(b)
          /\ \A j \in 1 .. Len(d) : d[j] = IF j <= Len(a) THEN a[j] ELSE b[j - Len(a)]
      BY <1>2, <3>1, ConcatMembers
    <3>3. /\ Len(s) = Len(d) + Len(c)
          /\ s[i] = IF i <= Len(d) THEN d[i] ELSE c[i - Len(d)]
      BY <1>2, <1>3, <3>1, <3>2, ConcatMembers
    <3>4. /\ \A j \in 1 .. Len(a) : a[j] \in submitted
          /\ \A j \in 1 .. Len(b) : b[j] \in submitted
          /\ \A j \in 1 .. Len(c) : c[j] \in submitted
      BY <1>1, HoldsInside, Three DEF NewTasks
    <3>5. Len(a) \in Nat /\ Len(b) \in Nat /\ Len(c) \in Nat /\ Len(d) \in Nat
      BY <1>2, <3>2, LenProperties
    <3>6. CASE i <= Len(d)
      <4>1. s[i] = d[i] /\ i \in 1 .. Len(d)
        BY <3>3, <3>5, <3>6
      <4>2. i \in 1 .. Len(a) \/ (~(i <= Len(a)) /\ i - Len(a) \in 1 .. Len(b))
        BY <3>2, <3>5, <4>1
      <4>3. s[i] \in submitted
        BY <3>2, <3>4, <4>1, <4>2
      <4> QED
        BY <1>2, <4>3
    <3>7. CASE ~(i <= Len(d))
      <4>1. i - Len(d) \in 1 .. Len(c) /\ s[i] = c[i - Len(d)]
        BY <3>3, <3>5, <3>7
      <4> QED
        BY <1>2, <3>4, <4>1
    <3> QED
      BY <3>6, <3>7
  <2>2. DOMAIN s = 1 .. Len(s)
    BY <1>4, LenProperties
  <2> QED
    BY <2>1, <2>2 DEF Fifo!Elements
<1>7. x \notin Fifo!Elements(executed)
  BY <1>2 DEF Fifo!Elements, Elements, NewTasks
<1>8. Fifo!Submit(x)
  BY <1>4, <1>5, <1>6, <1>7 DEF Fifo!Submit, Arrives
<1> QED
  BY <1>2, <1>8 DEF Fifo!Next

\* An operation that goes on changes nothing for the executor.
LEMMA GoesOnIsStutter ==
  ASSUME Types, NoopsStop, NEW w, NEW x, GoesOn(w, x)
  PROVE  InFlight' = InFlight /\ executed' = executed
<1>1. PICK a, b, c, r, h : /\ a = Holds(Execute) /\ b = Holds(Compile) /\ c = Holds(Lowering)
                           /\ r = Holds(w)' /\ h = <<x>>
  OBVIOUS
<1>2. /\ a \in Seq(Tasks) /\ b \in Seq(Tasks) /\ c \in Seq(Tasks) /\ r \in Seq(Tasks) /\ x \in Tasks
      /\ h \in Seq(Tasks)
  BY <1>1, HoldsInside, Three DEF GoesOn
<1>3. InFlight = (a \o b) \o c
  BY <1>1, InFlightIs
<1>4. \A s \in Seq(Tasks) : Append(s, x) = s \o h
  BY <1>1, <1>2, AppendIsConcat
<1>5. CASE w = Compile
  <2>1. b = h \o r /\ Holds(Execute)' = a \o h /\ Holds(Lowering)' = c
    BY <1>1, <1>2, <1>4, <1>5, Three DEF GoesOn, Same
  <2>2. InFlight' = ((a \o h) \o r) \o c
    BY <1>1, <1>5, <2>1, InFlightIs
  <2>3. (a \o h) \o r = a \o (h \o r)
    <3>1. PICK u, v : u = a \o h /\ v = h \o r
      OBVIOUS
    <3>2. a \in Seq(Tasks) /\ h \in Seq(Tasks) /\ r \in Seq(Tasks)
      BY <1>2
    <3> QED
      BY <3>1, <3>2, Regrouped
  <2> QED
    BY <1>3, <2>1, <2>2, <2>3 DEF GoesOn
<1>6. CASE w = Lowering
  <2>1. c = h \o r /\ Holds(Compile)' = b \o h /\ Holds(Execute)' = a
    BY <1>1, <1>2, <1>4, <1>6, Three DEF GoesOn, Same
  <2>2. PICK u, v : u = a \o b /\ v = b \o h
    OBVIOUS
  <2>3. InFlight = u \o c /\ InFlight' = (a \o v) \o r
    BY <1>1, <1>3, <1>6, <2>1, <2>2, InFlightIs
  <2>4. (a \o v) \o r = u \o c
    <3>1. u \in Seq(Tasks)
      BY <1>2, <2>2, ConcatProperties
    <3>2. u \o h = a \o v
      <4>1. a \in Seq(Tasks) /\ b \in Seq(Tasks) /\ h \in Seq(Tasks)
        BY <1>2
      <4> QED
        BY <2>2, <4>1, Regrouped
    <3>3. (u \o h) \o r = u \o c
      <4>1. h \in Seq(Tasks) /\ r \in Seq(Tasks) /\ c = h \o r
        BY <1>2, <2>1
      <4>2. PICK s : s = u \o h
        OBVIOUS
      <4> QED
        BY <3>1, <4>1, <4>2, Regrouped
    <3> QED
      BY <3>2, <3>3
  <2> QED
    BY <2>3, <2>4 DEF GoesOn
<1> QED
  BY <1>5, <1>6 DEF GoesOn

\* Where an operation that leaves the pipeline was.
LEMMA Splits ==
  ASSUME Types, NoopsStop, NEW w, NEW x, Leaves(w, x)
  PROVE  \E p, q \in Seq(Tasks) :
           /\ InFlight = p \o (<<x>> \o q) /\ InFlight' = p \o q
           /\ (\A v \in Stages : v > w => Holds(v) = <<>>) => p = <<>>
<1>1. PICK a, b, c, r, h : /\ a = Holds(Execute) /\ b = Holds(Compile) /\ c = Holds(Lowering)
                           /\ r = Holds(w)' /\ h = <<x>>
  OBVIOUS
<1>2. /\ a \in Seq(Tasks) /\ b \in Seq(Tasks) /\ c \in Seq(Tasks) /\ r \in Seq(Tasks) /\ x \in Tasks
      /\ h \in Seq(Tasks)
  BY <1>1, HoldsInside, Three DEF Leaves
<1>3. InFlight = (a \o b) \o c
  BY <1>1, InFlightIs
<1>4. CASE w = Execute
  <2>1. a = h \o r /\ Holds(Compile)' = b /\ Holds(Lowering)' = c
    BY <1>1, <1>4, Three DEF Leaves, Same
  <2>2. PICK u, v, s : u = a \o b /\ v = r \o b /\ s = v \o c
    OBVIOUS
  <2>3. InFlight = u \o c /\ InFlight' = s
    BY <1>1, <1>3, <1>4, <2>1, <2>2, InFlightIs
  <2>4. v \in Seq(Tasks)
    BY <1>2, <2>2, ConcatProperties
  <2>5. s \in Seq(Tasks)
    BY <1>2, <2>2, <2>4, ConcatProperties
  <2>6. u = h \o v
    <3>1. h \in Seq(Tasks) /\ r \in Seq(Tasks) /\ b \in Seq(Tasks) /\ a = h \o r /\ v = r \o b
      BY <1>2, <2>1, <2>2
    <3>2. a \o b = h \o v
      BY <3>1, Regrouped
    <3> QED
      BY <2>2, <3>2
  <2>7. u \o c = h \o s
    <3>1. h \in Seq(Tasks) /\ v \in Seq(Tasks) /\ c \in Seq(Tasks) /\ u = h \o v /\ s = v \o c
      BY <1>2, <2>2, <2>4, <2>6
    <3> QED
      BY <3>1, Regrouped
  <2>8. PICK g : g = h \o s
    OBVIOUS
  <2>9. g \in Seq(Tasks)
    BY <1>2, <2>5, <2>8, ConcatProperties
  <2>10. <<>> \o g = g /\ <<>> \o s = s /\ <<>> \in Seq(Tasks)
    BY <2>5, <2>9, ConcatEmptySeq, EmptySeq
  <2> QED
    BY <1>1, <2>3, <2>5, <2>7, <2>8, <2>10
<1>5. CASE w = Compile
  <2>1. b = h \o r /\ Holds(Execute)' = a /\ Holds(Lowering)' = c
    BY <1>1, <1>5, Three DEF Leaves, Same
  <2>2. PICK u, v, s, g : u = a \o b /\ v = a \o r /\ s = r \o c /\ g = b \o c
    OBVIOUS
  <2>3. InFlight = u \o c /\ InFlight' = v \o c
    BY <1>1, <1>3, <1>5, <2>1, <2>2, InFlightIs
  <2>4. s \in Seq(Tasks)
    BY <1>2, <2>2, ConcatProperties
  <2>5. v \o c = a \o s
    <3>1. a \in Seq(Tasks) /\ r \in Seq(Tasks) /\ c \in Seq(Tasks)
      BY <1>2
    <3> QED
      BY <2>2, <3>1, Regrouped
  <2>6. u \o c = a \o g
    <3>1. a \in Seq(Tasks) /\ b \in Seq(Tasks) /\ c \in Seq(Tasks)
      BY <1>2
    <3> QED
      BY <2>2, <3>1, Regrouped
  <2>7. g = h \o s
    <3>1. h \in Seq(Tasks) /\ r \in Seq(Tasks) /\ c \in Seq(Tasks) /\ b = h \o r /\ s = r \o c
      BY <1>2, <2>1, <2>2
    <3>2. b \o c = h \o s
      BY <3>1, Regrouped
    <3> QED
      BY <2>2, <3>2
  <2>8. (\A v1 \in Stages : v1 > w => Holds(v1) = <<>>) => a = <<>>
    BY <1>1, <1>5, Three
  <2> QED
    BY <1>1, <1>2, <2>3, <2>4, <2>5, <2>6, <2>7, <2>8
<1>6. CASE w = Lowering
  <2>1. c = h \o r /\ Holds(Execute)' = a /\ Holds(Compile)' = b
    BY <1>1, <1>6, Three DEF Leaves, Same
  <2>2. PICK u : u = a \o b
    OBVIOUS
  <2>3. u \in Seq(Tasks)
    BY <1>2, <2>2, ConcatProperties
  <2>4. InFlight = u \o (h \o r) /\ InFlight' = u \o r
    BY <1>1, <1>3, <1>6, <2>1, <2>2, InFlightIs
  <2>5. (\A v1 \in Stages : v1 > w => Holds(v1) = <<>>) => u = <<>>
    <3>1. <<>> \o <<>> = <<>>
      BY EmptySeq, ConcatEmptySeq
    <3> QED
      BY <1>1, <1>6, <2>2, <3>1, Three
  <2> QED
    BY <1>1, <1>2, <2>3, <2>4, <2>5
<1> QED
  BY <1>4, <1>5, <1>6, Three DEF Leaves

\* An operation that leaves the pipeline is executed, or given up.
LEMMA LeavesIsNext ==
  ASSUME Types, NoopsStop, NEW w, NEW x, Leaves(w, x)
  PROVE  Fifo!Next
<1>1. PICK p \in Seq(Tasks), q \in Seq(Tasks) :
        /\ InFlight = p \o (<<x>> \o q) /\ InFlight' = p \o q
        /\ (\A v \in Stages : v > w => Holds(v) = <<>>) => p = <<>>
  BY Splits
<1>2. x \in Tasks
  BY DEF Leaves
<1>3. CASE executed' = executed
  <2>1. PICK r : r = <<x>> \o q
    OBVIOUS
  <2>2. r \in Seq(Tasks) /\ r # <<>> /\ Tail(r) = q
    <3>1. <<x>> \in Seq(Tasks)
      BY <1>2
    <3> QED
      BY <1>2, <2>1, <3>1, First, ConcatProperties
  <2>3. Shortens(p \o r, p \o q)
    BY <2>2, TakenOut
  <2>4. PICK i \in DOMAIN InFlight :
          InFlight' = SubSeq(InFlight, 1, i - 1) \o SubSeq(InFlight, i + 1, Len(InFlight))
    BY <1>1, <2>1, <2>3 DEF Shortens
  <2>5. Fifo!GiveUp(i)
    BY <1>3, <2>4 DEF Fifo!GiveUp
  <2> QED
    BY <2>5 DEF Fifo!Next
<1>4. CASE executed' = Append(executed, x) /\ \A v \in Stages : v > w => Holds(v) = <<>>
  <2>1. PICK s : s = <<x>> \o q
    OBVIOUS
  <2>2. s \in Seq(Tasks) /\ s # <<>> /\ Head(s) = x /\ Tail(s) = q
    <3>1. <<x>> \in Seq(Tasks)
      BY <1>2
    <3> QED
      BY <1>2, <2>1, <3>1, First, ConcatProperties
  <2>3. <<>> \o s = s /\ <<>> \o q = q
    BY <2>2, ConcatEmptySeq
  <2>4. InFlight = s /\ InFlight' = q
    BY <1>1, <1>4, <2>1, <2>3
  <2>5. Fifo!Execute
    BY <1>4, <2>2, <2>4 DEF Fifo!Execute
  <2> QED
    BY <2>5 DEF Fifo!Next
<1> QED
  BY <1>3, <1>4 DEF Leaves

\* Every step of the pipeline is one of the executor, or changes nothing of it.
LEMMA FifoStep == Inv /\ JoinInv /\ FifoInv /\ [Next]_vars => [Fifo!Next]_(Fifo!vars)
<1> SUFFICES ASSUME Inv, JoinInv, FifoInv, [Next]_vars
             PROVE  Fifo!Next \/ (InFlight' = InFlight /\ executed' = executed)
  BY DEF Fifo!vars
<1>0. /\ Types /\ ControlOK /\ Sleeping /\ ReleaseOK /\ NewTasks
      /\ \A t \in Threads : PlanOK(t) /\ HandsOK(t) /\ HeldOK(t)
      /\ ModeOK /\ Emptied /\ NoopsStop
  BY DEF Inv, JoinInv, FifoInv
<1>1. ASSUME executed' = executed, Same(Stages) PROVE InFlight' = InFlight /\ executed' = executed
  BY <1>1, InFlightIs, Three DEF Same
<1>2. CASE UNCHANGED vars
  <2>1. UNCHANGED <<tasks, stop, item, executed>>
    BY <1>2 DEF vars, poolVars, threadVars, historyVars
  <2> QED
    BY <1>1, <2>1, SamePool DEF Same
<1>3. ASSUME NEW w \in Stages, NotifyAll(w) PROVE InFlight' = InFlight /\ executed' = executed
  <2>1. UNCHANGED <<tasks, stop, item, executed>>
    BY <1>3 DEF NotifyAll, Wake, historyVars
  <2> QED
    BY <1>1, <2>1, SamePool DEF Same
<1>4. ASSUME NEW t \in Threads, Moves(t)
      PROVE  Fifo!Next \/ (InFlight' = InFlight /\ executed' = executed)
  <2>1. \/ Arrives(item[t]) \/ GoesOn(t, item[t]) \/ Leaves(t, item[t])
        \/ executed' = executed /\ Same(Stages)
    BY <1>0, <1>4, PipelineMoves
  <2> QED
    BY <1>0, <1>1, <2>1, ArrivesIsSubmit, GoesOnIsStutter, LeavesIsNext
<1> QED
  BY <1>2, <1>3, <1>4, Steps

LEMMA FifoInit == Init => Fifo!Init
<1> SUFFICES ASSUME Init PROVE Fifo!Init
  OBVIOUS
<1>1. \A w \in Stages : w \in Threads /\ item[w] = Noop /\ tasks[w] = <<>> /\ ~stop[w]
  BY Distinct DEF Init
<1>2. <<>> \o <<>> = <<>>
  BY EmptySeq, ConcatEmptySeq
<1>3. \A w \in Stages : Holds(w) = <<>>
  BY <1>1, <1>2 DEF Holds, HeldBy, QueueOf
<1>4. InFlight = <<>>
  BY <1>2, <1>3, InFlightIs, Three
<1> QED
  BY <1>4 DEF Init, Fifo!Init

\* The invariant the refinement rests on: which thread in enqueue holds an
\* operation, which worker does the work of the stages with the four-stage
\* pipeline on and off, and that the pools are empty when they are released.
THEOREM FifoInvariant == Spec => []FifoInv
<1>1. Init => FifoInv
  BY FifoInitially
<1>2. Inv /\ JoinInv /\ FifoInv /\ [Next]_vars => FifoInv'
  BY FifoInvStep
<1> QED
  BY <1>1, <1>2, JoinInvariant, PTL DEF Spec

\* The pools of lowering, compilation and execution are one FIFO executor:
\* operations take effect one at a time, at most once, in the order in which
\* PipelineTaskAllThreads was given them, whatever the interleaving of the
\* workers, and one that meets an exception is given up.
THEOREM PipelineRefinesFifo == Spec => PipelineIsFifo
<1>1. Init => Fifo!Init
  BY FifoInit
<1>2. Inv /\ JoinInv /\ FifoInv /\ [Next]_vars => [Fifo!Next]_(Fifo!vars)
  BY FifoStep
<1> QED
  BY <1>1, <1>2, JoinInvariant, FifoInvariant, PTL DEF Spec, PipelineIsFifo, Fifo!Spec

=============================================================================
