-------------------------- MODULE AccThread_proofs --------------------------
(***************************************************************************)
(* Proofs about the accumulation thread, for any number of producers, any  *)
(* ring and any bounds: the types, with the bounds of the count and of the *)
(* ring, that no wait that returns hides a failure, and that operations    *)
(* take effect in the order of the program.                                *)
(***************************************************************************)
EXTENDS AccThread, FiniteSetTheorems, SequenceTheorems, TLAPS

Items ==
  {Task(op) : op \in Ops} \cup {Marker(p) : p \in Producers} \cup {StopTask, Nothing}

Slots == 0 .. RingSize - 1

CallLocations ==
  {"check", "forget", "forget, throw", "last check", "last forget", "push", "count",
   "entered", "reserved", "filled", "future", "spin", "enter", "flush", "own", "join"}

WorkerLocations == {"loop", "read", "execute", "free", "uncount", "exited"}

Types ==
  /\ version \in Versions
  /\ tasks_ \in Seq(Items) /\ slots \in [Slots -> Items]
  /\ head_ \in Slots /\ tail_ \in Slots /\ new_h \in [Producers -> Slots]
  /\ enter_ \in BOOLEAN /\ stop_ \in BOOLEAN /\ task_in_progress_ \in BOOLEAN
  /\ lost \in BOOLEAN /\ overlap \in BOOLEAN
  /\ task_count_ \in Nat
  /\ ex_ptr_ \in Ops \cup {None}
  /\ cleanup_tasks \in SUBSET Ops /\ promise \in SUBSET Producers
  /\ pc \in [Threads -> {"idle", "ended"} \cup CallLocations \cup WorkerLocations]
  /\ item \in [Threads -> Items]
  /\ begun \in [Producers -> 0 .. MaxOps]
  /\ executed \in Seq(Ops)
  /\ failed \in SUBSET Ops /\ refused \in SUBSET Ops
  /\ surfaced \in SUBSET Ops /\ missed \in SUBSET Ops

\* The versions in which a call can be at a location, and what it is about.
VersionsAt(loc) ==
  CASE loc \in {"check", "last check"}                          -> {"counted"} \cup Fast
    [] loc \in {"forget", "last forget", "future"}              -> Fast
    [] loc \in {"forget, throw", "count", "spin"}               -> {"counted"}
    [] loc \in {"entered", "reserved", "filled"}                -> {"ring"}
    [] loc \in {"enter", "flush"}                               -> {"sync"}
    [] OTHER                                                    -> {"sync", "counted"} \cup Fast

KindsAt(loc) ==
  CASE loc \in {"check", "forget", "forget, throw"}             -> {"task", "marker"}
    [] loc \in {"push", "entered", "reserved", "filled"}        -> {"task", "marker", "stop"}
    [] loc = "count"                                            -> {"task"}
    [] loc = "join"                                             -> {"stop"}
    [] OTHER                                                    -> {"marker"}

\* What a call has in hand, and where it can be.
CallOK(p) ==
  /\ pc[p] \in {"idle", "ended"} \cup CallLocations
  /\ pc[p] \in CallLocations => version \in VersionsAt(pc[p]) /\ Kind(p) \in KindsAt(pc[p])
  /\ pc[p] \in CallLocations \ {"last check", "join", "own", "spin", "forget, throw"}
       /\ Kind(p) # "task" => version # "counted"
  /\ At(p, "push") /\ Kind(p) # "task" => version \in Fast
  /\ pc[p] \in CallLocations /\ Kind(p) = "task" => item[p] = Task(Op(p)) /\ begun[p] > 0
  /\ pc[p] \in CallLocations /\ Kind(p) = "marker" => item[p] = Marker(p) /\ begun[p] > 0
  /\ Kind(p) = "stop" => pc[p] \in CallLocations
  /\ Kind(p) = "stop" \/ At(p, "ended") => p = Main

\* The process ends when no call is under way.
LeavingOK ==
  Leaving => \A p \in Producers : p # Main => At(p, "idle")

WorkerOK ==
  /\ pc[Worker] \in WorkerLocations
  /\ version = "sync" => At(Worker, "exited") /\ ex_ptr_ = None
  /\ At(Worker, "uncount") => version = "counted"
  /\ At(Worker, "read") => version = "ring"
  /\ version \notin Fast =>
       \A i \in 1 .. Len(tasks_) : tasks_[i].kind = "task"
  /\ version \notin Fast /\ At(Worker, "execute") => Kind(Worker) = "task"

Control == WorkerOK /\ LeavingOK /\ \A p \in Producers : CallOK(p)

\* Tasks that are queued, and the one the worker has in hand, are counted, but for
\* those whose producers are on their way to count them.
Busy == IF pc[Worker] \in {"execute", "free", "uncount"} THEN 1 ELSE 0
AtCount == {p \in Producers : At(p, "count")}
InTask(p) == Kind(p) = "task" /\ pc[p] \in CallLocations
Counted == {op \in Ops : op[2] <= begun[op[1]] /\ (InTask(op[1]) => op[2] # begun[op[1]])}

CountOK ==
  /\ version = "counted" /\ ~At(Worker, "exited") =>
       task_count_ + Cardinality(AtCount) = Len(tasks_) + Busy
  /\ version = "counted" => task_count_ >= Busy
  /\ task_count_ <= Cardinality(Counted)

\* A failure that has not surfaced is stored.
Stored == ~lost => (ex_ptr_ = None => failed \subseteq surfaced) /\ missed = {}

Base == Types /\ Control /\ CountOK /\ Stored

-----------------------------------------------------------------------------
(* The constants, and what an item can be.                                 *)

LEMMA Constants ==
  /\ Main \in Producers /\ Worker \notin Producers /\ Worker \in Threads
  /\ IsFiniteSet(Producers) /\ \A p \in Producers : p \in Threads /\ p # Worker
  /\ RingSize \in Nat /\ RingSize > 1 /\ MaxOps \in Nat /\ None \notin Ops
  /\ Versions \subseteq {"sync", "counted", "blocking", "ring"}
BY AccThreadAssumption DEF Threads, Fast

LEMMA ItemFacts ==
  /\ \A op \in Ops : Task(op) \in Items
  /\ \A p \in Producers : Marker(p) \in Items
  /\ StopTask \in Items /\ Nothing \in Items
  /\ \A x \in Items :
       /\ x.kind \in {"task", "marker", "stop", "none"}
       /\ x.kind = "task" => x.of \in Ops /\ x = Task(x.of)
       /\ x.kind = "marker" => x.of \in Producers /\ x = Marker(x.of)
       /\ x.kind = "stop" => x = StopTask
       /\ x.kind = "none" => x = Nothing
<1>1. /\ \A op \in Ops : Task(op) \in Items
      /\ \A p \in Producers : Marker(p) \in Items
      /\ StopTask \in Items /\ Nothing \in Items
  BY DEF Items
<1>2. ASSUME NEW x \in Items
      PROVE  /\ x.kind \in {"task", "marker", "stop", "none"}
             /\ x.kind = "task" => x.of \in Ops /\ x = Task(x.of)
             /\ x.kind = "marker" => x.of \in Producers /\ x = Marker(x.of)
             /\ x.kind = "stop" => x = StopTask
             /\ x.kind = "none" => x = Nothing
  <2>1. CASE \E op \in Ops : x = Task(op)
    BY <2>1 DEF Task
  <2>2. CASE \E p \in Producers : x = Marker(p)
    BY <2>2 DEF Marker
  <2>3. CASE x = StopTask
    BY <2>3 DEF StopTask
  <2>4. CASE x = Nothing
    BY <2>4 DEF Nothing
  <2> QED
    BY <2>1, <2>2, <2>3, <2>4 DEF Items
<1> QED
  BY <1>1, <1>2

LEMMA KindFacts ==
  /\ StopTask.kind = "stop" /\ Nothing.kind = "none"
  /\ \A op : Task(op).kind = "task" /\ Task(op).of = op
  /\ \A p : Marker(p).kind = "marker" /\ Marker(p).of = p
BY DEF Task, Marker, StopTask, Nothing

LEMMA OpFacts ==
  ASSUME Types
  PROVE  /\ \A p \in Producers : begun[p] \in Nat /\ begun[p] <= MaxOps
         /\ \A p \in Producers : begun[p] > 0 => Op(p) \in Ops
         /\ \A p \in Producers : begun[p] < MaxOps => <<p, begun[p] + 1>> \in Ops
         /\ \A op \in Ops : op[1] \in Producers /\ op[2] \in Nat /\ op[2] > 0 /\ op = <<op[1], op[2]>>
BY Constants DEF Types, Ops, Op

LEMMA NextSlot ==
  ASSUME NEW i \in Slots
  PROVE  Next_(i) \in Slots /\ Next_(i) = IF i + 1 = RingSize THEN 0 ELSE i + 1
<1>1. RingSize \in Nat /\ RingSize > 1 /\ i \in Nat /\ i < RingSize
  BY Constants DEF Slots
<1>2. CASE i + 1 = RingSize
  <2>1. (i + 1) % RingSize = 0
    BY <1>1, <1>2
  <2> QED
    BY <1>1, <1>2, <2>1 DEF Next_, Slots
<1>3. CASE i + 1 # RingSize
  <2>1. (i + 1) % RingSize = i + 1
    BY <1>1, <1>3
  <2> QED
    BY <1>1, <1>3, <2>1 DEF Next_, Slots
<1> QED
  BY <1>2, <1>3

-----------------------------------------------------------------------------
(* What a step leaves alone.                                               *)

\* Of the threads, a step changes the one that takes it.
Only(t) ==
  /\ version' = version
  /\ \A u \in Threads \ {t} : pc'[u] = pc[u] /\ item'[u] = item[u]
  /\ \A p \in Producers \ {t} : begun'[p] = begun[p]

ProducerStep(p) == Submit(p) \/ StepMarker(p) \/ Discard(p) \/ CallStep(p)

\* A throw ends a call.
LEMMA Throws ==
  ASSUME Types, NEW p \in Producers, Throw(p), begun[p] > 0 \/ Kind(p) = "stop"
  PROVE  /\ pc' = [pc EXCEPT ![p] = IF Kind(p) = "stop" THEN "ended" ELSE "idle"]
         /\ pc' \in [Threads -> {"idle", "ended"} \cup CallLocations \cup WorkerLocations]
         /\ item' = [item EXCEPT ![p] = Nothing] /\ item' \in [Threads -> Items]
         /\ refused \subseteq refused' /\ refused' \in SUBSET Ops
         /\ Kind(p) # "stop" => Op(p) \in refused'
<1>1. /\ pc' = [pc EXCEPT ![p] = IF Kind(p) = "stop" THEN "ended" ELSE "idle"]
      /\ item' = [item EXCEPT ![p] = Nothing]
      /\ refused' = refused \cup (IF Kind(p) = "stop" THEN {} ELSE {Op(p)})
  BY DEF Throw, Goto, Hold
<1>2. pc' \in [Threads -> {"idle", "ended"} \cup CallLocations \cup WorkerLocations]
  BY <1>1 DEF Types
<1>3. item' \in [Threads -> Items]
  BY <1>1, ItemFacts DEF Types
<1>4. refused' \in SUBSET Ops
  BY <1>1, OpFacts DEF Types
<1> QED
  BY <1>1, <1>2, <1>3, <1>4

LEMMA TailIs ==
  ASSUME NEW S, NEW s \in Seq(S), s # <<>>
  PROVE  Tail_(s) = Tail(s)
BY TailIsSubSeq DEF Tail_

LEMMA CallTypes ==
  ASSUME Types, Control, NEW p \in Producers, CallStep(p)
  PROVE  Types'
<1>1. /\ p \in Threads /\ CallOK(p) /\ Op(p) \in Ops \cup {Op(p)}
      /\ pc[p] \in CallLocations /\ (begun[p] > 0 \/ Kind(p) = "stop")
  <2>1. pc[p] \in CallLocations
    BY DEF CallStep, OwnOperation, CheckException, Forget, Push, Count, EnterRing, ReserveSlot,
           FillSlot, PublishSlot, Spin, AwaitMarker, EnterFlush, FlushTask, FlushTaskThrows,
           Flushed, At, CallLocations
  <2>2. Kind(p) \in {"task", "marker", "stop"}
    BY <2>1 DEF Control, CallOK, KindsAt
  <2> QED
    BY <2>1, <2>2, Constants DEF Control, CallOK
<1>2. CASE OwnOperation(p)
  <2>1. Op(p) \in Ops
    BY <1>1, <1>2, OpFacts DEF OwnOperation, CallOK, KindsAt, At
  <2>2. /\ executed' = Append(executed, Op(p)) /\ item' = [item EXCEPT ![p] = Nothing]
        /\ pc' = [pc EXCEPT ![p] = "idle"] /\ cleanup_tasks' \in {cleanup_tasks, {}}
        /\ promise' \subseteq promise
    BY <1>2 DEF OwnOperation, Goto, Hold
  <2>3. executed' \in Seq(Ops) /\ item' \in [Threads -> Items]
    BY <2>1, <2>2, ItemFacts, AppendProperties DEF Types
  <2> QED
    BY <1>2, <2>2, <2>3 DEF OwnOperation, Types, ring
<1>3. CASE CheckException(p)
  <2>1. surfaced' \in SUBSET Ops /\ missed' \in SUBSET Ops
    BY <1>3 DEF CheckException, Types
  <2>2. CASE UNCHANGED <<item, refused>> /\ \E loc \in CallLocations : Goto(p, loc)
    BY <1>3, <2>1, <2>2 DEF CheckException, Types, ring, state, Goto, Threads
  <2>3. CASE Throw(p)
    BY <1>1, <1>3, <2>1, <2>3, Throws DEF CheckException, Types, ring, state
  <2> QED
    BY <1>3, <2>2, <2>3 DEF CheckException, AfterCheck, CallLocations
<1>4. CASE Forget(p)
  <2>1. ex_ptr_' = None /\ lost' \in BOOLEAN
    BY <1>4 DEF Forget, Types
  <2>2. CASE UNCHANGED <<item, refused>> /\ \E loc \in CallLocations : Goto(p, loc)
    BY <1>4, <2>1, <2>2 DEF Forget, Types, ring, state, history, Goto, Threads
  <2>3. CASE Throw(p)
    BY <1>1, <1>4, <2>1, <2>3, Throws DEF Forget, Types, ring, state, history
  <2> QED
    BY <1>4, <2>2, <2>3 DEF Forget, AfterCheck, CallLocations
<1>5. CASE Push(p)
  <2>1. tasks_' \in Seq(Items)
    BY <1>1, <1>5, AppendProperties DEF Push, PushBack, Types
  <2> QED
    BY <1>5, <2>1 DEF Push, Types, ring, state, history, Goto, AfterPush, CallLocations
<1>6. CASE Count(p)
  BY <1>1, <1>6 DEF Count, Types, ring, history, Goto
<1>7. CASE EnterRing(p)
  <2>1. CASE Throw(p)
    BY <1>1, <1>7, <2>1, Throws DEF EnterRing, Types, ring, state, history
  <2>2. CASE Goto(p, "entered") /\ UNCHANGED <<item, refused>>
    BY <1>7, <2>2 DEF EnterRing, Types, ring, state, history, Goto, CallLocations
  <2> QED
    BY <1>7, <2>1, <2>2 DEF EnterRing
<1>8. CASE ReserveSlot(p)
  <2>1. CASE Throw(p) /\ UNCHANGED new_h
    BY <1>1, <1>8, <2>1, Throws DEF ReserveSlot, Types, state, history
  <2>2. CASE Goto(p, "reserved") /\ new_h' = [new_h EXCEPT ![p] = Next_(head_)] /\ UNCHANGED <<item, refused>>
    <3>1. new_h' \in [Producers -> Slots]
      BY <2>2, NextSlot DEF Types
    <3> QED
      BY <1>8, <2>2, <3>1 DEF ReserveSlot, Types, state, history, Goto, CallLocations
  <2> QED
    BY <1>8, <2>1, <2>2 DEF ReserveSlot
<1>9. CASE FillSlot(p)
  BY <1>1, <1>9 DEF FillSlot, Types, state, history, Goto, CallLocations
<1>10. CASE PublishSlot(p)
  BY <1>1, <1>10 DEF PublishSlot, Types, state, history, Goto, CallLocations, AfterPush
<1>11. CASE Spin(p) \/ AwaitMarker(p)
  BY <1>11 DEF Spin, AwaitMarker, Types, ring, state, history, Goto, CallLocations
<1>12. CASE EnterFlush(p)
  <2>1. CASE Throw(p) /\ UNCHANGED task_in_progress_
    BY <1>1, <1>12, <2>1, Throws DEF EnterFlush, Types, ring, history
  <2>2. CASE task_in_progress_' = TRUE /\ Goto(p, "flush") /\ UNCHANGED <<item, refused>>
    BY <1>12, <2>2 DEF EnterFlush, Types, ring, history, Goto, CallLocations
  <2> QED
    BY <1>12, <2>1, <2>2 DEF EnterFlush
<1>13. ASSUME FlushTask(p) \/ FlushTaskThrows(p)
       PROVE  Head(tasks_).of \in Ops /\ tasks_' \in Seq(Items)
  <2>1. tasks_ # <<>> /\ version = "sync" /\ tasks_' = Tail(tasks_)
    <3>1. tasks_ # <<>> /\ version = "sync" /\ tasks_' = Tail_(tasks_)
      BY <1>1, <1>13 DEF FlushTask, FlushTaskThrows, CallOK, VersionsAt, At
    <3> QED
      BY <3>1, TailIs DEF Types
  <2>2. Len(tasks_) \in Nat /\ Len(tasks_) > 0 /\ Head(tasks_) = tasks_[1] /\ tasks_[1] \in Items
    BY <2>1, HeadTailProperties, EmptySeq, LenProperties DEF Types
  <2>3. tasks_[1].kind = "task"
    BY <2>1, <2>2 DEF Control, WorkerOK, Fast
  <2>4. tasks_' \in Seq(Items)
    BY <2>1, HeadTailProperties DEF Types
  <2> QED
    BY <2>2, <2>3, <2>4, ItemFacts
<1>14. CASE FlushTask(p)
  <2>1. executed' \in Seq(Ops) /\ cleanup_tasks' \in SUBSET Ops
    BY <1>13, <1>14, AppendProperties DEF FlushTask, Types, PushCleanupTask
  <2> QED
    BY <1>13, <1>14, <2>1 DEF FlushTask, Types, ring
<1>15. CASE FlushTaskThrows(p)
  <2>1. failed' \in SUBSET Ops /\ surfaced' \in SUBSET Ops
    BY <1>13, <1>15 DEF FlushTaskThrows, Types
  <2> QED
    BY <1>1, <1>13, <1>15, <2>1, Throws DEF FlushTaskThrows, Types, ring, state
<1>16. CASE Flushed(p)
  BY <1>16 DEF Flushed, Return, Types, ring, Goto, CallLocations
<1> QED
  BY <1>2, <1>3, <1>4, <1>5, <1>6, <1>7, <1>8, <1>9, <1>10, <1>11, <1>12, <1>14, <1>15, <1>16 DEF CallStep

LEMMA WorkerTypes ==
  ASSUME Types, Control, CountOK, WorkerStep
  PROVE  Types'
<1>1. Worker \in Threads /\ item[Worker] \in Items /\ version # "sync"
  BY Constants DEF Types, Control, WorkerOK, WorkerStep, PopTask, AdvanceTail, ReadSlot, Execute,
     ExecuteThrows, ReachMarker, ReachStop, Drop, FreeTensors, Uncount, LeaveLoop, At, Executing,
     Available
<1>2. CASE PopTask
  <2>1. Head(tasks_) \in Items /\ tasks_' \in Seq(Items)
    <3>1. tasks_ \in Seq(Items) /\ tasks_ # <<>> /\ tasks_' = Tail_(tasks_)
      BY <1>2 DEF PopTask, Types
    <3>2. tasks_' = Tail(tasks_)
      BY <3>1, TailIs
    <3> QED
      BY <3>1, <3>2, HeadTailProperties
  <2> QED
    BY <1>1, <1>2, <2>1 DEF PopTask, Types, ring, state, history, Goto, Hold, WorkerLocations
<1>3. CASE AdvanceTail
  BY <1>1, <1>3, NextSlot DEF AdvanceTail, Types, state, history, Goto, WorkerLocations
<1>4. CASE ReadSlot
  BY <1>1, <1>4 DEF ReadSlot, Types, ring, state, history, Goto, Hold, WorkerLocations
<1>5. ASSUME Executing("task") PROVE item[Worker].of \in Ops
  BY <1>1, <1>5, ItemFacts DEF Executing, Kind
<1>6. CASE Execute
  <2>1. executed' \in Seq(Ops) /\ cleanup_tasks' \in SUBSET Ops
    BY <1>5, <1>6, AppendProperties DEF Execute, Types, PushCleanupTask
  <2>2. PICK loc \in WorkerLocations : Goto(Worker, loc)
    BY <1>6 DEF Execute, AfterTask, Frees, WorkerLocations
  <2> QED
    BY <1>1, <1>6, <2>1, <2>2 DEF Execute, Types, ring, Goto
<1>7. CASE ExecuteThrows
  <2>1. ex_ptr_' \in Ops /\ failed' \in SUBSET Ops /\ stop_' \in BOOLEAN
    BY <1>5, <1>7 DEF ExecuteThrows, Types
  <2>2. PICK loc \in WorkerLocations : Goto(Worker, loc)
    BY <1>7 DEF ExecuteThrows, AfterTask, Frees, WorkerLocations
  <2> QED
    BY <1>1, <1>7, <2>1, <2>2 DEF ExecuteThrows, Types, ring, Goto
<1>8. CASE ReachMarker
  <2>1. promise' \in SUBSET Producers
    BY <1>1, <1>8, ItemFacts DEF ReachMarker, Executing, Kind, Types
  <2> QED
    BY <1>1, <1>8, <2>1 DEF ReachMarker, Types, ring, history, Goto, WorkerLocations
<1>9. CASE ReachStop
  BY <1>1, <1>9 DEF ReachStop, Types, ring, history, Goto, WorkerLocations
<1>10. CASE Drop \/ FreeTensors
  <2>1. PICK loc \in WorkerLocations : Goto(Worker, loc)
    BY <1>10 DEF Drop, FreeTensors, AfterTask, Frees, WorkerLocations
  <2> QED
    BY <1>1, <1>10, <2>1 DEF Drop, FreeTensors, Types, ring, state, history, Goto
<1>11. CASE LeaveLoop
  BY <1>1, <1>11 DEF LeaveLoop, Types, ring, history, Goto, WorkerLocations
<1>12. CASE Uncount
  <2>1. version = "counted" /\ pc[Worker] = "uncount"
    BY <1>12 DEF Uncount, At, Control, WorkerOK
  <2>2. task_count_ \in Nat /\ task_count_ >= 1
    BY <2>1 DEF CountOK, Busy, Types
  <2> QED
    BY <1>1, <1>12, <2>2 DEF Uncount, Types, ring, history, Goto, WorkerLocations
<1> QED
  BY <1>2, <1>3, <1>4, <1>6, <1>7, <1>8, <1>9, <1>10, <1>11, <1>12 DEF WorkerStep

LEMMA ProgramTypes ==
  ASSUME Types, Control, NEW p \in Producers, Submit(p) \/ StepMarker(p) \/ Discard(p)
  PROVE  Types'
<1>1. p \in Threads
  BY Constants
<1>2. ASSUME Begin(p)
      PROVE  /\ begun' \in [Producers -> 0 .. MaxOps] /\ overlap' \in BOOLEAN
             /\ <<p, begun[p] + 1>> \in Ops
  <2>1. begun' = [begun EXCEPT ![p] = @ + 1] /\ begun[p] < MaxOps /\ begun[p] \in Nat
    BY <1>2, OpFacts DEF Begin
  <2>2. begun' \in [Producers -> 0 .. MaxOps]
    BY <2>1, Constants DEF Types
  <2> QED
    BY <1>2, <2>1, <2>2, OpFacts DEF Begin, Types
<1>3. CASE Submit(p)
  <2>1. CASE CanUseAccThread
    <3>1. /\ item' = [item EXCEPT ![p] = Task(<<p, begun[p] + 1>>)] /\ executed' = executed
          /\ pc' = [pc EXCEPT ![p] = IF version = "sync" THEN "push" ELSE "check"]
      BY <1>3, <2>1 DEF Submit, Goto, Hold
    <3>2. item' \in [Threads -> Items]
      BY <1>2, <1>3, <3>1, ItemFacts DEF Types, Submit
    <3> QED
      BY <1>1, <1>2, <1>3, <3>1, <3>2 DEF Submit, Types, ring, state, CallLocations
  <2>2. CASE ~CanUseAccThread
    <3>1. /\ executed' = Append(executed, <<p, begun[p] + 1>>) /\ pc' = pc /\ item' = item
          /\ <<p, begun[p] + 1>> \in Ops
      BY <1>2, <1>3, <2>2 DEF Submit
    <3>2. executed' \in Seq(Ops)
      BY <3>1, AppendProperties DEF Types
    <3> QED
      BY <1>2, <1>3, <3>1, <3>2 DEF Submit, Types, ring, state
  <2> QED
    BY <2>1, <2>2
<1>4. CASE StepMarker(p)
  <2>1. item' \in [Threads -> Items]
    BY <1>4, ItemFacts DEF StepMarker, Hold, Types
  <2>2. PICK loc \in CallLocations : Goto(p, loc)
    BY <1>4 DEF StepMarker, CallLocations
  <2> QED
    BY <1>1, <1>2, <1>4, <2>1, <2>2 DEF StepMarker, Types, ring, state, history, Goto
<1>5. CASE Discard(p)
  <2>1. \A i \in 1 .. Len(tasks_) : tasks_[i].of \in Ops
    <3>1. \A i \in 1 .. Len(tasks_) : tasks_[i].kind = "task" /\ tasks_[i] \in Items
      BY <1>5, ElementOfSeq DEF Discard, Control, WorkerOK, Types, Fast
    <3> QED
      BY <3>1, ItemFacts
  <2>2. Len(tasks_) \in Nat /\ DOMAIN tasks_ = 1 .. Len(tasks_)
    BY LenProperties DEF Types
  <2>3. [i \in DOMAIN tasks_ |-> tasks_[i].of] \in Seq(Ops)
    <3>1. [i \in DOMAIN tasks_ |-> tasks_[i].of] \in [1 .. Len(tasks_) -> Ops]
      BY <2>1, <2>2
    <3> QED
      BY <2>2, <3>1, SeqDef
  <2>4. executed' \in Seq(Ops)
    BY <1>5, <2>3, ConcatProperties DEF Discard, Types
  <2>5. tasks_' \in Seq(Items)
    BY <1>5, EmptySeq DEF Discard
  <2> QED
    BY <1>5, <2>4, <2>5 DEF Discard, Types, ring, state
<1> QED
  BY <1>3, <1>4, <1>5

LEMMA EndTypes ==
  ASSUME Types, Exit \/ Join
  PROVE  Types'
<1>1. /\ Main \in Threads
      /\ item' = [item EXCEPT ![Main] = StopTask] \/ item' = [item EXCEPT ![Main] = Nothing]
      /\ \E loc \in {"push", "join", "ended"} : Goto(Main, loc)
      /\ stop_' \in BOOLEAN
  BY Constants DEF Exit, Join, Hold, Types, state
<1>2. item' \in [Threads -> Items]
  BY <1>1, ItemFacts DEF Types
<1>3. pc' \in [Threads -> {"idle", "ended"} \cup CallLocations \cup WorkerLocations]
  BY <1>1 DEF Types, Goto, CallLocations
<1> QED
  BY <1>1, <1>2, <1>3 DEF Exit, Join, Types, ring, state, history

-----------------------------------------------------------------------------
(* Control: where a call can be, and what it has in hand there.            *)

LEMMA CallMoves ==
  ASSUME Types, Control, NEW p \in Producers, CallStep(p)
  PROVE  /\ p \in Threads /\ pc[p] \in CallLocations /\ CallOK(p) /\ begun' = begun
         /\ Kind(p) \in {"task", "marker", "stop"} /\ version' = version
         /\ begun[p] > 0 \/ Kind(p) = "stop"
         /\ Kind(p) # "stop" => begun[p] \in Nat /\ begun[p] > 0 /\ Op(p) \in Ops
<1>1. pc[p] \in CallLocations /\ begun' = begun /\ version' = version
  BY DEF CallStep, OwnOperation, CheckException, Forget, Push, Count, EnterRing, ReserveSlot,
         FillSlot, PublishSlot, Spin, AwaitMarker, EnterFlush, FlushTask, FlushTaskThrows,
         Flushed, At, CallLocations
<1>2. Kind(p) \in {"task", "marker", "stop"}
  BY <1>1 DEF Control, CallOK, KindsAt
<1> QED
  BY <1>1, <1>2, Constants, OpFacts DEF Control, CallOK

\* A thread on its way through a call, with the same thing in hand.
Advances(p) ==
  /\ pc' = [pc EXCEPT ![p] = pc'[p]] /\ item' = item
  /\ LET v == version  k == Kind(p)  from == pc[p]  to == pc'[p] IN
     \/ from = "check" /\ to = "forget, throw" /\ v = "counted"
     \/ from \in {"check", "last check"} /\ to \in {"forget", "last forget"} /\ v \in Fast
          /\ (to = "last forget" <=> from = "last check")
     \/ from = "last check" /\ to \in {"own", "forget, throw"} /\ v = "counted"
     \/ from \in {"check", "forget"} /\ to = "push"
     \/ from = "last forget" /\ to = "own"
     \/ from \in {"push", "filled"} /\ k = "marker" /\ to = "future"
     \/ from \in {"push", "filled"} /\ k = "stop" /\ to = "join"
     \/ from = "push" /\ k = "task" /\ v = "counted" /\ to = "count"
     \/ from \in {"push", "filled"} /\ k = "task" /\ v # "counted" /\ to = "idle"
     \/ from = "count" /\ to = "idle"
     \/ from = "push" /\ to = "entered" /\ v = "ring"
     \/ from = "entered" /\ to = "reserved"
     \/ from = "reserved" /\ to = "filled"
     \/ from \in {"spin", "future"} /\ to = "last check"
     \/ from = "enter" /\ to = "flush"
     \/ from = "flush" /\ to \in {"flush", "own"}

Ends(p) ==
  /\ item' = [item EXCEPT ![p] = Nothing]
  /\ pc' = [pc EXCEPT ![p] = IF Kind(p) = "stop" THEN "ended" ELSE "idle"]

LEMMA CallControl ==
  ASSUME Types, Control, NEW p \in Producers, CallStep(p)
  PROVE  Advances(p) \/ Ends(p)
<1>1. p \in Threads /\ pc[p] \in CallLocations /\ CallOK(p) /\ Kind(p) \in {"task", "marker", "stop"}
  BY CallMoves
<1>2. CASE OwnOperation(p)
  BY <1>1, <1>2 DEF OwnOperation, Goto, Hold, Ends, CallOK, KindsAt, At
<1>3. CASE CheckException(p)
  <2>1. CASE Throw(p)
    BY <2>1 DEF Throw, Goto, Hold, Ends
  <2>2. CASE ~Throw(p)
    <3>1. version \in {"counted"} \cup Fast
      BY <1>1, <1>3 DEF CheckException, CallOK, VersionsAt
    <3>2. /\ item' = item /\ pc' = [pc EXCEPT ![p] = pc'[p]]
          /\ pc[p] = "check" \/ pc[p] = "last check"
          /\ CASE version = "counted" /\ ex_ptr_ # None -> pc'[p] = "forget, throw"
               [] version = "counted" /\ ex_ptr_ = None ->
                    pc'[p] = (IF pc[p] = "check" THEN "push" ELSE "own")
               [] OTHER -> pc'[p] = (IF pc[p] = "check" THEN "forget" ELSE "last forget")
      BY <1>1, <1>3, <2>2 DEF CheckException, Forgets, AfterCheck, Goto, At, Types
    <3> QED
      BY <3>1, <3>2 DEF Advances, Fast
  <2> QED
    BY <2>1, <2>2
<1>4. CASE Forget(p)
  <2>1. CASE Throw(p)
    BY <2>1 DEF Throw, Goto, Hold, Ends
  <2>2. CASE ~Throw(p)
    <3>1. /\ item' = item /\ pc' = [pc EXCEPT ![p] = pc'[p]]
          /\ pc[p] = "forget" \/ pc[p] = "last forget"
          /\ pc'[p] = IF pc[p] = "forget" THEN "push" ELSE "own"
      BY <1>1, <1>4, <2>2 DEF Forget, AfterCheck, Goto, At, Types
    <3> QED
      BY <3>1 DEF Advances
  <2> QED
    BY <2>1, <2>2
<1>5. CASE Push(p) \/ PublishSlot(p)
  <2>1. /\ item' = item /\ pc' = [pc EXCEPT ![p] = AfterPush(p)] /\ pc'[p] = AfterPush(p)
        /\ pc[p] = "push" \/ (pc[p] = "filled" /\ version # "counted")
    BY <1>1, <1>5 DEF Push, PublishSlot, Goto, At, Types, CallOK, VersionsAt
  <2>0. Kind(p) # "task" => version # "counted"
    BY <1>1, <2>1 DEF CallOK, At, Fast
  <2>2. CASE Kind(p) = "marker"
    BY <1>1, <2>0, <2>1, <2>2 DEF Advances, AfterPush
  <2>3. CASE Kind(p) = "stop"
    BY <1>1, <2>0, <2>1, <2>3 DEF Advances, AfterPush
  <2>4. CASE Kind(p) = "task" /\ version = "counted"
    BY <1>1, <2>1, <2>4 DEF Advances, AfterPush
  <2>5. CASE Kind(p) = "task" /\ version # "counted"
    BY <1>1, <2>1, <2>5 DEF Advances, AfterPush
  <2> QED
    BY <1>1, <2>2, <2>3, <2>4, <2>5
<1>6. CASE EnterRing(p)
  BY <1>1, <1>6 DEF EnterRing, Throw, Goto, Hold, Ends, Advances, At, Types
<1>7. CASE ReserveSlot(p)
  BY <1>1, <1>7 DEF ReserveSlot, Throw, Goto, Hold, Ends, Advances, At, Types
<1>8. CASE EnterFlush(p)
  BY <1>1, <1>8 DEF EnterFlush, Throw, Goto, Hold, Ends, Advances, At, Types
<1>9. CASE FlushTaskThrows(p)
  BY <1>1, <1>9 DEF FlushTaskThrows, Throw, Goto, Hold, Ends
<1>10. CASE FlushTask(p)
  <2>1. item' = item /\ pc' = pc /\ pc[p] = "flush" /\ pc' = [pc EXCEPT ![p] = pc[p]]
    BY <1>10 DEF FlushTask, At, Types
  <2> QED
    BY <2>1 DEF Advances
<1>11. CASE Count(p) \/ FillSlot(p) \/ Spin(p) \/ AwaitMarker(p) \/ Flushed(p)
  BY <1>1, <1>11 DEF Count, FillSlot, Spin, AwaitMarker, Flushed, Return, Goto, Advances, At, Types
<1> QED
  BY <1>2, <1>3, <1>4, <1>5, <1>6, <1>7, <1>8, <1>9, <1>10, <1>11 DEF CallStep

LEMMA CallKeepsControl ==
  ASSUME Types, Control, NEW p \in Producers, CallStep(p)
  PROVE  LeavingOK' /\ \A q \in Producers : CallOK(q)'
<1>1. /\ p \in Threads /\ pc[p] \in CallLocations /\ CallOK(p) /\ begun' = begun
      /\ Kind(p) \in {"task", "marker", "stop"} /\ version' = version /\ Types'
  BY CallMoves, CallTypes
<1>2. ASSUME NEW q \in Producers, q # p
      PROVE  pc'[q] = pc[q] /\ item'[q] = item[q] /\ begun'[q] = begun[q] /\ CallOK(q)'
  <2>1. pc'[q] = pc[q] /\ item'[q] = item[q] /\ begun'[q] = begun[q]
    <3>1. q \in Threads
      BY Constants
    <3>2. CASE Advances(p)
      BY <1>1, <1>2, <3>1, <3>2 DEF Advances, Types
    <3>3. CASE Ends(p)
      BY <1>1, <1>2, <3>1, <3>3 DEF Ends, Types
    <3> QED
      BY <3>2, <3>3, CallControl
  <2> QED
    BY <1>1, <2>1 DEF CallOK, Control, Kind, At, Op
<1>3. CallOK(p)'
  <2>1. CASE Ends(p)
    <3>1. item'[p] = Nothing /\ pc'[p] = IF Kind(p) = "stop" THEN "ended" ELSE "idle"
      BY <1>1, <2>1 DEF Ends, Types
    <3>2. item'[p].kind = "none" /\ pc'[p] \notin CallLocations /\ pc'[p] \in {"idle", "ended"}
      BY <3>1, KindFacts DEF CallLocations
    <3>3. pc'[p] = "ended" => p = Main
      BY <1>1, <3>1 DEF CallOK
    <3> QED
      BY <3>2, <3>3 DEF CallOK, Kind, At
  <2>2. CASE Advances(p)
    <3>1. item'[p] = item[p] /\ Kind(p)' = Kind(p) /\ Op(p)' = Op(p) /\ begun'[p] = begun[p]
      BY <1>1, <2>2 DEF Advances, Kind, Op
    <3>2. pc'[p] \in {"idle"} \cup CallLocations /\ (pc'[p] = "idle" => Kind(p) # "stop")
      BY <1>1, <2>2 DEF Advances, CallLocations, CallOK, KindsAt
    <3>3. pc'[p] \in CallLocations => version \in VersionsAt(pc'[p]) /\ Kind(p) \in KindsAt(pc'[p])
      <4>1. ASSUME pc'[p] \in CallLocations PROVE version \in VersionsAt(pc'[p])
        BY <1>1, <2>2, <4>1 DEF Advances, CallLocations, CallOK, KindsAt, VersionsAt, At, Fast
      <4>2. Kind(p) \in KindsAt(pc[p])
        BY <1>1 DEF CallOK
      <4>3. ASSUME pc'[p] \in CallLocations PROVE Kind(p) \in KindsAt(pc'[p])
        BY <2>2, <4>2, <4>3 DEF Advances, CallLocations, KindsAt
      <4> QED
        BY <4>1, <4>3
    <3>4. pc'[p] \in CallLocations \ {"last check", "join", "own", "spin", "forget, throw"}
            /\ Kind(p) # "task" => version # "counted"
      BY <1>1, <2>2 DEF Advances, CallLocations, CallOK, KindsAt, VersionsAt, At, Fast
    <3>5. pc'[p] = "push" /\ Kind(p) # "task" => version \in Fast
      BY <1>1, <2>2 DEF Advances, CallLocations, CallOK, KindsAt, VersionsAt, At, Fast
    <3>6. /\ pc'[p] \in CallLocations /\ Kind(p) = "task" => item'[p] = Task(Op(p)') /\ begun'[p] > 0
          /\ pc'[p] \in CallLocations /\ Kind(p) = "marker" => item'[p] = Marker(p) /\ begun'[p] > 0
      BY <1>1, <3>1 DEF CallOK
    <3>7. /\ Kind(p) = "stop" => pc'[p] \in CallLocations /\ p = Main
          /\ pc'[p] # "ended"
      BY <1>1, <3>2 DEF CallOK, CallLocations
    <3> QED
      BY <1>1, <3>1, <3>2, <3>3, <3>4, <3>5, <3>6, <3>7 DEF CallOK, At
  <2> QED
    BY <2>1, <2>2, CallControl
<1>4. LeavingOK'
  <2> SUFFICES ASSUME Leaving', NEW q \in Producers, q # Main
               PROVE  pc'[q] = "idle"
    BY DEF LeavingOK, At
  <2>1. Leaving
    <3>1. CASE p # Main
      BY <1>2, <3>1, Constants DEF Leaving, Kind, At
    <3>2. CASE p = Main /\ Advances(p)
      <4>1. item' = item /\ pc'[p] # "ended"
        BY <3>2 DEF Advances
      <4> QED
        BY <3>2, <4>1 DEF Leaving, Kind, At
    <3>3. CASE p = Main /\ Ends(p)
      <4>1. item'[p] = Nothing /\ (pc'[p] = "ended" => Kind(p) = "stop")
        BY <1>1, <3>3 DEF Ends, Types
      <4> QED
        BY <3>3, <4>1, KindFacts DEF Leaving, Kind, At
    <3> QED
      BY <3>1, <3>2, <3>3, CallControl
  <2>2. pc[q] = "idle"
    BY <2>1 DEF LeavingOK, Control, At
  <2>3. q # p
    BY <1>1, <2>2 DEF CallLocations
  <2> QED
    BY <1>2, <2>2, <2>3
<1> QED
  BY <1>2, <1>3, <1>4

\* A thread that is not the one that steps.
LEMMA OthersKeep ==
  ASSUME Types, NEW q \in Producers, CallOK(q), version' = version,
         pc'[q] = pc[q], item'[q] = item[q], begun'[q] = begun[q]
  PROVE  CallOK(q)'
BY DEF CallOK, Kind, At, Op

LEMMA CallKeepsWorker ==
  ASSUME Types, Control, NEW p \in Producers, CallStep(p)
  PROVE  WorkerOK' /\ pc'[Worker] = pc[Worker] /\ item'[Worker] = item[Worker]
<1>1. /\ p \in Threads /\ CallOK(p) /\ version' = version /\ Worker # p /\ Worker \in Threads
      /\ pc[p] \in CallLocations
  BY CallMoves, Constants
<1>2. pc'[Worker] = pc[Worker] /\ item'[Worker] = item[Worker]
  <2>1. CASE Advances(p)
    BY <1>1, <2>1 DEF Advances, Types
  <2>2. CASE Ends(p)
    BY <1>1, <2>2 DEF Ends, Types
  <2> QED
    BY <2>1, <2>2, CallControl
<1>3. version = "sync" => ex_ptr_' = None
  BY DEF Control, WorkerOK, CallStep, OwnOperation, CheckException, Forget, Push, Count, EnterRing,
         ReserveSlot, FillSlot, PublishSlot, Spin, AwaitMarker, EnterFlush, FlushTask,
         FlushTaskThrows, Flushed, state
<1>4. version \notin Fast => \A i \in 1 .. Len(tasks_') : tasks_'[i].kind = "task"
  <2>1. CASE tasks_' = tasks_
    BY <2>1 DEF Control, WorkerOK
  <2>2. CASE Push(p)
    <3>1. tasks_' = Append(tasks_, item[p]) /\ item[p] \in Items /\ tasks_ \in Seq(Items)
      BY <1>1, <2>2 DEF Push, PushBack, Types
    <3>2. version \notin Fast => item[p].kind = "task"
      BY <1>1, <2>2 DEF Push, CallOK, Kind, At
    <3>3. Len(tasks_') = Len(tasks_) + 1 /\ tasks_'[Len(tasks_) + 1] = item[p] /\ Len(tasks_) \in Nat
          /\ \A i \in 1 .. Len(tasks_) : tasks_'[i] = tasks_[i]
      BY <3>1, AppendProperties, LenProperties
    <3>4. ASSUME NEW i \in 1 .. Len(tasks_'), version \notin Fast PROVE tasks_'[i].kind = "task"
      <4>1. i \in 1 .. Len(tasks_) \/ i = Len(tasks_) + 1
        BY <3>3
      <4> QED
        BY <3>2, <3>3, <3>4, <4>1 DEF Control, WorkerOK
    <3> QED
      BY <3>4
  <2>3. CASE FlushTask(p) \/ FlushTaskThrows(p)
    <3>1. tasks_' = Tail_(tasks_) /\ tasks_ # <<>> /\ tasks_ \in Seq(Items)
      BY <2>3 DEF FlushTask, FlushTaskThrows, Types
    <3>2. tasks_' = Tail(tasks_)
      BY <3>1, TailIs
    <3>3. Len(tasks_') = Len(tasks_) - 1 /\ Len(tasks_) \in Nat
          /\ \A i \in 1 .. Len(tasks_') : tasks_'[i] = tasks_[i + 1]
      BY <3>1, <3>2, HeadTailProperties, LenProperties
    <3>4. ASSUME NEW i \in 1 .. Len(tasks_') PROVE tasks_'[i] = tasks_[i + 1] /\ i + 1 \in 1 .. Len(tasks_)
      BY <3>3
    <3> QED
      BY <3>4 DEF Control, WorkerOK
  <2> QED
    BY <2>1, <2>2, <2>3 DEF CallStep, OwnOperation, CheckException, Forget, Push, Count, EnterRing,
       ReserveSlot, FillSlot, PublishSlot, Spin, AwaitMarker, EnterFlush, FlushTask,
       FlushTaskThrows, Flushed
<1> QED
  BY <1>1, <1>2, <1>3, <1>4 DEF WorkerOK, Control, At, Kind

\* What a step of the worker does to its control point.
LEMMA WorkerMoves ==
  ASSUME Types, Control, WorkerStep
  PROVE  /\ version' = version /\ version # "sync" /\ begun' = begun
         /\ \A q \in Producers : pc'[q] = pc[q] /\ item'[q] = item[q]
         /\ pc[Worker] \in WorkerLocations \ {"exited"} /\ pc'[Worker] \in WorkerLocations
         /\ pc'[Worker] = "read" => version = "ring"
         /\ pc'[Worker] = "uncount" => version = "counted"
         /\ pc'[Worker] \in {"execute", "read"} <=> PopTask \/ AdvanceTail \/ ReadSlot
         /\ pc'[Worker] = "exited" <=> LeaveLoop
<1>1. Worker \in Threads /\ pc[Worker] \in WorkerLocations /\ version' = version /\ begun' = begun
  BY Constants DEF Types, Control, WorkerOK, WorkerStep, PopTask, AdvanceTail, ReadSlot, Execute,
     ExecuteThrows, ReachMarker, ReachStop, Drop, FreeTensors, Uncount, LeaveLoop
<1>2. pc[Worker] # "exited" /\ version # "sync"
  BY DEF Types, Control, WorkerOK, WorkerStep, PopTask, AdvanceTail, ReadSlot, Execute,
     ExecuteThrows, ReachMarker, ReachStop, Drop, FreeTensors, Uncount, LeaveLoop, At, Executing,
     Available
<1>3. /\ \E loc \in WorkerLocations : Goto(Worker, loc)
      /\ item' = item \/ \E x : Hold(Worker, x)
  BY DEF WorkerStep, PopTask, AdvanceTail, ReadSlot, Execute, ExecuteThrows, ReachMarker, ReachStop,
     Drop, FreeTensors, Uncount, LeaveLoop, AfterTask, Frees, WorkerLocations
<1>4. \A q \in Producers : pc'[q] = pc[q] /\ item'[q] = item[q]
  BY <1>3, Constants DEF Goto, Hold, Types
<1>5. CASE PopTask \/ AdvanceTail \/ ReadSlot
  <2>1. pc'[Worker] \in {"execute", "read"} /\ (pc'[Worker] = "read" => version = "ring")
    BY <1>1, <1>5 DEF PopTask, AdvanceTail, ReadSlot, Goto, Types
  <2>2. pc'[Worker] # "exited" /\ ~LeaveLoop
    BY <1>1, <1>5, <2>1 DEF LeaveLoop, Goto, Types
  <2> QED
    BY <1>1, <1>2, <1>4, <1>5, <2>1, <2>2 DEF WorkerLocations
<1>6. CASE LeaveLoop
  <2>1. pc'[Worker] = "exited"
    BY <1>1, <1>6 DEF LeaveLoop, Goto, Types
  <2>2. ~(PopTask \/ AdvanceTail \/ ReadSlot)
    BY <1>1, <2>1 DEF PopTask, AdvanceTail, ReadSlot, Goto, Types
  <2> QED
    BY <1>1, <1>2, <1>4, <1>6, <2>1, <2>2 DEF WorkerLocations
<1>7. CASE ~(PopTask \/ AdvanceTail \/ ReadSlot \/ LeaveLoop)
  <2>1. \E loc \in {"loop", "free", "uncount"} : Goto(Worker, loc) /\ (loc = "uncount" => version = "counted")
    BY <1>7 DEF WorkerStep, Execute, ExecuteThrows, ReachMarker, ReachStop,
       Drop, FreeTensors, Uncount, AfterTask, Frees
  <2>2. pc'[Worker] \in {"loop", "free", "uncount"} /\ (pc'[Worker] = "uncount" => version = "counted")
    BY <1>1, <2>1 DEF Goto, Types
  <2> QED
    BY <1>1, <1>2, <1>4, <1>7, <2>2 DEF WorkerLocations
<1> QED
  BY <1>5, <1>6, <1>7

LEMMA WorkerKeepsControl ==
  ASSUME Types, Control, WorkerStep
  PROVE  Control'
<1>1. \A q \in Producers : pc'[q] = pc[q] /\ item'[q] = item[q] /\ begun'[q] = begun[q]
  BY WorkerMoves
<1>2. version' = version /\ version # "sync" /\ pc'[Worker] \in WorkerLocations
      /\ (pc'[Worker] = "read" => version = "ring")
      /\ (pc'[Worker] = "uncount" => version = "counted")
  BY WorkerMoves
<1>3. \A q \in Producers : CallOK(q)'
  BY <1>1, <1>2, OthersKeep DEF Control
<1>4. LeavingOK'
  BY <1>1, Constants DEF Control, LeavingOK, Leaving, At, Kind
<1>5. version \notin Fast => \A i \in 1 .. Len(tasks_') : tasks_'[i].kind = "task"
  <2>1. CASE tasks_' = tasks_
    BY <2>1 DEF Control, WorkerOK
  <2>2. CASE PopTask
    <3>1. tasks_' = Tail_(tasks_) /\ tasks_ # <<>> /\ tasks_ \in Seq(Items)
      BY <2>2 DEF PopTask, Types
    <3>2. tasks_' = Tail(tasks_)
      BY <3>1, TailIs
    <3>3. Len(tasks_') = Len(tasks_) - 1 /\ Len(tasks_) \in Nat
          /\ \A i \in 1 .. Len(tasks_') : tasks_'[i] = tasks_[i + 1]
      BY <3>1, <3>2, HeadTailProperties, LenProperties
    <3>4. ASSUME NEW i \in 1 .. Len(tasks_') PROVE tasks_'[i] = tasks_[i + 1] /\ i + 1 \in 1 .. Len(tasks_)
      BY <3>3
    <3> QED
      BY <3>4 DEF Control, WorkerOK
  <2> QED
    BY <2>1, <2>2 DEF WorkerStep, PopTask, AdvanceTail, ReadSlot, Execute, ExecuteThrows,
       ReachMarker, ReachStop, Drop, FreeTensors, Uncount, LeaveLoop
<1>6. version \notin Fast /\ pc'[Worker] = "execute" => item'[Worker].kind = "task"
  <2>1. SUFFICES ASSUME version \notin Fast, pc'[Worker] = "execute"
                 PROVE  item'[Worker].kind = "task"
    OBVIOUS
  <2>2. PopTask \/ AdvanceTail \/ ReadSlot
    BY <2>1, WorkerMoves
  <2>3. PopTask
    BY <2>1, <2>2 DEF AdvanceTail, ReadSlot, At, Control, WorkerOK, Fast
  <2>4. tasks_ # <<>> /\ tasks_ \in Seq(Items) /\ item'[Worker] = tasks_[1]
    BY <2>3, Constants DEF PopTask, Hold, Types
  <2>5. 1 \in 1 .. Len(tasks_)
    BY <2>4, EmptySeq
  <2> QED
    BY <2>1, <2>4, <2>5 DEF Control, WorkerOK
<1> QED
  BY <1>2, <1>3, <1>4, <1>5, <1>6 DEF Control, WorkerOK, At, Kind

LEMMA ProgramKeepsControl ==
  ASSUME Types, Control, NEW p \in Producers, Submit(p) \/ StepMarker(p) \/ Discard(p)
  PROVE  Control'
<1>1. p \in Threads /\ Worker \in Threads /\ p # Worker /\ version' = version /\ pc[p] = "idle" /\ ~Leaving
      /\ ex_ptr_' = ex_ptr_ /\ \A q \in Producers : q \in Threads
  BY Constants DEF Submit, StepMarker, Discard, Begin, At
<1>2. /\ \A u \in Threads : u # p => pc'[u] = pc[u] /\ item'[u] = item[u]
      /\ \A q \in Producers : q # p => begun'[q] = begun[q]
  BY <1>1 DEF Submit, StepMarker, Discard, Begin, Goto, Hold, Types
<1>3. \A q \in Producers : q # p => CallOK(q)'
  BY <1>1, <1>2, OthersKeep DEF Control
<1>4. Kind(p) # "stop" /\ (Kind(Main) # "stop" /\ pc[Main] # "ended")
  BY <1>1 DEF Control, CallOK, CallLocations, Leaving, At
<1>5. CallOK(p)'
  <2>1. CASE pc' = pc /\ item' = item
    BY <1>1, <1>4, <2>1 DEF CallOK, Kind, At, Op, CallLocations
  <2>2. CASE Submit(p) /\ CanUseAccThread
    <3>1. /\ item'[p] = Task(<<p, begun[p] + 1>>) /\ begun'[p] = begun[p] + 1
          /\ pc'[p] = IF version = "sync" THEN "push" ELSE "check"
      BY <1>1, <2>2 DEF Submit, Begin, Goto, Hold, Types
    <3>2. item'[p].kind = "task" /\ item'[p] = Task(Op(p)') /\ begun'[p] > 0
      BY <3>1, KindFacts, OpFacts DEF Op
    <3>3. pc'[p] \in CallLocations /\ pc'[p] # "ended" /\ version \in VersionsAt(pc'[p])
          /\ "task" \in KindsAt(pc'[p])
      BY <3>1, Constants DEF CallLocations, VersionsAt, KindsAt, Types, Fast
    <3> QED
      BY <1>1, <3>2, <3>3 DEF CallOK, Kind, At
  <2>3. CASE StepMarker(p)
    <3>1. /\ item'[p] = Marker(p) /\ begun'[p] = begun[p] + 1
          /\ pc'[p] = IF ~CanUseAccThread THEN "own"
                      ELSE CASE version = "sync"     -> "enter"
                             [] version = "counted"  -> "spin"
                             [] OTHER                -> "check"
      BY <1>1, <2>3 DEF StepMarker, Begin, Goto, Hold, Types
    <3>2. item'[p].kind = "marker" /\ begun'[p] > 0
      BY <3>1, KindFacts, OpFacts
    <3>3. ~CanUseAccThread => version = "sync"
      BY DEF CanUseAccThread
    <3>4. pc'[p] \in CallLocations /\ pc'[p] \notin {"ended", "push"} /\ version \in VersionsAt(pc'[p])
          /\ "marker" \in KindsAt(pc'[p])
          /\ (pc'[p] \notin {"own", "spin"} => version # "counted")
      <4>1. version \in {"sync", "counted"} \cup Fast
        BY Constants DEF Types, Fast
      <4>2. CASE ~CanUseAccThread
        <5>1. pc'[p] \in {"own", "enter"}
          BY <3>1, <3>3, <4>2
        <5> QED
          BY <3>3, <4>2, <5>1 DEF CallLocations, VersionsAt, KindsAt
      <4>3. CASE CanUseAccThread /\ version = "sync"
        BY <3>1, <4>3 DEF CallLocations, VersionsAt, KindsAt
      <4>4. CASE CanUseAccThread /\ version = "counted"
        BY <3>1, <4>4 DEF CallLocations, VersionsAt, KindsAt
      <4>5. CASE CanUseAccThread /\ version \in Fast
        <5>1. pc'[p] = "check"
          BY <3>1, <4>5 DEF Fast
        <5> QED
          BY <4>5, <5>1 DEF CallLocations, VersionsAt, KindsAt, Fast
      <4> QED
        BY <4>1, <4>2, <4>3, <4>4, <4>5
    <3> QED
      BY <1>1, <3>1, <3>2, <3>4 DEF CallOK, Kind, At
  <2> QED
    BY <2>1, <2>2, <2>3 DEF Submit, Discard
<1>6. LeavingOK'
  <2>1. ~Leaving'
    <3>1. CASE p # Main
      BY <1>2, <1>4, <3>1, Constants DEF Leaving, Kind, At
    <3>2. CASE p = Main
      <4>1. CASE pc' = pc /\ item' = item
        BY <1>4, <4>1 DEF Leaving, Kind, At
      <4>2. CASE Submit(p) /\ CanUseAccThread
        <5>1. pc'[p] # "ended" /\ item'[p].kind = "task"
          BY <1>1, <4>2, KindFacts DEF Submit, Goto, Hold, Types
        <5> QED
          BY <3>2, <5>1 DEF Leaving, Kind, At
      <4>3. CASE StepMarker(p)
        <5>1. item'[p].kind = "marker"
          BY <1>1, <4>3, KindFacts DEF StepMarker, Hold, Types
        <5>2. pc'[p] # "ended"
          <6>1. \E loc \in CallLocations : Goto(p, loc)
            BY <4>3 DEF StepMarker, CallLocations
          <6> QED
            BY <1>1, <6>1 DEF Goto, CallLocations, Types
        <5> QED
          BY <3>2, <5>1, <5>2 DEF Leaving, Kind, At
      <4> QED
        BY <4>1, <4>2, <4>3 DEF Submit, Discard
    <3> QED
      BY <3>1, <3>2
  <2> QED
    BY <2>1 DEF LeavingOK
<1>7. WorkerOK'
  <2>1. \A i \in 1 .. Len(tasks_') : i \in 1 .. Len(tasks_) /\ tasks_'[i] = tasks_[i]
    <3>1. CASE tasks_' = tasks_
      BY <3>1
    <3>2. CASE tasks_' = <<>>
      <4>1. Len(tasks_') = 0
        BY <3>2, EmptySeq
      <4> QED
        BY <4>1
    <3> QED
      BY <3>1, <3>2 DEF Submit, StepMarker, Discard
  <2> QED
    BY <1>1, <1>2, <2>1 DEF WorkerOK, Control, At, Kind
<1> QED
  BY <1>3, <1>5, <1>6, <1>7 DEF Control

LEMMA EndKeepsControl ==
  ASSUME Types, Control, Exit \/ Join
  PROVE  Control'
<1>1. /\ Main \in Threads /\ Main \in Producers /\ Worker \in Threads /\ Main # Worker
      /\ \A q \in Producers : q \in Threads
      /\ version' = version /\ begun' = begun /\ ex_ptr_' = ex_ptr_ /\ tasks_' = tasks_
  BY Constants DEF Exit, Join
<1>2. \A u \in Threads : u # Main => pc'[u] = pc[u] /\ item'[u] = item[u]
  BY <1>1 DEF Exit, Join, Goto, Hold, Types
<1>3. \A q \in Producers : q # Main => CallOK(q)'
  BY <1>1, <1>2, OthersKeep DEF Control
<1>4. CASE Exit
  <2>1. item'[Main] = StopTask /\ pc'[Main] = IF version \in Fast THEN "push" ELSE "join"
    BY <1>1, <1>4 DEF Exit, Goto, Hold, Types
  <2>2. CallOK(Main)'
    <3>1. Kind(Main)' = "stop"
      BY <2>1, KindFacts DEF Kind
    <3>2. /\ pc'[Main] \in CallLocations /\ pc'[Main] # "ended" /\ version \in VersionsAt(pc'[Main])
          /\ "stop" \in KindsAt(pc'[Main])
          /\ pc'[Main] # "join" => version \in Fast /\ version # "counted"
      BY <2>1, Constants DEF CallLocations, VersionsAt, KindsAt, Types, Fast
    <3> QED
      BY <1>1, <3>1, <3>2 DEF CallOK, At
  <2>3. \A q \in Producers : q # Main => pc'[q] = "idle"
    BY <1>1, <1>2, <1>4 DEF Exit, At
  <2> QED
    BY <1>1, <1>2, <1>3, <2>2, <2>3 DEF Control, LeavingOK, At, WorkerOK, Kind
<1>5. CASE Join
  <2>1. item'[Main] = Nothing /\ pc'[Main] = "ended" /\ pc[Main] = "join"
    BY <1>1, <1>5 DEF Join, Goto, Hold, Types, At
  <2>2. CallOK(Main)'
    BY <2>1, KindFacts DEF CallOK, Kind, At, CallLocations
  <2>3. Kind(Main) = "stop"
    BY <1>1, <2>1 DEF Control, CallOK, CallLocations, KindsAt
  <2>4. \A q \in Producers : q # Main => pc'[q] = "idle"
    BY <1>1, <1>2, <2>3 DEF Control, LeavingOK, Leaving, At
  <2> QED
    BY <1>1, <1>2, <1>3, <2>2, <2>4 DEF Control, LeavingOK, At, WorkerOK, Kind
<1> QED
  BY <1>4, <1>5

-----------------------------------------------------------------------------
(* The count of the counting version.                                      *)

LEMMA FiniteFacts ==
  /\ IsFiniteSet(Ops) /\ IsFiniteSet(AtCount) /\ IsFiniteSet(Counted)
  /\ Cardinality(AtCount) \in Nat /\ Cardinality(Counted) \in Nat
  /\ Cardinality(Counted) <= Cardinality(Ops) /\ Cardinality(Ops) \in Nat
<1>1. IsFiniteSet(1 .. MaxOps)
  BY Constants, FS_Interval
<1>2. IsFiniteSet(Ops)
  BY <1>1, Constants, FS_Product DEF Ops
<1>3. AtCount \subseteq Producers /\ Counted \subseteq Ops
  BY DEF AtCount, Counted
<1> QED
  BY <1>2, <1>3, Constants, FS_Subset, FS_CardinalityType

\* A step that is not a Count takes no operation out of those that are counted.
LEMMA CountedGrows ==
  ASSUME Types, Control, Types', Control', NEW t,
         /\ \A q \in Producers : q # t =>
              pc'[q] = pc[q] /\ item'[q] = item[q] /\ begun'[q] = begun[q]
         /\ t \in Producers =>
              \/ begun'[t] = begun[t] /\ (InTask(t)' => InTask(t))
              \/ begun'[t] = begun[t] + 1
  PROVE  Counted \subseteq Counted' /\ Cardinality(Counted) <= Cardinality(Counted')
<1>1. ASSUME NEW op \in Ops, op \in Counted PROVE op \in Counted'
  <2>1. /\ op[2] <= begun[op[1]] /\ (InTask(op[1]) => op[2] # begun[op[1]])
        /\ op[1] \in Producers /\ op[2] \in Nat /\ begun[op[1]] \in Nat
    BY <1>1, OpFacts DEF Counted
  <2>2. op[2] <= begun'[op[1]] /\ (InTask(op[1])' => op[2] # begun'[op[1]])
    <3>1. CASE op[1] # t
      BY <2>1, <3>1 DEF InTask, Kind
    <3>2. CASE op[1] = t
      BY <2>1, <3>2
    <3> QED
      BY <3>1, <3>2
  <2> QED
    BY <1>1, <2>2 DEF Counted
<1>2. Counted \subseteq Counted'
  BY <1>1 DEF Counted
<1>3. IsFiniteSet(Counted')
  BY FiniteFacts, FS_Subset DEF Counted
<1> QED
  BY <1>2, <1>3, FS_Subset

LEMMA CallCount ==
  ASSUME Types, Control, CountOK, NEW p \in Producers, CallStep(p), Types', Control'
  PROVE  CountOK'
<1>1. /\ p \in Threads /\ pc[p] \in CallLocations /\ CallOK(p) /\ begun' = begun
      /\ Kind(p) \in {"task", "marker", "stop"} /\ version' = version
  BY CallMoves
<1>2. pc'[Worker] = pc[Worker] /\ item'[Worker] = item[Worker]
  BY CallKeepsWorker
<1>3. \A q \in Producers : q # p => pc'[q] = pc[q] /\ item'[q] = item[q] /\ begun'[q] = begun[q]
  <2>1. CASE Advances(p)
    BY <1>1, <2>1, Constants DEF Advances, Types
  <2>2. CASE Ends(p)
    BY <1>1, <2>2, Constants DEF Ends, Types
  <2> QED
    BY <2>1, <2>2, CallControl
<1>4. InTask(p)' => InTask(p)
  <2>1. CASE Advances(p)
    BY <1>1, <2>1 DEF Advances, InTask, Kind
  <2>2. CASE Ends(p)
    <3>1. item'[p].kind = "none"
      BY <1>1, <2>2, KindFacts DEF Ends, Types
    <3> QED
      BY <3>1 DEF InTask, Kind
  <2> QED
    BY <2>1, <2>2, CallControl
<1>5. Cardinality(Counted) <= Cardinality(Counted')
  BY <1>3, <1>4, CountedGrows, <1>1
<1>6. Busy' = Busy
  BY <1>2 DEF Busy
<1>7. CASE Push(p) /\ version = "counted"
  <2>1. Kind(p) = "task"
    BY <1>1, <1>7 DEF CallOK, Push, Fast, At
  <2>2. pc'[p] = "count" /\ pc[p] = "push"
    BY <1>1, <1>7, <2>1 DEF Push, Goto, AfterPush, At, Types
  <2>3. AtCount' = AtCount \cup {p} /\ p \notin AtCount
    BY <1>3, <2>2 DEF AtCount, At
  <2>4. Cardinality(AtCount') = Cardinality(AtCount) + 1
    BY <2>3, FiniteFacts, FS_AddElement
  <2>5. Len(tasks_') = Len(tasks_) + 1 /\ task_count_' = task_count_ /\ Len(tasks_) \in Nat
    BY <1>1, <1>7, AppendProperties, LenProperties DEF Push, PushBack, state, Types
  <2> QED
    <3>1. Busy \in {0, 1} /\ task_count_ \in Nat
      BY DEF Busy, Types
    <3>2. IsFiniteSet(Counted')
      BY FiniteFacts, FS_Subset DEF Counted
    <3>3. Cardinality(Counted') \in Nat
      BY <3>2, FS_CardinalityType
    <3> QED
      BY <1>1, <1>2, <1>5, <1>6, <2>4, <2>5, <3>1, <3>3, FiniteFacts DEF CountOK, At
<1>8. CASE Count(p)
  <2>1. pc[p] = "count" /\ pc'[p] = "idle" /\ task_count_' = task_count_ + 1 /\ tasks_' = tasks_
    BY <1>1, <1>8 DEF Count, Goto, At, Types
  <2>2. AtCount' = AtCount \ {p} /\ p \in AtCount
    BY <1>3, <2>1 DEF AtCount, At
  <2>3. Cardinality(AtCount') = Cardinality(AtCount) - 1
    BY <2>2, FiniteFacts, FS_RemoveElement
  <2>4. Kind(p) = "task" /\ begun[p] > 0
    BY <1>1, <2>1 DEF CallOK, KindsAt
  <2>5. Op(p) \in Ops /\ Op(p) \notin Counted /\ Op(p) \in Counted'
    <3>1. Op(p) \in Ops /\ Op(p)[1] = p /\ Op(p)[2] = begun[p]
      BY <2>4, OpFacts DEF Op
    <3>2. InTask(p)
      BY <1>1, <2>4 DEF InTask
    <3>3. ~InTask(p)'
      BY <2>1 DEF InTask, CallLocations
    <3> QED
      BY <1>1, <3>1, <3>2, <3>3, OpFacts DEF Counted
  <2>6. Counted \subseteq Counted'
    BY <1>3, <1>4, CountedGrows, <1>1
  <2>7. IsFiniteSet(Counted') /\ IsFiniteSet(Counted)
    BY FiniteFacts, FS_Subset DEF Counted
  <2>8. Cardinality(Counted \cup {Op(p)}) = Cardinality(Counted) + 1
    BY <2>5, <2>7, FS_AddElement
  <2>9. Cardinality(Counted \cup {Op(p)}) <= Cardinality(Counted')
    BY <2>5, <2>6, <2>7, FS_Subset
  <2>10. Cardinality(Counted') \in Nat
    BY <2>7, FS_CardinalityType
  <2>11. task_count_' <= Cardinality(Counted')
    BY <2>1, <2>8, <2>9, <2>10, FiniteFacts DEF CountOK, Types
  <2>12. Len(tasks_) \in Nat
    BY LenProperties DEF Types
  <2> QED
    <3>1. Busy \in {0, 1} /\ task_count_ \in Nat
      BY DEF Busy, Types
    <3> QED
      BY <1>1, <1>2, <1>6, <2>1, <2>3, <2>11, <2>12, <3>1, FiniteFacts DEF CountOK, At
<1>9. CASE ~(Push(p) /\ version = "counted") /\ ~Count(p)
  <2>1. task_count_' = task_count_
    BY <1>9 DEF CallStep, OwnOperation, CheckException, Forget, Push, Count, EnterRing, ReserveSlot,
       FillSlot, PublishSlot, Spin, AwaitMarker, EnterFlush, FlushTask, FlushTaskThrows, Flushed, state
  <2>2. version = "counted" => tasks_' = tasks_
    <3>1. version = "counted" => ~FlushTask(p) /\ ~FlushTaskThrows(p)
      BY <1>1 DEF FlushTask, FlushTaskThrows, CallOK, VersionsAt, At
    <3> QED
      BY <1>9, <3>1 DEF CallStep, OwnOperation, CheckException, Forget, Count, EnterRing, ReserveSlot,
       FillSlot, PublishSlot, Spin, AwaitMarker, EnterFlush, Flushed
  <2>3. version = "counted" => AtCount' = AtCount
    <3> SUFFICES ASSUME version = "counted" PROVE AtCount' = AtCount
      OBVIOUS
    <3>1. pc[p] # "count"
      BY <1>9 DEF CallStep, OwnOperation, CheckException, Forget, Push, Count, EnterRing, ReserveSlot,
       FillSlot, PublishSlot, Spin, AwaitMarker, EnterFlush, FlushTask, FlushTaskThrows, Flushed, At
    <3>2. pc'[p] # "count"
      <4>1. CASE Advances(p)
        <5>1. pc'[p] = "count" => pc[p] = "push"
          BY <4>1 DEF Advances
        <5>2. pc[p] # "push"
          BY <1>9 DEF CallStep, OwnOperation, CheckException, Forget, Push, Count, EnterRing, ReserveSlot,
           FillSlot, PublishSlot, Spin, AwaitMarker, EnterFlush, FlushTask, FlushTaskThrows, Flushed, At
        <5> QED
          BY <5>1, <5>2
      <4>2. CASE Ends(p)
        BY <1>1, <4>2 DEF Ends, Types
      <4> QED
        BY <4>1, <4>2, CallControl
    <3> QED
      BY <1>3, <3>1, <3>2 DEF AtCount, At
  <2>4. task_count_' <= Cardinality(Counted')
    <3>1. IsFiniteSet(Counted')
      BY FiniteFacts, FS_Subset DEF Counted
    <3>2. Cardinality(Counted') \in Nat
      BY <3>1, FS_CardinalityType
    <3> QED
      BY <1>5, <2>1, <3>2, FiniteFacts DEF CountOK, Types
  <2> QED
    BY <1>1, <1>2, <1>6, <2>1, <2>2, <2>3, <2>4 DEF CountOK, At, Busy
<1> QED
  BY <1>7, <1>8, <1>9

LEMMA WorkerCount ==
  ASSUME Types, Control, CountOK, WorkerStep, Types', Control'
  PROVE  CountOK'
<1>1. /\ version' = version /\ begun' = begun /\ pc[Worker] \in WorkerLocations \ {"exited"}
      /\ \A q \in Producers : pc'[q] = pc[q] /\ item'[q] = item[q] /\ begun'[q] = begun[q]
  BY WorkerMoves
<1>2. AtCount' = AtCount
  BY <1>1 DEF AtCount, At
<1>3. Cardinality(Counted') = Cardinality(Counted)
  <2>1. Counted' = Counted
    BY <1>1, OpFacts DEF Counted, InTask, Kind
  <2> QED
    BY <2>1
<1>4. Len(tasks_) \in Nat /\ Worker \in Threads /\ task_count_ \in Nat
  BY LenProperties, Constants DEF Types
<1>5. CASE PopTask
  <2>1. tasks_ \in Seq(Items) /\ tasks_ # <<>> /\ tasks_' = Tail_(tasks_) /\ task_count_' = task_count_
    BY <1>5 DEF PopTask, Types, state
  <2>2. Len(tasks_') = Len(tasks_) - 1
    BY <2>1, TailIs, HeadTailProperties
  <2>3. pc[Worker] = "loop" /\ pc'[Worker] = "execute" /\ (version = "counted" => task_count_ > 0)
    BY <1>4, <1>5 DEF PopTask, Available, Goto, At, Types
  <2>4. Busy = 0 /\ Busy' = 1
    BY <2>3 DEF Busy
  <2> QED
    BY <1>1, <1>2, <1>3, <1>4, <2>1, <2>2, <2>3, <2>4, FiniteFacts DEF CountOK, At
<1>6. CASE Uncount
  <2>1. pc[Worker] = "uncount" /\ pc'[Worker] = "loop" /\ task_count_' = task_count_ - 1 /\ tasks_' = tasks_
    BY <1>4, <1>6 DEF Uncount, Goto, At, Types
  <2>2. Busy = 1 /\ Busy' = 0
    BY <2>1 DEF Busy
  <2> QED
    BY <1>1, <1>2, <1>3, <1>4, <2>1, <2>2, FiniteFacts DEF CountOK, At
<1>7. CASE LeaveLoop
  <2>1. pc'[Worker] = "exited" /\ task_count_' = 0
    BY <1>4, <1>7 DEF LeaveLoop, Goto, Types
  <2>2. Busy' = 0
    BY <2>1 DEF Busy
  <2> QED
    BY <1>1, <1>3, <2>1, <2>2, FiniteFacts DEF CountOK, At
<1>8. CASE ~PopTask /\ ~Uncount /\ ~LeaveLoop
  <2>1. task_count_' = task_count_ /\ tasks_' = tasks_
    BY <1>8 DEF WorkerStep, AdvanceTail, ReadSlot, Execute, ExecuteThrows,
       ReachMarker, ReachStop, Drop, FreeTensors, state
  <2>2. version = "counted" => Busy' = Busy
    <3> SUFFICES ASSUME version = "counted" PROVE Busy' = Busy
      OBVIOUS
    <3>1. ~AdvanceTail /\ ~ReadSlot
      BY DEF AdvanceTail, ReadSlot, Control, WorkerOK, At
    <3>2. ~ReachMarker /\ ~ReachStop /\ ~Drop
      BY DEF ReachMarker, ReachStop, Drop, Executing, Control, WorkerOK, At, Fast, Draining
    <3>3. \E loc \in {"uncount", "free"} : Goto(Worker, loc)
      BY <1>8, <3>1, <3>2 DEF WorkerStep, Execute, ExecuteThrows, FreeTensors, AfterTask, Frees
    <3>4. pc'[Worker] \in {"uncount", "free"}
      BY <1>4, <3>3 DEF Goto, Types
    <3>5. pc[Worker] \in {"execute", "free", "uncount"}
      BY <1>8, <3>1, <3>2 DEF WorkerStep, Execute, ExecuteThrows, FreeTensors, Executing, At
    <3> QED
      BY <3>4, <3>5 DEF Busy
  <2> QED
    BY <1>1, <1>2, <1>3, <2>1, <2>2 DEF CountOK, At
<1> QED
  BY <1>5, <1>6, <1>7, <1>8

LEMMA ProgramCount ==
  ASSUME Types, Control, CountOK, Types', Control',
         Exit \/ Join \/ \E q \in Producers : Submit(q) \/ StepMarker(q) \/ Discard(q)
  PROVE  CountOK'
<1>1. /\ version' = version /\ task_count_' = task_count_
      /\ tasks_' = tasks_ \/ version = "sync"
  BY DEF Exit, Join, Submit, StepMarker, Discard, state
<1>2. PICK t \in Producers :
        /\ \A u \in Threads : u # t => pc'[u] = pc[u] /\ item'[u] = item[u]
        /\ \A q \in Producers : q # t => begun'[q] = begun[q]
        /\ pc[t] # "count" /\ pc'[t] # "count"
        /\ \/ begun'[t] = begun[t] /\ (InTask(t)' => InTask(t))
           \/ begun'[t] = begun[t] + 1
  <2>1. CASE Exit \/ Join
    <3>1. Main \in Threads /\ item'[Main].kind # "task" /\ begun' = begun
      BY <2>1, Constants, KindFacts DEF Exit, Join, Hold, Types
    <3>2. /\ \A u \in Threads : u # Main => pc'[u] = pc[u] /\ item'[u] = item[u]
          /\ pc[Main] # "count" /\ pc'[Main] # "count"
      BY <2>1, <3>1, Constants DEF Exit, Join, Hold, Goto, Types, At
    <3> QED
      BY <3>1, <3>2, Constants DEF InTask, Kind
  <2>2. CASE \E q \in Producers : Submit(q) \/ StepMarker(q) \/ Discard(q)
    <3>1. PICK q \in Producers : Submit(q) \/ StepMarker(q) \/ Discard(q)
      BY <2>2
    <3>2. q \in Threads /\ pc[q] = "idle"
      BY <3>1, Constants DEF Submit, StepMarker, Discard, Begin, At
    <3>3. pc' = pc \/ \E loc \in CallLocations \ {"count"} : Goto(q, loc)
      BY <3>1 DEF Submit, StepMarker, Discard, CallLocations
    <3>4. item' = item \/ \E x : Hold(q, x)
      BY <3>1 DEF Submit, StepMarker, Discard
    <3>5. /\ \A u \in Threads : u # q => pc'[u] = pc[u] /\ item'[u] = item[u]
          /\ pc'[q] # "count"
      BY <3>2, <3>3, <3>4 DEF Goto, Hold, Types
    <3>6. begun' = [begun EXCEPT ![q] = @ + 1] \/ (begun' = begun /\ pc' = pc)
      BY <3>1 DEF Submit, StepMarker, Discard, Begin
    <3>7. InTask(q)' => InTask(q) \/ begun' = [begun EXCEPT ![q] = @ + 1]
      BY <3>2, <3>6 DEF InTask, CallLocations
    <3>8. /\ \A r \in Producers : r # q => begun'[r] = begun[r]
          /\ begun'[q] = begun[q] \/ begun'[q] = begun[q] + 1
          /\ begun'[q] = begun[q] + 1 \/ begun' = begun
      BY <3>6 DEF Types
    <3>9. begun' = [begun EXCEPT ![q] = @ + 1] => begun'[q] = begun[q] + 1
      BY DEF Types
    <3> QED
      BY <3>2, <3>5, <3>7, <3>8, <3>9
  <2> QED
    BY <2>1, <2>2
<1>3. AtCount' = AtCount
  BY <1>2, Constants DEF AtCount, At
<1>4. Cardinality(Counted) <= Cardinality(Counted')
  <2>1. \A q \in Producers : q # t => pc'[q] = pc[q] /\ item'[q] = item[q] /\ begun'[q] = begun[q]
    BY <1>2, Constants
  <2> QED
    BY <1>2, <2>1, CountedGrows
<1>5. Busy' = Busy /\ pc'[Worker] = pc[Worker]
  BY <1>2, Constants DEF Busy
<1>6. task_count_' <= Cardinality(Counted')
  <2>1. IsFiniteSet(Counted')
    BY FiniteFacts, FS_Subset DEF Counted
  <2>2. Cardinality(Counted') \in Nat
    BY <2>1, FS_CardinalityType
  <2> QED
    BY <1>1, <1>4, <2>2, FiniteFacts DEF CountOK, Types
<1> QED
  BY <1>1, <1>3, <1>5, <1>6 DEF CountOK, At

-----------------------------------------------------------------------------
(* Failures.                                                               *)

LEMMA StoredStep ==
  ASSUME Types, Control, Stored, Types', Control', Next
  PROVE  Stored'
<1>1. ASSUME NEW p \in Producers, CallStep(p)
      PROVE  Stored'
  <2>1. pc[p] \in CallLocations /\ CallOK(p)
    BY <1>1, CallMoves
  <2>2. CASE CheckException(p)
    BY <2>2 DEF CheckException, Stored
  <2>3. CASE Forget(p)
    <3>1. CASE At(p, "forget, throw")
      BY <2>3, <3>1 DEF Forget, Stored, history
    <3>2. CASE ~At(p, "forget, throw")
      <4>1. lost' = (lost \/ ex_ptr_ # None) /\ ex_ptr_' = None
            /\ UNCHANGED <<failed, missed, surfaced>>
        BY <2>3, <3>2 DEF Forget, history
      <4> QED
        BY <4>1 DEF Stored
    <3> QED
      BY <3>1, <3>2
  <2>4. CASE FlushTaskThrows(p)
    BY <2>4 DEF FlushTaskThrows, Stored, state
  <2>5. CASE Flushed(p)
    <3>1. version = "sync"
      BY <2>1, <2>5 DEF Flushed, CallOK, VersionsAt, At
    <3>2. ex_ptr_ = None
      BY <3>1 DEF Control, WorkerOK
    <3> QED
      BY <2>5, <3>2 DEF Flushed, Return, Stored
  <2>6. CASE OwnOperation(p) \/ Push(p) \/ Count(p) \/ EnterRing(p) \/ ReserveSlot(p) \/ FillSlot(p)
             \/ PublishSlot(p) \/ Spin(p) \/ AwaitMarker(p) \/ EnterFlush(p) \/ FlushTask(p)
    <3>1. UNCHANGED <<lost, ex_ptr_, failed, surfaced, missed>>
      BY <2>6 DEF OwnOperation, Push, Count, EnterRing, ReserveSlot, FillSlot, PublishSlot, Spin,
         AwaitMarker, EnterFlush, FlushTask, history
    <3> QED
      BY <3>1 DEF Stored
  <2> QED
    BY <1>1, <2>2, <2>3, <2>4, <2>5, <2>6 DEF CallStep
<1>2. ASSUME WorkerStep PROVE Stored'
  <2>1. CASE ExecuteThrows
    <3>1. ex_ptr_' \in Ops
      BY <2>1, Constants, ItemFacts DEF ExecuteThrows, Executing, Kind, Types
    <3> QED
      BY <2>1, <3>1, Constants DEF ExecuteThrows, Stored
  <2>2. CASE ~ExecuteThrows
    <3>1. UNCHANGED <<lost, ex_ptr_, failed, surfaced, missed>>
      BY <1>2, <2>2 DEF WorkerStep, PopTask, AdvanceTail, ReadSlot, Execute, ReachMarker, ReachStop,
         Drop, FreeTensors, Uncount, LeaveLoop, history
    <3> QED
      BY <3>1 DEF Stored
  <2> QED
    BY <2>1, <2>2
<1>3. ASSUME Exit \/ Join \/ \E p \in Producers : Submit(p) \/ StepMarker(p) \/ Discard(p)
      PROVE  Stored'
  <2>1. UNCHANGED <<lost, ex_ptr_, failed, surfaced, missed>>
    BY <1>3 DEF Exit, Join, Submit, StepMarker, Discard, history
  <2> QED
    BY <2>1 DEF Stored
<1> QED
  BY <1>1, <1>2, <1>3 DEF Next

-----------------------------------------------------------------------------

LEMMA BaseInit ==
  ASSUME Init
  PROVE  Base
<1>1. Types
  <2>1. tasks_ \in Seq(Items) /\ executed \in Seq(Ops)
    BY EmptySeq DEF Init
  <2>2. slots \in [Slots -> Items] /\ head_ \in Slots /\ tail_ \in Slots /\ new_h \in [Producers -> Slots]
    BY ItemFacts, Constants DEF Init, Slots
  <2>3. item \in [Threads -> Items] /\ begun \in [Producers -> 0 .. MaxOps]
    BY ItemFacts, Constants DEF Init
  <2>4. pc \in [Threads -> {"idle", "ended"} \cup CallLocations \cup WorkerLocations]
    BY DEF Init, WorkerLocations
  <2> QED
    BY <2>1, <2>2, <2>3, <2>4 DEF Init, Types
<1>2. \A p \in Producers : pc[p] = "idle" /\ item[p] = Nothing
  BY Constants DEF Init
<1>3. \A p \in Producers : CallOK(p) /\ ~At(p, "count") /\ item[p].kind = "none"
  BY <1>2, KindFacts DEF CallOK, Kind, At, CallLocations
<1>4. LeavingOK
  BY <1>2, Constants DEF LeavingOK, At
<1>5. Len(tasks_) = 0
  BY EmptySeq DEF Init
<1>6. /\ pc[Worker] = (IF version = "sync" THEN "exited" ELSE "loop") /\ ex_ptr_ = None
      /\ task_count_ = 0
  BY Constants DEF Init
<1>7. WorkerOK
  BY <1>5, <1>6 DEF WorkerOK, At, WorkerLocations
<1>8. CountOK
  <2>1. AtCount = {} /\ Busy = 0
    BY <1>3, <1>6 DEF AtCount, Busy
  <2>2. Cardinality(AtCount) = 0
    BY <2>1, FS_EmptySet
  <2> QED
    BY <1>5, <1>6, <2>1, <2>2, FiniteFacts DEF CountOK
<1>9. Stored
  BY DEF Init, Stored
<1> QED
  BY <1>1, <1>3, <1>4, <1>7, <1>8, <1>9 DEF Base, Control

LEMMA BaseNext ==
  ASSUME Base, [Next]_vars
  PROVE  Base'
<1>1. ASSUME UNCHANGED vars PROVE Base'
  <2>1. Types'
    BY <1>1 DEF Base, Types, vars, ring, state, history
  <2>2. Control'
    BY <1>1 DEF Base, Control, WorkerOK, LeavingOK, Leaving, CallOK, Kind, At, Op, vars, ring, state, history
  <2>3. CountOK'
    BY <1>1 DEF Base, CountOK, Counted, InTask, AtCount, Busy, Kind, At, vars, ring, state, history
  <2>4. Stored'
    BY <1>1 DEF Base, Stored, vars, ring, state, history
  <2> QED
    BY <2>1, <2>2, <2>3, <2>4 DEF Base
<1>2. ASSUME Next PROVE Base'
  <2>1. Types /\ Control /\ CountOK /\ Stored
    BY DEF Base
  <2>2. Types'
    BY <1>2, <2>1, CallTypes, WorkerTypes, ProgramTypes, EndTypes DEF Next
  <2>3. Control'
    <3>1. ASSUME NEW p \in Producers, CallStep(p) PROVE Control'
      BY <2>1, <3>1, CallKeepsControl, CallKeepsWorker DEF Control
    <3> QED
      BY <1>2, <2>1, <3>1, WorkerKeepsControl, ProgramKeepsControl, EndKeepsControl DEF Next
  <2>4. CountOK'
    BY <1>2, <2>1, <2>2, <2>3, CallCount, WorkerCount, ProgramCount DEF Next
  <2>5. Stored'
    BY <1>2, <2>1, <2>2, <2>3, StoredStep
  <2> QED
    BY <2>2, <2>3, <2>4, <2>5 DEF Base
<1> QED
  BY <1>1, <1>2

\* Of the accumulation thread, any number of producers: a call is where its version
\* can bring it, what it has in hand is its own, tasks are counted once, and a
\* failure that has not surfaced is stored.
THEOREM BaseInvariant == Spec => []Base
<1>1. Init => Base
  BY BaseInit
<1>2. Base /\ [Next]_vars => Base'
  BY BaseNext
<1> QED
  BY <1>1, <1>2, PTL DEF Spec

\* task_count_ is never below zero nor above what has been submitted, and at rest
\* it is the length of the queue; head_ and tail_ stay in the ring.
THEOREM TypeCorrect == Spec => []TypeOK
<1>1. Base => TypeOK
  <2> SUFFICES ASSUME Base PROVE TypeOK
    OBVIOUS
  <2>1. Types /\ Control /\ CountOK
    BY DEF Base
  <2>2. task_count_ \in 0 .. Cardinality(Ops)
    BY <2>1, FiniteFacts DEF CountOK, Types
  <2>3. {head_, tail_} \subseteq 0 .. RingSize - 1
    BY <2>1 DEF Types, Slots
  <2>4. {stop_, enter_, task_in_progress_, lost, overlap} \subseteq BOOLEAN
    BY <2>1, Zenon DEF Types
  <2>5. ASSUME version = "counted", \A t \in Producers : At(t, "idle"), At(Worker, "loop")
        PROVE  task_count_ = Len(tasks_)
    <3>1. AtCount = {} /\ Busy = 0 /\ ~At(Worker, "exited")
      BY <2>5 DEF AtCount, Busy, At
    <3>2. Cardinality(AtCount) = 0
      BY <3>1, FS_EmptySet
    <3>3. task_count_ \in Nat /\ Len(tasks_) \in Nat
      BY <2>1, LenProperties DEF Types
    <3> QED
      BY <2>1, <2>5, <3>1, <3>2, <3>3 DEF CountOK
  <2> QED
    BY <2>1, <2>2, <2>3, <2>4, <2>5 DEF TypeOK, Types
<1> QED
  BY <1>1, BaseInvariant, PTL

\* checkNoException: no wait returns without an exception while one has not
\* surfaced, unless an exception was overwritten.
THEOREM FailuresSurface == Spec => []NoSilentFailure
<1>1. Base => NoSilentFailure
  BY DEF Base, Stored, NoSilentFailure
<1> QED
  BY <1>1, BaseInvariant, PTL

-----------------------------------------------------------------------------
(* What the worker has to do: the task in its hands and the queue, of the  *)
(* ring the slots from the one after tail_ to head_.                       *)

RingLen == IF head_ >= tail_ THEN head_ - tail_ ELSE head_ - tail_ + RingSize
Slot(i) == IF tail_ + i < RingSize THEN tail_ + i ELSE tail_ + i - RingSize
RingSeq == [i \in 1 .. RingLen |-> slots[Slot(i)]]

Queue == IF version = "ring" THEN RingSeq ELSE tasks_

InHand ==
  IF At(Worker, "execute") THEN <<item[Worker]>>
  ELSE IF At(Worker, "read") THEN <<slots[tail_]>>
  ELSE <<>>

Pend == InHand \o Queue

\* The operations that have taken effect, that will never, and that wait.
Done    == {executed[n] : n \in 1 .. Len(executed)}
Past    == Done \cup failed \cup refused
Among(s, op, n) == \E m \in 1 .. n : s[m] = Task(op)
Waiting == {op \in Ops : Among(Pend, op, Len(Pend))}
Known   == Past \cup Waiting

\* The first operations of a producer are in a set, or in a sequence.
First(p, k, X) == \A j \in 1 .. k - 1 : <<p, j>> \in X
Ahead(X, s, p, k, n) == \A j \in 1 .. k - 1 : <<p, j>> \in X \/ Among(s, <<p, j>>, n)

\* What waits is new and behind all that comes before it in the program, a marker
\* too, whose call waits for it.
InTurn(s, past, done, nth, waiters, reached, leaving) ==
  \A i \in 1 .. Len(s) :
    /\ \A op \in Ops : s[i] = Task(op) =>
         /\ op \notin done /\ ~Among(s, op, i - 1) /\ op[2] <= nth[op[1]]
         /\ Ahead(past, s, op[1], op[2], i - 1)
    /\ \A p \in Producers : s[i] = Marker(p) =>
         /\ p \in waiters \ reached /\ \A m \in 1 .. i - 1 : s[m] # Marker(p)
         /\ Ahead(past, s, p, nth[p], i - 1)
    /\ s[i] = StopTask => leaving

\* The worker has not begun to drop tasks.
Going == version \in Fast => ~stop_

AtFuture == {p \in Producers : At(p, "future")}

PendOK == Going => InTurn(Pend, Past, Done, begun, AtFuture, promise, Leaving)

\* A call whose operation is still to be queued, or done by the call itself.
InCall(p) == pc[p] \in CallLocations \ {"count", "join"} /\ Kind(p) # "stop"

\* A call that has waited for all earlier operations.
Waited(p) ==
  \/ At(p, "own")
  \/ /\ pc[p] \in {"last check", "last forget"} \/ (At(p, "future") /\ p \in promise)
     /\ version \in Fast => ex_ptr_ = None

CallOrder(p) ==
  /\ InCall(p) => Op(p) \notin Done /\ (Going => Op(p) \notin Waiting)
  /\ Going => First(p, IF InCall(p) THEN begun[p] ELSE begun[p] + 1, Known)
  /\ Waited(p) => First(p, begun[p], Past)

\* Why the worker stops.
StopOK ==
  /\ version \in Fast => (ex_ptr_ # None => stop_) /\ (stop_ => ex_ptr_ # None \/ Leaving)
  /\ version = "counted" /\ (stop_ \/ At(Worker, "exited")) => Leaving

PromiseOK ==
  version \in Fast /\ ex_ptr_ = None /\ ~Leaving =>
    \A p \in promise : pc[p] \in {"future", "last check", "last forget", "own"}

AloneOK ==
  version # "blocking" => \A p, q \in Producers : p = q \/ At(p, "idle") \/ At(q, "idle")

RingOK ==
  version = "ring" =>
    \A p \in Producers :
      /\ pc[p] \in {"reserved", "filled"} => new_h[p] = Next_(head_) /\ new_h[p] # tail_
      /\ At(p, "filled") => slots[new_h[p]] = item[p]

FlushOK == \A p \in Producers : At(p, "flush") => task_in_progress_

\* Effects so far are in order, but for what will have none.
NewAt(s, n)          == \A i \in 1 .. n - 1 : s[i] # s[n]
HeldBefore(s, op, n) == \E i \in 1 .. n - 1 : s[i] = op
InOrderAt(s, gone, n) ==
  \A k \in 1 .. s[n][2] - 1 : <<s[n][1], k>> \in gone \/ HeldBefore(s, <<s[n][1], k>>, n)

Ordered(s, gone) == \A n \in 1 .. Len(s) : NewAt(s, n) /\ InOrderAt(s, gone, n)

EffectsOK ==
  /\ Ordered(executed, failed \cup refused)
  /\ \A op \in Done : op[2] <= begun[op[1]]

\* The code keeps its promises.
Sound == Alone /\ ~lost /\ ~Wedged

Around == StopOK /\ PromiseOK /\ AloneOK /\ RingOK /\ FlushOK

OrderInv ==
  Sound => Around /\ EffectsOK /\ PendOK /\ \A p \in Producers : CallOrder(p)

-----------------------------------------------------------------------------
(* Of a sequence of items that gets longer or shorter.                     *)

LEMMA AmongAppend ==
  ASSUME NEW s \in Seq(Items), NEW x \in Items
  PROVE  /\ \A op, n : n \in 0 .. Len(s) => (Among(Append(s, x), op, n) <=> Among(s, op, n))
         /\ \A op : Among(Append(s, x), op, Len(s) + 1) <=> Among(s, op, Len(s)) \/ x = Task(op)
<1>1. PICK r : r = Append(s, x)
  OBVIOUS
<1>2. Len(s) \in Nat /\ r[Len(s) + 1] = x /\ \A i \in 1 .. Len(s) : r[i] = s[i]
  BY <1>1, AppendProperties, LenProperties
<1>3. ASSUME NEW op, NEW n \in 0 .. Len(s)
      PROVE  Among(r, op, n) <=> Among(s, op, n)
  BY <1>2 DEF Among
<1>4. ASSUME NEW op
      PROVE  Among(r, op, Len(s) + 1) <=> Among(s, op, Len(s)) \/ x = Task(op)
  <2>1. \A m \in 1 .. Len(s) + 1 : m \in 1 .. Len(s) \/ m = Len(s) + 1
    BY <1>2
  <2>2. \A m \in 1 .. Len(s) : m \in 1 .. Len(s) + 1
    BY <1>2
  <2>3. Len(s) + 1 \in 1 .. Len(s) + 1
    BY <1>2
  <2> QED
    BY <1>2, <2>1, <2>2, <2>3 DEF Among
<1> QED
  BY <1>1, <1>3, <1>4

LEMMA AmongTail ==
  ASSUME NEW s \in Seq(Items), s # <<>>
  PROVE  /\ Tail(s) \in Seq(Items) /\ Len(Tail(s)) = Len(s) - 1 /\ Len(s) \in Nat \ {0}
         /\ \A i \in 1 .. Len(s) - 1 : Tail(s)[i] = s[i + 1]
         /\ \A op, n : n \in 1 .. Len(s) =>
              (Among(s, op, n) <=> s[1] = Task(op) \/ Among(Tail(s), op, n - 1))
<1>1. PICK r : r = Tail(s)
  OBVIOUS
<1>2. /\ Len(s) \in Nat \ {0} /\ r \in Seq(Items) /\ Len(r) = Len(s) - 1
      /\ \A i \in 1 .. Len(s) - 1 : r[i] = s[i + 1]
  BY <1>1, EmptySeq, HeadTailProperties
<1>3. ASSUME NEW op, NEW n \in 1 .. Len(s)
      PROVE  Among(s, op, n) <=> s[1] = Task(op) \/ Among(r, op, n - 1)
  <2>1. ASSUME NEW m \in 1 .. n, s[m] = Task(op), m # 1
        PROVE  m - 1 \in 1 .. n - 1 /\ r[m - 1] = Task(op)
    BY <1>2, <2>1
  <2>2. ASSUME NEW m \in 1 .. n - 1, r[m] = Task(op)
        PROVE  m + 1 \in 1 .. n /\ s[m + 1] = Task(op)
    BY <1>2, <2>2
  <2>3. 1 \in 1 .. n
    OBVIOUS
  <2> QED
    BY <2>1, <2>2, <2>3 DEF Among
<1> QED
  BY <1>1, <1>2, <1>3

LEMMA AheadGrows ==
  ASSUME NEW X, NEW Y, X \subseteq Y, NEW s, NEW p, NEW k, NEW n, Ahead(X, s, p, k, n)
  PROVE  Ahead(Y, s, p, k, n)
BY DEF Ahead

LEMMA InTurnKeeps ==
  ASSUME NEW s \in Seq(Items), NEW P1, NEW P2, NEW D1, NEW D2, NEW b1 \in [Producers -> Nat],
         NEW b2 \in [Producers -> Nat],
         NEW f1, NEW f2, NEW r1, NEW r2, NEW l1 \in BOOLEAN, NEW l2 \in BOOLEAN,
         InTurn(s, P1, D1, b1, f1, r1, l1),
         P1 \subseteq P2,
         \A op \in Ops : op \in D2 /\ Among(s, op, Len(s)) => op \in D1,
         \A p \in Producers : b1[p] <= b2[p],
         \A p \in Producers : (p \in f1 \ r1) /\ (\E i \in 1 .. Len(s) : s[i] = Marker(p))
                                => p \in f2 \ r2 /\ b2[p] = b1[p],
         l1 => l2
  PROVE  InTurn(s, P2, D2, b2, f2, r2, l2)
<1>1. Len(s) \in Nat
  BY LenProperties
<1>2. ASSUME NEW i \in 1 .. Len(s), NEW op \in Ops, s[i] = Task(op)
      PROVE  /\ op \notin D2 /\ ~Among(s, op, i - 1) /\ op[2] <= b2[op[1]]
             /\ Ahead(P2, s, op[1], op[2], i - 1)
  <2>1. /\ op \notin D1 /\ ~Among(s, op, i - 1) /\ op[2] <= b1[op[1]]
        /\ Ahead(P1, s, op[1], op[2], i - 1)
    BY <1>2 DEF InTurn
  <2>2. Among(s, op, Len(s))
    BY <1>2 DEF Among
  <2>3. op[1] \in Producers /\ op[2] \in Nat
    BY DEF Ops
  <2>4. op[2] <= b2[op[1]]
    BY <2>1, <2>3
  <2> QED
    BY <2>1, <2>2, <2>4, AheadGrows
<1>3. ASSUME NEW i \in 1 .. Len(s), NEW p \in Producers, s[i] = Marker(p)
      PROVE  /\ p \in f2 \ r2 /\ \A m \in 1 .. i - 1 : s[m] # Marker(p)
             /\ Ahead(P2, s, p, b2[p], i - 1)
  <2>1. /\ p \in f1 \ r1 /\ \A m \in 1 .. i - 1 : s[m] # Marker(p)
        /\ Ahead(P1, s, p, b1[p], i - 1)
    BY <1>3 DEF InTurn
  <2>2. p \in f2 \ r2 /\ b2[p] = b1[p]
    BY <1>3, <2>1
  <2> QED
    BY <2>1, <2>2, AheadGrows
<1>4. ASSUME NEW i \in 1 .. Len(s), s[i] = StopTask PROVE l2
  BY <1>4 DEF InTurn
<1> QED
  BY <1>2, <1>3, <1>4 DEF InTurn

LEMMA InTurnTail ==
  ASSUME NEW s \in Seq(Items), s # <<>>, NEW P, NEW D, NEW b \in [Producers -> 0 .. MaxOps],
         NEW f, NEW r, NEW l,
         NEW P2, NEW D2, NEW r2, NEW l2 \in BOOLEAN, l \in BOOLEAN,
         InTurn(s, P, D, b, f, r, l), P \subseteq P2, l => l2,
         \A op \in Ops : s[1] = Task(op) => op \in P2,
         \A op \in Ops : op \in D2 => op \in D \/ s[1] = Task(op),
         \A p \in Producers : p \in r2 => p \in r \/ s[1] = Marker(p)
  PROVE  InTurn(Tail(s), P2, D2, b, f, r2, l2)
<1>1. PICK t : t = Tail(s)
  OBVIOUS
<1>2. /\ Len(s) \in Nat \ {0} /\ Len(t) = Len(s) - 1
      /\ \A i \in 1 .. Len(s) - 1 : t[i] = s[i + 1]
      /\ \A op, n : n \in 1 .. Len(s) =>
           (Among(s, op, n) <=> s[1] = Task(op) \/ Among(t, op, n - 1))
  BY <1>1, AmongTail
<1>3. ASSUME NEW i \in 1 .. Len(t) PROVE i + 1 \in 1 .. Len(s) /\ t[i] = s[i + 1] /\ i + 1 - 1 = i
                                       /\ 1 \in 1 .. i /\ i \in 1 .. Len(s)
  BY <1>2
<1>4. ASSUME NEW i \in 1 .. Len(t), NEW p \in Producers, NEW k, Ahead(P, s, p, k, i),
             \A j \in 1 .. k - 1 : <<p, j>> \in Ops
      PROVE  Ahead(P2, t, p, k, i - 1)
  <2> SUFFICES ASSUME NEW j \in 1 .. k - 1
               PROVE  <<p, j>> \in P2 \/ Among(t, <<p, j>>, i - 1)
    BY DEF Ahead
  <2>1. <<p, j>> \in P \/ Among(s, <<p, j>>, i)
    BY <1>4 DEF Ahead
  <2> QED
    BY <1>2, <1>3, <1>4, <2>1
<1>5. ASSUME NEW i \in 1 .. Len(t), NEW op \in Ops, t[i] = Task(op)
      PROVE  /\ op \notin D2 /\ ~Among(t, op, i - 1) /\ op[2] <= b[op[1]]
             /\ Ahead(P2, t, op[1], op[2], i - 1)
  <2>1. /\ op \notin D /\ ~Among(s, op, i) /\ op[2] <= b[op[1]] /\ Ahead(P, s, op[1], op[2], i)
    <3>1. s[i + 1] = Task(op) /\ i + 1 \in 1 .. Len(s) /\ i + 1 - 1 = i
      BY <1>3, <1>5
    <3>2. /\ op \notin D /\ ~Among(s, op, i + 1 - 1) /\ op[2] <= b[op[1]]
          /\ Ahead(P, s, op[1], op[2], i + 1 - 1)
      BY <3>1 DEF InTurn
    <3> QED
      BY <3>1, <3>2
  <2>2. s[1] # Task(op)
    BY <1>3, <2>1 DEF Among
  <2>3. ~Among(t, op, i - 1)
    BY <1>2, <1>3, <2>1
  <2>4. op[1] \in Producers /\ \A j \in 1 .. op[2] - 1 : <<op[1], j>> \in Ops
    BY Constants DEF Ops
  <2> QED
    BY <1>4, <2>1, <2>2, <2>3, <2>4
<1>6. ASSUME NEW i \in 1 .. Len(t), NEW p \in Producers, t[i] = Marker(p)
      PROVE  /\ p \in f \ r2 /\ \A m \in 1 .. i - 1 : t[m] # Marker(p)
             /\ Ahead(P2, t, p, b[p], i - 1)
  <2>1. /\ p \in f \ r /\ (\A m \in 1 .. i : s[m] # Marker(p)) /\ Ahead(P, s, p, b[p], i)
    <3>1. s[i + 1] = Marker(p) /\ i + 1 \in 1 .. Len(s) /\ i + 1 - 1 = i
      BY <1>3, <1>6
    <3>2. /\ p \in f \ r /\ (\A m \in 1 .. i + 1 - 1 : s[m] # Marker(p))
          /\ Ahead(P, s, p, b[p], i + 1 - 1)
      BY <3>1 DEF InTurn
    <3> QED
      BY <3>1, <3>2
  <2>2. p \in f \ r2
    BY <1>3, <2>1
  <2>3. \A m \in 1 .. i - 1 : t[m] = s[m + 1] /\ m + 1 \in 1 .. i
    BY <1>2
  <2>4. Ahead(P2, t, p, b[p], i - 1)
    <3>1. \A j \in 1 .. b[p] - 1 : <<p, j>> \in Ops
      BY Constants DEF Ops
    <3> QED
      BY <1>4, <2>1, <3>1
  <2> QED
    BY <2>1, <2>2, <2>3, <2>4
<1>7. ASSUME NEW i \in 1 .. Len(t), t[i] = StopTask PROVE l2
  BY <1>3, <1>7 DEF InTurn
<1> QED
  BY <1>1, <1>5, <1>6, <1>7 DEF InTurn

LEMMA InTurnAppend ==
  ASSUME NEW s \in Seq(Items), NEW x \in Items, NEW P, NEW D,
         NEW b \in [Producers -> 0 .. MaxOps], NEW f, NEW f2, NEW r, NEW l \in BOOLEAN,
         InTurn(s, P, D, b, f, r, l), f \subseteq f2,
         \A op \in Ops : x = Task(op) =>
           /\ op \notin D /\ ~Among(s, op, Len(s)) /\ op[2] <= b[op[1]]
           /\ Ahead(P, s, op[1], op[2], Len(s)),
         \A p \in Producers : x = Marker(p) =>
           /\ p \in f2 \ r /\ p \notin f
           /\ Ahead(P, s, p, b[p], Len(s)),
         x = StopTask => l
  PROVE  InTurn(Append(s, x), P, D, b, f2, r, l)
<1>1. PICK t : t = Append(s, x)
  OBVIOUS
<1>2. /\ Len(s) \in Nat /\ Len(t) = Len(s) + 1 /\ t[Len(s) + 1] = x
      /\ \A i \in 1 .. Len(s) : t[i] = s[i]
      /\ \A op, n : n \in 0 .. Len(s) => (Among(t, op, n) <=> Among(s, op, n))
  BY <1>1, AppendProperties, LenProperties, AmongAppend
<1>3. ASSUME NEW n \in 0 .. Len(s), NEW p, NEW k, Ahead(P, s, p, k, n)
      PROVE  Ahead(P, t, p, k, n)
  BY <1>2, <1>3 DEF Ahead
<1>4. ASSUME NEW i \in 1 .. Len(t)
      PROVE  /\ i - 1 \in 0 .. Len(s) /\ \A m \in 1 .. i - 1 : t[m] = s[m]
             /\ \/ i \in 1 .. Len(s) /\ t[i] = s[i]
                \/ i = Len(s) + 1 /\ t[i] = x /\ i - 1 = Len(s)
  BY <1>2
<1>5. ASSUME NEW i \in 1 .. Len(t), NEW op \in Ops, t[i] = Task(op)
      PROVE  /\ op \notin D /\ ~Among(t, op, i - 1) /\ op[2] <= b[op[1]]
             /\ Ahead(P, t, op[1], op[2], i - 1)
  <2>1. /\ op \notin D /\ ~Among(s, op, i - 1) /\ op[2] <= b[op[1]]
        /\ Ahead(P, s, op[1], op[2], i - 1)
    <3>1. CASE i \in 1 .. Len(s) /\ t[i] = s[i]
      BY <1>5, <3>1 DEF InTurn
    <3>2. CASE i = Len(s) + 1 /\ t[i] = x /\ i - 1 = Len(s)
      BY <1>5, <3>2
    <3> QED
      BY <1>4, <3>1, <3>2
  <2> QED
    BY <1>2, <1>3, <1>4, <2>1
<1>6. ASSUME NEW i \in 1 .. Len(t), NEW p \in Producers, t[i] = Marker(p)
      PROVE  /\ p \in f2 \ r /\ \A m \in 1 .. i - 1 : t[m] # Marker(p)
             /\ Ahead(P, t, p, b[p], i - 1)
  <2>1. CASE i \in 1 .. Len(s) /\ t[i] = s[i]
    <3>1. /\ p \in f \ r /\ (\A m \in 1 .. i - 1 : s[m] # Marker(p))
          /\ Ahead(P, s, p, b[p], i - 1)
      BY <1>6, <2>1 DEF InTurn
    <3> QED
      BY <1>3, <1>4, <3>1
  <2>2. CASE i = Len(s) + 1 /\ t[i] = x /\ i - 1 = Len(s)
    <3>1. p \in f2 \ r /\ p \notin f /\ Ahead(P, s, p, b[p], i - 1)
      BY <1>6, <2>2
    <3>2. \A m \in 1 .. Len(s) : s[m] # Marker(p)
      BY <3>1 DEF InTurn
    <3> QED
      BY <1>3, <1>4, <2>2, <3>1, <3>2
  <2> QED
    BY <1>4, <2>1, <2>2
<1>7. ASSUME NEW i \in 1 .. Len(t), t[i] = StopTask PROVE l
  BY <1>4, <1>7 DEF InTurn
<1> QED
  BY <1>1, <1>5, <1>6, <1>7 DEF InTurn

LEMMA OrderedGrows ==
  ASSUME NEW s, NEW g, NEW h, g \subseteq h, Ordered(s, g)
  PROVE  Ordered(s, h)
<1>1. ASSUME NEW n, InOrderAt(s, g, n) PROVE InOrderAt(s, h, n)
  BY <1>1 DEF InOrderAt
<1> QED
  BY <1>1 DEF Ordered

\* Only the first elements of a sequence matter.
LEMMA OrderedPrefix ==
  ASSUME NEW s, NEW t, NEW g, NEW n \in Nat, n > 0, \A i \in 1 .. n : t[i] = s[i],
         NewAt(s, n), InOrderAt(s, g, n)
  PROVE  NewAt(t, n) /\ InOrderAt(t, g, n)
<1>1. t[n] = s[n] /\ \A i \in 1 .. n - 1 : t[i] = s[i]
  OBVIOUS
<1>2. NewAt(t, n)
  BY <1>1 DEF NewAt
<1>3. \A op : HeldBefore(s, op, n) => HeldBefore(t, op, n)
  BY <1>1 DEF HeldBefore
<1>4. InOrderAt(t, g, n)
  BY <1>1, <1>3 DEF InOrderAt
<1> QED
  BY <1>2, <1>4

LEMMA OrderedAppend ==
  ASSUME NEW s \in Seq(Ops), NEW g, Ordered(s, g), NEW op \in Ops,
         \A i \in 1 .. Len(s) : s[i] # op,
         \A k \in 1 .. op[2] - 1 :
           <<op[1], k>> \in g \/ \E i \in 1 .. Len(s) : s[i] = <<op[1], k>>
  PROVE  Ordered(Append(s, op), g)
<1>1. PICK t : t = Append(s, op)
  OBVIOUS
<1>2. /\ Len(s) \in Nat /\ Len(t) = Len(s) + 1 /\ t[Len(s) + 1] = op
      /\ \A i \in 1 .. Len(s) : t[i] = s[i]
  BY <1>1, AppendProperties, LenProperties
<1>3. ASSUME NEW n \in 1 .. Len(t)
      PROVE  NewAt(t, n) /\ InOrderAt(t, g, n)
  <2>1. CASE n \in 1 .. Len(s)
    <3>1. NewAt(s, n) /\ InOrderAt(s, g, n)
      BY <2>1 DEF Ordered
    <3>2. n \in Nat /\ n > 0 /\ \A i \in 1 .. n : t[i] = s[i]
      BY <1>2, <2>1
    <3> QED
      BY <3>1, <3>2, OrderedPrefix
  <2>2. CASE n \notin 1 .. Len(s)
    <3>1. n - 1 = Len(s) /\ t[n] = op
      BY <1>2, <2>2
    <3>2. NewAt(t, n)
      BY <1>2, <3>1 DEF NewAt
    <3>3. \A x : (\E i \in 1 .. Len(s) : s[i] = x) => HeldBefore(t, x, n)
      BY <1>2, <3>1 DEF HeldBefore
    <3>4. InOrderAt(t, g, n)
      BY <3>1, <3>3 DEF InOrderAt
    <3> QED
      BY <3>2, <3>4
  <2> QED
    BY <2>1, <2>2
<1> QED
  BY <1>1, <1>3 DEF Ordered

\* The pending tasks of the version without a worker, done all at once.
LEMMA OrderedAll ==
  ASSUME NEW e \in Seq(Ops), NEW g, Ordered(e, g), NEW s \in Seq(Items), NEW P, NEW D, NEW b,
         NEW f, NEW r, NEW l, InTurn(s, P, D, b, f, r, l),
         D = {e[n] : n \in 1 .. Len(e)}, P = D \cup g,
         \A i \in 1 .. Len(s) : s[i].kind = "task",
         NEW t \in Seq(Ops), Len(t) = Len(s), \A i \in 1 .. Len(s) : t[i] = s[i].of
  PROVE  Ordered(e \o t, g)
<1>1. PICK z, n1, n2 : z = e \o t /\ n1 = Len(e) /\ n2 = Len(s)
  OBVIOUS
<1>2. /\ n1 \in Nat /\ n2 \in Nat /\ Len(z) = n1 + n2
      /\ \A i \in 1 .. n1 + n2 : z[i] = IF i <= n1 THEN e[i] ELSE t[i - n1]
  <2>1. Len(e) \in Nat /\ Len(t) = n2 /\ n2 \in Nat
    BY <1>1, LenProperties
  <2>2. /\ Len(e \o t) = Len(e) + Len(t)
        /\ \A i \in 1 .. Len(e) + Len(t) : (e \o t)[i] = IF i <= Len(e) THEN e[i] ELSE t[i - Len(e)]
    BY ConcatProperties
  <2> QED
    BY <1>1, <2>1, <2>2
<1>3. \A i \in 1 .. n1 : z[i] = e[i]
  BY <1>2
<1>4. \A i \in 1 .. n2 : z[n1 + i] = t[i] /\ n1 + i \in 1 .. n1 + n2
  <2> SUFFICES ASSUME NEW i \in 1 .. n2 PROVE z[n1 + i] = t[i] /\ n1 + i \in 1 .. n1 + n2
    OBVIOUS
  <2>1. n1 + i \in 1 .. n1 + n2 /\ ~(n1 + i <= n1) /\ n1 + i - n1 = i
    BY <1>2
  <2> QED
    BY <1>2, <2>1
<1>5. ASSUME NEW i \in 1 .. n2 PROVE s[i] = Task(t[i]) /\ t[i] \in Ops
  <2>1. s[i] \in Items /\ s[i].kind = "task" /\ t[i] = s[i].of
    BY <1>1, ElementOfSeq
  <2> QED
    BY <2>1, ItemFacts
<1>6. ASSUME NEW n \in 1 .. Len(z)
      PROVE  NewAt(z, n) /\ InOrderAt(z, g, n)
  <2>1. CASE n \in 1 .. n1
    <3>1. NewAt(e, n) /\ InOrderAt(e, g, n)
      BY <1>1, <2>1 DEF Ordered
    <3>2. n \in Nat /\ n > 0 /\ \A i \in 1 .. n : z[i] = e[i]
      BY <1>2, <1>3, <2>1
    <3> QED
      BY <3>1, <3>2, OrderedPrefix
  <2>2. CASE n \notin 1 .. n1
    <3>1. PICK q \in 1 .. n2 : n = n1 + q
      <4>1. n - n1 \in 1 .. n2 /\ n = n1 + (n - n1)
        BY <1>2, <2>2
      <4> QED
        BY <4>1
    <3>2. z[n] = t[q] /\ s[q] = Task(t[q]) /\ t[q] \in Ops
      BY <1>4, <1>5, <3>1
    <3>3. t[q] \notin D /\ ~Among(s, t[q], q - 1) /\ Ahead(P, s, t[q][1], t[q][2], q - 1)
      BY <1>1, <3>2 DEF InTurn
    <3>4. \A i \in 1 .. n1 : i \in 1 .. n - 1
      BY <1>2, <3>1
    <3>5. \A j \in 1 .. q - 1 : n1 + j \in 1 .. n - 1 /\ j \in 1 .. n2 /\ z[n1 + j] = t[j]
      BY <1>2, <1>4, <3>1
    <3>6. ASSUME NEW i \in 1 .. n - 1
          PROVE  (i \in 1 .. n1 /\ z[i] = e[i]) \/ \E j \in 1 .. q - 1 : i = n1 + j
      <4>1. CASE i \in 1 .. n1
        BY <1>3, <4>1
      <4>2. CASE i \notin 1 .. n1
        <5>1. i - n1 \in 1 .. q - 1 /\ i = n1 + (i - n1)
          BY <1>2, <3>1, <4>2
        <5> QED
          BY <5>1
      <4> QED
        BY <4>1, <4>2
    <3>7. \A j \in 1 .. q - 1 : t[j] # t[q]
      <4>1. ASSUME NEW j \in 1 .. q - 1 PROVE t[j] # t[q]
        <5>1. s[j] = Task(t[j])
          BY <1>5, <3>5
        <5> QED
          BY <3>3, <5>1 DEF Among
      <4> QED
        BY <4>1
    <3>8. \A i \in 1 .. n1 : e[i] # t[q]
      BY <1>1, <3>3
    <3>9. NewAt(z, n)
      <4>1. ASSUME NEW i \in 1 .. n - 1 PROVE z[i] # z[n]
        BY <3>2, <3>5, <3>6, <3>7, <3>8
      <4> QED
        BY <4>1 DEF NewAt
    <3>10. ASSUME NEW op, op \in P \/ Among(s, op, q - 1) PROVE op \in g \/ HeldBefore(z, op, n)
      <4>1. CASE op \in D
        <5>1. PICK i \in 1 .. n1 : e[i] = op
          BY <1>1, <4>1
        <5> QED
          BY <1>3, <3>4, <5>1 DEF HeldBefore
      <4>2. CASE Among(s, op, q - 1)
        <5>1. PICK j \in 1 .. q - 1 : s[j] = Task(op)
          BY <4>2 DEF Among
        <5>2. t[j] = op
          <6>1. j \in 1 .. Len(s) /\ s[j].of = op
            BY <1>1, <3>5, <5>1, KindFacts
          <6> QED
            BY <6>1
        <5> QED
          BY <3>5, <5>2 DEF HeldBefore
      <4> QED
        BY <3>10, <4>1, <4>2
    <3>11. InOrderAt(z, g, n)
      BY <3>2, <3>3, <3>10 DEF InOrderAt, Ahead
    <3> QED
      BY <3>9, <3>11
  <2> QED
    BY <2>1, <2>2
<1> QED
  BY <1>1, <1>6 DEF Ordered

-----------------------------------------------------------------------------
(* The queue of the ring, and what a step does to what waits.              *)

LEMMA SlotNumbers ==
  ASSUME NEW R \in Nat, R > 1, NEW h \in 0 .. R - 1, NEW t \in 0 .. R - 1,
         NEW n, n = IF h >= t THEN h - t ELSE h - t + R
  PROVE  /\ n \in 0 .. R - 1 /\ (n = 0 <=> h = t)
         /\ \A i \in 0 .. n : (IF t + i < R THEN t + i ELSE t + i - R) \in 0 .. R - 1
         /\ (IF t + n < R THEN t + n ELSE t + n - R) = h
OBVIOUS

LEMMA RingShape ==
  ASSUME NEW h \in Slots, NEW t \in Slots, NEW sl \in [Slots -> Items],
         NEW n, n = IF h >= t THEN h - t ELSE h - t + RingSize,
         NEW q, q = [i \in 1 .. n |-> sl[IF t + i < RingSize THEN t + i ELSE t + i - RingSize]]
  PROVE  /\ n \in 0 .. RingSize - 1 /\ n \in Nat /\ (n = 0 <=> h = t)
         /\ \A i \in 0 .. n : (IF t + i < RingSize THEN t + i ELSE t + i - RingSize) \in Slots
         /\ q \in Seq(Items) /\ Len(q) = n
         /\ \A i \in 1 .. n : q[i] = sl[IF t + i < RingSize THEN t + i ELSE t + i - RingSize]
<1>1. /\ RingSize \in Nat /\ RingSize > 1 /\ h \in 0 .. RingSize - 1 /\ t \in 0 .. RingSize - 1
  BY Constants DEF Slots
<1>2. /\ n \in 0 .. RingSize - 1 /\ (n = 0 <=> h = t)
      /\ \A i \in 0 .. n : (IF t + i < RingSize THEN t + i ELSE t + i - RingSize) \in Slots
  BY <1>1, SlotNumbers DEF Slots
<1>3. n \in Nat /\ \A i \in 1 .. n : (IF t + i < RingSize THEN t + i ELSE t + i - RingSize) \in Slots
  <2>1. n \in Nat
    BY <1>1, <1>2
  <2>2. \A i \in 1 .. n : i \in 0 .. n
    BY <2>1
  <2> QED
    BY <1>2, <2>1, <2>2
<1>4. /\ q \in [1 .. n -> Items]
      /\ \A i \in 1 .. n : q[i] = sl[IF t + i < RingSize THEN t + i ELSE t + i - RingSize]
  BY <1>3
<1>5. q \in Seq(Items)
  BY <1>3, <1>4, SeqDef
<1>6. Len(q) = n
  BY <1>3, <1>4, <1>5, LenProperties
<1> QED
  BY <1>2, <1>3, <1>4, <1>5, <1>6

LEMMA RingFacts ==
  ASSUME Types
  PROVE  /\ RingLen \in 0 .. RingSize - 1 /\ RingLen \in Nat /\ (RingLen = 0 <=> head_ = tail_)
         /\ \A i \in 0 .. RingLen : Slot(i) \in Slots
         /\ RingSeq \in Seq(Items) /\ Len(RingSeq) = RingLen
         /\ \A i \in 1 .. RingLen : RingSeq[i] = slots[Slot(i)]
<1>1. PICK n, q : n = RingLen /\ q = RingSeq
  OBVIOUS
<1>2. n = IF head_ >= tail_ THEN head_ - tail_ ELSE head_ - tail_ + RingSize
  BY <1>1 DEF RingLen
<1>3. q = [i \in 1 .. n |-> slots[IF tail_ + i < RingSize THEN tail_ + i ELSE tail_ + i - RingSize]]
  BY <1>1 DEF RingSeq, Slot
<1>4. head_ \in Slots /\ tail_ \in Slots /\ slots \in [Slots -> Items]
  BY DEF Types
<1>5. /\ n \in 0 .. RingSize - 1 /\ n \in Nat /\ (n = 0 <=> head_ = tail_)
      /\ \A i \in 0 .. n : (IF tail_ + i < RingSize THEN tail_ + i ELSE tail_ + i - RingSize) \in Slots
      /\ q \in Seq(Items) /\ Len(q) = n
      /\ \A i \in 1 .. n : q[i] = slots[IF tail_ + i < RingSize THEN tail_ + i ELSE tail_ + i - RingSize]
  BY <1>2, <1>3, <1>4, RingShape
<1> QED
  BY <1>1, <1>5 DEF Slot

LEMMA PendType ==
  ASSUME Types
  PROVE  /\ Queue \in Seq(Items) /\ InHand \in Seq(Items) /\ Pend \in Seq(Items)
         /\ InHand = <<>> => Pend = Queue
<1>1. Queue \in Seq(Items)
  BY RingFacts DEF Queue, Types
<1>2. item[Worker] \in Items /\ slots[tail_] \in Items
  BY Constants DEF Types
<1>3. InHand \in Seq(Items)
  BY <1>2, EmptySeq DEF InHand
<1> QED
  BY <1>1, <1>3, ConcatProperties, ConcatEmptySeq DEF Pend

LEMMA ConcatAppend ==
  ASSUME NEW s \in Seq(Items), NEW t \in Seq(Items), NEW x \in Items
  PROVE  s \o Append(t, x) = Append(s \o t, x)
<1>1. <<x>> \in Seq(Items) /\ Append(t, x) = t \o <<x>>
  BY AppendIsConcat
<1>2. s \o (t \o <<x>>) = (s \o t) \o <<x>>
  BY <1>1, ConcatAssociative
<1>3. s \o t \in Seq(Items)
  BY ConcatProperties
<1> QED
  BY <1>1, <1>2, <1>3, AppendIsConcat

LEMMA ConsTail ==
  ASSUME NEW s \in Seq(Items), NEW x \in Items
  PROVE  /\ <<x>> \o s \in Seq(Items) /\ <<x>> \o s # <<>>
         /\ Tail(<<x>> \o s) = s /\ (<<x>> \o s)[1] = x
<1>1. PICK r : r = <<x>> \o s
  OBVIOUS
<1>2. <<x>> \in Seq(Items) /\ Len(<<x>>) = 1 /\ Len(s) \in Nat
  BY LenProperties
<1>3. /\ r \in Seq(Items) /\ Len(r) = 1 + Len(s)
      /\ \A i \in 1 .. 1 + Len(s) : r[i] = IF i <= 1 THEN x ELSE s[i - 1]
  <2>1. /\ r \in Seq(Items) /\ Len(r) = Len(<<x>>) + Len(s)
        /\ \A i \in 1 .. Len(<<x>>) + Len(s) :
             r[i] = IF i <= Len(<<x>>) THEN <<x>>[i] ELSE s[i - Len(<<x>>)]
    BY <1>1, <1>2, ConcatProperties
  <2> QED
    BY <1>2, <2>1
<1>4. r # <<>> /\ r[1] = x
  <2>1. Len(r) # 0 /\ 1 \in 1 .. 1 + Len(s)
    BY <1>2, <1>3
  <2> QED
    BY <1>3, <2>1, EmptySeq
<1>5. Tail(r) = s
  <2>1. /\ Tail(r) \in Seq(Items) /\ Len(Tail(r)) = Len(s)
        /\ \A i \in 1 .. Len(s) : Tail(r)[i] = r[i + 1]
    BY <1>2, <1>3, <1>4, AmongTail
  <2>2. \A i \in 1 .. Len(s) : r[i + 1] = s[i]
    BY <1>2, <1>3
  <2> QED
    BY <2>1, <2>2, SeqEqual
<1> QED
  BY <1>1, <1>3, <1>4, <1>5

LEMMA HeadCons ==
  ASSUME NEW s \in Seq(Items), s # <<>>
  PROVE  s = <<s[1]>> \o Tail(s) /\ s[1] \in Items
<1>1. /\ Len(s) \in Nat \ {0} /\ Tail(s) \in Seq(Items) /\ Len(Tail(s)) = Len(s) - 1
      /\ \A i \in 1 .. Len(s) - 1 : Tail(s)[i] = s[i + 1]
  BY AmongTail
<1>2. s[1] \in Items
  BY <1>1, ElementOfSeq
<1>3. PICK r : r = <<s[1]>> \o Tail(s)
  OBVIOUS
<1>4. <<s[1]>> \in Seq(Items) /\ Len(<<s[1]>>) = 1
  BY <1>2
<1>5. /\ r \in Seq(Items) /\ Len(r) = Len(s)
      /\ \A i \in 1 .. Len(s) : r[i] = IF i <= 1 THEN s[1] ELSE Tail(s)[i - 1]
  <2>1. /\ r \in Seq(Items) /\ Len(r) = Len(<<s[1]>>) + Len(Tail(s))
        /\ \A i \in 1 .. Len(<<s[1]>>) + Len(Tail(s)) :
             r[i] = IF i <= Len(<<s[1]>>) THEN <<s[1]>>[i] ELSE Tail(s)[i - Len(<<s[1]>>)]
    BY <1>1, <1>3, <1>4, ConcatProperties
  <2> QED
    BY <1>1, <1>4, <2>1
<1>6. \A i \in 1 .. Len(s) : r[i] = s[i]
  <2>1. ASSUME NEW i \in 1 .. Len(s) PROVE r[i] = s[i]
    <3>1. CASE i = 1
      BY <1>5, <3>1
    <3>2. CASE i # 1
      <4>1. i - 1 \in 1 .. Len(s) - 1 /\ i - 1 + 1 = i /\ ~(i <= 1)
        BY <1>1, <3>2
      <4> QED
        BY <1>1, <1>5, <4>1
    <3> QED
      BY <3>1, <3>2
  <2> QED
    BY <2>1
<1> QED
  BY <1>2, <1>3, <1>5, <1>6, SeqEqual

\* The ring as its producer and the worker see it.
LEMMA RingMoves ==
  ASSUME Types, Types'
  PROVE  /\ (/\ UNCHANGED <<head_, tail_>>
             /\ \A i \in 1 .. RingLen : slots'[Slot(i)] = slots[Slot(i)])
              => RingSeq' = RingSeq
         /\ (tail_' = tail_ /\ slots' = slots /\ head_' = Next_(head_) /\ Next_(head_) # tail_)
              => RingSeq' = Append(RingSeq, slots[Next_(head_)])
         /\ (head_' = head_ /\ slots' = slots /\ tail_' = Next_(tail_) /\ head_ # tail_)
              => RingSeq # <<>> /\ RingSeq' = Tail(RingSeq) /\ slots[tail_'] = RingSeq[1]
<1>1. /\ RingSize \in Nat /\ RingSize > 1 /\ head_ \in 0 .. RingSize - 1 /\ tail_ \in 0 .. RingSize - 1
      /\ \A i \in 0 .. RingSize - 1 : Next_(i) = IF i + 1 = RingSize THEN 0 ELSE i + 1
      /\ slots \in [Slots -> Items]
  BY Constants, NextSlot DEF Types, Slots
<1>2. /\ RingLen \in Nat /\ RingSeq \in Seq(Items) /\ Len(RingSeq) = RingLen
      /\ \A i \in 1 .. RingLen : RingSeq[i] = slots[Slot(i)]
      /\ (RingLen = 0 <=> head_ = tail_)
      /\ \A i \in 0 .. RingLen : Slot(i) \in Slots
  BY RingFacts
<1>3. /\ RingLen' \in Nat /\ RingSeq' \in Seq(Items) /\ Len(RingSeq') = RingLen'
      /\ \A i \in 1 .. RingLen' : RingSeq'[i] = slots'[Slot(i)']
  <2>1. PICK n, q : n = RingLen' /\ q = RingSeq'
    OBVIOUS
  <2>2. n = IF head_' >= tail_' THEN head_' - tail_' ELSE head_' - tail_' + RingSize
    BY <2>1 DEF RingLen
  <2>3. q = [i \in 1 .. n |-> slots'[IF tail_' + i < RingSize THEN tail_' + i ELSE tail_' + i - RingSize]]
    BY <2>1 DEF RingSeq, Slot
  <2>4. head_' \in Slots /\ tail_' \in Slots /\ slots' \in [Slots -> Items]
    BY DEF Types
  <2>5. /\ n \in Nat /\ q \in Seq(Items) /\ Len(q) = n
        /\ \A i \in 1 .. n : q[i] = slots'[IF tail_' + i < RingSize THEN tail_' + i ELSE tail_' + i - RingSize]
    BY <2>2, <2>3, <2>4, RingShape
  <2> QED
    BY <2>1, <2>5 DEF Slot
<1>4. ASSUME UNCHANGED <<head_, tail_>>, \A i \in 1 .. RingLen : slots'[Slot(i)] = slots[Slot(i)]
      PROVE  RingSeq' = RingSeq
  <2>1. RingLen' = RingLen /\ \A i \in 1 .. RingLen : Slot(i)' = Slot(i)
    BY <1>4 DEF RingLen, Slot
  <2>2. \A i \in 1 .. RingLen : RingSeq'[i] = RingSeq[i]
    BY <1>2, <1>3, <1>4, <2>1
  <2> QED
    BY <1>2, <1>3, <2>1, <2>2, SeqEqual
<1>5. ASSUME tail_' = tail_, slots' = slots, head_' = Next_(head_), Next_(head_) # tail_
      PROVE  RingSeq' = Append(RingSeq, slots[Next_(head_)])
  <2>1. RingLen' = RingLen + 1
    BY <1>1, <1>5 DEF RingLen
  <2>2. \A i \in Nat : Slot(i)' = Slot(i)
    BY <1>5 DEF Slot
  <2>3. Slot(RingLen + 1) = Next_(head_) /\ Next_(head_) \in Slots
    BY <1>1, <1>5 DEF RingLen, Slot, Slots
  <2>4. slots[Next_(head_)] \in Items
    BY <1>1, <2>3
  <2>5. PICK r : r = Append(RingSeq, slots[Next_(head_)])
    OBVIOUS
  <2>6. /\ r \in Seq(Items) /\ Len(r) = RingLen + 1 /\ r[RingLen + 1] = slots[Next_(head_)]
        /\ \A i \in 1 .. RingLen : r[i] = RingSeq[i]
    BY <1>2, <2>4, <2>5, AppendProperties
  <2>7. ASSUME NEW i \in 1 .. RingLen + 1 PROVE RingSeq'[i] = r[i]
    <3>1. RingSeq'[i] = slots[Slot(i)] /\ i \in Nat
      BY <1>2, <1>3, <1>5, <2>1, <2>2
    <3>2. i \in 1 .. RingLen \/ i = RingLen + 1
      BY <1>2
    <3> QED
      BY <1>2, <2>3, <2>6, <3>1, <3>2
  <2> QED
    BY <1>3, <2>1, <2>5, <2>6, <2>7, SeqEqual
<1>6. ASSUME head_' = head_, slots' = slots, tail_' = Next_(tail_), head_ # tail_
      PROVE  RingSeq # <<>> /\ RingSeq' = Tail(RingSeq) /\ slots[tail_'] = RingSeq[1]
  <2>1. RingLen' = RingLen - 1 /\ RingLen > 0
    BY <1>1, <1>6 DEF RingLen
  <2>2. \A i \in 1 .. RingLen - 1 : Slot(i)' = Slot(i + 1)
    <3>1. RingLen \in 0 .. RingSize - 1
      BY RingFacts
    <3>2. tail_' = IF tail_ + 1 = RingSize THEN 0 ELSE tail_ + 1
      BY <1>1, <1>6
    <3> SUFFICES ASSUME NEW i \in 1 .. RingLen - 1 PROVE Slot(i)' = Slot(i + 1)
      OBVIOUS
    <3>3. i \in 1 .. RingSize - 2
      BY <1>1, <3>1
    <3> QED
      BY <1>1, <3>2, <3>3 DEF Slot
  <2>3. Slot(1) = Next_(tail_)
    BY <1>1 DEF Slot
  <2>4. RingSeq # <<>>
    BY <1>2, <2>1, EmptySeq
  <2>5. PICK r : r = Tail(RingSeq)
    OBVIOUS
  <2>6. /\ r \in Seq(Items) /\ Len(r) = RingLen - 1
        /\ \A i \in 1 .. RingLen - 1 : r[i] = RingSeq[i + 1]
    BY <1>2, <2>4, <2>5, AmongTail
  <2>7. ASSUME NEW i \in 1 .. RingLen - 1 PROVE RingSeq'[i] = r[i]
    <3>1. RingSeq'[i] = slots[Slot(i + 1)] /\ i + 1 \in 1 .. RingLen
      BY <1>2, <1>3, <1>6, <2>1, <2>2
    <3> QED
      BY <1>2, <2>6, <3>1
  <2>8. RingSeq' = r
    BY <1>3, <2>1, <2>6, <2>7, SeqEqual
  <2>9. slots[tail_'] = RingSeq[1]
    <3>1. 1 \in 1 .. RingLen
      BY <1>2, <2>1
    <3> QED
      BY <1>2, <1>6, <2>3, <3>1
  <2> QED
    BY <2>4, <2>5, <2>8, <2>9
<1> QED
  BY <1>4, <1>5, <1>6

Consumes ==
  Execute \/ ExecuteThrows \/ ReachMarker \/ ReachStop \/ Drop

LEMMA PendSame ==
  ASSUME version' = version, pc'[Worker] = pc[Worker], item'[Worker] = item[Worker],
         UNCHANGED <<tasks_, slots, head_, tail_>>
  PROVE  Pend' = Pend
<1>1. InHand' = InHand
  BY DEF InHand, At
<1>2. Queue' = Queue
  BY DEF Queue, RingSeq, RingLen, Slot
<1> QED
  BY <1>1, <1>2 DEF Pend

LEMMA PendOfCall ==
  ASSUME Types, Types', Control, RingOK, NEW p \in Producers, CallStep(p)
  PROVE  /\ Push(p) \/ PublishSlot(p) => Pend' = Append(Pend, item[p])
         /\ FlushTask(p) \/ FlushTaskThrows(p) =>
              Pend = tasks_ /\ Pend # <<>> /\ Pend' = Tail(Pend) /\ version = "sync"
         /\ ~(Push(p) \/ PublishSlot(p) \/ FlushTask(p) \/ FlushTaskThrows(p)) => Pend' = Pend
<1>1. /\ version' = version /\ pc'[Worker] = pc[Worker] /\ item'[Worker] = item[Worker]
      /\ CallOK(p) /\ item[p] \in Items
  BY CallMoves, CallKeepsWorker DEF Types
<1>2. ASSUME UNCHANGED <<slots, tail_>> PROVE InHand' = InHand
  BY <1>1, <1>2 DEF InHand, At
<1>3. ASSUME Queue' = Append(Queue, item[p]), InHand' = InHand
      PROVE  Pend' = Append(Pend, item[p])
  <2>1. Queue \in Seq(Items) /\ InHand \in Seq(Items)
    BY PendType
  <2> QED
    BY <1>1, <1>3, <2>1, ConcatAppend DEF Pend
<1>4. CASE Push(p)
  <2>1. tasks_' = Append(tasks_, item[p]) /\ version # "ring" /\ UNCHANGED <<slots, tail_>>
    BY <1>4 DEF Push, PushBack, ring
  <2>2. Queue' = Append(Queue, item[p])
    BY <1>1, <2>1 DEF Queue
  <2>3. ~PublishSlot(p) /\ ~FlushTask(p) /\ ~FlushTaskThrows(p)
    BY <1>4 DEF Push, PublishSlot, FlushTask, FlushTaskThrows, At
  <2> QED
    BY <1>2, <1>3, <1>4, <2>1, <2>2, <2>3
<1>5. CASE PublishSlot(p)
  <2>1. /\ version = "ring" /\ pc[p] = "filled" /\ head_' = new_h[p]
        /\ UNCHANGED <<slots, tail_>>
    BY <1>1, <1>5 DEF PublishSlot, CallOK, CallLocations, VersionsAt, At
  <2>2. new_h[p] = Next_(head_) /\ new_h[p] # tail_ /\ slots[new_h[p]] = item[p]
    BY <2>1 DEF RingOK, At
  <2>3. RingSeq' = Append(RingSeq, item[p])
    BY <2>1, <2>2, RingMoves
  <2>4. Queue' = Append(Queue, item[p])
    BY <1>1, <2>1, <2>3 DEF Queue
  <2>5. ~Push(p) /\ ~FlushTask(p) /\ ~FlushTaskThrows(p)
    BY <2>1 DEF Push, FlushTask, FlushTaskThrows, At
  <2> QED
    BY <1>2, <1>3, <1>5, <2>1, <2>4, <2>5
<1>6. CASE FlushTask(p) \/ FlushTaskThrows(p)
  <2>1. /\ version = "sync" /\ pc[p] = "flush" /\ tasks_ # <<>> /\ tasks_' = Tail_(tasks_)
        /\ tasks_ \in Seq(Items)
    BY <1>1, <1>6 DEF FlushTask, FlushTaskThrows, CallOK, CallLocations, VersionsAt, At, Types
  <2>2. tasks_' = Tail(tasks_)
    BY <2>1, TailIs
  <2>3. pc[Worker] = "exited"
    BY <2>1 DEF Control, WorkerOK, At
  <2>4. InHand = <<>> /\ InHand' = <<>>
    BY <1>1, <2>3 DEF InHand, At
  <2>5. Queue = tasks_ /\ Queue' = tasks_' /\ tasks_' \in Seq(Items)
    BY <1>1, <2>1 DEF Queue, Types
  <2>6. Pend = tasks_ /\ Pend' = tasks_'
    BY <2>1, <2>4, <2>5, ConcatEmptySeq DEF Pend
  <2>7. ~Push(p) /\ ~PublishSlot(p)
    BY <2>1 DEF Push, PublishSlot, At
  <2> QED
    BY <1>6, <2>1, <2>2, <2>6, <2>7
<1>7. CASE FillSlot(p)
  <2>1. /\ version = "ring" /\ pc[p] = "reserved" /\ slots' = [slots EXCEPT ![new_h[p]] = item[p]]
        /\ UNCHANGED <<head_, tail_>>
    BY <1>1, <1>7 DEF FillSlot, CallOK, CallLocations, VersionsAt, At
  <2>2. new_h[p] = Next_(head_) /\ new_h[p] # tail_
    BY <2>1 DEF RingOK
  <2>3. \A i \in 0 .. RingLen : Slot(i) # Next_(head_) /\ Slot(i) \in Slots
    <3>1. /\ RingSize \in Nat /\ RingSize > 1 /\ head_ \in 0 .. RingSize - 1 /\ tail_ \in 0 .. RingSize - 1
          /\ Next_(head_) = IF head_ + 1 = RingSize THEN 0 ELSE head_ + 1
      BY Constants, NextSlot DEF Types, Slots
    <3>2. \A i \in 0 .. RingLen : Slot(i) # Next_(head_)
      BY <2>2, <3>1 DEF RingLen, Slot
    <3> QED
      BY <3>2, RingFacts
  <2>4. slots \in [Slots -> Items] /\ tail_ \in Slots
    BY DEF Types
  <2>5. slots'[tail_] = slots[tail_]
    BY <2>1, <2>2, <2>4
  <2>6. RingLen \in Nat /\ \A i \in 1 .. RingLen : i \in 0 .. RingLen
    BY RingFacts
  <2>7. \A i \in 1 .. RingLen : slots'[Slot(i)] = slots[Slot(i)]
    BY <2>1, <2>2, <2>3, <2>4, <2>6
  <2>8. RingSeq' = RingSeq
    BY <2>1, <2>7, RingMoves
  <2>9. InHand' = InHand /\ Queue' = Queue
    BY <1>1, <2>1, <2>5, <2>8 DEF InHand, Queue, At
  <2>10. ~Push(p) /\ ~PublishSlot(p) /\ ~FlushTask(p) /\ ~FlushTaskThrows(p)
    BY <2>1 DEF Push, PublishSlot, FlushTask, FlushTaskThrows, At
  <2> QED
    BY <2>9, <2>10 DEF Pend
<1>8. CASE ~(Push(p) \/ PublishSlot(p) \/ FlushTask(p) \/ FlushTaskThrows(p) \/ FillSlot(p))
  <2>1. UNCHANGED <<tasks_, slots, head_, tail_>>
    BY <1>8 DEF CallStep, OwnOperation, CheckException, Forget, Count, EnterRing, ReserveSlot,
       Spin, AwaitMarker, EnterFlush, Flushed, ring
  <2> QED
    BY <1>1, <1>8, <2>1, PendSame
<1> QED
  BY <1>4, <1>5, <1>6, <1>7, <1>8

LEMMA PendOfWorker ==
  ASSUME Types, Types', Control, WorkerStep
  PROVE  /\ Consumes => /\ Pend # <<>> /\ Pend[1] = item[Worker] /\ Pend' = Tail(Pend)
                        /\ pc[Worker] = "execute"
         /\ ~Consumes => Pend' = Pend
<1>1. version' = version /\ Worker \in Threads /\ item[Worker] \in Items
  BY WorkerMoves, Constants DEF Types
<1>2. CASE Consumes
  <2>1. pc[Worker] = "execute" /\ UNCHANGED <<tasks_, slots, head_, tail_>>
    BY <1>2 DEF Consumes, Execute, ExecuteThrows, ReachMarker, ReachStop, Drop, Executing, At, ring
  <2>2. \E loc \in {"loop", "free", "uncount"} : Goto(Worker, loc)
    BY <1>2 DEF Consumes, Execute, ExecuteThrows, ReachMarker, ReachStop, Drop, AfterTask, Frees
  <2>3. pc'[Worker] \notin {"execute", "read"}
    BY <1>1, <2>2 DEF Goto, Types
  <2>4. InHand = <<item[Worker]>> /\ InHand' = <<>> /\ Queue' = Queue
    BY <1>1, <2>1, <2>3 DEF InHand, Queue, RingSeq, RingLen, Slot, At
  <2>5. Queue \in Seq(Items)
    BY PendType
  <2>6. Pend' = Queue
    BY <2>4, <2>5, ConcatEmptySeq DEF Pend
  <2> QED
    BY <1>1, <1>2, <2>1, <2>4, <2>5, <2>6, ConsTail DEF Pend
<1>3. CASE PopTask
  <2>1. /\ tasks_ # <<>> /\ tasks_ \in Seq(Items) /\ version # "ring" /\ tasks_' = Tail_(tasks_)
        /\ pc[Worker] = "loop" /\ pc'[Worker] = "execute" /\ item'[Worker] = tasks_[1]
    BY <1>1, <1>3 DEF PopTask, Types, Available, Goto, Hold, At
  <2>2. tasks_' = Tail(tasks_)
    BY <2>1, TailIs
  <2>3. InHand = <<>> /\ InHand' = <<tasks_[1]>> /\ Queue = tasks_ /\ Queue' = Tail(tasks_)
    BY <1>1, <2>1, <2>2 DEF InHand, Queue, At
  <2>4. ~Consumes
    BY <2>1 DEF Consumes, Execute, ExecuteThrows, ReachMarker, ReachStop, Drop, Executing, At
  <2> QED
    BY <2>1, <2>3, <2>4, HeadCons, PendType DEF Pend
<1>4. CASE AdvanceTail
  <2>1. /\ version = "ring" /\ head_ # tail_ /\ tail_' = Next_(tail_) /\ UNCHANGED <<slots, head_>>
        /\ pc[Worker] = "loop" /\ pc'[Worker] = "read"
    BY <1>1, <1>4 DEF AdvanceTail, Available, Goto, At, Types
  <2>2. RingSeq # <<>> /\ RingSeq' = Tail(RingSeq) /\ slots[tail_'] = RingSeq[1]
    BY <2>1, RingMoves
  <2>3. InHand = <<>> /\ InHand' = <<RingSeq[1]>> /\ Queue = RingSeq /\ Queue' = Tail(RingSeq)
    BY <1>1, <2>1, <2>2 DEF InHand, Queue, At
  <2>4. ~Consumes
    BY <2>1 DEF Consumes, Execute, ExecuteThrows, ReachMarker, ReachStop, Drop, Executing, At
  <2> QED
    BY <2>2, <2>3, <2>4, HeadCons, PendType, RingFacts DEF Pend
<1>5. CASE ReadSlot
  <2>1. /\ pc[Worker] = "read" /\ pc'[Worker] = "execute" /\ item'[Worker] = slots[tail_]
        /\ UNCHANGED <<tasks_, slots, head_, tail_>>
    BY <1>1, <1>5 DEF ReadSlot, Goto, Hold, At, Types, ring
  <2>2. InHand' = InHand /\ Queue' = Queue
    BY <1>1, <2>1 DEF InHand, Queue, RingSeq, RingLen, Slot, At
  <2>3. ~Consumes
    BY <2>1 DEF Consumes, Execute, ExecuteThrows, ReachMarker, ReachStop, Drop, Executing, At
  <2> QED
    BY <2>2, <2>3 DEF Pend
<1>6. CASE FreeTensors \/ Uncount \/ LeaveLoop
  <2>1. UNCHANGED <<tasks_, slots, head_, tail_>> /\ pc[Worker] \in {"free", "uncount", "loop"}
    BY <1>6 DEF FreeTensors, Uncount, LeaveLoop, At, ring
  <2>2. \E loc \in {"loop", "exited", "uncount"} : Goto(Worker, loc)
    BY <1>6 DEF FreeTensors, Uncount, LeaveLoop, AfterTask
  <2>3. pc'[Worker] \notin {"execute", "read"}
    BY <1>1, <2>2 DEF Goto, Types
  <2>4. InHand' = InHand /\ Queue' = Queue
    BY <1>1, <2>1, <2>3 DEF InHand, Queue, RingSeq, RingLen, Slot, At
  <2>5. ~Consumes
    BY <2>1 DEF Consumes, Execute, ExecuteThrows, ReachMarker, ReachStop, Drop, Executing, At
  <2> QED
    BY <2>4, <2>5 DEF Pend
<1> QED
  BY <1>2, <1>3, <1>4, <1>5, <1>6 DEF WorkerStep, Consumes

LEMMA PendOfProgram ==
  ASSUME Types, Types', Control,
         Exit \/ Join \/ \E q \in Producers : Submit(q) \/ StepMarker(q) \/ Discard(q)
  PROVE  /\ (\E q \in Producers : Discard(q)) => Pend = tasks_ /\ Pend' = <<>>
         /\ ~(\E q \in Producers : Discard(q)) => Pend' = Pend
<1>1. version' = version /\ pc'[Worker] = pc[Worker] /\ item'[Worker] = item[Worker]
  <2>1. CASE Exit \/ Join
    BY <2>1, Constants DEF Exit, Join, Goto, Hold, Types
  <2>2. CASE \E q \in Producers : Submit(q) \/ StepMarker(q) \/ Discard(q)
    <3>1. PICK q \in Producers : Submit(q) \/ StepMarker(q) \/ Discard(q)
      BY <2>2
    <3>2. /\ pc' = pc \/ \E loc : Goto(q, loc)
          /\ item' = item \/ \E x : Hold(q, x)
      BY <3>1 DEF Submit, StepMarker, Discard
    <3> QED
      BY <3>1, <3>2, Constants DEF Submit, StepMarker, Discard, Goto, Hold, Types
  <2> QED
    BY <2>1, <2>2
<1>2. CASE \E q \in Producers : Discard(q)
  <2>1. version = "sync" /\ tasks_' = <<>> /\ tasks_ \in Seq(Items)
    BY <1>2 DEF Discard, Types
  <2>2. pc[Worker] = "exited"
    BY <2>1 DEF Control, WorkerOK, At
  <2>3. InHand = <<>> /\ InHand' = <<>> /\ Queue = tasks_ /\ Queue' = <<>>
    BY <1>1, <2>1, <2>2 DEF InHand, Queue, At
  <2>4. Pend = tasks_ /\ Pend' = <<>>
    BY <2>1, <2>3, ConcatEmptySeq, EmptySeq DEF Pend
  <2> QED
    BY <1>2, <2>4
<1>3. CASE ~(\E q \in Producers : Discard(q))
  <2>1. UNCHANGED <<tasks_, slots, head_, tail_>>
    BY <1>3 DEF Exit, Join, Submit, StepMarker, ring
  <2> QED
    BY <1>1, <1>3, <2>1, PendSame
<1> QED
  BY <1>2, <1>3

-----------------------------------------------------------------------------
(* What stays, and what the code's promises hang on.                       *)

ProgramStep(q) == Submit(q) \/ StepMarker(q) \/ Discard(q)

LEMMA StepCases ==
  ASSUME Next
  PROVE  \/ \E p \in Producers : CallStep(p)
         \/ \E p \in Producers : ProgramStep(p)
         \/ WorkerStep
         \/ Exit \/ Join
BY DEF Next, ProgramStep

LEMMA OthersStay ==
  ASSUME Types, Control, NEW p \in Producers,
         CallStep(p) \/ ProgramStep(p) \/ ((Exit \/ Join) /\ p = Main)
  PROVE  /\ version' = version
         /\ \A q \in Producers : q # p => pc'[q] = pc[q] /\ item'[q] = item[q] /\ begun'[q] = begun[q]
<1>1. CASE CallStep(p)
  <2>1. version' = version /\ begun' = begun /\ p \in Threads
    BY <1>1, CallMoves
  <2>2. CASE Advances(p)
    BY <2>1, <2>2, Constants DEF Advances, Types
  <2>3. CASE Ends(p)
    BY <2>1, <2>3, Constants DEF Ends, Types
  <2> QED
    BY <1>1, <2>2, <2>3, CallControl
<1>2. CASE ProgramStep(p)
  <2>1. /\ pc' = pc \/ \E loc : Goto(p, loc)
        /\ item' = item \/ \E x : Hold(p, x)
        /\ begun' = begun \/ begun' = [begun EXCEPT ![p] = @ + 1]
        /\ version' = version
    BY <1>2 DEF ProgramStep, Submit, StepMarker, Discard, Begin
  <2> QED
    BY <2>1, Constants DEF Goto, Hold, Types
<1>3. CASE (Exit \/ Join) /\ p = Main
  BY <1>3, Constants DEF Exit, Join, Goto, Hold, Types
<1> QED
  BY <1>1, <1>2, <1>3

LEMMA LeavingStays ==
  ASSUME Types, Control, Next, Leaving
  PROVE  Leaving'
<1>1. ASSUME NEW p \in Producers, CallStep(p) PROVE Leaving'
  <2>1. /\ p \in Threads /\ pc[p] \in CallLocations /\ CallOK(p)
        /\ \A q \in Producers : q # p => pc'[q] = pc[q] /\ item'[q] = item[q]
    BY <1>1, CallMoves, OthersStay
  <2>2. CASE p # Main
    BY <2>1, <2>2, Constants DEF Leaving, Kind, At
  <2>3. CASE p = Main
    <3>1. Kind(p) = "stop"
      BY <2>1, <2>3 DEF Leaving, At, CallLocations
    <3>2. CASE Advances(p)
      BY <2>3, <3>1, <3>2 DEF Advances, Leaving, Kind
    <3>3. CASE Ends(p)
      BY <2>1, <2>3, <3>1, <3>3 DEF Ends, Leaving, At, Types
    <3> QED
      BY <1>1, <3>2, <3>3, CallControl
  <2> QED
    BY <2>2, <2>3
<1>2. ASSUME NEW p \in Producers, ProgramStep(p) PROVE FALSE
  BY <1>2 DEF ProgramStep, Submit, StepMarker, Discard, Begin
<1>3. CASE WorkerStep
  <2>1. pc'[Main] = pc[Main] /\ item'[Main] = item[Main]
    BY <1>3, WorkerMoves, Constants
  <2> QED
    BY <2>1 DEF Leaving, Kind, At
<1>4. CASE Exit \/ Join
  BY <1>4, Constants DEF Exit, Join, Goto, Hold, Leaving, At, Types
<1> QED
  BY <1>1, <1>2, <1>3, <1>4, StepCases

\* A promise that is broken stays broken.
LEMMA SoundBefore ==
  ASSUME Types, Control, Next, Sound', Types'
  PROVE  /\ Sound
         /\ version # "blocking" => overlap = FALSE /\ overlap' = FALSE
         /\ version' = version
<1>1. version' = version
  <2>1. ASSUME Exit \/ Join PROVE version' = version
    BY <2>1 DEF Exit, Join
  <2> QED
    BY <2>1, StepCases, OthersStay, WorkerMoves
<1>2. (overlap => overlap') /\ (lost => lost')
  <2>1. ASSUME NEW p \in Producers, CallStep(p) PROVE (overlap => overlap') /\ (lost => lost')
    <3>1. overlap' = overlap
      BY <2>1 DEF CallStep, OwnOperation, CheckException, Forget, Push, Count, EnterRing, ReserveSlot,
         FillSlot, PublishSlot, Spin, AwaitMarker, EnterFlush, FlushTask, FlushTaskThrows, Flushed
    <3>2. CASE Forget(p)
      <4>1. lost' = (lost \/ IF At(p, "forget, throw") THEN failed # surfaced ELSE ex_ptr_ # None)
        BY <3>2 DEF Forget
      <4>2. lost => lost'
        BY <4>1
      <4> QED
        BY <3>1, <4>2
    <3>3. CASE ~Forget(p)
      <4>1. lost' = lost
        BY <2>1, <3>3 DEF CallStep, OwnOperation, CheckException, Push, Count, EnterRing, ReserveSlot,
           FillSlot, PublishSlot, Spin, AwaitMarker, EnterFlush, FlushTask, FlushTaskThrows, Flushed
      <4> QED
        BY <3>1, <4>1
    <3> QED
      BY <3>2, <3>3
  <2>2. ASSUME NEW p \in Producers, ProgramStep(p) PROVE (overlap => overlap') /\ (lost => lost')
    <3>1. lost' = lost
      BY <2>2 DEF ProgramStep, Submit, StepMarker, Discard
    <3>2. overlap' = overlap \/ overlap' = (overlap \/ \E q \in Producers \ {p} : ~At(q, "idle"))
      BY <2>2, Zenon DEF ProgramStep, Submit, StepMarker, Discard, Begin
    <3> QED
      <4>1. overlap => overlap'
        BY <3>2
      <4> QED
        BY <3>1, <4>1
  <2>3. ASSUME WorkerStep PROVE (overlap => overlap') /\ (lost => lost')
    BY <2>3 DEF WorkerStep, PopTask, AdvanceTail, ReadSlot, Execute, ExecuteThrows, ReachMarker,
       ReachStop, Drop, FreeTensors, Uncount, LeaveLoop
  <2>4. ASSUME Exit \/ Join PROVE (overlap => overlap') /\ (lost => lost')
    BY <2>4 DEF Exit, Join
  <2> QED
    BY <2>1, <2>2, <2>3, <2>4, StepCases
<1>3. ASSUME Wedged PROVE Wedged'
  <2>1. task_in_progress_ /\ \A q \in Producers : pc[q] # "flush"
    BY <1>3 DEF Wedged, At
  <2>2. task_in_progress_'
    <3>1. ASSUME NEW p \in Producers, CallStep(p) PROVE task_in_progress_'
      BY <2>1, <3>1 DEF CallStep, OwnOperation, CheckException, Forget, Push, Count, EnterRing,
         ReserveSlot, FillSlot, PublishSlot, Spin, AwaitMarker, EnterFlush, FlushTask,
         FlushTaskThrows, Flushed, state, At
    <3>2. ASSUME NEW p \in Producers, ProgramStep(p) PROVE task_in_progress_'
      BY <2>1, <3>2 DEF ProgramStep, Submit, StepMarker, Discard, state
    <3>3. ASSUME WorkerStep PROVE task_in_progress_'
      BY <2>1, <3>3 DEF WorkerStep, PopTask, AdvanceTail, ReadSlot, Execute, ExecuteThrows, ReachMarker,
         ReachStop, Drop, FreeTensors, Uncount, LeaveLoop, state
    <3>4. ASSUME Exit \/ Join PROVE task_in_progress_'
      BY <2>1, <3>4 DEF Exit, Join, state
    <3> QED
      BY <3>1, <3>2, <3>3, <3>4, StepCases
  <2>3. ASSUME NEW q \in Producers PROVE pc'[q] # "flush"
    <3>1. ASSUME CallStep(q) PROVE pc'[q] # "flush"
      <4>1. q \in Threads
        BY Constants
      <4>2. CASE EnterFlush(q)
        BY <2>1, <4>1, <4>2 DEF EnterFlush, Throw, Goto, Types
      <4>3. CASE ~EnterFlush(q)
        <5>1. pc[q] # "enter"
          BY <3>1, <4>3 DEF CallStep, OwnOperation, CheckException, Forget, Push, Count, EnterRing,
             ReserveSlot, FillSlot, PublishSlot, Spin, AwaitMarker, FlushTask, FlushTaskThrows,
             Flushed, At
        <5>2. CASE Advances(q)
          BY <2>1, <5>1, <5>2 DEF Advances
        <5>3. CASE Ends(q)
          BY <4>1, <5>3 DEF Ends, Types
        <5> QED
          BY <3>1, <5>2, <5>3, CallControl
      <4> QED
        BY <4>2, <4>3
    <3>2. ASSUME ProgramStep(q) PROVE pc'[q] # "flush"
      <4>1. pc' = pc \/ \E loc \in CallLocations \ {"flush"} : Goto(q, loc)
        BY <3>2 DEF ProgramStep, Submit, StepMarker, Discard, CallLocations
      <4> QED
        BY <2>1, <4>1, Constants DEF Goto, Types
    <3>3. ASSUME Exit \/ Join PROVE pc'[q] # "flush"
      BY <2>1, <3>3, Constants DEF Exit, Join, Goto, Types
    <3>4. ASSUME WorkerStep PROVE pc'[q] # "flush"
      BY <2>1, <3>4, WorkerMoves
    <3>5. ASSUME NEW p \in Producers, p # q, CallStep(p) \/ ProgramStep(p) PROVE pc'[q] # "flush"
      BY <2>1, <3>5, OthersStay
    <3> QED
      BY <3>1, <3>2, <3>3, <3>4, <3>5, StepCases
  <2> QED
    BY <2>2, <2>3 DEF Wedged, At
<1> QED
  BY <1>1, <1>2, <1>3 DEF Sound, Alone, Types

\* An operation is done on the spot, and a marker needs no wait, only when a flush
\* goes on or was left by an exception.
LEMMA NotOnTheSpot ==
  ASSUME Types, Types', Control, Next, Sound', NEW p \in Producers, Submit(p) \/ StepMarker(p)
  PROVE  /\ CanUseAccThread /\ begun' = [begun EXCEPT ![p] = begun[p] + 1]
         /\ version # "blocking" => \A q \in Producers : q # p => pc[q] = "idle"
<1>1. /\ Begin(p) /\ version' = version /\ p \in Threads /\ task_in_progress_' = task_in_progress_
      /\ version # "blocking" => overlap' = FALSE
  BY SoundBefore, Constants DEF Submit, StepMarker, state
<1>2. version # "blocking" => \A q \in Producers : q # p => pc[q] = "idle"
  BY <1>1 DEF Begin, At
<1>3. ASSUME ~CanUseAccThread PROVE FALSE
  <2>1. version = "sync" /\ task_in_progress_
    BY <1>3 DEF CanUseAccThread
  <2>2. \A q \in Producers : pc'[q] # "flush"
    <3>1. \A q \in Producers : q # p => pc'[q] = pc[q]
      BY OthersStay DEF ProgramStep
    <3>2. pc'[p] # "flush"
      <4>1. pc' = pc \/ Goto(p, "own")
        BY <1>3 DEF Submit, StepMarker
      <4>2. pc[p] = "idle"
        BY <1>1 DEF Begin, At
      <4> QED
        BY <1>1, <4>1, <4>2 DEF Goto, Types
    <3> QED
      BY <1>2, <2>1, <3>1, <3>2
  <2>3. Wedged'
    BY <1>1, <2>1, <2>2 DEF Wedged, At
  <2> QED
    BY <2>3 DEF Sound
<1> QED
  BY <1>1, <1>2, <1>3 DEF Begin

\* In a fast version, an exception that is stored is not forgotten.
LEMMA NotForgotten ==
  ASSUME Types, Control, Next, Sound', version \in Fast, ex_ptr_' = None
  PROVE  ex_ptr_ = None
<1>1. ASSUME NEW p \in Producers, CallStep(p) PROVE ex_ptr_ = None
  <2>1. CASE Forget(p)
    <3>1. ~At(p, "forget, throw")
      BY <1>1, CallMoves DEF CallOK, VersionsAt, CallLocations, At, Fast
    <3> QED
      BY <2>1, <3>1 DEF Forget, Sound
  <2>2. CASE ~Forget(p)
    <3>1. ex_ptr_' = ex_ptr_
      BY <1>1, <2>2 DEF CallStep, OwnOperation, CheckException, Push, Count, EnterRing,
         ReserveSlot, FillSlot, PublishSlot, Spin, AwaitMarker, EnterFlush, FlushTask,
         FlushTaskThrows, Flushed
    <3> QED
      BY <3>1
  <2> QED
    BY <2>1, <2>2
<1>2. ASSUME NEW p \in Producers, ProgramStep(p) PROVE ex_ptr_ = None
  BY <1>2 DEF ProgramStep, Submit, StepMarker, Discard
<1>3. ASSUME WorkerStep PROVE ex_ptr_ = None
  <2>1. CASE ExecuteThrows
    <3>1. ex_ptr_' \in Ops
      BY <2>1, Constants, ItemFacts DEF ExecuteThrows, Executing, Kind, Types
    <3> QED
      BY <3>1, Constants
  <2>2. CASE ~ExecuteThrows
    BY <1>3, <2>2 DEF WorkerStep, PopTask, AdvanceTail, ReadSlot, Execute, ReachMarker,
         ReachStop, Drop, FreeTensors, Uncount, LeaveLoop
  <2> QED
    BY <2>1, <2>2
<1>4. ASSUME Exit \/ Join PROVE ex_ptr_ = None
  BY <1>4 DEF Exit, Join
<1> QED
  BY <1>1, <1>2, <1>3, <1>4, StepCases

-----------------------------------------------------------------------------
(* Why the worker stops, which markers are reached, and what the calls in  *)
(* the ring and without a worker rely on.                                  *)

\* What the worker does next is in turn.
LEMMA PendHead ==
  ASSUME Types, Going, PendOK, Pend # <<>>
  PROVE  /\ \A op \in Ops : Pend[1] = Task(op) =>
              op \notin Done /\ op[2] <= begun[op[1]] /\ First(op[1], op[2], Past)
         /\ \A p \in Producers : Pend[1] = Marker(p) => p \in AtFuture \ promise /\ First(p, begun[p], Past)
         /\ Pend[1] = StopTask => Leaving
<1>1. PICK s \in Seq(Items), l \in BOOLEAN : s = Pend /\ l = Leaving
  BY PendType DEF Leaving
<1>2. InTurn(s, Past, Done, begun, AtFuture, promise, l)
  BY <1>1 DEF PendOK
<1>3. Len(s) \in Nat \ {0}
  BY <1>1, AmongTail
<1>4. 1 \in 1 .. Len(s)
  BY <1>3
<1>5. \A X, p, k : Ahead(X, s, p, k, 0) => First(p, k, X)
  BY DEF Ahead, First, Among
<1>6. /\ \A op \in Ops : s[1] = Task(op) =>
           op \notin Done /\ op[2] <= begun[op[1]] /\ Ahead(Past, s, op[1], op[2], 0)
      /\ \A p \in Producers : s[1] = Marker(p) =>
           p \in AtFuture \ promise /\ Ahead(Past, s, p, begun[p], 0)
      /\ s[1] = StopTask => l
  BY <1>2, <1>4 DEF InTurn
<1> QED
  BY <1>1, <1>5, <1>6

LEMMA WorkerInTurn ==
  ASSUME Types, Types', Control, WorkerStep, Consumes, Going, PendOK
  PROVE  /\ \A op \in Ops : item[Worker] = Task(op) =>
              op \notin Done /\ op[2] <= begun[op[1]] /\ First(op[1], op[2], Past)
         /\ \A p \in Producers : item[Worker] = Marker(p) =>
              p \in AtFuture \ promise /\ First(p, begun[p], Past)
         /\ item[Worker] = StopTask => Leaving
<1>1. Pend # <<>> /\ Pend[1] = item[Worker]
  BY PendOfWorker
<1> QED
  BY <1>1, PendHead

LEMMA StopKept ==
  ASSUME Types, Types', Control, Next, Sound', StopOK, PendOK
  PROVE  StopOK'
<1>1. Leaving => Leaving'
  BY LeavingStays
<1>2. version \in Fast /\ ex_ptr_' = None => ex_ptr_ = None
  BY NotForgotten
<1>3. version' = version
  BY SoundBefore
<1>4. ASSUME stop_' = stop_, ex_ptr_' \in {ex_ptr_, None},
             version = "counted" => (At(Worker, "exited")' => At(Worker, "exited") \/ stop_)
      PROVE  StopOK'
  BY <1>1, <1>2, <1>3, <1>4 DEF StopOK
<1>5. ASSUME NEW p \in Producers, CallStep(p) PROVE StopOK'
  <2>1. stop_' = stop_ /\ ex_ptr_' \in {ex_ptr_, None}
    BY <1>5 DEF CallStep, OwnOperation, CheckException, Forget, Push, Count, EnterRing,
       ReserveSlot, FillSlot, PublishSlot, Spin, AwaitMarker, EnterFlush, FlushTask,
       FlushTaskThrows, Flushed, state
  <2>2. pc'[Worker] = pc[Worker]
    BY <1>5, CallKeepsWorker
  <2> QED
    BY <1>4, <2>1, <2>2 DEF At
<1>6. ASSUME NEW p \in Producers, ProgramStep(p) PROVE StopOK'
  <2>1. stop_' = stop_ /\ ex_ptr_' = ex_ptr_
    BY <1>6 DEF ProgramStep, Submit, StepMarker, Discard, state
  <2>2. pc'[Worker] = pc[Worker]
    BY <1>6, Constants DEF ProgramStep, Submit, StepMarker, Discard, Goto, Types
  <2> QED
    BY <1>4, <2>1, <2>2 DEF At
<1>7. ASSUME WorkerStep PROVE StopOK'
  <2>1. Worker \in Threads /\ item[Worker] \in Items /\ ex_ptr_ \in Ops \cup {None}
    BY Constants DEF Types
  <2>2. pc'[Worker] = "exited" <=> LeaveLoop
    BY <1>7, WorkerMoves
  <2>3. CASE ExecuteThrows
    <3>1. item[Worker].of \in Ops /\ ex_ptr_' = item[Worker].of /\ pc[Worker] = "execute"
          /\ stop_' = (stop_ \/ version \in Fast)
      BY <2>1, <2>3, ItemFacts DEF ExecuteThrows, Executing, Kind, At
    <3>2. ex_ptr_' # None /\ ~LeaveLoop
      BY <3>1, Constants DEF LeaveLoop, At
    <3> QED
      BY <1>1, <1>3, <2>2, <3>1, <3>2 DEF StopOK, At, Fast
  <2>4. CASE ReachStop
    <3>1. item[Worker] = StopTask /\ pc[Worker] = "execute" /\ stop_' = TRUE /\ ex_ptr_' = ex_ptr_
      BY <2>1, <2>4, ItemFacts DEF ReachStop, Executing, Kind, At
    <3>2. version \in Fast => Going
      BY <2>4 DEF ReachStop, Draining, Going
    <3>3. version \in Fast
      BY <2>4, <3>1 DEF ReachStop, Executing, Control, WorkerOK, Kind, StopTask, At
    <3>4. Leaving
      BY <1>7, <2>4, <3>1, <3>2, <3>3, WorkerInTurn DEF Consumes
    <3> QED
      BY <1>1, <1>3, <3>1, <3>4 DEF StopOK
  <2>5. CASE ~ExecuteThrows /\ ~ReachStop
    <3>1. stop_' = stop_ /\ ex_ptr_' = ex_ptr_
      BY <1>7, <2>5 DEF WorkerStep, PopTask, AdvanceTail, ReadSlot, Execute, ReachMarker,
         Drop, FreeTensors, Uncount, LeaveLoop, state
    <3>2. LeaveLoop => stop_
      BY DEF LeaveLoop
    <3> QED
      BY <1>4, <2>2, <3>1, <3>2 DEF At
  <2> QED
    BY <2>3, <2>4, <2>5
<1>8. ASSUME Exit \/ Join PROVE StopOK'
  <2>1. CASE Exit
    <3>1. item'[Main].kind = "stop" /\ ex_ptr_' = ex_ptr_ /\ stop_' = (stop_ \/ version = "counted")
      BY <2>1, Constants DEF Exit, Hold, Types, StopTask
    <3>2. Leaving'
      BY <3>1 DEF Leaving, Kind
    <3>3. version \in Fast => stop_' = stop_
      BY <3>1 DEF Fast, Types
    <3> QED
      BY <1>3, <3>1, <3>2, <3>3 DEF StopOK
  <2>2. CASE Join
    <3>1. stop_' = stop_ /\ ex_ptr_' = ex_ptr_ /\ pc'[Worker] = pc[Worker]
      BY <2>2, Constants DEF Join, Goto, Types, state
    <3> QED
      BY <1>4, <3>1 DEF At
  <2> QED
    BY <1>8, <2>1, <2>2
<1> QED
  BY <1>5, <1>6, <1>7, <1>8, StepCases

LEMMA OthersIdle ==
  ASSUME Types, Control, AloneOK, version # "blocking", NEW p \in Producers, CallStep(p)
  PROVE  \A q \in Producers : q # p => pc[q] = "idle" /\ pc'[q] = "idle"
<1>1. pc[p] # "idle" /\ \A q \in Producers : q # p => pc'[q] = pc[q]
  BY CallMoves, OthersStay DEF CallLocations
<1> QED
  BY <1>1 DEF AloneOK, At

LEMMA PromiseKept ==
  ASSUME Types, Types', Control, Next, Sound', StopOK, PendOK, PromiseOK
  PROVE  PromiseOK'
<1> DEFINE Locs == {"future", "last check", "last forget", "own"}
<1> SUFFICES ASSUME version \in Fast, ex_ptr_' = None, ~Leaving', NEW p \in promise'
             PROVE  pc'[p] \in Locs
  BY SoundBefore DEF PromiseOK
<1>1. /\ ex_ptr_ = None /\ ~Leaving /\ promise \subseteq Producers /\ p \in Producers
      /\ Going /\ \A q \in promise : pc[q] \in Locs
  BY NotForgotten, LeavingStays DEF PromiseOK, StopOK, Going, Types
<1>2. ASSUME NEW q \in Producers, CallStep(q) PROVE pc'[p] \in Locs
  <2>1. /\ OwnOperation(q) => promise' = promise \ {q}
        /\ ~OwnOperation(q) => promise' = promise
    <3>1. OwnOperation(q) => promise' = promise \ {q}
      BY DEF OwnOperation
    <3>2. ~OwnOperation(q) => promise' = promise
      BY <1>2 DEF CallStep, CheckException, Forget, Push, Count, EnterRing,
         ReserveSlot, FillSlot, PublishSlot, Spin, AwaitMarker, EnterFlush, FlushTask,
         FlushTaskThrows, Flushed, state
    <3> QED
      BY <3>1, <3>2
  <2>2. p \in promise /\ (OwnOperation(q) => p # q)
    BY <2>1
  <2>3. CASE p # q
    BY <1>1, <1>2, <2>2, <2>3, OthersStay
  <2>4. CASE p = q
    <3>1. pc[q] \in Locs /\ ~OwnOperation(q) /\ version # "counted"
      BY <1>1, <2>2, <2>4 DEF Fast
    <3>2. CheckException(q) \/ Forget(q) \/ AwaitMarker(q)
      BY <1>2, <3>1 DEF CallStep, Push, Count, EnterRing, ReserveSlot, FillSlot, PublishSlot, Spin,
         EnterFlush, FlushTask, FlushTaskThrows, Flushed, At
    <3>3. \E loc \in Locs : Goto(q, loc)
      BY <1>1, <3>1, <3>2 DEF CheckException, Forget, AwaitMarker, Forgets, AfterCheck, At
    <3> QED
      BY <1>1, <2>4, <3>3, Constants DEF Goto, Types
  <2> QED
    BY <2>3, <2>4
<1>3. ASSUME NEW q \in Producers, ProgramStep(q) PROVE pc'[p] \in Locs
  <2>1. promise' = promise /\ pc[q] = "idle"
    BY <1>3 DEF ProgramStep, Submit, StepMarker, Discard, Begin, At, state
  <2>2. p # q
    BY <1>1, <2>1
  <2> QED
    BY <1>1, <1>3, <2>1, <2>2, OthersStay
<1>4. ASSUME WorkerStep PROVE pc'[p] \in Locs
  <2>1. pc'[p] = pc[p]
    BY <1>1, <1>4, WorkerMoves
  <2>2. CASE ReachMarker
    <3>1. item[Worker] \in Items /\ Kind(Worker) = "marker" /\ promise' = promise \cup {item[Worker].of}
      BY <2>2, Constants DEF ReachMarker, Executing, Types
    <3>2. item[Worker].of \in AtFuture
      BY <1>1, <1>4, <2>2, <3>1, WorkerInTurn, ItemFacts DEF Consumes, Kind
    <3> QED
      BY <1>1, <2>1, <3>1, <3>2 DEF AtFuture, At
  <2>3. CASE ~ReachMarker
    <3>1. promise' = promise
      BY <1>4, <2>3 DEF WorkerStep, PopTask, AdvanceTail, ReadSlot, Execute, ExecuteThrows,
         ReachStop, Drop, FreeTensors, Uncount, LeaveLoop, state
    <3> QED
      BY <1>1, <2>1, <3>1
  <2> QED
    BY <2>2, <2>3
<1>5. ASSUME Exit \/ Join PROVE FALSE
  <2>1. CASE Exit
    <3>1. item'[Main].kind = "stop"
      BY <2>1, Constants DEF Exit, Hold, Types, StopTask
    <3> QED
      BY <3>1 DEF Leaving, Kind
  <2>2. CASE Join
    BY <1>1, <2>2, Constants DEF Join, Control, CallOK, CallLocations, KindsAt, Leaving, At
  <2> QED
    BY <1>5, <2>1, <2>2
<1> QED
  BY <1>2, <1>3, <1>4, <1>5, StepCases

LEMMA AloneKept ==
  ASSUME Types, Types', Control, Next, Sound', AloneOK
  PROVE  AloneOK'
<1> SUFFICES ASSUME version # "blocking"
             PROVE  \E p \in Producers : \A q \in Producers : q # p => pc'[q] = "idle"
  BY SoundBefore DEF AloneOK, At
<1>1. ASSUME NEW p \in Producers, CallStep(p)
      PROVE  \A q \in Producers : q # p => pc'[q] = "idle"
  BY <1>1, OthersIdle
<1>2. ASSUME NEW p \in Producers, Submit(p) \/ StepMarker(p)
      PROVE  \A q \in Producers : q # p => pc'[q] = "idle"
  BY <1>2, NotOnTheSpot, OthersStay DEF ProgramStep
<1>3. ASSUME UNCHANGED pc PROVE \E p \in Producers : \A q \in Producers : q # p => pc'[q] = "idle"
  <2>1. CASE \A q \in Producers : pc[q] = "idle"
    BY <1>3, <2>1, Constants
  <2>2. ASSUME NEW p \in Producers, pc[p] # "idle" PROVE \A q \in Producers : q # p => pc'[q] = "idle"
    BY <1>3, <2>2 DEF AloneOK, At
  <2> QED
    BY <2>1, <2>2
<1>4. ASSUME NEW p \in Producers, Discard(p)
      PROVE \E r \in Producers : \A q \in Producers : q # r => pc'[q] = "idle"
  BY <1>3, <1>4 DEF Discard
<1>5. ASSUME WorkerStep PROVE \E p \in Producers : \A q \in Producers : q # p => pc'[q] = "idle"
  <2>1. \A q \in Producers : pc'[q] = pc[q]
    BY <1>5, WorkerMoves
  <2>2. CASE \A q \in Producers : pc[q] = "idle"
    BY <2>1, <2>2, Constants
  <2>3. ASSUME NEW p \in Producers, pc[p] # "idle" PROVE \A q \in Producers : q # p => pc'[q] = "idle"
    BY <2>1, <2>3 DEF AloneOK, At
  <2> QED
    BY <2>2, <2>3
<1>6. ASSUME Exit \/ Join PROVE \A q \in Producers : q # Main => pc'[q] = "idle"
  <2>1. \A q \in Producers : q # Main => pc'[q] = pc[q]
    BY <1>6, Constants, OthersStay
  <2>2. \A q \in Producers : q # Main => pc[q] = "idle"
    BY <1>6, Constants DEF Exit, Join, AloneOK, At
  <2> QED
    BY <2>1, <2>2
<1> QED
  BY <1>1, <1>2, <1>4, <1>5, <1>6, Constants, StepCases DEF ProgramStep

LEMMA RingKept ==
  ASSUME Types, Types', Control, Next, Sound', AloneOK, RingOK
  PROVE  RingOK'
<1> SUFFICES ASSUME version = "ring", NEW p \in Producers
             PROVE  /\ pc'[p] \in {"reserved", "filled"} => new_h'[p] = Next_(head_') /\ new_h'[p] # tail_'
                    /\ pc'[p] = "filled" => slots'[new_h'[p]] = item'[p]
  BY SoundBefore DEF RingOK, Next_, At
<1>1. /\ pc[p] \in {"reserved", "filled"} => new_h[p] = Next_(head_) /\ new_h[p] # tail_
      /\ pc[p] = "filled" => slots[new_h[p]] = item[p]
      /\ p \in Threads /\ new_h[p] \in Slots
  BY Constants DEF RingOK, At, Types
<1>2. ASSUME NEW q \in Producers, CallStep(q), q # p PROVE pc'[p] = "idle"
  BY <1>2, OthersIdle
<1>3. ASSUME CallStep(p)
      PROVE  /\ pc'[p] \in {"reserved", "filled"} => new_h'[p] = Next_(head_') /\ new_h'[p] # tail_'
             /\ pc'[p] = "filled" => slots'[new_h'[p]] = item'[p]
  <2>1. CASE ReserveSlot(p)
    <3>1. /\ head_' = head_ /\ tail_' = tail_
          /\ pc' = [pc EXCEPT ![p] = "reserved"] =>
               tail_ # Next_(head_) /\ new_h' = [new_h EXCEPT ![p] = Next_(head_)]
          /\ pc'[p] \in {"reserved", "filled"} => pc' = [pc EXCEPT ![p] = "reserved"]
      BY <1>1, <2>1 DEF ReserveSlot, RingFull, Throw, Goto, Types
    <3>2. pc'[p] # "filled"
      BY <1>1, <2>1 DEF ReserveSlot, Throw, Goto, Types
    <3> QED
      BY <3>1, <3>2 DEF Types
  <2>2. CASE FillSlot(p)
    <3>1. /\ pc[p] = "reserved" /\ slots' = [slots EXCEPT ![new_h[p]] = item[p]]
          /\ UNCHANGED <<head_, tail_, new_h, item>>
      BY <2>2 DEF FillSlot, At
    <3> QED
      BY <1>1, <3>1 DEF Types
  <2>3. CASE ~ReserveSlot(p) /\ ~FillSlot(p)
    <3>1. pc[p] \notin {"entered", "reserved"}
      BY <1>3, <2>3 DEF CallStep, OwnOperation, CheckException, Forget, Push, Count, EnterRing,
         PublishSlot, Spin, AwaitMarker, EnterFlush, FlushTask, FlushTaskThrows, Flushed, At
    <3>2. CASE Advances(p)
      BY <3>1, <3>2 DEF Advances
    <3>3. CASE Ends(p)
      BY <1>1, <3>3 DEF Ends, Types
    <3> QED
      BY <1>3, <3>2, <3>3, CallControl
  <2> QED
    BY <2>1, <2>2, <2>3
<1>4. ASSUME NEW q \in Producers, ProgramStep(q)
      PROVE  /\ pc'[p] \in {"reserved", "filled"} => pc'[p] = pc[p]
             /\ item'[p] = item[p] \/ pc'[p] # "filled"
             /\ UNCHANGED <<head_, tail_, new_h, slots>>
  <2>1. UNCHANGED <<head_, tail_, new_h, slots>>
    BY <1>4 DEF ProgramStep, Submit, StepMarker, Discard, ring
  <2>2. CASE p # q
    BY <1>4, <2>1, <2>2, OthersStay
  <2>3. CASE p = q
    <3>1. (pc' = pc /\ item' = item) \/ \E loc \in CallLocations \ {"reserved", "filled"} : Goto(q, loc)
      BY <1>4 DEF ProgramStep, Submit, StepMarker, Discard, CallLocations
    <3> QED
      BY <1>1, <2>1, <2>3, <3>1 DEF Goto, Types
  <2> QED
    BY <2>2, <2>3
<1>5. ASSUME WorkerStep
      PROVE  /\ pc'[p] = pc[p] /\ item'[p] = item[p] /\ new_h' = new_h
             /\ head_' = head_ /\ slots' = slots
             /\ Next_(head_) # tail_ => Next_(head_) # tail_'
  <2>1. pc'[p] = pc[p] /\ item'[p] = item[p]
    BY <1>5, WorkerMoves
  <2>2. CASE AdvanceTail
    <3>1. /\ UNCHANGED <<head_, new_h, slots>> /\ tail_' = Next_(tail_) /\ head_ # tail_
          /\ head_ \in Slots /\ tail_ \in Slots
      BY <2>2 DEF AdvanceTail, Types
    <3>2. Next_(head_) # Next_(tail_)
      BY <3>1, NextSlot, Constants DEF Slots
    <3> QED
      BY <2>1, <3>1, <3>2
  <2>3. CASE ~AdvanceTail
    <3>1. UNCHANGED <<head_, tail_, new_h, slots>>
      BY <1>5, <2>3 DEF WorkerStep, PopTask, ReadSlot, Execute, ExecuteThrows, ReachMarker,
         ReachStop, Drop, FreeTensors, Uncount, LeaveLoop, ring
    <3> QED
      BY <2>1, <3>1
  <2> QED
    BY <2>2, <2>3
<1>6. ASSUME Exit \/ Join
      PROVE  /\ pc'[p] \in {"reserved", "filled"} => pc'[p] = pc[p] /\ item'[p] = item[p]
             /\ UNCHANGED <<head_, tail_, new_h, slots>>
  <2>1. UNCHANGED <<head_, tail_, new_h, slots>>
    BY <1>6 DEF Exit, Join, ring
  <2>2. pc'[p] \in {"reserved", "filled"} => pc'[p] = pc[p] /\ item'[p] = item[p]
    BY <1>1, <1>6, Constants DEF Exit, Join, Goto, Hold, Types
  <2> QED
    BY <2>1, <2>2
<1> QED
  BY <1>1, <1>2, <1>3, <1>4, <1>5, <1>6, StepCases

LEMMA FlushKept ==
  ASSUME Types, Types', Control, Next, AloneOK, FlushOK
  PROVE  FlushOK'
<1> SUFFICES ASSUME NEW p \in Producers, pc'[p] = "flush"
             PROVE  task_in_progress_'
  BY DEF FlushOK, At
<1>1. (pc[p] = "flush" => task_in_progress_) /\ p \in Threads
  BY Constants DEF FlushOK, At
<1>2. ASSUME NEW q \in Producers, CallStep(q) PROVE task_in_progress_'
  <2>1. CASE EnterFlush(q) /\ task_in_progress_'
    BY <2>1
  <2>2. CASE EnterFlush(q) /\ ~task_in_progress_'
    <3>1. q \in Threads /\ task_in_progress_ /\ task_in_progress_' = task_in_progress_
      BY <2>2, Constants DEF EnterFlush
    <3> QED
      BY <2>2, <3>1
  <2>3. CASE Flushed(q)
    <3>1. pc[q] = "flush" /\ pc' = [pc EXCEPT ![q] = "own"] /\ version = "sync" /\ q \in Threads
      BY <1>2, <2>3, CallMoves DEF Flushed, Return, Goto, CallOK, CallLocations, VersionsAt, At
    <3>2. p # q
      BY <3>1 DEF Types
    <3> QED
      BY <1>2, <3>1, <3>2, OthersIdle
  <2>4. CASE ~EnterFlush(q) /\ ~Flushed(q)
    <3>1. task_in_progress_' = task_in_progress_
      BY <1>2, <2>4 DEF CallStep, OwnOperation, CheckException, Forget, Push, Count, EnterRing,
         ReserveSlot, FillSlot, PublishSlot, Spin, AwaitMarker, FlushTask, FlushTaskThrows, state
    <3>2. pc[p] = "flush"
      <4>1. CASE p # q
        BY <1>2, <4>1, OthersStay
      <4>2. CASE p = q
        <5>1. pc[q] # "enter"
          BY <1>2, <2>4 DEF CallStep, OwnOperation, CheckException, Forget, Push, Count, EnterRing,
             ReserveSlot, FillSlot, PublishSlot, Spin, AwaitMarker, FlushTask, FlushTaskThrows, At
        <5>2. CASE Advances(q)
          BY <4>2, <5>1, <5>2 DEF Advances
        <5>3. CASE Ends(q)
          BY <1>1, <4>2, <5>3 DEF Ends, Types
        <5> QED
          BY <1>2, <5>2, <5>3, CallControl
      <4> QED
        BY <4>1, <4>2
    <3> QED
      BY <1>1, <3>1, <3>2
  <2> QED
    BY <2>1, <2>2, <2>3, <2>4
<1>3. ASSUME ~\E q \in Producers : CallStep(q), Next PROVE task_in_progress_'
  <2>1. task_in_progress_' = task_in_progress_
    BY <1>3, StepCases DEF ProgramStep, Submit, StepMarker, Discard, WorkerStep, PopTask, AdvanceTail,
       ReadSlot, Execute, ExecuteThrows, ReachMarker, ReachStop, Drop, FreeTensors, Uncount, LeaveLoop,
       Exit, Join, state
  <2>2. pc[p] = "flush"
    <3>1. ASSUME NEW q \in Producers, ProgramStep(q) PROVE pc[p] = "flush"
      <4>1. CASE p # q
        BY <3>1, <4>1, OthersStay
      <4>2. CASE p = q
        <5>1. pc' = pc \/ \E loc \in CallLocations \ {"flush"} : Goto(q, loc)
          BY <3>1 DEF ProgramStep, Submit, StepMarker, Discard, CallLocations
        <5> QED
          BY <1>1, <4>2, <5>1 DEF Goto, Types
      <4> QED
        BY <4>1, <4>2
    <3>2. ASSUME WorkerStep PROVE pc[p] = "flush"
      BY <3>2, WorkerMoves
    <3>3. ASSUME Exit \/ Join PROVE pc[p] = "flush"
      BY <1>1, <3>3, Constants DEF Exit, Join, Goto, Types
    <3> QED
      BY <1>3, <3>1, <3>2, <3>3, StepCases
  <2> QED
    BY <1>1, <2>1, <2>2
<1> QED
  BY <1>2, <1>3

LEMMA AroundKept ==
  ASSUME Types, Types', Control, Next, Sound', Around, PendOK
  PROVE  Around'
BY StopKept, PromiseKept, AloneKept, RingKept, FlushKept DEF Around

-----------------------------------------------------------------------------
(* What a step does to the operations that are done and that wait.         *)

LEMMA RangeAppend ==
  ASSUME NEW s \in Seq(Ops), NEW op \in Ops, NEW t, t = Append(s, op)
  PROVE  {t[n] : n \in 1 .. Len(t)} = {s[n] : n \in 1 .. Len(s)} \cup {op}
<1>1. /\ Len(s) \in Nat /\ Len(t) = Len(s) + 1 /\ t[Len(s) + 1] = op
      /\ \A i \in 1 .. Len(s) : t[i] = s[i]
  OBVIOUS
<1>2. \A i \in 1 .. Len(s) : i \in 1 .. Len(t)
  BY <1>1
<1>3. Len(s) + 1 \in 1 .. Len(t)
  BY <1>1
<1>4. \A i \in 1 .. Len(t) : i \in 1 .. Len(s) \/ i = Len(s) + 1
  BY <1>1
<1> QED
  BY <1>1, <1>2, <1>3, <1>4

LEMMA HeadWaits ==
  ASSUME Types, Pend # <<>>, NEW op \in Ops, Pend[1] = Task(op)
  PROVE  op \in Waiting
<1>1. Len(Pend) \in Nat \ {0}
  BY PendType, AmongTail
<1>2. 1 \in 1 .. Len(Pend)
  BY <1>1
<1> QED
  BY <1>2 DEF Waiting, Among

LEMMA WaitingTail ==
  ASSUME Types, Types', Pend # <<>>, Pend' = Tail(Pend), NEW op \in Ops
  PROVE  op \in Waiting <=> Pend[1] = Task(op) \/ op \in Waiting'
<1>1. PICK s, t : s = Pend /\ t = Pend' /\ s \in Seq(Items)
  BY PendType
<1>2. /\ s # <<>> /\ t = Tail(s)
      /\ op \in Waiting <=> Among(s, op, Len(s))
      /\ op \in Waiting' <=> Among(t, op, Len(t))
  BY <1>1 DEF Waiting, Among
<1>3. /\ Len(s) \in Nat \ {0} /\ Len(t) = Len(s) - 1
      /\ \A n : n \in 1 .. Len(s) => (Among(s, op, n) <=> s[1] = Task(op) \/ Among(t, op, n - 1))
  BY <1>1, <1>2, AmongTail
<1>4. Len(s) \in 1 .. Len(s)
  BY <1>3
<1> QED
  BY <1>1, <1>2, <1>3, <1>4

LEMMA WaitingAppend ==
  ASSUME Types, Types', NEW x \in Items, Pend' = Append(Pend, x), NEW op \in Ops
  PROVE  op \in Waiting' <=> op \in Waiting \/ x = Task(op)
<1>1. PICK s, t : s = Pend /\ t = Pend' /\ s \in Seq(Items)
  BY PendType
<1>2. /\ t = Append(s, x)
      /\ op \in Waiting <=> Among(s, op, Len(s))
      /\ op \in Waiting' <=> Among(t, op, Len(t))
  BY <1>1 DEF Waiting, Among
<1>3. Len(t) = Len(s) + 1 /\ (Among(t, op, Len(s) + 1) <=> Among(s, op, Len(s)) \/ x = Task(op))
  BY <1>1, <1>2, AmongAppend
<1> QED
  BY <1>1, <1>2, <1>3

LEMMA WaitingSame ==
  ASSUME Pend' = Pend
  PROVE  Waiting' = Waiting
BY DEF Waiting, Among

LEMMA NoFlushThrow ==
  ASSUME Types, Types', Control, Sound', AloneOK, FlushOK, NEW p \in Producers, FlushTaskThrows(p)
  PROVE  FALSE
<1>1. /\ pc[p] = "flush" /\ version = "sync" /\ p \in Threads /\ CallStep(p)
      /\ task_in_progress_' = task_in_progress_ /\ task_in_progress_
  BY CallMoves, Constants DEF FlushTaskThrows, CallStep, CallOK, CallLocations, VersionsAt, FlushOK, At,
     state
<1>2. \A q \in Producers : q # p => pc'[q] = "idle"
  BY <1>1, OthersIdle
<1>3. pc'[p] # "flush"
  BY <1>1 DEF FlushTaskThrows, Throw, Goto, Types
<1>4. Wedged'
  BY <1>1, <1>2, <1>3 DEF Wedged, At
<1> QED
  BY <1>4 DEF Sound

LEMMA GoingBefore ==
  ASSUME Types, Control, Next, version' = version, Going'
  PROVE  Going
<1>1. stop_ \in BOOLEAN
  BY DEF Types
<1>2. ASSUME stop_, version \in Fast PROVE stop_'
  <2>1. ASSUME NEW p \in Producers, CallStep(p) PROVE stop_'
    BY <1>2, <2>1 DEF CallStep, OwnOperation, CheckException, Forget, Push, Count, EnterRing, ReserveSlot,
       FillSlot, PublishSlot, Spin, AwaitMarker, EnterFlush, FlushTask, FlushTaskThrows, Flushed, state
  <2>2. ASSUME NEW p \in Producers, ProgramStep(p) PROVE stop_'
    BY <1>2, <2>2 DEF ProgramStep, Submit, StepMarker, Discard, state
  <2>3. ASSUME WorkerStep PROVE stop_'
    BY <1>2, <2>3 DEF WorkerStep, PopTask, AdvanceTail, ReadSlot, Execute, ExecuteThrows, ReachMarker,
       ReachStop, Drop, FreeTensors, Uncount, LeaveLoop, state
  <2>4. ASSUME Exit \/ Join PROVE stop_'
    BY <1>2, <2>4 DEF Exit, Join, state
  <2> QED
    BY <2>1, <2>2, <2>3, <2>4, StepCases
<1> QED
  BY <1>1, <1>2 DEF Going

LEMMA NowDone ==
  ASSUME Types, Types', Control, Next, Sound', AloneOK
  PROVE  \/ executed' = executed
         \/ \E p \in Producers : OwnOperation(p) /\ Op(p) \in Ops /\ executed' = Append(executed, Op(p))
         \/ Execute /\ item[Worker].of \in Ops /\ executed' = Append(executed, item[Worker].of)
              /\ item[Worker] = Task(item[Worker].of)
         \/ \E p \in Producers : FlushTask(p) /\ Head(tasks_).of \in Ops
              /\ executed' = Append(executed, Head(tasks_).of) /\ Head(tasks_) = Task(Head(tasks_).of)
         \/ \E p \in Producers : Discard(p)
<1>1. ASSUME NEW p \in Producers, OwnOperation(p) PROVE Op(p) \in Ops /\ executed' = Append(executed, Op(p))
  <2>1. CallStep(p) /\ pc[p] = "own"
    BY <1>1 DEF CallStep, OwnOperation, At
  <2>2. Kind(p) # "stop"
    BY <2>1, CallMoves DEF CallOK, CallLocations, KindsAt
  <2> QED
    BY <1>1, <2>1, <2>2, CallMoves DEF OwnOperation
<1>2. ASSUME Execute PROVE /\ item[Worker].of \in Ops /\ executed' = Append(executed, item[Worker].of)
                           /\ item[Worker] = Task(item[Worker].of)
  BY <1>2, Constants, ItemFacts DEF Execute, Executing, Kind, Types
<1>3. ASSUME NEW p \in Producers, FlushTask(p)
      PROVE  /\ Head(tasks_).of \in Ops /\ executed' = Append(executed, Head(tasks_).of)
             /\ Head(tasks_) = Task(Head(tasks_).of)
  <2>1. /\ CallStep(p) /\ pc[p] = "flush" /\ tasks_ # <<>> /\ executed' = Append(executed, Head(tasks_).of)
        /\ tasks_ \in Seq(Items)
    BY <1>3 DEF CallStep, FlushTask, At, Types
  <2>2. version = "sync"
    BY <2>1, CallMoves DEF CallOK, CallLocations, VersionsAt
  <2>3. 1 \in 1 .. Len(tasks_) /\ Head(tasks_) = tasks_[1] /\ Head(tasks_) \in Items
    BY <2>1
  <2>4. Head(tasks_).kind = "task"
    BY <2>2, <2>3 DEF Control, WorkerOK, Fast
  <2> QED
    BY <2>1, <2>3, <2>4, ItemFacts
<1>4. ASSUME NEW p \in Producers, CallStep(p), ~OwnOperation(p), ~FlushTask(p)
      PROVE  executed' = executed
  BY <1>4 DEF CallStep, CheckException, Forget, Push, Count, EnterRing, ReserveSlot, FillSlot, PublishSlot,
     Spin, AwaitMarker, EnterFlush, FlushTaskThrows, Flushed, history
<1>5. ASSUME NEW p \in Producers, ProgramStep(p), ~Discard(p)
      PROVE  executed' = executed
  BY <1>5, NotOnTheSpot DEF ProgramStep, Submit, StepMarker, history
<1>6. ASSUME WorkerStep, ~Execute
      PROVE  executed' = executed
  BY <1>6 DEF WorkerStep, PopTask, AdvanceTail, ReadSlot, ExecuteThrows, ReachMarker, ReachStop, Drop,
     FreeTensors, Uncount, LeaveLoop, history
<1>7. ASSUME Exit \/ Join PROVE executed' = executed
  BY <1>7 DEF Exit, Join, history
<1> QED
  BY <1>1, <1>2, <1>3, <1>4, <1>5, <1>6, <1>7, StepCases

\* Without a worker: what is discarded counts as done.
LEMMA DiscardDoes ==
  ASSUME Types, Types', Control, NEW p \in Producers, Discard(p)
  PROVE  Done' = Done \cup Waiting /\ Going /\ Pend = tasks_ /\ Pend' = <<>> /\ version = "sync"
<1>1. /\ version = "sync" /\ tasks_ \in Seq(Items) /\ executed \in Seq(Ops)
      /\ executed' = executed \o [i \in DOMAIN tasks_ |-> tasks_[i].of]
  BY DEF Discard, Types
<1>2. Pend = tasks_ /\ Pend' = <<>>
  BY PendOfProgram
<1>3. PICK e, t, s : e = executed' /\ s = tasks_ /\ t = [i \in DOMAIN tasks_ |-> tasks_[i].of]
  OBVIOUS
<1>4. Len(s) \in Nat /\ \A i \in 1 .. Len(s) : s[i] \in Items /\ s[i].kind = "task"
  BY <1>1, <1>3 DEF Control, WorkerOK, Fast
<1>5. \A i \in 1 .. Len(s) : s[i].of \in Ops /\ s[i] = Task(s[i].of)
  BY <1>4, ItemFacts
<1>6. t \in Seq(Ops) /\ Len(t) = Len(s) /\ \A i \in 1 .. Len(s) : t[i] = s[i].of
  <2>1. s \in Seq(Items) /\ DOMAIN s = 1 .. Len(s) /\ t = [i \in 1 .. Len(s) |-> s[i].of]
    BY <1>1, <1>3
  <2>2. t \in [1 .. Len(s) -> Ops] /\ \A i \in 1 .. Len(s) : t[i] = s[i].of
    BY <1>5, <2>1
  <2>3. t \in Seq(Ops)
    BY <1>4, <2>2, SeqDef
  <2>4. Len(t) = Len(s)
    BY <1>4, <2>2, <2>3, LenProperties
  <2> QED
    BY <2>2, <2>3, <2>4
<1>7. Len(executed) \in Nat /\ e = executed \o t
  BY <1>1, <1>3
<1>8. /\ Len(e) = Len(executed) + Len(s)
      /\ \A i \in 1 .. Len(e) : e[i] = IF i <= Len(executed) THEN executed[i] ELSE t[i - Len(executed)]
  <2>1. /\ Len(executed \o t) = Len(executed) + Len(t)
        /\ \A i \in 1 .. Len(executed) + Len(t) :
             (executed \o t)[i] = IF i <= Len(executed) THEN executed[i] ELSE t[i - Len(executed)]
    BY <1>1, <1>6, ConcatProperties
  <2> QED
    BY <1>6, <1>7, <2>1
<1>9. \A i \in 1 .. Len(executed) : i \in 1 .. Len(e) /\ e[i] = executed[i]
  BY <1>4, <1>7, <1>8
<1>10. ASSUME NEW i \in 1 .. Len(e)
       PROVE  \/ i \in 1 .. Len(executed) /\ e[i] = executed[i]
              \/ \E j \in 1 .. Len(s) : e[i] = s[j].of /\ s[j] = Task(s[j].of)
  <2>1. CASE i <= Len(executed)
    BY <1>7, <1>8, <2>1
  <2>2. CASE ~(i <= Len(executed))
    <3>1. i - Len(executed) \in 1 .. Len(s)
      BY <1>4, <1>7, <1>8, <2>2
    <3> QED
      BY <1>5, <1>6, <1>8, <2>2, <3>1
  <2> QED
    BY <2>1, <2>2
<1>11. \A j \in 1 .. Len(s), op \in Ops : s[j] = Task(op) => op \in Waiting
  BY <1>2, <1>3 DEF Waiting, Among
<1>12. Done = {executed[n] : n \in 1 .. Len(executed)} /\ Done' = {e[n] : n \in 1 .. Len(e)}
  BY <1>3 DEF Done
<1>13. Going
  BY <1>1 DEF Going, Fast
<1>14. ASSUME NEW op \in Waiting PROVE op \in Done'
  <2>1. PICK j \in 1 .. Len(s) : s[j] = Task(op)
    BY <1>2, <1>3, <1>14 DEF Waiting, Among
  <2>2. s[j].of = op
    BY <2>1 DEF Task
  <2>3. /\ Len(executed) + j \in 1 .. Len(e) /\ ~(Len(executed) + j <= Len(executed))
        /\ Len(executed) + j - Len(executed) = j
    BY <1>4, <1>7, <1>8
  <2>4. e[Len(executed) + j] = op
    BY <1>6, <1>8, <2>2, <2>3
  <2> QED
    BY <1>12, <2>3, <2>4
<1>15. ASSUME NEW op \in Done' PROVE op \in Done \cup Waiting
  BY <1>10, <1>11, <1>12, <1>5, <1>15
<1> QED
  BY <1>1, <1>2, <1>9, <1>12, <1>13, <1>14, <1>15

\* What is done was not, unless it waited or is done by the call itself.
LEMMA DoneCases ==
  ASSUME Types, Types', Control, Next, Sound', AloneOK, RingOK
  PROVE  /\ Done \subseteq Done'
         /\ \A op \in Ops : op \in Done' =>
              \/ op \in Done
              \/ Going /\ op \in Waiting
              \/ \E p \in Producers : OwnOperation(p) /\ op = Op(p)
<1>1. executed \in Seq(Ops)
  BY DEF Types
<1>2. ASSUME NEW op \in Ops, executed' = Append(executed, op) PROVE Done' = Done \cup {op}
  BY <1>1, <1>2, RangeAppend DEF Done
<1>3. CASE executed' = executed
  BY <1>3 DEF Done
<1>4. ASSUME NEW p \in Producers, OwnOperation(p), Op(p) \in Ops, executed' = Append(executed, Op(p))
      PROVE  Done' = Done \cup {Op(p)}
  BY <1>2, <1>4
<1>5. ASSUME Execute, item[Worker].of \in Ops, executed' = Append(executed, item[Worker].of),
             item[Worker] = Task(item[Worker].of)
      PROVE  \E op \in Ops : Done' = Done \cup {op} /\ Going /\ op \in Waiting
  <2>1. Pend # <<>> /\ Pend[1] = item[Worker]
    BY <1>5, PendOfWorker DEF WorkerStep, Consumes
  <2>2. Going
    BY <1>5 DEF Execute, Draining, Going
  <2> QED
    BY <1>2, <1>5, <2>1, <2>2, HeadWaits
<1>6. ASSUME NEW p \in Producers, FlushTask(p), Head(tasks_).of \in Ops,
             executed' = Append(executed, Head(tasks_).of), Head(tasks_) = Task(Head(tasks_).of)
      PROVE  \E op \in Ops : Done' = Done \cup {op} /\ Going /\ op \in Waiting
  <2>1. Pend # <<>> /\ Pend = tasks_ /\ version = "sync"
    BY <1>6, PendOfCall DEF CallStep
  <2>2. Pend[1] = Head(tasks_)
    BY <2>1
  <2>3. Going
    BY <2>1 DEF Going, Fast
  <2> QED
    BY <1>2, <1>6, <2>1, <2>2, <2>3, HeadWaits
<1>7. ASSUME NEW p \in Producers, Discard(p) PROVE Done' = Done \cup Waiting /\ Going
  BY <1>7, DiscardDoes
<1> QED
  BY <1>3, <1>4, <1>5, <1>6, <1>7, NowDone

LEMMA PastGrows ==
  ASSUME Types, Types', Control, Next, Sound', AloneOK, RingOK
  PROVE  failed \subseteq failed' /\ refused \subseteq refused' /\ Past \subseteq Past'
<1>1. ASSUME NEW p \in Producers, CallStep(p) PROVE failed \subseteq failed' /\ refused \subseteq refused'
  <2>1. refused' = refused \/ Throw(p)
    BY <1>1 DEF CallStep, OwnOperation, CheckException, Forget, Push, Count, EnterRing, ReserveSlot,
       FillSlot, PublishSlot, Spin, AwaitMarker, EnterFlush, FlushTask, FlushTaskThrows, Flushed
  <2>2. failed' = failed \/ FlushTaskThrows(p)
    BY <1>1 DEF CallStep, OwnOperation, CheckException, Forget, Push, Count, EnterRing, ReserveSlot,
       FillSlot, PublishSlot, Spin, AwaitMarker, EnterFlush, FlushTask, Flushed, history
  <2> QED
    BY <2>1, <2>2 DEF Throw, FlushTaskThrows
<1>2. ASSUME NEW p \in Producers, ProgramStep(p) PROVE failed' = failed /\ refused' = refused
  BY <1>2 DEF ProgramStep, Submit, StepMarker, Discard, history
<1>3. ASSUME WorkerStep PROVE failed \subseteq failed' /\ refused' = refused
  <2>1. CASE ExecuteThrows
    BY <2>1 DEF ExecuteThrows
  <2>2. CASE ~ExecuteThrows
    BY <1>3, <2>2 DEF WorkerStep, PopTask, AdvanceTail, ReadSlot, Execute, ReachMarker, ReachStop, Drop,
       FreeTensors, Uncount, LeaveLoop, history
  <2> QED
    BY <2>1, <2>2
<1>4. ASSUME Exit \/ Join PROVE failed' = failed /\ refused' = refused
  BY <1>4 DEF Exit, Join, history
<1>5. failed \subseteq failed' /\ refused \subseteq refused'
  BY <1>1, <1>2, <1>3, <1>4, StepCases
<1> QED
  BY <1>5, DoneCases DEF Past

\* What waits went to wait by a push, and waits until it is done or has failed.
LEMMA WaitingCases ==
  ASSUME Types, Types', Control, Next, Sound', AloneOK, RingOK, FlushOK, NEW op \in Ops
  PROVE  /\ op \in Waiting' =>
              op \in Waiting \/ \E p \in Producers : (Push(p) \/ PublishSlot(p)) /\ item[p] = Task(op)
         /\ Going' /\ op \in Waiting => op \in Waiting' \/ op \in Past'
<1>1. ASSUME NEW p \in Producers, CallStep(p)
      PROVE  /\ op \in Waiting' =>
                  op \in Waiting \/ ((Push(p) \/ PublishSlot(p)) /\ item[p] = Task(op))
             /\ op \in Waiting => op \in Waiting' \/ op \in Past'
  <2>1. CASE Push(p) \/ PublishSlot(p)
    <3>1. Pend' = Append(Pend, item[p]) /\ item[p] \in Items
      BY <1>1, <2>1, PendOfCall, CallMoves DEF Types
    <3> QED
      BY <2>1, <3>1, WaitingAppend
  <2>2. CASE FlushTask(p)
    <3>1. Pend = tasks_ /\ Pend # <<>> /\ Pend' = Tail(Pend) /\ tasks_ \in Seq(Items)
      BY <1>1, <2>2, PendOfCall DEF Types
    <3>2. executed' = Append(executed, Head(tasks_).of) /\ Head(tasks_) = Pend[1] /\ executed \in Seq(Ops)
      BY <2>2, <3>1 DEF FlushTask, Types
    <3>3. ASSUME Pend[1] = Task(op) PROVE op \in Past'
      <4>1. Head(tasks_).of = op
        BY <3>2, <3>3 DEF Task
      <4>2. executed' = Append(executed, op)
        BY <3>2, <4>1
      <4> QED
        BY <3>2, <4>2, RangeAppend DEF Past, Done
    <3> QED
      BY <3>1, <3>3, WaitingTail
  <2>3. CASE FlushTaskThrows(p)
    BY <2>3, NoFlushThrow
  <2>4. CASE ~(Push(p) \/ PublishSlot(p) \/ FlushTask(p) \/ FlushTaskThrows(p))
    BY <1>1, <2>4, PendOfCall, WaitingSame
  <2> QED
    BY <2>1, <2>2, <2>3, <2>4
<1>2. ASSUME NEW p \in Producers, Discard(p)
      PROVE  op \notin Waiting' /\ (op \in Waiting => op \in Past')
  <2>1. Pend' = <<>> /\ Done' = Done \cup Waiting
    BY <1>2, DiscardDoes
  <2>2. op \notin Waiting'
    BY <2>1 DEF Waiting, Among
  <2> QED
    BY <2>1, <2>2 DEF Past
<1>3. ASSUME NEW p \in Producers, ProgramStep(p), ~\E q \in Producers : Discard(q) PROVE Waiting' = Waiting
  <2>1. Submit(p) \/ StepMarker(p)
    BY <1>3 DEF ProgramStep
  <2> QED
    BY <1>3, <2>1, PendOfProgram, WaitingSame
<1>4. ASSUME Exit \/ Join PROVE Waiting' = Waiting
  <2>1. ~\E q \in Producers : Discard(q)
    BY <1>4, Constants DEF Exit, Join, Discard, Goto, Types, At
  <2> QED
    BY <1>4, <2>1, PendOfProgram, WaitingSame
<1>5. ASSUME WorkerStep
      PROVE  /\ op \in Waiting' => op \in Waiting
             /\ Going' /\ op \in Waiting => op \in Waiting' \/ op \in Past'
  <2>1. CASE ~Consumes
    BY <1>5, <2>1, PendOfWorker, WaitingSame
  <2>2. CASE Consumes
    <3>1. Pend # <<>> /\ Pend[1] = item[Worker] /\ Pend' = Tail(Pend)
      BY <1>5, <2>2, PendOfWorker
    <3>2. ASSUME Going', item[Worker] = Task(op) PROVE op \in Past'
      <4>1. Kind(Worker) = "task" /\ item[Worker].of = op
        BY <3>2 DEF Kind, Task
      <4>2. ~Drop
        BY <1>5, <3>2, WorkerMoves DEF Drop, Draining, Going, state
      <4>3. ~ReachMarker /\ ~ReachStop
        BY <4>1 DEF ReachMarker, ReachStop, Executing
      <4>4. CASE Execute
        BY <4>1, <4>4, RangeAppend DEF Execute, Past, Done, Types
      <4>5. CASE ExecuteThrows
        BY <4>1, <4>5 DEF ExecuteThrows, Past
      <4> QED
        BY <2>2, <4>2, <4>3, <4>4, <4>5 DEF Consumes
    <3> QED
      BY <3>1, <3>2, WaitingTail
  <2> QED
    BY <2>1, <2>2
<1> QED
  BY <1>1, <1>2, <1>3, <1>4, <1>5, StepCases DEF ProgramStep

LEMMA KnownGrows ==
  ASSUME Types, Types', Control, Next, Sound', AloneOK, RingOK, FlushOK, Going'
  PROVE  Known \subseteq Known'
<1>1. Past \subseteq Past' /\ Waiting \subseteq Ops
  BY PastGrows DEF Waiting
<1>2. \A op \in Ops : op \in Waiting => op \in Waiting' \/ op \in Past'
  BY WaitingCases
<1> QED
  BY <1>1, <1>2 DEF Known

-----------------------------------------------------------------------------
(* Effects are in order, what waits is in turn.                            *)

LEMMA AppendEffect ==
  ASSUME Types, Types', EffectsOK, NEW op \in Ops, op \notin Done, op[2] <= begun[op[1]],
         First(op[1], op[2], Past), executed' = Append(executed, op),
         failed \subseteq failed', refused \subseteq refused', begun' = begun
  PROVE  EffectsOK'
<1>1. PICK s, g : s = executed /\ g = failed \cup refused /\ s \in Seq(Ops)
  BY DEF Types
<1>2. Ordered(s, g) /\ Done = {s[n] : n \in 1 .. Len(s)} /\ Past = Done \cup g
  BY <1>1 DEF EffectsOK, Done, Past
<1>3. \A i \in 1 .. Len(s) : s[i] # op
  BY <1>2
<1>4. \A k \in 1 .. op[2] - 1 : <<op[1], k>> \in g \/ \E i \in 1 .. Len(s) : s[i] = <<op[1], k>>
  BY <1>2 DEF First
<1>5. Ordered(Append(s, op), g)
  BY <1>1, <1>2, <1>3, <1>4, OrderedAppend
<1>6. Ordered(executed', failed' \cup refused')
  BY <1>1, <1>5, OrderedGrows
<1>7. Done' = Done \cup {op}
  BY <1>1, RangeAppend DEF Done
<1> QED
  BY <1>6, <1>7 DEF EffectsOK

LEMMA EffectsKept ==
  ASSUME Types, Types', Control, Next, Sound', AloneOK, RingOK, EffectsOK, PendOK,
         \A p \in Producers : CallOrder(p)
  PROVE  EffectsOK'
<1>1. failed \subseteq failed' /\ refused \subseteq refused'
  BY PastGrows
<1>2. \A p \in Producers : begun[p] <= begun'[p]
  <2>1. begun' = begun \/ \E p \in Producers : begun' = [begun EXCEPT ![p] = begun[p] + 1]
    <3>1. ASSUME NEW p \in Producers, CallStep(p) PROVE begun' = begun
      BY <3>1, CallMoves
    <3>2. ASSUME NEW p \in Producers, ProgramStep(p)
          PROVE  begun' = begun \/ begun' = [begun EXCEPT ![p] = begun[p] + 1]
      BY <3>2 DEF ProgramStep, Submit, StepMarker, Discard, Begin
    <3>3. ASSUME WorkerStep PROVE begun' = begun
      BY <3>3, WorkerMoves
    <3>4. ASSUME Exit \/ Join PROVE begun' = begun
      BY <3>4 DEF Exit, Join
    <3> QED
      BY <3>1, <3>2, <3>3, <3>4, StepCases
  <2> QED
    BY <2>1, Constants DEF Types
<1>3. CASE executed' = executed
  <2>1. Ordered(executed', failed' \cup refused')
    BY <1>1, <1>3, OrderedGrows DEF EffectsOK
  <2>2. Done' = Done /\ Done \subseteq Ops
    BY <1>3 DEF Done, Types
  <2>3. ASSUME NEW op \in Done PROVE op[2] <= begun'[op[1]]
    <3>1. op[2] <= begun[op[1]] /\ op[1] \in Producers /\ op[2] \in Nat
      BY <2>2 DEF EffectsOK, Ops
    <3>2. begun[op[1]] <= begun'[op[1]] /\ begun[op[1]] \in Nat /\ begun'[op[1]] \in Nat
      BY <1>2, <3>1, Constants DEF Types
    <3> QED
      BY <3>1, <3>2
  <2> QED
    BY <2>1, <2>2, <2>3 DEF EffectsOK
<1>4. ASSUME NEW p \in Producers, OwnOperation(p), Op(p) \in Ops, executed' = Append(executed, Op(p))
      PROVE  EffectsOK'
  <2>1. CallStep(p) /\ pc[p] = "own"
    BY <1>4 DEF CallStep, OwnOperation, At
  <2>2. Kind(p) # "stop" /\ begun' = begun
    BY <2>1, CallMoves DEF CallOK, CallLocations, KindsAt
  <2>3. InCall(p) /\ Waited(p)
    BY <2>1, <2>2 DEF InCall, Waited, CallLocations, At
  <2>4. Op(p) \notin Done /\ First(p, begun[p], Past)
    BY <2>3 DEF CallOrder
  <2>5. Op(p)[1] = p /\ Op(p)[2] = begun[p] /\ begun[p] \in Nat
    BY Constants DEF Op, Types
  <2> QED
    BY <1>1, <1>4, <2>2, <2>4, <2>5, AppendEffect
<1>5. ASSUME Execute, item[Worker].of \in Ops, executed' = Append(executed, item[Worker].of),
             item[Worker] = Task(item[Worker].of)
      PROVE  EffectsOK'
  <2>1. WorkerStep /\ Consumes /\ Going
    BY <1>5 DEF WorkerStep, Consumes, Execute, Draining, Going
  <2>2. begun' = begun
    BY <2>1, WorkerMoves
  <2>3. PICK op \in Ops : op = item[Worker].of
    BY <1>5
  <2>4. op \notin Done /\ op[2] <= begun[op[1]] /\ First(op[1], op[2], Past)
    BY <1>5, <2>1, <2>3, WorkerInTurn
  <2> QED
    BY <1>1, <1>5, <2>2, <2>3, <2>4, AppendEffect
<1>6. ASSUME NEW p \in Producers, FlushTask(p), Head(tasks_).of \in Ops,
             executed' = Append(executed, Head(tasks_).of), Head(tasks_) = Task(Head(tasks_).of)
      PROVE  EffectsOK'
  <2>1. CallStep(p) /\ begun' = begun
    BY <1>6, CallMoves DEF CallStep
  <2>2. Pend # <<>> /\ Pend[1] = Head(tasks_) /\ Going
    BY <1>6, <2>1, PendOfCall DEF Going, Fast
  <2>3. PICK op \in Ops : op = Head(tasks_).of
    BY <1>6
  <2>4. op \notin Done /\ op[2] <= begun[op[1]] /\ First(op[1], op[2], Past)
    BY <1>6, <2>2, <2>3, PendHead
  <2> QED
    BY <1>1, <1>6, <2>1, <2>3, <2>4, AppendEffect
<1>7. ASSUME NEW p \in Producers, Discard(p) PROVE EffectsOK'
  <2>1. /\ Done' = Done \cup Waiting /\ Going /\ Pend = tasks_ /\ version = "sync"
        /\ begun' = begun /\ failed' = failed /\ refused' = refused
    BY <1>7, DiscardDoes DEF Discard
  <2>2. PICK e, s, t, g, l :
          /\ e = executed /\ s = tasks_ /\ t = [i \in DOMAIN tasks_ |-> tasks_[i].of]
          /\ g = failed \cup refused /\ l = Leaving
          /\ e \in Seq(Ops) /\ s \in Seq(Items) /\ l \in BOOLEAN
    BY DEF Types, Leaving
  <2>3. Ordered(e, g) /\ InTurn(s, Past, Done, begun, AtFuture, promise, l)
    BY <2>1, <2>2 DEF EffectsOK, PendOK
  <2>4. Done = {e[n] : n \in 1 .. Len(e)} /\ Past = Done \cup g
    BY <2>2 DEF Done, Past
  <2>5. Len(s) \in Nat /\ \A i \in 1 .. Len(s) : s[i] \in Items /\ s[i].kind = "task"
    BY <2>1, <2>2 DEF Control, WorkerOK, Fast
  <2>6. \A i \in 1 .. Len(s) : s[i].of \in Ops /\ s[i] = Task(s[i].of)
    BY <2>5, ItemFacts
  <2>7. t \in Seq(Ops) /\ Len(t) = Len(s) /\ \A i \in 1 .. Len(s) : t[i] = s[i].of
    <3>1. DOMAIN s = 1 .. Len(s) /\ t = [i \in 1 .. Len(s) |-> s[i].of]
      BY <2>2
    <3>2. t \in [1 .. Len(s) -> Ops] /\ \A i \in 1 .. Len(s) : t[i] = s[i].of
      BY <2>6, <3>1
    <3>3. t \in Seq(Ops)
      BY <2>5, <3>2, SeqDef
    <3>4. Len(t) = Len(s)
      BY <2>5, <3>2, <3>3, LenProperties
    <3> QED
      BY <3>2, <3>3, <3>4
  <2>8. Ordered(e \o t, g)
    <3>1. e \in Seq(Ops) /\ s \in Seq(Items)
      BY <2>2
    <3>2. \A i \in 1 .. Len(s) : s[i].kind = "task"
      BY <2>5
    <3> QED
      BY <2>3, <2>4, <2>7, <3>1, <3>2, OrderedAll
  <2>9. Ordered(executed', failed' \cup refused')
    BY <1>7, <2>1, <2>2, <2>8 DEF Discard
  <2>10. ASSUME NEW op \in Waiting PROVE op[2] <= begun[op[1]]
    <3>1. PICK m \in 1 .. Len(s) : s[m] = Task(op)
      BY <2>1, <2>2, <2>10 DEF Waiting, Among
    <3> QED
      BY <2>3, <2>10, <3>1 DEF InTurn, Waiting
  <2> QED
    BY <2>1, <2>9, <2>10 DEF EffectsOK
<1> QED
  BY <1>3, <1>4, <1>5, <1>6, <1>7, NowDone

LEMMA PendStays ==
  ASSUME Types, Types', Going, PendOK, Pend' = Pend, Past \subseteq Past',
         \A op \in Waiting : op \in Done' => op \in Done,
         \A p \in Producers : begun[p] <= begun'[p],
         \A p \in AtFuture \ promise : p \in AtFuture' \ promise' /\ begun'[p] = begun[p],
         Leaving => Leaving'
  PROVE  PendOK'
<1>1. PICK s, b1, b2, l1, l2 :
        /\ s = Pend /\ b1 = begun /\ b2 = begun' /\ l1 = Leaving /\ l2 = Leaving'
        /\ s \in Seq(Items) /\ b1 \in [Producers -> Nat] /\ b2 \in [Producers -> Nat]
        /\ l1 \in BOOLEAN /\ l2 \in BOOLEAN
  <2>1. Pend \in Seq(Items) /\ begun \in [Producers -> Nat] /\ begun' \in [Producers -> Nat]
    BY PendType, Constants DEF Types
  <2> QED
    BY <2>1 DEF Leaving
<1>2. InTurn(s, Past, Done, b1, AtFuture, promise, l1)
  BY <1>1 DEF PendOK
<1>3. \A op \in Ops : op \in Done' /\ Among(s, op, Len(s)) => op \in Done
  BY <1>1 DEF Waiting
<1>4. InTurn(s, Past', Done', b2, AtFuture', promise', l2)
  <2>1. PICK P1, P2, D1, D2, f1, f2, r1, r2 :
          /\ P1 = Past /\ P2 = Past' /\ D1 = Done /\ D2 = Done' /\ f1 = AtFuture /\ f2 = AtFuture'
          /\ r1 = promise /\ r2 = promise'
    OBVIOUS
  <2>2. InTurn(s, P1, D1, b1, f1, r1, l1)
    BY <1>2, <2>1
  <2>3. \A op \in Ops : op \in D2 /\ Among(s, op, Len(s)) => op \in D1
    BY <1>3, <2>1
  <2>4. /\ P1 \subseteq P2 /\ \A p \in Producers : b1[p] <= b2[p]
        /\ \A p \in Producers : (p \in f1 \ r1) /\ (\E i \in 1 .. Len(s) : s[i] = Marker(p))
                                  => p \in f2 \ r2 /\ b2[p] = b1[p]
        /\ l1 => l2
    BY <1>1, <2>1
  <2>5. /\ s \in Seq(Items) /\ b1 \in [Producers -> Nat] /\ b2 \in [Producers -> Nat]
        /\ l1 \in BOOLEAN /\ l2 \in BOOLEAN
    BY <1>1
  <2>6. InTurn(s, P2, D2, b2, f2, r2, l2)
    BY <2>2, <2>3, <2>4, <2>5, InTurnKeeps
  <2> QED
    BY <2>1, <2>6
<1> QED
  BY <1>1, <1>4 DEF PendOK

LEMMA PendShrinks ==
  ASSUME Types, Types', Going, PendOK, Pend # <<>>, Pend' = Tail(Pend), Past \subseteq Past',
         begun' = begun, AtFuture' = AtFuture, Leaving => Leaving',
         \A op \in Ops : Pend[1] = Task(op) => op \in Past',
         \A op \in Ops : op \in Done' => op \in Done \/ Pend[1] = Task(op),
         \A p \in Producers : p \in promise' => p \in promise \/ Pend[1] = Marker(p)
  PROVE  PendOK'
<1>1. PICK s, b, l1, l2, P1, P2, D1, D2, f, r1, r2 :
        /\ s = Pend /\ b = begun /\ l1 = Leaving /\ l2 = Leaving'
        /\ P1 = Past /\ P2 = Past' /\ D1 = Done /\ D2 = Done' /\ f = AtFuture /\ r1 = promise
        /\ r2 = promise'
  OBVIOUS
<1>2. /\ s \in Seq(Items) /\ s # <<>> /\ b \in [Producers -> 0 .. MaxOps]
      /\ l1 \in BOOLEAN /\ l2 \in BOOLEAN
  BY <1>1, PendType DEF Types, Leaving
<1>3. InTurn(s, P1, D1, b, f, r1, l1)
  BY <1>1 DEF PendOK
<1>4. /\ P1 \subseteq P2 /\ (l1 => l2)
      /\ \A op \in Ops : s[1] = Task(op) => op \in P2
      /\ \A op \in Ops : op \in D2 => op \in D1 \/ s[1] = Task(op)
      /\ \A p \in Producers : p \in r2 => p \in r1 \/ s[1] = Marker(p)
  BY <1>1
<1>5. InTurn(Tail(s), P2, D2, b, f, r2, l2)
  BY <1>2, <1>3, <1>4, InTurnTail
<1> QED
  BY <1>1, <1>5 DEF PendOK

LEMMA NotLeaving ==
  ASSUME Control, NEW p \in Producers, pc[p] \in CallLocations, Kind(p) # "stop"
  PROVE  ~Leaving
BY DEF Control, LeavingOK, Leaving, CallLocations, At

LEMMA PendGrows ==
  ASSUME Types, Types', Control, Next, Going, PendOK, NEW p \in Producers, Push(p) \/ PublishSlot(p),
         Pend' = Append(Pend, item[p]), StopOK, PromiseOK, CallOrder(p)
  PROVE  PendOK'
<1>1. /\ CallStep(p) /\ pc[p] \in {"push", "filled"} /\ CallOK(p) /\ p \in Threads
      /\ begun' = begun /\ executed' = executed /\ failed' = failed /\ refused' = refused
      /\ promise' = promise /\ item[p] \in Items
      /\ Kind(p) \in {"task", "marker", "stop"} /\ (Kind(p) # "stop" => Op(p) \in Ops /\ begun[p] \in Nat)
  <2>1. CallStep(p) /\ pc[p] \in {"push", "filled"}
    BY DEF CallStep, Push, PublishSlot, At
  <2> QED
    BY <2>1, CallMoves DEF Push, PublishSlot, state, history, Types
<1>2. PICK s, x, b, l1, l2, P, D, f1, f2, r :
        /\ s = Pend /\ x = item[p] /\ b = begun /\ l1 = Leaving /\ l2 = Leaving'
        /\ P = Past /\ D = Done /\ f1 = AtFuture /\ f2 = AtFuture' /\ r = promise
  OBVIOUS
<1>3. /\ s \in Seq(Items) /\ x \in Items /\ b \in [Producers -> 0 .. MaxOps] /\ b \in [Producers -> Nat]
      /\ l1 \in BOOLEAN /\ l2 \in BOOLEAN
  <2>1. begun \in [Producers -> Nat]
    BY Constants DEF Types
  <2> QED
    BY <1>1, <1>2, <2>1, PendType DEF Types, Leaving
<1>4. InTurn(s, P, D, b, f1, r, l1) /\ (l1 => l2)
  BY <1>2, LeavingStays DEF PendOK
<1>5. InTurn(s, P, D, b, f1, r, l2)
  <2>1. \A q \in Producers : b[q] <= b[q]
    BY <1>3
  <2> QED
    BY <1>3, <1>4, <2>1, InTurnKeeps
<1>6. f1 \subseteq f2 /\ p \notin f1
  <2>1. \A q \in Producers : q # p => pc'[q] = pc[q]
    BY <1>1, OthersStay
  <2> QED
    BY <1>1, <1>2, <2>1 DEF AtFuture, At
<1>7. ASSUME NEW op \in Ops, x = Task(op)
      PROVE  /\ op \notin D /\ ~Among(s, op, Len(s)) /\ op[2] <= b[op[1]]
             /\ Ahead(P, s, op[1], op[2], Len(s))
  <2>1. Kind(p) = "task" /\ op = Op(p)
    <3>1. item[p] = Task(op)
      BY <1>2, <1>7
    <3>2. item[p].kind = "task" /\ item[p].of = op
      BY <3>1 DEF Task
    <3>3. item[p] = Task(Op(p))
      BY <1>1, <3>2 DEF Kind, CallOK, CallLocations
    <3>4. item[p].of = Op(p)
      BY <3>3 DEF Task
    <3> QED
      BY <3>2, <3>4 DEF Kind
  <2>2. op = Op(p) /\ op[1] = p /\ op[2] = begun[p]
    BY <2>1 DEF Op
  <2>3. InCall(p)
    BY <1>1, <2>1 DEF InCall, CallLocations
  <2>4. op \notin Done /\ op \notin Waiting /\ First(p, begun[p], Known)
    BY <2>2, <2>3 DEF CallOrder
  <2>5. ~Among(s, op, Len(s))
    BY <1>2, <2>4 DEF Waiting
  <2>6. Ahead(P, s, p, begun[p], Len(s))
    BY <1>2, <2>4 DEF Ahead, First, Known, Waiting
  <2>7. begun[p] <= begun[p]
    BY <1>1, <2>1
  <2> QED
    BY <1>2, <2>2, <2>4, <2>5, <2>6, <2>7
<1>8. ASSUME NEW q \in Producers, x = Marker(q)
      PROVE  q \in f2 \ r /\ q \notin f1 /\ Ahead(P, s, q, b[q], Len(s))
  <2>1. item[p].kind = "marker" /\ item[p].of = q
    <3>1. item[p] = Marker(q)
      BY <1>2, <1>8
    <3> QED
      BY <3>1 DEF Marker
  <2>2. Kind(p) = "marker" /\ q = p
    <3>1. item[p] = Marker(p)
      BY <1>1, <2>1 DEF Kind, CallOK, CallLocations
    <3>2. item[p].of = p
      BY <3>1 DEF Marker
    <3> QED
      BY <2>1, <3>2 DEF Kind
  <2>3. version \in Fast /\ ~Leaving
    <3>1. version \in Fast
      BY <1>1, <2>2 DEF CallOK, CallLocations, VersionsAt, Fast, At
    <3> QED
      BY <1>1, <2>2, <3>1, NotLeaving DEF CallLocations
  <2>4. ex_ptr_ = None
    BY <2>3 DEF Going, StopOK
  <2>5. p \notin promise
    BY <1>1, <2>3, <2>4 DEF PromiseOK
  <2>6. pc'[p] = "future"
    <3>1. AfterPush(p) = "future"
      BY <2>2, <2>3 DEF AfterPush, Fast
    <3> QED
      BY <1>1, <3>1 DEF Push, PublishSlot, Goto, Types
  <2>7. InCall(p)
    BY <1>1, <2>2 DEF InCall, CallLocations
  <2>8. First(p, begun[p], Known)
    BY <2>7 DEF CallOrder
  <2>9. Ahead(P, s, p, begun[p], Len(s))
    BY <1>1, <1>2, <2>2, <2>8 DEF Ahead, First, Known, Waiting
  <2> QED
    BY <1>2, <1>6, <2>2, <2>5, <2>6, <2>9 DEF AtFuture, At
<1>9. x = StopTask => l2
  <2>1. ASSUME x = StopTask PROVE Leaving
    <3>1. Kind(p) = "stop"
      BY <1>2, <2>1 DEF Kind, StopTask
    <3> QED
      BY <1>1, <3>1 DEF CallOK, Leaving
  <2> QED
    BY <1>2, <1>4, <2>1
<1>10. InTurn(Append(s, x), P, D, b, f2, r, l2)
  BY <1>3, <1>5, <1>6, <1>7, <1>8, <1>9, InTurnAppend
<1>11. Past' = Past /\ Done' = Done
  BY <1>1 DEF Past, Done
<1> QED
  BY <1>1, <1>2, <1>10, <1>11 DEF PendOK

\* A worker in turn.
LEMMA PendWorker ==
  ASSUME Types, Types', Control, Next, Sound', Around, PendOK, Going', version' = version, WorkerStep
  PROVE  PendOK'
<1>1. Going /\ (Leaving => Leaving') /\ Past \subseteq Past' /\ Done \subseteq Done'
  BY GoingBefore, LeavingStays, PastGrows, DoneCases DEF Around
<1>2. /\ begun' = begun /\ item[Worker] \in Items
      /\ \A q \in Producers : pc'[q] = pc[q] /\ item'[q] = item[q]
  BY WorkerMoves, Constants DEF Types
<1>3. AtFuture' = AtFuture
  BY <1>2 DEF AtFuture, At
<1>4. ASSUME ~Execute PROVE executed' = executed
  BY <1>4 DEF WorkerStep, PopTask, AdvanceTail, ReadSlot, ExecuteThrows, ReachMarker, ReachStop, Drop,
     FreeTensors, Uncount, LeaveLoop, history
<1>5. ASSUME ~ReachMarker PROVE promise' = promise
  BY <1>5 DEF WorkerStep, PopTask, AdvanceTail, ReadSlot, Execute, ExecuteThrows, ReachStop, Drop,
     FreeTensors, Uncount, LeaveLoop, state
<1>6. CASE ~Consumes
  <2>1. executed' = executed /\ promise' = promise
    BY <1>4, <1>5, <1>6 DEF Consumes
  <2>2. Pend' = Pend /\ Done' = Done
    BY <1>6, <2>1, PendOfWorker DEF Done
  <2>3. \A p \in Producers : begun[p] \in Nat /\ begun'[p] = begun[p]
    BY <1>2, Constants DEF Types
  <2>4. \A p \in Producers : begun[p] <= begun'[p]
    BY <2>3
  <2>5. \A p \in AtFuture \ promise : p \in AtFuture' \ promise' /\ begun'[p] = begun[p]
    BY <1>2, <1>3, <2>1
  <2> QED
    BY <1>1, <2>2, <2>4, <2>5, PendStays
<1>7. CASE Consumes
  <2>1. Pend # <<>> /\ Pend[1] = item[Worker] /\ Pend' = Tail(Pend)
    BY <1>7, PendOfWorker
  <2>2. ASSUME NEW op \in Ops, item[Worker] = Task(op) PROVE op \in Past'
    <3>1. Kind(Worker) = "task" /\ item[Worker].of = op
      BY <2>2 DEF Kind, Task
    <3>2. ~Drop
      BY WorkerMoves DEF Drop, Draining, Going, state
    <3>3. ~ReachMarker /\ ~ReachStop
      BY <3>1 DEF ReachMarker, ReachStop, Executing
    <3>4. CASE Execute
      <4>1. executed \in Seq(Ops) /\ executed' = Append(executed, op)
        BY <3>1, <3>4 DEF Execute, Types
      <4>2. Done' = Done \cup {op}
        BY <4>1, RangeAppend DEF Done
      <4> QED
        BY <4>2 DEF Past
    <3>5. CASE ExecuteThrows
      BY <3>1, <3>5 DEF ExecuteThrows, Past
    <3> QED
      BY <1>7, <3>2, <3>3, <3>4, <3>5 DEF Consumes
  <2>3. ASSUME NEW op \in Ops, op \in Done' PROVE op \in Done \/ item[Worker] = Task(op)
    <3>1. CASE Execute
      <4>1. item[Worker].of \in Ops /\ item[Worker] = Task(item[Worker].of)
        BY <1>2, <3>1, ItemFacts DEF Execute, Executing, Kind
      <4>2. Done' = Done \cup {item[Worker].of}
        BY <3>1, <4>1, RangeAppend DEF Execute, Done, Types
      <4> QED
        BY <2>3, <4>1, <4>2
    <3>2. CASE ~Execute
      BY <1>4, <2>3, <3>2 DEF Done
    <3> QED
      BY <3>1, <3>2
  <2>4. ASSUME NEW p \in Producers, p \in promise' PROVE p \in promise \/ item[Worker] = Marker(p)
    <3>1. CASE ReachMarker
      <4>1. item[Worker] = Marker(item[Worker].of) /\ promise' = promise \cup {item[Worker].of}
        BY <1>2, <3>1, ItemFacts DEF ReachMarker, Executing, Kind
      <4> QED
        BY <2>4, <4>1
    <3>2. CASE ~ReachMarker
      BY <1>5, <2>4, <3>2
    <3> QED
      BY <3>1, <3>2
  <2> QED
    BY <1>1, <1>2, <1>3, <2>1, <2>2, <2>3, <2>4, PendShrinks
<1> QED
  BY <1>6, <1>7

LEMMA PendCall ==
  ASSUME Types, Types', Control, Next, Sound', Around, PendOK, Going', version' = version,
         NEW p \in Producers, CallStep(p), CallOrder(p)
  PROVE  PendOK'
<1>1. /\ Going /\ (Leaving => Leaving') /\ Past \subseteq Past'
      /\ StopOK /\ PromiseOK /\ AloneOK /\ RingOK /\ FlushOK
  BY GoingBefore, LeavingStays, PastGrows DEF Around
<1>2. /\ p \in Threads /\ pc[p] \in CallLocations /\ CallOK(p) /\ begun' = begun
      /\ \A q \in Producers : q # p => pc'[q] = pc[q] /\ item'[q] = item[q]
      /\ Kind(p) # "stop" => Op(p) \in Ops
  BY CallMoves, OthersStay
<1>3. CASE Push(p) \/ PublishSlot(p)
  BY <1>1, <1>3, PendOfCall, PendGrows
<1>4. CASE FlushTaskThrows(p)
  BY <1>1, <1>4, NoFlushThrow
<1>5. CASE FlushTask(p)
  <2>1. /\ Pend = tasks_ /\ Pend # <<>> /\ Pend' = Tail(Pend) /\ version = "sync"
        /\ executed' = Append(executed, Head(tasks_).of) /\ promise' = promise /\ pc' = pc
        /\ tasks_ \in Seq(Items) /\ executed \in Seq(Ops)
    BY <1>1, <1>5, PendOfCall DEF FlushTask, Types
  <2>2. Pend[1] = Head(tasks_) /\ Pend[1] \in Items /\ 1 \in 1 .. Len(tasks_)
    BY <2>1
  <2>3. Pend[1].kind = "task"
    BY <2>1, <2>2 DEF Control, WorkerOK, Fast
  <2>4. Pend[1].of \in Ops /\ Pend[1] = Task(Pend[1].of)
    BY <2>2, <2>3, ItemFacts
  <2>5. Done' = Done \cup {Pend[1].of}
    BY <2>1, <2>2, <2>4, RangeAppend DEF Done
  <2>6. \A op \in Ops : Pend[1] = Task(op) => op = Pend[1].of
    BY DEF Task
  <2>7. \A op \in Ops : Pend[1] = Task(op) => op \in Past'
    BY <2>5, <2>6 DEF Past
  <2>8. \A op \in Ops : op \in Done' => op \in Done \/ Pend[1] = Task(op)
    BY <2>4, <2>5
  <2>9. AtFuture' = AtFuture
    BY <2>1 DEF AtFuture, At
  <2> QED
    BY <1>1, <1>2, <2>1, <2>7, <2>8, <2>9, PendShrinks
<1>6. CASE ~(Push(p) \/ PublishSlot(p) \/ FlushTaskThrows(p) \/ FlushTask(p))
  <2>1. Pend' = Pend
    BY <1>1, <1>6, PendOfCall
  <2>2. /\ OwnOperation(p) => promise' = promise \ {p} /\ executed' = Append(executed, Op(p))
        /\ ~OwnOperation(p) => promise' = promise /\ executed' = executed
    <3>1. OwnOperation(p) => promise' = promise \ {p} /\ executed' = Append(executed, Op(p))
      BY DEF OwnOperation
    <3>2. ~OwnOperation(p) => promise' = promise /\ executed' = executed
      BY <1>6 DEF CallStep, CheckException, Forget, Count, EnterRing, ReserveSlot, FillSlot, Spin,
         AwaitMarker, EnterFlush, Flushed, state, history
    <3> QED
      BY <3>1, <3>2
  <2>3. ASSUME NEW op \in Waiting, op \in Done' PROVE op \in Done
    <3>1. CASE OwnOperation(p)
      <4>1. pc[p] = "own"
        BY <3>1 DEF OwnOperation, At
      <4>2. Kind(p) # "stop"
        BY <1>2, <4>1 DEF CallOK, CallLocations, KindsAt
      <4>3. Op(p) \notin Waiting
        BY <1>1, <4>1, <4>2 DEF CallOrder, InCall, CallLocations
      <4>4. Done' = Done \cup {Op(p)}
        <5>1. executed \in Seq(Ops) /\ Op(p) \in Ops /\ executed' = Append(executed, Op(p))
          BY <1>2, <2>2, <3>1, <4>2 DEF Types
        <5>2. PICK o \in Ops : o = Op(p)
          BY <5>1
        <5> QED
          BY <5>1, <5>2, RangeAppend DEF Done
      <4> QED
        BY <2>3, <4>3, <4>4
    <3>2. CASE ~OwnOperation(p)
      BY <2>2, <2>3, <3>2 DEF Done
    <3> QED
      BY <3>1, <3>2
  <2>4. ASSUME NEW q \in Producers, q \in AtFuture, q \notin promise
        PROVE  q \in AtFuture' /\ q \notin promise'
    <3>1. q \notin promise'
      BY <2>2, <2>4
    <3>2. q # p
      <4>1. ASSUME q = p PROVE AwaitMarker(p)
        <5>1. pc[p] = "future"
          BY <2>4, <4>1 DEF AtFuture, At
        <5> QED
          BY <1>6, <5>1 DEF CallStep, OwnOperation, CheckException, Forget, Count, EnterRing, ReserveSlot,
             FillSlot, Spin, EnterFlush, Flushed, At
      <4> QED
        BY <2>4, <4>1 DEF AwaitMarker
    <3> QED
      BY <1>2, <2>4, <3>1, <3>2 DEF AtFuture, At
  <2>5. \A q \in Producers : begun[q] <= begun'[q]
    <3>1. \A q \in Producers : begun[q] \in Nat
      BY Constants DEF Types
    <3> QED
      BY <1>2, <3>1
  <2>6. \A q \in AtFuture \ promise : q \in AtFuture' \ promise' /\ begun'[q] = begun[q]
    BY <1>2, <2>4 DEF AtFuture
  <2> QED
    BY <1>1, <2>1, <2>3, <2>5, <2>6, PendStays
<1> QED
  BY <1>3, <1>4, <1>5, <1>6

LEMMA PendKept ==
  ASSUME Types, Types', Control, Next, Sound', Around, PendOK, \A p \in Producers : CallOrder(p)
  PROVE  PendOK'
<1> SUFFICES ASSUME Going' PROVE PendOK'
  BY DEF PendOK
<1>1. /\ version' = version /\ Going /\ (Leaving => Leaving') /\ Past \subseteq Past'
  BY SoundBefore, GoingBefore, LeavingStays, PastGrows DEF Around
<1>2. ASSUME Pend' = Pend, executed' = executed, promise' = promise,
             \A q \in Producers : begun[q] <= begun'[q],
             \A q \in AtFuture : pc'[q] = pc[q] /\ begun'[q] = begun[q]
      PROVE  PendOK'
  <2>1. Done' = Done
    BY <1>2 DEF Done
  <2>2. \A q \in AtFuture \ promise : q \in AtFuture' \ promise' /\ begun'[q] = begun[q]
    BY <1>2 DEF AtFuture, At
  <2> QED
    BY <1>1, <1>2, <2>1, <2>2, PendStays
<1>3. ASSUME NEW p \in Producers, CallStep(p) PROVE PendOK'
  BY <1>1, <1>3, PendCall
<1>4. ASSUME NEW p \in Producers, Discard(p) PROVE PendOK'
  <2>1. Pend' = <<>>
    BY <1>4, DiscardDoes
  <2>2. Len(Pend') = 0
    BY <2>1
  <2> QED
    BY <2>2 DEF PendOK, InTurn
<1>5. ASSUME NEW p \in Producers, Submit(p) \/ StepMarker(p) PROVE PendOK'
  <2>1. /\ CanUseAccThread /\ begun' = [begun EXCEPT ![p] = begun[p] + 1] /\ pc[p] = "idle"
        /\ \A q \in Producers : q # p => pc'[q] = pc[q] /\ begun'[q] = begun[q]
    BY <1>5, NotOnTheSpot, OthersStay DEF ProgramStep, Submit, StepMarker, Begin, At
  <2>2. executed' = executed /\ promise' = promise
    BY <1>5, <2>1 DEF Submit, StepMarker, history, state
  <2>3. ~\E q \in Producers : Discard(q)
    <3>1. ASSUME NEW q \in Producers, Discard(q) PROVE FALSE
      <4>1. begun' = begun /\ begun[p] \in Nat /\ begun'[p] = begun[p] + 1
        BY <2>1, <3>1, Constants DEF Discard, Types
      <4> QED
        BY <4>1
    <3> QED
      BY <3>1
  <2>4. Pend' = Pend
    BY <1>5, <2>3, PendOfProgram
  <2>5. \A q \in Producers : begun[q] <= begun'[q]
    <3>1. \A q \in Producers : begun[q] \in Nat
      BY Constants DEF Types
    <3> QED
      BY <2>1, <3>1 DEF Types
  <2>6. \A q \in AtFuture : pc'[q] = pc[q] /\ begun'[q] = begun[q]
    BY <2>1 DEF AtFuture, At
  <2> QED
    BY <1>2, <2>2, <2>4, <2>5, <2>6
<1>6. ASSUME WorkerStep PROVE PendOK'
  BY <1>1, <1>6, PendWorker
<1>7. ASSUME Exit \/ Join PROVE PendOK'
  <2>1. executed' = executed /\ promise' = promise /\ begun' = begun
    BY <1>7 DEF Exit, Join, history, state
  <2>2. ~\E q \in Producers : Discard(q)
    BY <1>7, Constants DEF Exit, Join, Discard, Goto, Types, At
  <2>3. Pend' = Pend
    BY <1>7, <2>2, PendOfProgram
  <2>4. \A q \in Producers : begun[q] <= begun'[q] /\ begun'[q] = begun[q]
    <3>1. \A q \in Producers : begun[q] \in Nat
      BY Constants DEF Types
    <3> QED
      BY <2>1, <3>1
  <2>5. \A q \in AtFuture : pc'[q] = pc[q]
    <3>1. pc[Main] # "future" /\ Main \in Producers
      BY <1>7, Constants DEF Exit, Join, At
    <3>2. \A q \in Producers : q # Main => pc'[q] = pc[q]
      BY <1>7, <3>1, OthersStay
    <3> QED
      BY <3>1, <3>2 DEF AtFuture, At
  <2> QED
    BY <1>2, <2>1, <2>3, <2>4, <2>5 DEF AtFuture
<1> QED
  BY <1>3, <1>4, <1>5, <1>6, <1>7, StepCases DEF ProgramStep

-----------------------------------------------------------------------------
(* The order of the calls.                                                 *)

\* Of a producer whose call does not move.
LEMMA OrderOthers ==
  ASSUME Types, Types', Control, Next, Sound', Around, PendOK, version' = version,
         NEW q \in Producers, CallOrder(q),
         pc'[q] = pc[q], item'[q] = item[q], begun'[q] = begun[q],
         ~OwnOperation(q), ~Push(q), ~PublishSlot(q),
         q \in promise' => q \in promise \/ (ReachMarker /\ item[Worker] = Marker(q))
  PROVE  CallOrder(q)'
<1>1. /\ StopOK /\ PromiseOK /\ AloneOK /\ RingOK /\ FlushOK /\ Past \subseteq Past'
      /\ q \in Threads /\ CallOK(q)
  BY PastGrows, Constants DEF Around, Control
<1>2. (InCall(q)' <=> InCall(q)) /\ Op(q)' = Op(q)
  BY DEF InCall, Kind, Op
<1>3. ASSUME InCall(q) PROVE Op(q) \notin Done' /\ (Going' => Op(q) \notin Waiting')
  <2>1. Op(q) \in Ops /\ Op(q) \notin Done /\ (Going => Op(q) \notin Waiting)
    <3>1. begun[q] > 0 /\ begun[q] \in 0 .. MaxOps
      BY <1>1, <1>3 DEF CallOK, InCall, CallLocations, VersionsAt, KindsAt, Types
    <3> QED
      BY <1>3, <3>1, Constants DEF CallOrder, Op, Ops
  <2>2. ASSUME NEW p \in Producers, Op(p) = Op(q) PROVE p = q
    BY <2>2 DEF Op
  <2>3. Op(q) \notin Done'
    BY <1>1, <2>1, <2>2, DoneCases
  <2>4. ASSUME Going', Op(q) \in Waiting' PROVE FALSE
    <3>1. PICK p \in Producers : (Push(p) \/ PublishSlot(p)) /\ item[p] = Task(Op(q))
      BY <1>1, <2>1, <2>4, WaitingCases, GoingBefore
    <3>2. CallStep(p) /\ CallOK(p) /\ pc[p] \in CallLocations
      BY <3>1, CallMoves DEF CallStep
    <3>3. item[p].kind = "task" /\ item[p].of = Op(q)
      BY <3>1 DEF Task
    <3>4. item[p] = Task(Op(p))
      BY <3>2, <3>3 DEF CallOK, Kind
    <3>5. item[p].of = Op(p)
      BY <3>4 DEF Task
    <3> QED
      BY <2>2, <3>1, <3>3, <3>5
  <2> QED
    BY <2>3, <2>4
<1>4. ASSUME Going' PROVE First(q, IF InCall(q) THEN begun[q] ELSE begun[q] + 1, Known')
  BY <1>1, <1>4, GoingBefore, KnownGrows DEF CallOrder, First
<1>5. ASSUME Waited(q)' PROVE First(q, begun[q], Past')
  <2>1. CASE Waited(q)
    BY <1>1, <2>1 DEF CallOrder, First
  <2>2. CASE ~Waited(q)
    <3>1. version \in Fast /\ ex_ptr_' = None => ex_ptr_ = None
      BY NotForgotten
    <3>2. pc[q] = "future" /\ q \in promise' /\ q \notin promise /\ (version \in Fast => ex_ptr_ = None)
      BY <1>5, <2>2, <3>1 DEF Waited, At
    <3>3. version \in Fast /\ Kind(q) # "stop"
      BY <1>1, <3>2 DEF CallOK, CallLocations, VersionsAt, KindsAt
    <3>4. ~Leaving
      BY <3>2, <3>3, NotLeaving DEF CallLocations
    <3>5. Going
      BY <1>1, <3>2, <3>3, <3>4 DEF StopOK, Going, Types
    <3>6. ReachMarker /\ item[Worker] = Marker(q)
      BY <3>2
    <3>7. First(q, begun[q], Past)
      BY <3>5, <3>6, WorkerInTurn DEF WorkerStep, Consumes
    <3> QED
      BY <1>1, <3>7 DEF First
  <2> QED
    BY <2>1, <2>2
<1> QED
  BY <1>2, <1>3, <1>4, <1>5 DEF CallOrder, First

LEMMA OrderBegin ==
  ASSUME Types, Types', Control, Next, Sound', Around, EffectsOK, PendOK, version' = version,
         NEW p \in Producers, CallOrder(p), Submit(p) \/ StepMarker(p)
  PROVE  CallOrder(p)'
<1>1. /\ CanUseAccThread /\ begun' = [begun EXCEPT ![p] = begun[p] + 1] /\ pc[p] = "idle"
      /\ executed' = executed /\ p \in Threads /\ begun[p] \in Nat /\ begun'[p] = begun[p] + 1
      /\ begun'[p] \in 1 .. MaxOps
  <2>1. CanUseAccThread /\ begun' = [begun EXCEPT ![p] = begun[p] + 1] /\ pc[p] = "idle"
        /\ p \in Threads /\ begun[p] \in Nat
    <3>1. CanUseAccThread /\ begun' = [begun EXCEPT ![p] = begun[p] + 1]
      BY NotOnTheSpot
    <3>2. pc[p] = "idle"
      BY DEF Submit, StepMarker, Begin, At
    <3> QED
      BY <3>1, <3>2, Constants DEF Types
  <2>2. executed' = executed
    BY <2>1 DEF Submit, StepMarker, history
  <2>3. begun'[p] = begun[p] + 1 /\ begun'[p] \in 0 .. MaxOps
    BY <2>1 DEF Types
  <2> QED
    BY <2>1, <2>2, <2>3, Constants
<1>2. /\ pc'[p] \in {"push", "check", "enter", "spin"}
      /\ item'[p].kind \in {"task", "marker"}
  <2>1. CASE Submit(p)
    BY <1>1, <2>1 DEF Submit, Goto, Hold, Task, Types
  <2>2. CASE StepMarker(p)
    <3>1. \E loc \in {"check", "enter", "spin"} : Goto(p, loc)
      BY <1>1, <2>2 DEF StepMarker
    <3> QED
      BY <1>1, <2>2, <3>1 DEF StepMarker, Goto, Hold, Marker, Types
  <2> QED
    BY <2>1, <2>2
<1>3. Pend' = Pend
  <2>1. ~\E q \in Producers : Discard(q)
    <3>1. ASSUME NEW q \in Producers, Discard(q) PROVE FALSE
      BY <1>1, <3>1 DEF Discard
    <3> QED
      BY <3>1
  <2> QED
    BY <2>1, PendOfProgram
<1>4. /\ Waiting' = Waiting /\ Done' = Done /\ Past \subseteq Past' /\ Known \subseteq Known'
      /\ Going' => Going
  BY <1>1, <1>3, WaitingSame, PastGrows, GoingBefore DEF Done, Known, Around
<1>5. PICK op \in Ops : op = <<p, begun[p] + 1>>
  BY <1>1 DEF Ops
<1>6. Op(p)' = op /\ op[1] = p /\ op[2] = begun[p] + 1
  BY <1>1, <1>5 DEF Op
<1>7. op \notin Done
  <2>1. ~(begun[p] + 1 <= begun[p])
    BY <1>1
  <2> QED
    BY <1>6, <2>1 DEF EffectsOK
<1>8. ASSUME Going, op \in Waiting PROVE FALSE
  <2>1. PICK m \in 1 .. Len(Pend) : Pend[m] = Task(op)
    BY <1>8 DEF Waiting, Among
  <2>2. op[2] <= begun[op[1]]
    BY <1>8, <2>1 DEF PendOK, InTurn
  <2> QED
    BY <1>1, <1>6, <2>2
<1>9. InCall(p)' /\ ~Waited(p)'
  BY <1>2 DEF InCall, Kind, Waited, CallLocations, At
<1>10. Going' => First(p, begun'[p], Known')
  <2>1. ~InCall(p)
    BY <1>1 DEF InCall, CallLocations
  <2>2. Going => First(p, begun[p] + 1, Known)
    BY <2>1 DEF CallOrder
  <2> QED
    BY <1>1, <1>4, <2>2 DEF First
<1> QED
  BY <1>4, <1>6, <1>7, <1>8, <1>9, <1>10 DEF CallOrder, First

LEMMA FirstMore ==
  ASSUME NEW p, NEW k \in Nat, NEW X, First(p, k, X), <<p, k>> \in X
  PROVE  First(p, k + 1, X)
<1>1. \A j \in 1 .. k + 1 - 1 : j \in 1 .. k - 1 \/ j = k
  OBVIOUS
<1> QED
  BY <1>1 DEF First

LEMMA OrderEnds ==
  ASSUME Types, Types', Control, Next, Sound', Around, PendOK, version' = version,
         NEW p \in Producers, CallOrder(p), CallStep(p), Ends(p)
  PROVE  CallOrder(p)'
<1>1. /\ p \in Threads /\ begun' = begun /\ begun[p] \in Nat /\ Kind(p) \in {"task", "marker", "stop"}
      /\ Kind(p) # "stop" => Op(p) \in Ops
      /\ pc'[p] \in {"idle", "ended"} /\ item'[p] = Nothing /\ item[p] # Nothing
  <2>1. /\ p \in Threads /\ begun' = begun /\ Kind(p) \in {"task", "marker", "stop"}
        /\ Kind(p) # "stop" => Op(p) \in Ops
    BY CallMoves
  <2>2. pc'[p] \in {"idle", "ended"} /\ item'[p] = Nothing
    BY <2>1 DEF Ends, Types
  <2> QED
    BY <2>1, <2>2, Constants DEF Types, Kind, Nothing
<1>2. ~InCall(p)' /\ ~Waited(p)'
  BY <1>1 DEF InCall, Waited, CallLocations, At
<1>3. OwnOperation(p) \/ Throw(p)
  BY <1>1 DEF CallStep, CheckException, Forget, Push, Count, EnterRing, ReserveSlot, FillSlot,
     PublishSlot, Spin, AwaitMarker, EnterFlush, FlushTask, FlushTaskThrows, Flushed
<1>4. ASSUME Kind(p) # "stop" PROVE Op(p) \in Past'
  <2>1. CASE OwnOperation(p)
    <3>1. PICK o \in Ops : o = Op(p)
      BY <1>1, <1>4
    <3>2. executed \in Seq(Ops) /\ executed' = Append(executed, o)
      BY <2>1, <3>1 DEF OwnOperation, Types
    <3>3. Done' = Done \cup {o}
      BY <3>2, RangeAppend DEF Done
    <3> QED
      BY <3>1, <3>3 DEF Past
  <2>2. CASE Throw(p)
    BY <1>4, <2>2 DEF Throw, Past
  <2> QED
    BY <1>3, <2>1, <2>2
<1>5. ASSUME Going' PROVE First(p, begun[p] + 1, Known')
  <2>1. Going /\ Known \subseteq Known'
    BY <1>5, GoingBefore, KnownGrows DEF Around
  <2>2. CASE InCall(p)
    <3>1. First(p, begun[p], Known')
      BY <2>1, <2>2 DEF CallOrder, First
    <3>2. <<p, begun[p]>> \in Known'
      BY <1>4, <2>2 DEF InCall, Known, Op
    <3> QED
      BY <1>1, <3>1, <3>2, FirstMore
  <2>3. CASE ~InCall(p)
    BY <2>1, <2>3 DEF CallOrder, First
  <2> QED
    BY <2>2, <2>3
<1> QED
  BY <1>1, <1>2, <1>5 DEF CallOrder, First

\* A call that waited until nothing was left to do.
LEMMA NothingWaits ==
  ASSUME Types, Types', Control, CountOK, AloneOK, StopOK, NEW p \in Producers, Spin(p) \/ Flushed(p)
  PROVE  Waiting = {} /\ Going
<1>1. /\ CallStep(p) /\ p \in Threads /\ CallOK(p) /\ pc[p] \in {"spin", "flush"}
  BY CallMoves DEF CallStep, Spin, Flushed, At
<1>2. /\ At(p, "spin") => version = "counted"
      /\ At(p, "flush") => version = "sync"
      /\ Kind(p) = "marker"
  BY <1>1 DEF CallOK, VersionsAt, KindsAt, CallLocations, At
<1>3. CASE Flushed(p)
  <2>1. tasks_ = <<>> /\ version = "sync"
    BY <1>2, <1>3 DEF Flushed
  <2>2. pc[Worker] = "exited"
    BY <2>1 DEF Control, WorkerOK, At
  <2>3. InHand = <<>> /\ Queue = <<>>
    BY <2>1, <2>2 DEF InHand, Queue, At
  <2>4. Len(Pend) = 0
    BY <2>3, PendType
  <2> QED
    BY <2>1, <2>4 DEF Waiting, Among, Going, Fast
<1>4. CASE Spin(p)
  <2>1. task_count_ = 0 /\ version = "counted" /\ pc[p] = "spin"
    BY <1>2, <1>4 DEF Spin, At
  <2>2. ~Leaving
    BY <1>1, <1>2, <2>1, NotLeaving DEF CallLocations
  <2>3. ~At(Worker, "exited")
    BY <2>1, <2>2 DEF StopOK
  <2>4. AtCount = {}
    BY <1>1, <2>1, OthersIdle DEF AtCount, At
  <2>5. Cardinality(AtCount) = 0
    BY <2>4, FS_EmptySet
  <2>6. 0 = Len(tasks_) + Busy /\ Len(tasks_) \in Nat /\ Busy \in {0, 1}
    BY <2>1, <2>3, <2>5 DEF CountOK, Busy, Types
  <2>7. tasks_ = <<>> /\ Busy = 0
    BY <2>6 DEF Types
  <2>8. pc[Worker] \notin {"execute", "read"}
    BY <2>1, <2>7 DEF Busy, Control, WorkerOK, At
  <2>9. InHand = <<>> /\ Queue = <<>>
    BY <2>1, <2>7, <2>8 DEF InHand, Queue, At
  <2>10. Len(Pend) = 0
    BY <2>9, PendType
  <2> QED
    BY <2>1, <2>10 DEF Waiting, Among, Going, Fast
<1> QED
  BY <1>3, <1>4

\* A call has waited when it had before, or when nothing was left to do.
LEMMA WaitedCases ==
  ASSUME Types, Types', Control, Next, Sound', Around, version' = version,
         NEW p \in Producers, CallStep(p), Advances(p), Waited(p)'
  PROVE  Waited(p) \/ ((Spin(p) \/ Flushed(p)) /\ InCall(p))
<1>1. /\ p \in Threads /\ pc[p] \in CallLocations /\ CallOK(p)
      /\ version \in Fast /\ ex_ptr_' = None => ex_ptr_ = None
  BY CallMoves, NotForgotten
<1>2. \/ pc'[p] = "own"
      \/ /\ pc'[p] \in {"last check", "last forget"} \/ (pc'[p] = "future" /\ p \in promise')
         /\ version \in Fast => ex_ptr_ = None
  BY <1>1 DEF Waited, At
<1>3. CASE pc[p] \in {"spin", "flush"}
  <2>1. Kind(p) = "marker" /\ pc'[p] \notin {"spin", "flush"}
    BY <1>1, <1>2, <1>3 DEF CallOK, KindsAt, CallLocations
  <2>2. Spin(p) \/ Flushed(p)
    <3>1. Spin(p) \/ Flushed(p) \/ FlushTask(p) \/ FlushTaskThrows(p)
      BY <1>3 DEF CallStep, OwnOperation, CheckException, Forget, Push, Count, EnterRing,
         ReserveSlot, FillSlot, PublishSlot, AwaitMarker, EnterFlush, At
    <3>2. ~FlushTask(p)
      BY <1>3, <2>1 DEF FlushTask
    <3>3. ~FlushTaskThrows(p)
      BY <1>1, <1>2 DEF FlushTaskThrows, Throw, Goto, Types
    <3> QED
      BY <3>1, <3>2, <3>3
  <2> QED
    BY <1>3, <2>1, <2>2 DEF InCall, CallLocations
<1>4. CASE pc[p] = "future"
  <2>1. AwaitMarker(p)
    BY <1>4 DEF CallStep, OwnOperation, CheckException, Forget, Push, Count, EnterRing,
       ReserveSlot, FillSlot, PublishSlot, Spin, EnterFlush, FlushTask, FlushTaskThrows, Flushed, At
  <2> QED
    BY <1>1, <1>2, <1>4, <2>1 DEF AwaitMarker, Waited, Goto, At, Types
<1>5. CASE pc[p] = "last check"
  <2>1. CheckException(p)
    BY <1>5 DEF CallStep, OwnOperation, Forget, Push, Count, EnterRing,
       ReserveSlot, FillSlot, PublishSlot, Spin, AwaitMarker, EnterFlush, FlushTask, FlushTaskThrows,
       Flushed, At
  <2>2. version \in Fast => pc'[p] = "last forget"
    BY <1>2, <1>5 DEF Advances, Fast
  <2> QED
    BY <1>2, <1>5, <2>2 DEF Waited, At
<1>6. CASE pc[p] = "last forget"
  <2>1. Forget(p) /\ version \in Fast
    BY <1>1, <1>6 DEF CallStep, OwnOperation, CheckException, Push, Count, EnterRing,
       ReserveSlot, FillSlot, PublishSlot, Spin, AwaitMarker, EnterFlush, FlushTask, FlushTaskThrows,
       Flushed, CallOK, VersionsAt, CallLocations, At
  <2>2. ex_ptr_' = None
    BY <2>1 DEF Forget
  <2> QED
    BY <1>1, <1>6, <2>1, <2>2 DEF Waited, At
<1>7. CASE pc[p] \in {"push", "filled"}
  <2>1. Kind(p) = "marker" /\ pc'[p] = "future"
    BY <1>2, <1>7 DEF Advances
  <2>2. version \in Fast
    BY <1>1, <1>7, <2>1 DEF CallOK, VersionsAt, CallLocations, Fast, At
  <2>3. ~Leaving
    BY <1>1, <2>1, NotLeaving
  <2>4. promise' = promise
    BY <1>7 DEF CallStep, OwnOperation, CheckException, Forget, Push, Count, EnterRing,
       ReserveSlot, FillSlot, PublishSlot, Spin, AwaitMarker, EnterFlush, FlushTask, FlushTaskThrows,
       Flushed, state, At
  <2> QED
    BY <1>2, <1>7, <2>1, <2>2, <2>3, <2>4 DEF Around, PromiseOK
<1>8. CASE pc[p] \notin {"spin", "flush", "future", "last check", "last forget", "push", "filled"}
  BY <1>2, <1>8 DEF Advances
<1> QED
  BY <1>3, <1>4, <1>5, <1>6, <1>7, <1>8

LEMMA OrderAdvances ==
  ASSUME Types, Types', Control, CountOK, Next, Sound', Around, PendOK, version' = version,
         NEW p \in Producers, CallOrder(p), CallStep(p), Advances(p)
  PROVE  CallOrder(p)'
<1>1. /\ StopOK /\ PromiseOK /\ AloneOK /\ RingOK /\ FlushOK /\ Past \subseteq Past'
      /\ p \in Threads /\ CallOK(p) /\ pc[p] \in CallLocations /\ begun' = begun /\ begun[p] \in Nat
      /\ item'[p] = item[p] /\ (Kind(p) # "stop" => Op(p) \in Ops)
      /\ Kind(p) \in {"task", "marker", "stop"}
  <2>1. StopOK /\ PromiseOK /\ AloneOK /\ RingOK /\ FlushOK
    BY DEF Around
  <2>2. Past \subseteq Past'
    BY <2>1, PastGrows
  <2>3. item'[p] = item[p] /\ begun[p] \in Nat
    <3>1. item' = item
      BY DEF Advances
    <3>2. begun[p] \in Nat
      BY Constants DEF Types
    <3> QED
      BY <3>1, <3>2
  <2> QED
    BY <2>1, <2>2, <2>3, CallMoves
<1>2. Op(p)' = Op(p) /\ Kind(p)' = Kind(p) /\ (InCall(p)' => InCall(p))
  <2>1. Op(p)' = Op(p) /\ Kind(p)' = Kind(p)
    BY <1>1 DEF Op, Kind
  <2>2. ASSUME InCall(p)' PROVE InCall(p)
    BY <1>1, <2>1, <2>2 DEF InCall, Advances, CallLocations
  <2> QED
    BY <2>1, <2>2
<1>3. ~OwnOperation(p)
  <2>1. ASSUME OwnOperation(p) PROVE FALSE
    BY <1>1, <2>1, Constants DEF OwnOperation, Hold, Nothing, Kind, Types
  <2> QED
    BY <2>1
<1>4. Going' => Going /\ Known \subseteq Known'
  BY <1>1, GoingBefore, KnownGrows
<1>5. ASSUME InCall(p)' PROVE Op(p) \notin Done' /\ (Going' => Op(p) \notin Waiting')
  <2>1. Op(p) \in Ops /\ Op(p) \notin Done /\ (Going => Op(p) \notin Waiting)
    BY <1>1, <1>2, <1>5 DEF CallOrder, InCall
  <2>2. ASSUME NEW q \in Producers, Op(q) = Op(p) PROVE q = p
    BY <2>2 DEF Op
  <2>3. Op(p) \notin Done'
    BY <1>1, <1>3, <2>1, <2>2, DoneCases
  <2>4. ASSUME Going', Op(p) \in Waiting' PROVE FALSE
    <3>1. PICK q \in Producers : (Push(q) \/ PublishSlot(q)) /\ item[q] = Task(Op(p))
      BY <1>1, <1>4, <2>1, <2>4, WaitingCases
    <3>2. CallStep(q) /\ CallOK(q) /\ pc[q] \in CallLocations
      BY <3>1, CallMoves DEF CallStep
    <3>3. item[q].kind = "task" /\ item[q].of = Op(p)
      BY <3>1 DEF Task
    <3>4. item[q] = Task(Op(q))
      BY <3>2, <3>3 DEF CallOK, Kind
    <3>5. item[q].of = Op(q)
      BY <3>4 DEF Task
    <3>6. q = p
      BY <2>2, <3>3, <3>5
    <3>7. AfterPush(p) \in {"count", "idle"}
      BY <3>3, <3>6 DEF AfterPush, Kind
    <3>8. pc'[p] \in {"count", "idle"}
      BY <1>1, <3>1, <3>6, <3>7 DEF Push, PublishSlot, Goto, Types
    <3> QED
      BY <1>5, <3>8 DEF InCall, CallLocations
  <2> QED
    BY <2>3, <2>4
<1>6. ASSUME Going' PROVE First(p, IF InCall(p)' THEN begun[p] ELSE begun[p] + 1, Known')
  <2>1. CASE InCall(p)'
    BY <1>2, <1>4, <1>6, <2>1 DEF CallOrder, First
  <2>2. CASE ~InCall(p)
    BY <1>2, <1>4, <1>6, <2>2 DEF CallOrder, First
  <2>3. CASE InCall(p) /\ ~InCall(p)'
    <3>1. /\ pc[p] \in {"push", "filled"} /\ Kind(p) = "task" /\ pc'[p] \in {"count", "idle"}
      BY <1>2, <2>3 DEF InCall, Advances, CallLocations
    <3>2. Push(p) \/ PublishSlot(p)
      <4>1. Push(p) \/ PublishSlot(p) \/ EnterRing(p)
        BY <3>1 DEF CallStep, OwnOperation, CheckException, Forget, Count, ReserveSlot, FillSlot,
           Spin, AwaitMarker, EnterFlush, FlushTask, FlushTaskThrows, Flushed, At
      <4>2. ASSUME EnterRing(p) PROVE FALSE
        <5>1. CASE Throw(p)
          BY <1>1, <5>1, Constants DEF Throw, Hold, Nothing, Kind, Types
        <5>2. CASE Goto(p, "entered")
          BY <1>1, <3>1, <5>2 DEF Goto, Types
        <5> QED
          BY <4>2, <5>1, <5>2 DEF EnterRing
      <4> QED
        BY <4>1, <4>2
    <3>3. Pend' = Append(Pend, item[p]) /\ item[p] \in Items /\ item[p] = Task(Op(p))
      BY <1>1, <3>1, <3>2, PendOfCall DEF CallOK, Types
    <3>4. Op(p) \in Waiting'
      BY <1>1, <3>1, <3>3, WaitingAppend
    <3>5. First(p, begun[p], Known')
      BY <1>4, <1>6, <2>3 DEF CallOrder, First
    <3>6. <<p, begun[p]>> \in Known'
      BY <3>4 DEF Known, Op
    <3> QED
      BY <1>1, <2>3, <3>5, <3>6, FirstMore
  <2> QED
    BY <2>1, <2>2, <2>3
<1>7. ASSUME Waited(p)' PROVE First(p, begun[p], Past')
  <2>1. CASE Waited(p)
    BY <1>1, <2>1 DEF CallOrder, First
  <2>2. CASE (Spin(p) \/ Flushed(p)) /\ InCall(p)
    <3>1. Waiting = {} /\ Going
      BY <1>1, <2>2, NothingWaits
    <3>2. First(p, begun[p], Known)
      BY <2>2, <3>1 DEF CallOrder
    <3> QED
      BY <1>1, <3>1, <3>2 DEF First, Known
  <2> QED
    BY <1>7, <2>1, <2>2, WaitedCases
<1> QED
  BY <1>1, <1>2, <1>5, <1>6, <1>7 DEF CallOrder, First

LEMMA OrderKept ==
  ASSUME Types, Types', Control, CountOK, Next, Sound', Around, EffectsOK, PendOK,
         \A p \in Producers : CallOrder(p), NEW q \in Producers
  PROVE  CallOrder(q)'
<1>1. version' = version /\ CallOrder(q)
  BY SoundBefore
<1>2. ASSUME pc'[q] = pc[q], item'[q] = item[q], begun'[q] = begun[q],
             ~OwnOperation(q), ~Push(q), ~PublishSlot(q),
             promise' \subseteq promise
      PROVE  CallOrder(q)'
  BY <1>1, <1>2, OrderOthers
<1>3. ASSUME NEW p \in Producers, CallStep(p) PROVE CallOrder(q)'
  <2>1. CASE p = q
    BY <1>1, <1>3, <2>1, CallControl, OrderEnds, OrderAdvances
  <2>2. CASE p # q
    <3>1. pc'[q] = pc[q] /\ item'[q] = item[q] /\ begun'[q] = begun[q]
      BY <1>3, <2>2, OthersStay
    <3>2. promise' \subseteq promise
      BY <1>3 DEF CallStep, OwnOperation, CheckException, Forget, Push, Count, EnterRing, ReserveSlot,
         FillSlot, PublishSlot, Spin, AwaitMarker, EnterFlush, FlushTask, FlushTaskThrows, Flushed, state
    <3>3. ~OwnOperation(q) /\ ~Push(q) /\ ~PublishSlot(q)
      <4>1. /\ OwnOperation(q) => \E loc \in {"idle"} : At(q, "own") /\ Goto(q, loc)
            /\ Push(q) => At(q, "push") /\ Goto(q, AfterPush(q))
            /\ PublishSlot(q) => At(q, "filled") /\ Goto(q, AfterPush(q))
        BY DEF OwnOperation, Push, PublishSlot
      <4>2. AfterPush(q) \notin {"push", "filled"}
        BY DEF AfterPush
      <4>3. q \in Threads /\ pc \in [Threads -> {"idle", "ended"} \cup CallLocations \cup WorkerLocations]
        BY Constants DEF Types
      <4> QED
        BY <3>1, <4>1, <4>2, <4>3 DEF Goto, At
    <3> QED
      BY <1>2, <3>1, <3>2, <3>3
  <2> QED
    BY <2>1, <2>2
<1>4. ASSUME UNCHANGED <<pc, item, begun, promise>> PROVE CallOrder(q)'
  <2>1. ~OwnOperation(q) /\ ~Push(q) /\ ~PublishSlot(q)
    <3>1. ASSUME Push(q) \/ PublishSlot(q) PROVE FALSE
      <4>1. pc[q] \in {"push", "filled"} /\ pc'[q] = AfterPush(q)
        BY <3>1, Constants DEF Push, PublishSlot, Goto, At, Types
      <4>2. AfterPush(q) \notin {"push", "filled"}
        BY DEF AfterPush
      <4> QED
        BY <1>4, <4>1, <4>2
    <3>2. ASSUME OwnOperation(q) PROVE FALSE
      BY <1>4, <3>2, Constants DEF OwnOperation, Goto, At, Types
    <3> QED
      BY <3>1, <3>2
  <2> QED
    BY <1>2, <1>4, <2>1
<1>5. ASSUME NEW p \in Producers, Discard(p) PROVE CallOrder(q)'
  BY <1>4, <1>5 DEF Discard, state
<1>6. ASSUME NEW p \in Producers, Submit(p) \/ StepMarker(p) PROVE CallOrder(q)'
  <2>1. CASE p = q
    BY <1>1, <1>6, <2>1, OrderBegin
  <2>2. CASE p # q
    <3>1. pc'[q] = pc[q] /\ item'[q] = item[q] /\ begun'[q] = begun[q]
      BY <1>6, <2>2, OthersStay DEF ProgramStep
    <3>2. promise' = promise /\ begun' # begun /\ pc[p] = "idle"
      <4>1. begun' = [begun EXCEPT ![p] = begun[p] + 1] /\ begun[p] \in Nat /\ pc[p] = "idle"
        BY <1>6, Constants DEF Submit, StepMarker, Begin, At, Types
      <4>2. begun'[p] = begun[p] + 1
        BY <4>1 DEF Types
      <4> QED
        BY <1>6, <4>1, <4>2 DEF Submit, StepMarker, state
    <3>3. ~OwnOperation(q) /\ ~Push(q) /\ ~PublishSlot(q)
      BY <3>2 DEF OwnOperation, Push, PublishSlot
    <3> QED
      BY <1>2, <3>1, <3>2, <3>3
  <2> QED
    BY <2>1, <2>2
<1>7. ASSUME WorkerStep PROVE CallOrder(q)'
  <2>1. pc'[q] = pc[q] /\ item'[q] = item[q] /\ begun'[q] = begun[q]
    BY <1>7, WorkerMoves
  <2>2. q \in promise' => q \in promise \/ (ReachMarker /\ item[Worker] = Marker(q))
    <3>1. CASE ReachMarker
      <4>1. item[Worker] \in Items /\ item[Worker] = Marker(item[Worker].of)
            /\ promise' = promise \cup {item[Worker].of}
        BY <3>1, Constants, ItemFacts DEF ReachMarker, Executing, Kind, Types
      <4> QED
        BY <3>1, <4>1
    <3>2. CASE ~ReachMarker
      BY <1>7, <3>2 DEF WorkerStep, PopTask, AdvanceTail, ReadSlot, Execute, ExecuteThrows,
         ReachStop, Drop, FreeTensors, Uncount, LeaveLoop, state
    <3> QED
      BY <3>1, <3>2
  <2>3. ~OwnOperation(q) /\ ~Push(q) /\ ~PublishSlot(q)
    <3>1. ASSUME Push(q) \/ PublishSlot(q) PROVE FALSE
      <4>1. pc[q] \in {"push", "filled"} /\ pc'[q] = AfterPush(q)
        BY <3>1, Constants DEF Push, PublishSlot, Goto, At, Types
      <4>2. AfterPush(q) \notin {"push", "filled"}
        BY DEF AfterPush
      <4> QED
        BY <2>1, <4>1, <4>2
    <3>2. ASSUME OwnOperation(q) PROVE FALSE
      <4>1. pc[q] = "own" /\ pc'[q] = "idle"
        BY <3>2, Constants DEF OwnOperation, Goto, At, Types
      <4> QED
        BY <2>1, <4>1
    <3> QED
      BY <3>1, <3>2
  <2> QED
    BY <1>1, <2>1, <2>2, <2>3, OrderOthers
<1>8. ASSUME Exit \/ Join PROVE CallOrder(q)'
  <2>1. /\ executed' = executed /\ promise' = promise /\ begun' = begun /\ q \in Threads
        /\ Control /\ Main \in Producers
    BY <1>8, Constants DEF Exit, Join, state, history
  <2>2. ~OwnOperation(q) /\ ~Push(q) /\ ~PublishSlot(q)
    <3>1. ASSUME Exit PROVE ~OwnOperation(q) /\ ~Push(q) /\ ~PublishSlot(q)
      BY <3>1 DEF Exit, OwnOperation, Push, PublishSlot, At
    <3>2. ASSUME Join PROVE ~OwnOperation(q) /\ ~Push(q) /\ ~PublishSlot(q)
      <4>1. pc[Main] = "join" /\ pc'[Main] = "ended"
        BY <3>2, Constants DEF Join, Goto, At, Types
      <4>2. ASSUME OwnOperation(q) \/ Push(q) \/ PublishSlot(q) PROVE FALSE
        <5>1. CallStep(q) /\ pc[q] \in {"own", "push", "filled"}
          BY <4>2 DEF CallStep, OwnOperation, Push, PublishSlot, At
        <5>2. pc'[Main] = pc[Main]
          BY <4>1, <5>1, Constants, OthersStay
        <5> QED
          BY <4>1, <5>2
      <4> QED
        BY <4>2
    <3> QED
      BY <1>8, <3>1, <3>2
  <2>3. CASE q # Main
    BY <1>2, <1>8, <2>1, <2>2, <2>3, OthersStay
  <2>4. CASE q = Main
    <3>1. ~InCall(q) /\ ~InCall(q)' /\ ~Waited(q)'
      <4>1. CASE Exit
        BY <2>1, <2>4, <4>1 DEF Exit, InCall, Waited, Goto, Hold, StopTask, Kind, CallLocations, Fast, At, Types
      <4>2. CASE Join
        BY <2>1, <2>4, <4>2 DEF Join, InCall, Waited, Goto, CallLocations, At, Types
      <4> QED
        BY <1>8, <4>1, <4>2
    <3>2. ASSUME Going' PROVE First(q, begun[q] + 1, Known')
      <4>1. Going /\ Known \subseteq Known'
        BY <1>1, <3>2, GoingBefore, KnownGrows DEF Around
      <4> QED
        BY <1>1, <3>1, <4>1 DEF CallOrder, First
    <3> QED
      BY <2>1, <3>1, <3>2 DEF CallOrder, First
  <2> QED
    BY <2>3, <2>4
<1> QED
  BY <1>3, <1>5, <1>6, <1>7, <1>8, StepCases DEF ProgramStep

-----------------------------------------------------------------------------
(* Operations take effect once and in the order of the program.            *)

LEMMA OrderInit ==
  ASSUME Types, Init
  PROVE  OrderInv
<1>1. version \in Versions /\ Versions \subseteq {"sync", "counted", "blocking", "ring"}
  BY Constants DEF Types
<1>2. \A p \in Producers : pc[p] = "idle" /\ item[p] = Nothing /\ begun[p] = 0 /\ p # Worker
  BY Constants DEF Init, Threads
<1>3. pc[Worker] = IF version = "sync" THEN "exited" ELSE "loop"
  BY Constants DEF Init, Threads
<1>4. StopOK
  BY <1>1, <1>3 DEF StopOK, Init, At, Fast
<1>5. PromiseOK /\ AloneOK /\ RingOK /\ FlushOK
  BY <1>2 DEF PromiseOK, AloneOK, RingOK, FlushOK, Init, At
<1>6. Len(executed) = 0 /\ Done = {}
  BY DEF Init, Done
<1>7. EffectsOK
  BY <1>6 DEF EffectsOK, Ordered
<1>8. Len(Pend) = 0
  <2>1. InHand = <<>>
    BY <1>3 DEF InHand, At
  <2>2. CASE version = "ring"
    <3>1. RingLen = 0
      BY RingFacts DEF Init
    <3>2. Len(RingSeq) = 0
      BY <3>1, RingFacts
    <3> QED
      BY <2>1, <2>2, <3>2, PendType DEF Queue
  <2>3. CASE version # "ring"
    BY <2>1, <2>3, PendType DEF Queue, Init
  <2> QED
    BY <2>2, <2>3
<1>9. PendOK
  BY <1>8 DEF PendOK, InTurn
<1>10. ASSUME NEW p \in Producers PROVE CallOrder(p)
  <2>1. ~InCall(p) /\ ~Waited(p) /\ begun[p] = 0
    BY <1>2 DEF InCall, Waited, CallLocations, At
  <2> QED
    BY <2>1 DEF CallOrder, First
<1> QED
  BY <1>4, <1>5, <1>7, <1>9, <1>10 DEF OrderInv, Around

LEMMA OrderNext ==
  ASSUME Base, Base', OrderInv, Next
  PROVE  OrderInv'
<1> SUFFICES ASSUME Sound'
             PROVE  (Around /\ EffectsOK /\ PendOK /\ \A p \in Producers : CallOrder(p))'
  BY DEF OrderInv
<1>1. Types /\ Types' /\ Control /\ CountOK
  BY DEF Base
<1>2. Around /\ EffectsOK /\ PendOK /\ \A p \in Producers : CallOrder(p)
  BY <1>1, SoundBefore DEF OrderInv
<1>3. AloneOK /\ RingOK
  BY <1>2 DEF Around
<1>4. Around'
  BY <1>1, <1>2, AroundKept
<1>5. EffectsOK'
  BY <1>1, <1>2, <1>3, EffectsKept
<1>6. PendOK'
  BY <1>1, <1>2, PendKept
<1>7. ASSUME NEW p \in Producers PROVE CallOrder(p)'
  BY <1>1, <1>2, OrderKept
<1> QED
  BY <1>4, <1>5, <1>6, <1>7

LEMMA OrderStutters ==
  ASSUME Types, OrderInv, UNCHANGED vars
  PROVE  OrderInv'
<1>1. /\ Sound' <=> Sound
      /\ Pend' = Pend /\ Done' = Done /\ Past' = Past /\ AtFuture' = AtFuture
  BY DEF vars, ring, state, history, Sound, Alone, Wedged, Pend, InHand, Queue, RingSeq, RingLen, Slot,
     Done, Past, AtFuture, Kind, At
<1>2. /\ Going' <=> Going
      /\ Leaving' <=> Leaving
  BY DEF vars, state, Going, Leaving, Kind, At
<1>3. Waiting' = Waiting /\ Known' = Known
  BY <1>1, WaitingSame DEF Known
<1>4. StopOK' <=> StopOK
  BY <1>2 DEF vars, state, StopOK, At
<1>5. (PromiseOK' <=> PromiseOK) /\ (AloneOK' <=> AloneOK) /\ (FlushOK' <=> FlushOK)
  BY <1>2 DEF vars, state, PromiseOK, AloneOK, FlushOK, At
<1>6. RingOK' <=> RingOK
  BY DEF vars, ring, RingOK, Next_, At
<1>7. EffectsOK => EffectsOK'
  <2>1. executed' = executed /\ failed' = failed /\ refused' = refused /\ begun' = begun
    BY DEF vars, history
  <2> QED
    BY <1>1, <2>1 DEF EffectsOK
<1>8. PendOK => PendOK'
  <2>1. begun' = begun /\ promise' = promise
    BY DEF vars, state
  <2>2. CASE Leaving
    <3>1. Leaving' = TRUE /\ Leaving = TRUE
      BY <1>2, <2>2 DEF Leaving
    <3> QED
      BY <1>1, <1>2, <2>1, <3>1 DEF PendOK
  <2>3. CASE ~Leaving
    <3>1. Leaving' = FALSE /\ Leaving = FALSE
      BY <1>2, <2>3 DEF Leaving
    <3> QED
      BY <1>1, <1>2, <2>1, <3>1 DEF PendOK
  <2> QED
    BY <2>2, <2>3
<1>9. ASSUME NEW p \in Producers, CallOrder(p) PROVE CallOrder(p)'
  <2>1. begun' = begun /\ (InCall(p)' <=> InCall(p)) /\ Op(p)' = Op(p) /\ (Waited(p)' <=> Waited(p))
    BY DEF vars, state, InCall, Op, Waited, Kind, At
  <2> QED
    BY <1>1, <1>2, <1>3, <1>9, <2>1 DEF CallOrder, First
<1> QED
  BY <1>1, <1>4, <1>5, <1>6, <1>7, <1>8, <1>9 DEF OrderInv, Around

\* While the code keeps its promises (Sound), all that waits is in turn behind what
\* is done, what failed and what waits in front of it, every call is behind the
\* operations of its thread before it, and a wait that ends has waited for them
\* (push, waitWorkComplete, executePendingTask).
THEOREM OrderInvariant == Spec => [](Base /\ OrderInv)
<1>1. Init => Base /\ OrderInv
  BY BaseInit, OrderInit DEF Base
<1>2. Base /\ OrderInv /\ [Next]_vars => (Base /\ OrderInv)'
  <2> SUFFICES ASSUME Base, OrderInv, [Next]_vars PROVE Base' /\ OrderInv'
    OBVIOUS
  <2>1. Base'
    BY BaseNext
  <2>2. CASE Next
    BY <2>1, <2>2, OrderNext
  <2>3. CASE UNCHANGED vars
    BY <2>1, <2>3, OrderStutters DEF Base
  <2> QED
    BY <2>1, <2>2, <2>3
<1> QED
  BY <1>1, <1>2, PTL DEF Spec

\* Operations take effect once and in the order of the program, also those that are
\* done on the spot (run, StepMarker, executePendingTask), where the code keeps its
\* promises.
THEOREM EffectsInOrder == Spec => []InOrder
<1>1. Base /\ OrderInv => InOrder
  <2> SUFFICES ASSUME Types, Sound, EffectsOK, NEW n \in Indices
               PROVE  LET Before == {executed[i] : i \in 1 .. n - 1} IN
                      /\ executed[n] \notin Before
                      /\ \A k \in 1 .. executed[n][2] - 1 :
                           <<executed[n][1], k>> \in Before \cup failed \cup refused
    BY DEF InOrder, Base, OrderInv, Sound
  <2>1. n \in 1 .. Len(executed)
    BY DEF Indices, Types
  <2>2. NewAt(executed, n) /\ InOrderAt(executed, failed \cup refused, n)
    BY <2>1 DEF EffectsOK, Ordered
  <2> QED
    BY <2>2 DEF NewAt, InOrderAt, HeldBefore
<1> QED
  BY <1>1, OrderInvariant, PTL
=============================================================================
