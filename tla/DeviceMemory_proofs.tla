------------------------ MODULE DeviceMemory_proofs ------------------------
(***************************************************************************)
(* Proofs about DeviceMemory, for any threads, tensors, recipes and sizes. *)
(*                                                                         *)
(* Control: every thread holds the mutexes of its control point, so that   *)
(* launches never wait for each other in a circle (NoDeadlock).            *)
(*                                                                         *)
(* Memory: until a slip is noted, the table of handles and the pool match: *)
(* each tensor has memory of its own, what movers have left is handed out  *)
(* until their data has been copied, and nobody but the workspaces has the *)
(* top chunk (PoolSound, TableMatchesPool, WorkspaceReserved).             *)
(*                                                                         *)
(* Addresses: each recipe and each launch about to start one has a lock,   *)
(* and tensors move only where no lock is left, so that what has been      *)
(* looked up stays (AddressesCurrent); a fixed tensor never moves          *)
(* (FixedStays).                                                           *)
(*                                                                         *)
(* Data: tensors are copied from the lowest up, none to where one lies     *)
(* that is still to be copied: either all that movers leave is kept        *)
(* meanwhile, or a region without anything fixed has been given back as a  *)
(* whole, and is filled again from its start (DataIntact).                 *)
(***************************************************************************)
EXTENDS DeviceMemory, StringentPool_proofs, FiniteSetTheorems

(* Control: where a thread is in its call, and which mutexes it holds there. *)

\* A call, with the tensors that are to be translated behind those that are.
IsJob(j) ==
  /\ j = [kind |-> j.kind, list |-> j.list, todo |-> j.todo, out |-> j.out,
          again |-> j.again, need |-> j.need, n |-> j.n, ws |-> j.ws]
  /\ j.kind \in {"launch", "fix"}
  /\ j.list \in Seq(Handles) /\ j.todo \in Seq(Handles) /\ j.out \in Seq(Units \ {Null})
  /\ j.again \in BOOLEAN /\ j.n \in Nat /\ j.ws \in Units
  /\ j.kind = "launch" => j.n > 0
  /\ Len(j.list) = Len(j.out) + Len(j.todo)
  /\ \A i \in 1 .. Len(j.todo) : j.todo[i] = j.list[Len(j.out) + i]

\* It is a launch and waits for the workspace.
Grows(j) == j.kind = "launch" /\ j.ws = Null

WorkspaceLocs == {"memory", "cleanup", "cleanup_wait", "workspace", "extend_lock", "extend",
                  "extend_idle"}
LaunchLocs    == {"required", "limit", "launch", "count"}
DefragLocs    == {"synchronize", "drain", "collect", "copy", "defragmented"}

\* The call of a thread at a control point.
CallAt(loc, j) ==
  \/ loc = "idle" /\ j = NoJob
  \/ loc \in WorkspaceLocs /\ IsJob(j) /\ Grows(j) /\ j.out = <<>>
  \/ /\ loc \in LaunchLocs /\ IsJob(j) /\ j.kind = "launch" /\ j.ws /= Null
     /\ loc \in {"launch", "count"} => j.todo = <<>>
     /\ loc \in {"required", "limit"} => j.out = <<>>
  \/ loc = "translate" /\ IsJob(j) /\ ~Grows(j)
  \/ loc = "retry" /\ IsJob(j) /\ ~Grows(j) /\ j.todo /= <<>>
  \/ loc \in DefragLocs /\ IsJob(j) /\ IF Grows(j) THEN j.out = <<>> ELSE j.todo /= <<>>

\* Where a call holds defragmentation_mutex_, and where ws_mutex_.
HoldsDefrag(loc, j) ==
  j.kind = "launch" /\ loc \in {"extend", "extend_idle", "translate", "retry"} \cup DefragLocs

HoldsWs(loc, j) ==
  \/ loc \in {"cleanup_wait", "extend_lock", "extend", "extend_idle"}
  \/ loc \in DefragLocs /\ Grows(j)

CallsOK ==
  /\ pc = [t \in Threads |-> pc[t]] /\ job = [t \in Threads |-> job[t]]
  /\ \A t \in Threads : CallAt(pc[t], job[t])

MutexesOK ==
  /\ {mutex_, defragmentation_mutex_, ws_mutex_} \subseteq Threads \cup {None}
  /\ \A t \in Threads :
       /\ mutex_ = t <=> pc[t] = "copy"
       /\ defragmentation_mutex_ = t <=> HoldsDefrag(pc[t], job[t])
       /\ ws_mutex_ = t <=> HoldsWs(pc[t], job[t])

ControlOK == CallsOK /\ MutexesOK

\* A step of a thread: where it is afterwards, with which call.
Moves(t, loc, j) == pc' = [pc EXCEPT ![t] = loc] /\ job' = [job EXCEPT ![t] = j]

\* From m to n, a mutex is held by t afterwards or not, for the others the same.
Passes(m, n, t, held) ==
  \/ held /\ m \in {t, None} /\ n = t
  \/ ~held /\ m = t /\ n = None
  \/ ~held /\ m /= t /\ n = m

\* A step of a thread that leaves it with the mutexes of its new place keeps
\* the control invariant.
LEMMA ControlStep ==
  ASSUME ControlOK, NEW t \in Threads, NEW loc, NEW j, Moves(t, loc, j), CallAt(loc, j),
         Passes(mutex_, mutex_', t, loc = "copy"),
         Passes(defragmentation_mutex_, defragmentation_mutex_', t, HoldsDefrag(loc, j)),
         Passes(ws_mutex_, ws_mutex_', t, HoldsWs(loc, j))
  PROVE  ControlOK'
<1>1. pc' = [x \in Threads |-> pc'[x]] /\ job' = [x \in Threads |-> job'[x]]
  BY DEF ControlOK, CallsOK, Moves
<1>2. pc'[t] = loc /\ job'[t] = j
  BY DEF ControlOK, CallsOK, Moves
<1>3. \A x \in Threads \ {t} : pc'[x] = pc[x] /\ job'[x] = job[x]
  BY DEF ControlOK, CallsOK, Moves
<1>4. CallsOK'
  BY <1>1, <1>2, <1>3 DEF ControlOK, CallsOK
<1>5. None \notin Threads
  BY MemoryAssumption
<1>6. {mutex_, defragmentation_mutex_, ws_mutex_}' \subseteq Threads \cup {None}
  BY DEF ControlOK, MutexesOK, Passes
<1>7. ASSUME NEW x \in Threads
      PROVE  /\ mutex_' = x <=> pc'[x] = "copy"
             /\ defragmentation_mutex_' = x <=> HoldsDefrag(pc'[x], job'[x])
             /\ ws_mutex_' = x <=> HoldsWs(pc'[x], job'[x])
  <2>1. CASE x = t
    BY <2>1, <1>2, <1>5 DEF Passes
  <2>2. CASE x /= t
    <3>1. /\ mutex_ = x <=> pc[x] = "copy"
          /\ defragmentation_mutex_ = x <=> HoldsDefrag(pc[x], job[x])
          /\ ws_mutex_ = x <=> HoldsWs(pc[x], job[x])
      BY DEF ControlOK, MutexesOK
    <3>2. pc'[x] = pc[x] /\ job'[x] = job[x]
      BY <2>2, <1>3
    <3>3. \A m, n, b : Passes(m, n, t, b) => (n = x <=> m = x)
      BY <2>2, <1>5 DEF Passes
    <3> QED
      BY <3>1, <3>2, <3>3
  <2> QED
    BY <2>1, <2>2
<1> QED
  BY <1>4, <1>6, <1>7 DEF ControlOK, MutexesOK

\* A step that changes neither calls nor mutexes does, too.
LEMMA ControlFrame ==
  ASSUME ControlOK, UNCHANGED <<pc, job, mutex_, defragmentation_mutex_, ws_mutex_>>
  PROVE  ControlOK'
BY DEF ControlOK, CallsOK, MutexesOK

\* What is known of a thread at a control point.
LEMMA Held ==
  ASSUME ControlOK, NEW t \in Threads
  PROVE  /\ CallAt(pc[t], job[t])
         /\ job = [job EXCEPT ![t] = job[t]]
         /\ mutex_ = t <=> pc[t] = "copy"
         /\ defragmentation_mutex_ = t <=> HoldsDefrag(pc[t], job[t])
         /\ ws_mutex_ = t <=> HoldsWs(pc[t], job[t])
BY DEF ControlOK, CallsOK, MutexesOK

\* A mutex that a step leaves alone.
LEMMA Kept ==
  ASSUME NEW m, NEW n, NEW t \in Threads, NEW held \in BOOLEAN, n = m, m = t <=> held
  PROVE  Passes(m, n, t, held)
BY MemoryAssumption DEF Passes

\* The end of a call that does not copy.
LEMMA ControlEnd ==
  ASSUME ControlOK, NEW t \in Threads, pc[t] /= "copy", End(t), UNCHANGED mutex_
  PROVE  ControlOK'
<1>1. Moves(t, "idle", NoJob) /\ CallAt("idle", NoJob)
  BY DEF End, Goto, Moves, CallAt
<1>2. ~HoldsDefrag("idle", NoJob) /\ ~HoldsWs("idle", NoJob)
  BY DEF HoldsDefrag, HoldsWs, NoJob, DefragLocs
<1>3. /\ Passes(defragmentation_mutex_, defragmentation_mutex_', t, FALSE)
      /\ Passes(ws_mutex_, ws_mutex_', t, FALSE)
  BY DEF End, Passes
<1>4. Passes(mutex_, mutex_', t, FALSE)
  BY Held DEF Passes
<1> QED
  BY <1>1, <1>2, <1>3, <1>4, ControlStep DEF Passes

-----------------------------------------------------------------------------
(* Control: the actions. *)

\* The mutexes of a step that leaves them alone.
LEMMA SameMutexes ==
  ASSUME ControlOK, NEW t \in Threads, NEW loc, NEW j,
         UNCHANGED <<mutex_, defragmentation_mutex_, ws_mutex_>>,
         Moves(t, loc, j), CallAt(loc, j), (loc = "copy") <=> (pc[t] = "copy"),
         HoldsDefrag(loc, j) <=> HoldsDefrag(pc[t], job[t]),
         HoldsWs(loc, j) <=> HoldsWs(pc[t], job[t])
  PROVE  ControlOK'
<1>1. /\ Passes(mutex_, mutex_', t, loc = "copy")
      /\ Passes(defragmentation_mutex_, defragmentation_mutex_', t, HoldsDefrag(loc, j))
      /\ Passes(ws_mutex_, ws_mutex_', t, HoldsWs(loc, j))
  BY Held DEF Passes
<1> QED
  BY <1>1, ControlStep

\* A new call.
LEMMA BeginControl ==
  ASSUME ControlOK, NEW t \in Threads, NEW kind \in {"launch", "fix"},
         NEW list \in Seq(Handles), NEW n \in Nat, NEW loc,
         Begin(t, kind, list, n, loc), kind = "launch" => n > 0 /\ loc = "memory",
         kind = "fix" => loc = "translate",
         UNCHANGED <<mutex_, defragmentation_mutex_, ws_mutex_>>
  PROVE  ControlOK'
<1> DEFINE j == [kind |-> kind, list |-> list, todo |-> list, out |-> <<>>,
                 again |-> FALSE, need |-> 0, n |-> n, ws |-> Null]
<1>1. IsJob(j)
  <2>1. 0 \in Units /\ Null = 0 /\ <<>> \in Seq(Units \ {Null}) /\ Len(<<>>) = 0
    BY Sizes DEF Units, Null
  <2>2. Len(list) \in Nat
    OBVIOUS
  <2> QED
    BY <2>1, <2>2 DEF IsJob
<1>2. j.kind = kind /\ j.ws = Null /\ j.out = <<>>
  OBVIOUS
<1>3. Moves(t, loc, j) /\ pc[t] = "idle"
  BY DEF Begin, Moves, Goto, At
<1>4. job[t] = NoJob
  BY <1>3, Held DEF CallAt, WorkspaceLocs, LaunchLocs, DefragLocs
<1> HIDE DEF j
<1>5. CallAt(loc, j)
  BY <1>1, <1>2 DEF CallAt, Grows, WorkspaceLocs
<1>6. ~HoldsDefrag(loc, j) /\ ~HoldsWs(loc, j)
  BY <1>2 DEF HoldsDefrag, HoldsWs, DefragLocs
<1>7. ~HoldsDefrag(pc[t], job[t]) /\ ~HoldsWs(pc[t], job[t])
  BY <1>3, <1>4 DEF HoldsDefrag, HoldsWs, DefragLocs, NoJob
<1>8. loc /= "copy" /\ pc[t] /= "copy"
  BY <1>3
<1> QED
  BY <1>3, <1>5, <1>6, <1>7, <1>8, SameMutexes

\* The workspace of a call.
LEMMA GivenJob ==
  ASSUME NEW j, IsJob(j), NEW p \in Units \ {Null}, NEW k, k = [j EXCEPT !.ws = p]
  PROVE  /\ IsJob(k) /\ k.ws = p /\ k.kind = j.kind /\ k.list = j.list /\ k.out = j.out
         /\ k.todo = j.todo /\ k.again = j.again /\ k.n = j.n
BY DEF IsJob

\* A step within a call that keeps the call.
LEMMA Stays ==
  ASSUME ControlOK, NEW t \in Threads, NEW loc, Goto(t, loc), UNCHANGED job
  PROVE  Moves(t, loc, job[t])
BY Held DEF Moves, Goto

\* Making room for the workspace.
LEMMA MemoryControl ==
  ASSUME ControlOK, NEW t \in Threads,
         CheckMemory(t) \/ BeginCleanup(t) \/ Cleanup(t) \/ LockExtend(t)
  PROVE  ControlOK'
<1> DEFINE j == job[t]
<1>1. pc[t] \in {"memory", "cleanup", "cleanup_wait", "extend_lock"}
  BY DEF CheckMemory, BeginCleanup, Cleanup, LockExtend, At
<1>2. CallAt(pc[t], j)
  BY Held
<1> HIDE DEF j
<1>3. IsJob(j) /\ Grows(j) /\ j.out = <<>> /\ j.kind = "launch"
  BY <1>1, <1>2 DEF CallAt, WorkspaceLocs, LaunchLocs, DefragLocs, Grows
<1>4. \A loc \in WorkspaceLocs : CallAt(loc, j)
  BY <1>3 DEF CallAt
<1>5. \A loc \in WorkspaceLocs :
         /\ HoldsDefrag(loc, j) <=> loc \in {"extend", "extend_idle"}
         /\ HoldsWs(loc, j) <=> loc \in {"cleanup_wait", "extend_lock", "extend", "extend_idle"}
         /\ loc /= "copy"
  BY <1>3 DEF HoldsDefrag, HoldsWs, WorkspaceLocs, DefragLocs
<1>6. PICK loc \in WorkspaceLocs :
        /\ Goto(t, loc) /\ UNCHANGED <<job, mutex_>>
        /\ \/ UNCHANGED <<defragmentation_mutex_, ws_mutex_>>
              /\ (HoldsDefrag(loc, j) <=> HoldsDefrag(pc[t], j))
              /\ (HoldsWs(loc, j) <=> HoldsWs(pc[t], j))
           \/ /\ UNCHANGED defragmentation_mutex_ /\ ws_mutex_ = None /\ ws_mutex_' = t
              /\ HoldsWs(loc, j) /\ ~HoldsDefrag(loc, j) /\ ~HoldsDefrag(pc[t], j)
           \/ /\ UNCHANGED defragmentation_mutex_ /\ ws_mutex_' = None /\ HoldsWs(pc[t], j)
              /\ ~HoldsWs(loc, j) /\ ~HoldsDefrag(loc, j) /\ ~HoldsDefrag(pc[t], j)
           \/ /\ UNCHANGED ws_mutex_ /\ HoldsWs(pc[t], j) /\ HoldsWs(loc, j)
              /\ HoldsDefrag(loc, j) /\ defragmentation_mutex_ = None
              /\ defragmentation_mutex_' = t
  <2>1. CASE CheckMemory(t)
    <3> DEFINE loc == IF IsMemoryAvailable(pool, Required(job[t].list)) THEN "workspace" ELSE "cleanup"
    <3>1. loc \in {"workspace", "cleanup"}
      OBVIOUS
    <3>2. Goto(t, loc) /\ UNCHANGED <<job, mutex_, defragmentation_mutex_, ws_mutex_>> /\ pc[t] = "memory"
      BY <2>1 DEF CheckMemory, lockVars, moveVars, At
    <3> HIDE DEF loc
    <3> QED
      BY <3>1, <3>2, <1>5 DEF WorkspaceLocs
  <2>2. CASE BeginCleanup(t)
    BY <2>2, <1>5 DEF BeginCleanup, At, moveVars, WorkspaceLocs
  <2>3. CASE Cleanup(t)
    BY <2>3, <1>5 DEF Cleanup, At, moveVars, WorkspaceLocs
  <2>4. CASE LockExtend(t)
    BY <2>4, <1>5 DEF LockExtend, At, moveVars, WorkspaceLocs
  <2> QED
    BY <2>1, <2>2, <2>3, <2>4
<1>7. Moves(t, loc, j) /\ CallAt(loc, j)
  BY <1>6, <1>4, Stays DEF j
<1>8. /\ defragmentation_mutex_ = t <=> HoldsDefrag(pc[t], j)
      /\ ws_mutex_ = t <=> HoldsWs(pc[t], j)
      /\ mutex_ /= t /\ loc /= "copy"
  BY Held, <1>1, <1>5 DEF j
<1>9. Passes(mutex_, mutex_', t, loc = "copy")
  BY <1>8, <1>6 DEF Passes
<1>10. Passes(defragmentation_mutex_, defragmentation_mutex_', t, HoldsDefrag(loc, j))
  BY <1>8, <1>6, MemoryAssumption DEF Passes
<1>11. Passes(ws_mutex_, ws_mutex_', t, HoldsWs(loc, j))
  BY <1>8, <1>6, MemoryAssumption DEF Passes
<1> QED
  BY <1>7, <1>9, <1>10, <1>11, ControlStep

-----------------------------------------------------------------------------
(* The table of handles, and the steps that give addresses. *)

TableOK ==
  /\ table \in [Handles -> [active : BOOLEAN, ptr : Units, fixed : BOOLEAN]]
  /\ IsPool(pool) /\ pool.high \in BOOLEAN /\ pool.exact \in BOOLEAN
  /\ update_on_defragment_ \in BOOLEAN
  /\ workspace = [ptr |-> workspace.ptr, size |-> workspace.size]
  /\ workspace.ptr \in Units /\ workspace.size \in 0 .. PoolSize

\* The first tensor that a call has still to translate.
LEMMA HeadHandle ==
  ASSUME NEW j, IsJob(j), j.todo /= <<>>
  PROVE  /\ Head(j.todo) \in Handles /\ Len(j.todo) > 0 /\ Tail(j.todo) \in Seq(Handles)
         /\ Len(Tail(j.todo)) = Len(j.todo) - 1
         /\ Head(j.todo) = j.todo[1] /\ Head(j.todo) = j.list[Len(j.out) + 1]
         /\ Len(j.out) + 1 \in 1 .. Len(j.list)
         /\ \A i \in 1 .. Len(j.todo) - 1 : Tail(j.todo)[i] = j.todo[i + 1]
<1>1. j.todo \in Seq(Handles) /\ j.list \in Seq(Handles) /\ Len(j.out) \in Nat
  BY DEF IsJob
<1>2. Len(j.todo) \in Nat /\ Len(j.todo) > 0 /\ Len(j.list) \in Nat
  BY <1>1
<1>3. Len(j.list) = Len(j.out) + Len(j.todo) /\ j.todo[1] = j.list[Len(j.out) + 1]
  <2>1. /\ Len(j.list) = Len(j.out) + Len(j.todo)
        /\ \A i \in 1 .. Len(j.todo) : j.todo[i] = j.list[Len(j.out) + i]
    BY DEF IsJob
  <2>2. 1 \in 1 .. Len(j.todo)
    BY <1>2
  <2> QED
    BY <2>1, <2>2
<1>4. Head(j.todo) = j.todo[1] /\ j.todo[1] \in Handles
  BY <1>1, <1>2
<1>5. \A a, b \in Nat : b > 0 => a + 1 \in 1 .. a + b
  OBVIOUS
<1>6. Len(j.out) + 1 \in 1 .. Len(j.list)
  BY <1>1, <1>2, <1>3, <1>5
<1>7. /\ Tail(j.todo) \in Seq(Handles) /\ Len(Tail(j.todo)) = Len(j.todo) - 1
      /\ \A i \in 1 .. Len(j.todo) - 1 : Tail(j.todo)[i] = j.todo[i + 1]
  BY <1>1, <1>2
<1> QED
  BY <1>2, <1>3, <1>4, <1>6, <1>7

\* What MemoryAssumption says of a tensor.
LEMMA Sizing ==
  ASSUME NEW h \in Handles
  PROVE  Size[h] \in Nat \ {0} /\ Stream[h] \in Nat
BY MemoryAssumption

\* What the pool gives, or Null, is a unit of it.
LEMMA AllocUnit ==
  ASSUME NEW p, IsPool(p), NEW n \in Nat \ {0}, NEW stream, NEW r, r = PoolAlloc(p, n, stream)
  PROVE  IsPool(r.pool) /\ r.ptr \in Units
<1>1. /\ IsPool(r.pool)
      /\ \/ r.ptr = Null /\ r.pool = p
         \/ r.ptr \in (SmallBase .. SmallEnd - 1) \ p.small
         \/ \A x : x \in GivenChunks(r.pool.chunks) <=> x \in GivenChunks(p.chunks) \/ x = r.ptr
  BY PoolAllocSound DEF HandedOut
<1>2. GivenChunks(r.pool.chunks) \subseteq Units
  BY <1>1, Sizes DEF IsPool, Sound, Tiles, GivenChunks, Units
<1>3. 0 \in Units /\ SmallBase .. SmallEnd - 1 \subseteq Units
  BY Sizes DEF Units, SmallBase, SmallEnd
<1> QED
  BY <1>1, <1>2, <1>3 DEF Null

\* The memory of the next tensor of a call, if there is any, is a unit of the pool.
LEMMA TranslationUnit ==
  ASSUME TableOK, NEW t, IsJob(job[t]), job[t].todo /= <<>>
  PROVE  /\ IsPool(Translation(t).pool) /\ Translation(t).ptr \in Units
         /\ table[Head(job[t].todo)].ptr /= Null =>
              Translation(t) = [pool |-> pool, ptr |-> table[Head(job[t].todo)].ptr]
         /\ table[Head(job[t].todo)].ptr = Null =>
              Translation(t) = PoolAlloc(pool, Size[Head(job[t].todo)], Stream[Head(job[t].todo)])
<1> DEFINE h == Head(job[t].todo)
<1>1. h \in Handles
  BY HeadHandle
<1> HIDE DEF h
<1>2. Size[h] \in Nat \ {0} /\ table[h].ptr \in Units /\ IsPool(pool)
  BY <1>1, Sizing DEF TableOK
<1>3. /\ table[h].ptr /= Null => Translation(t) = [pool |-> pool, ptr |-> table[h].ptr]
      /\ table[h].ptr = Null => Translation(t) = PoolAlloc(pool, Size[h], Stream[h])
  BY DEF Translation, h
<1>4. CASE table[h].ptr /= Null
  BY <1>2, <1>3, <1>4 DEF h
<1>5. CASE table[h].ptr = Null
  BY <1>2, <1>3, <1>5, AllocUnit DEF h
<1> QED
  BY <1>4, <1>5

\* The call when its next tensor has been translated.
LEMMA TranslatedJob ==
  ASSUME NEW j, IsJob(j), j.todo /= <<>>, NEW p \in Units \ {Null},
         NEW k, k = WithAddress(j, p)
  PROVE  /\ IsJob(k) /\ k.kind = j.kind /\ k.list = j.list /\ k.ws = j.ws /\ k.n = j.n
         /\ k.again = j.again /\ k.todo = Tail(j.todo) /\ k.out = Append(j.out, p)
<1>1. /\ k.kind = j.kind /\ k.list = j.list /\ k.ws = j.ws /\ k.n = j.n /\ k.need = j.need
      /\ k.again = j.again /\ k.todo = Tail(j.todo) /\ k.out = Append(j.out, p)
      /\ k = [kind |-> k.kind, list |-> k.list, todo |-> k.todo, out |-> k.out,
              again |-> k.again, need |-> k.need, n |-> k.n, ws |-> k.ws]
  BY DEF IsJob, WithAddress
<1>2. j.out \in Seq(Units \ {Null}) /\ Len(j.out) \in Nat /\ Len(j.todo) \in Nat
  BY DEF IsJob
<1>3. Append(j.out, p) \in Seq(Units \ {Null}) /\ Len(Append(j.out, p)) = Len(j.out) + 1
  BY <1>2
<1>4. /\ Len(Tail(j.todo)) = Len(j.todo) - 1 /\ Tail(j.todo) \in Seq(Handles)
      /\ \A i \in 1 .. Len(j.todo) - 1 : Tail(j.todo)[i] = j.todo[i + 1]
  BY HeadHandle
<1>5. Len(j.list) = Len(j.out) + Len(j.todo)
  BY DEF IsJob
<1>9. Len(k.out) = Len(j.out) + 1 /\ Len(k.todo) = Len(j.todo) - 1 /\ Len(k.list) = Len(j.list)
  BY <1>1, <1>3, <1>4
<1>6. Len(k.list) = Len(k.out) + Len(k.todo)
  <2>1. \A a, b \in Nat : a + b = (a + 1) + (b - 1)
    OBVIOUS
  <2> QED
    BY <1>9, <1>5, <1>2, <2>1
<1>7. ASSUME NEW i \in 1 .. Len(k.todo) PROVE k.todo[i] = k.list[Len(k.out) + i]
  <2>1. i \in 1 .. Len(j.todo) - 1 /\ i \in Int
    BY <1>9, <1>2
  <2>2. i + 1 \in 1 .. Len(j.todo)
    BY <2>1, <1>2
  <2>3. j.todo[i + 1] = j.list[Len(j.out) + (i + 1)]
    BY <2>2 DEF IsJob
  <2>4. Len(j.out) + (i + 1) = Len(k.out) + i
    <3>1. \A a, b, c \in Int : c = a + 1 => a + (b + 1) = c + b
      OBVIOUS
    <3>2. Len(j.out) \in Int /\ Len(k.out) \in Int /\ Len(k.out) = Len(j.out) + 1
      BY <1>9, <1>2
    <3> QED
      BY <2>1, <3>1, <3>2
  <2> QED
    BY <1>1, <1>4, <2>1, <2>3, <2>4
<1>8. /\ k.kind \in {"launch", "fix"} /\ k.list \in Seq(Handles) /\ k.again \in BOOLEAN
      /\ k.n \in Nat /\ k.ws \in Units /\ (k.kind = "launch" => k.n > 0)
  BY <1>1 DEF IsJob
<1> QED
  BY <1>1, <1>3, <1>4, <1>6, <1>7, <1>8 DEF IsJob

\* The workspace, when it is extended, is a unit of the pool.
LEMMA ExtendUnit ==
  ASSUME NEW p, IsPool(p), NEW n \in Nat \ {0}, NEW current,
         NEW r, r = ExtendHighMemory(p, n, current)
  PROVE  IsPool(r.pool) /\ (r.ptr \in Units \ {Null} \/ r.ptr = Null)
<1>1. IsPool(r.pool) /\ (r.ptr # Null => r.ptr = Top(r.pool.chunks))
  BY ExtendHighMemorySound
<1>2. Top(r.pool.chunks) \in DOMAIN r.pool.chunks
  BY <1>1, TopChunk DEF IsPool, Sound
<1>3. Top(r.pool.chunks) \in Units
  BY <1>1, <1>2, Sizes DEF IsPool, Sound, Tiles, Units
<1> QED
  BY <1>1, <1>3

\* A call that still waits for the workspace.
LEMMA Waiting ==
  ASSUME ControlOK, NEW t \in Threads, pc[t] \in WorkspaceLocs \/ (pc[t] \in DefragLocs /\ Grows(job[t]))
  PROVE  /\ IsJob(job[t]) /\ Grows(job[t]) /\ job[t].out = <<>> /\ job[t].kind = "launch"
         /\ job[t].n \in Nat \ {0} /\ Growing(t)
         /\ job[t] /= NoJob
<1>1. CallAt(pc[t], job[t])
  BY Held
<1>2. IsJob(job[t]) /\ Grows(job[t]) /\ job[t].out = <<>>
  BY <1>1 DEF CallAt, WorkspaceLocs, DefragLocs, LaunchLocs
<1>3. job[t].n \in Nat /\ job[t].n > 0
  BY <1>2 DEF IsJob, Grows
<1> QED
  BY <1>2, <1>3 DEF Grows, Growing, NoJob

\* A launch has its workspace and has released the mutexes of it.
LEMMA GiveControl ==
  ASSUME ControlOK, NEW t \in Threads, pc[t] /= "copy",
         pc[t] \in WorkspaceLocs \/ (pc[t] \in DefragLocs /\ Grows(job[t])),
         NEW p \in Units \ {Null}, GiveWorkspace(t, p), UNCHANGED mutex_,
         Passes(defragmentation_mutex_, defragmentation_mutex_', t, FALSE),
         Passes(ws_mutex_, ws_mutex_', t, FALSE)
  PROVE  ControlOK'
<1> DEFINE k == [job[t] EXCEPT !.ws = p]
<1>1. IsJob(job[t]) /\ job[t].out = <<>> /\ job[t].kind = "launch"
  BY Waiting
<1>2. IsJob(k) /\ k.ws = p /\ k.kind = "launch" /\ k.out = <<>>
  BY <1>1, GivenJob
<1>3. Moves(t, "required", k)
  BY Held DEF GiveWorkspace, Moves, Goto
<1> HIDE DEF k
<1>4. CallAt("required", k)
  BY <1>2 DEF CallAt, LaunchLocs
<1>5. ~HoldsDefrag("required", k) /\ ~HoldsWs("required", k)
  BY DEF HoldsDefrag, HoldsWs, DefragLocs
<1>6. Passes(mutex_, mutex_', t, "required" = "copy")
  BY Held DEF Passes
<1> QED
  BY <1>3, <1>4, <1>5, <1>6, ControlStep DEF Passes

\* get_workspace_buffer, where ws_mutex_ is tried.
LEMMA EnterControl ==
  ASSUME ControlOK, TableOK, NEW t \in Threads, EnterWorkspace(t)
  PROVE  ControlOK'
<1>1. /\ pc[t] = "workspace" /\ ws_mutex_ = None
      /\ UNCHANGED <<mutex_, defragmentation_mutex_>>
  BY DEF EnterWorkspace, At, moveVars
<1>2. ~HoldsDefrag(pc[t], job[t]) /\ ~HoldsWs(pc[t], job[t])
  BY <1>1 DEF HoldsDefrag, HoldsWs, DefragLocs
<1>3. Passes(defragmentation_mutex_, defragmentation_mutex_', t, FALSE)
  BY <1>1, <1>2, Held DEF Passes
<1>4. CASE Suffices(t)
  <2>1. GiveWorkspace(t, workspace.ptr) /\ UNCHANGED ws_mutex_ /\ workspace.ptr \in Units \ {Null}
    BY <1>4 DEF EnterWorkspace, Suffices, TableOK
  <2>2. Passes(ws_mutex_, ws_mutex_', t, FALSE)
    BY <2>1, <1>2, Held DEF Passes
  <2> QED
    BY <1>1, <1>3, <2>1, <2>2, GiveControl DEF WorkspaceLocs
<1>5. CASE ~Suffices(t)
  <2>1. Goto(t, "extend_lock") /\ ws_mutex_' = t /\ UNCHANGED job
    BY <1>5 DEF EnterWorkspace
  <2>2. IsJob(job[t]) /\ Grows(job[t]) /\ job[t].out = <<>>
    BY <1>1, Waiting DEF WorkspaceLocs
  <2>3. CallAt("extend_lock", job[t]) /\ HoldsWs("extend_lock", job[t])
        /\ ~HoldsDefrag("extend_lock", job[t])
    BY <2>2 DEF CallAt, WorkspaceLocs, HoldsWs, HoldsDefrag, DefragLocs
  <2>4. Moves(t, "extend_lock", job[t])
    BY <2>1, Stays
  <2>5. Passes(ws_mutex_, ws_mutex_', t, TRUE)
    BY <2>1, <1>1 DEF Passes
  <2>6. Passes(mutex_, mutex_', t, "extend_lock" = "copy")
    BY <1>1, Held DEF Passes
  <2> QED
    BY <2>3, <2>4, <2>5, <2>6, <1>3, ControlStep DEF Passes
<1> QED
  BY <1>4, <1>5

\* Both mutexes of a launch whose workspace is extended.
LEMMA ExtendControl ==
  ASSUME ControlOK, TableOK, NEW t \in Threads, NEW loc \in {"extend_idle", "synchronize", "throw"},
         pc[t] \in {"extend", "extend_idle"} \/ (pc[t] = "defragmented" /\ Grows(job[t])),
         Extend(t, loc)
  PROVE  ControlOK'
<1> DEFINE r == ExtendHighMemory(pool, job[t].n, workspace.size)
<1>1. IsJob(job[t]) /\ Grows(job[t]) /\ job[t].out = <<>> /\ job[t].n \in Nat \ {0}
      /\ job[t].kind = "launch"
  BY Waiting DEF WorkspaceLocs, DefragLocs
<1>2. r.ptr /= Null => r.ptr \in Units \ {Null}
  BY <1>1, ExtendUnit DEF TableOK
<1>3. HoldsDefrag(pc[t], job[t]) /\ HoldsWs(pc[t], job[t]) /\ pc[t] /= "copy"
  BY <1>1 DEF HoldsDefrag, HoldsWs, DefragLocs
<1>4. defragmentation_mutex_ = t /\ ws_mutex_ = t /\ mutex_ /= t
  BY <1>3, Held
<1>5. UNCHANGED mutex_
  BY DEF Extend, moveVars
<1>6. CASE r.ptr /= Null
  <2>1. GiveWorkspace(t, r.ptr) /\ defragmentation_mutex_' = None /\ ws_mutex_' = None
    BY <1>6 DEF Extend
  <2>2. /\ Passes(defragmentation_mutex_, defragmentation_mutex_', t, FALSE)
        /\ Passes(ws_mutex_, ws_mutex_', t, FALSE)
    BY <2>1, <1>4 DEF Passes
  <2> QED
    BY <1>3, <1>5, <1>6, <1>2, <2>1, <2>2, GiveControl DEF WorkspaceLocs, DefragLocs
<1>7. CASE r.ptr = Null /\ loc = "throw"
  <2>1. End(t)
    BY <1>7 DEF Extend
  <2> QED
    BY <2>1, <1>3, <1>5, ControlEnd
<1>8. CASE r.ptr = Null /\ loc /= "throw"
  <2>1. Goto(t, loc) /\ UNCHANGED <<job, defragmentation_mutex_, ws_mutex_>>
    BY <1>8 DEF Extend
  <2>2. CallAt(loc, job[t]) /\ HoldsDefrag(loc, job[t]) /\ HoldsWs(loc, job[t]) /\ loc /= "copy"
    BY <1>1, <1>8 DEF CallAt, HoldsDefrag, HoldsWs, WorkspaceLocs, DefragLocs
  <2> QED
    BY <2>1, <2>2, <1>3, <1>5, Stays, SameMutexes
<1> QED
  BY <1>6, <1>7, <1>8

\* The three attempts to extend the workspace.
LEMMA ExtendsControl ==
  ASSUME ControlOK, TableOK, NEW t \in Threads, ExtendFirst(t) \/ ExtendIdle(t) \/ ExtendAgain(t)
  PROVE  ControlOK'
<1>1. CASE ExtendFirst(t)
  BY <1>1, ExtendControl DEF ExtendFirst, At
<1>2. CASE ExtendIdle(t)
  BY <1>2, ExtendControl DEF ExtendIdle, At
<1>3. CASE ExtendAgain(t)
  BY <1>3, ExtendControl DEF ExtendAgain, At, Grows
<1> QED
  BY <1>1, <1>2, <1>3

\* The memory that a call needs.
LEMMA NeededJob ==
  ASSUME NEW j, IsJob(j), NEW m, NEW k, k = [j EXCEPT !.need = m]
  PROVE  /\ IsJob(k) /\ k.ws = j.ws /\ k.kind = j.kind /\ k.list = j.list /\ k.out = j.out
         /\ k.todo = j.todo /\ k.again = j.again /\ k.n = j.n
BY DEF IsJob

\* A call with the locations where its tensors are locked.
LEMMA LockControl ==
  ASSUME ControlOK, NEW t \in Threads, EstimateMemory(t) \/ LockAddresses(t)
  PROVE  ControlOK'
<1> DEFINE k == [job[t] EXCEPT !.need = Required(job[t].list)]
<1>1. pc[t] \in {"required", "limit"}
  BY DEF EstimateMemory, LockAddresses, At
<1>2. IsJob(job[t]) /\ job[t].kind = "launch" /\ job[t].ws /= Null /\ job[t].out = <<>>
  BY <1>1, Held DEF CallAt, WorkspaceLocs, LaunchLocs, DefragLocs
<1>3. \A loc \in {"required", "limit", "launch", "count"} : \A j : ~HoldsDefrag(loc, j) /\ ~HoldsWs(loc, j)
  BY DEF HoldsDefrag, HoldsWs, DefragLocs
<1>4. CASE EstimateMemory(t)
  <2>1. IsJob(k) /\ k.kind = "launch" /\ k.ws = job[t].ws /\ k.out = <<>>
    BY <1>2, NeededJob
  <2>2. Moves(t, "limit", k)
    BY <1>4, Held DEF EstimateMemory, Moves, Goto
  <2> HIDE DEF k
  <2>3. CallAt("limit", k)
    BY <2>1, <1>2 DEF CallAt, LaunchLocs
  <2> QED
    BY <2>2, <2>3, <1>1, <1>3, <1>4, SameMutexes DEF EstimateMemory, lockVars, moveVars
<1>5. CASE LockAddresses(t)
  <2>1. Goto(t, "translate") /\ UNCHANGED <<job, mutex_, ws_mutex_>>
        /\ defragmentation_mutex_ = None /\ defragmentation_mutex_' = t
    BY <1>5 DEF LockAddresses, moveVars
  <2>2. CallAt("translate", job[t]) /\ HoldsDefrag("translate", job[t])
        /\ ~HoldsWs("translate", job[t])
    BY <1>2 DEF CallAt, HoldsDefrag, HoldsWs, DefragLocs, Grows
  <2>3. /\ Passes(mutex_, mutex_', t, "translate" = "copy")
        /\ Passes(ws_mutex_, ws_mutex_', t, FALSE)
        /\ Passes(defragmentation_mutex_, defragmentation_mutex_', t, TRUE)
    BY <2>1, <1>1, <1>3, Held DEF Passes
  <2>4. Moves(t, "translate", job[t])
    BY <2>1, Stays
  <2> QED
    BY <2>2, <2>3, <2>4, ControlStep DEF Passes
<1> QED
  BY <1>4, <1>5

\* A thread translates, and goes on with the next tensor or elsewhere.
LEMMA TranslatedControl ==
  ASSUME ControlOK, TableOK, NEW t \in Threads, pc[t] \in {"translate", "retry", "defragmented"},
         ~Grows(job[t]), job[t].todo /= <<>>, NEW r, r = Translation(t), Translated(t, r),
         NEW loc \in {"translate", "retry", "synchronize"}, Goto(t, loc),
         r.ptr /= Null <=> loc = "translate",
         UNCHANGED <<mutex_, defragmentation_mutex_, ws_mutex_>>
  PROVE  ControlOK'
<1>1. IsJob(job[t])
  BY Held DEF CallAt, WorkspaceLocs, LaunchLocs, DefragLocs
<1>2. \A j \in {job[t]}, l \in {"translate", "retry", "synchronize", "defragmented"} :
         (HoldsDefrag(l, j) <=> j.kind = "launch") /\ ~HoldsWs(l, j)
  BY DEF HoldsDefrag, HoldsWs, DefragLocs
<1>3. r.ptr \in Units
  BY <1>1, TranslationUnit
<1>4. CASE r.ptr = Null
  <2>1. UNCHANGED job
    BY <1>4 DEF Translated
  <2>2. CallAt(loc, job[t])
    BY <1>1, <1>4 DEF CallAt, DefragLocs
  <2> QED
    BY <2>1, <2>2, <1>2, Stays, SameMutexes
<1>5. CASE r.ptr /= Null
  <2> DEFINE k == WithAddress(job[t], r.ptr)
  <2>1. Moves(t, "translate", k)
    BY <1>5 DEF Translated, Moves, Goto
  <2>2. IsJob(k) /\ k.kind = job[t].kind /\ k.ws = job[t].ws
    BY <1>1, <1>3, <1>5, TranslatedJob
  <2> HIDE DEF k
  <2>3. CallAt("translate", k)
    BY <2>2 DEF CallAt, Grows
  <2>4. (HoldsDefrag("translate", k) <=> k.kind = "launch") /\ ~HoldsWs("translate", k)
    BY DEF HoldsDefrag, HoldsWs, DefragLocs
  <2> QED
    BY <2>1, <2>2, <2>3, <2>4, <1>2, SameMutexes
<1> QED
  BY <1>4, <1>5

\* The three attempts to translate a tensor.
LEMMA TranslatesControl ==
  ASSUME ControlOK, TableOK, NEW t \in Threads, Translate(t) \/ Retry(t) \/ TranslateAgain(t)
  PROVE  ControlOK'
<1>1. CASE Translate(t)
  <2> DEFINE r == Translation(t)
             loc == IF r.ptr /= Null THEN "translate"
                    ELSE IF RecipeCount > 0 THEN "retry" ELSE "synchronize"
  <2>1. pc[t] = "translate" /\ job[t].todo /= <<>> /\ Translated(t, r) /\ Goto(t, loc)
        /\ UNCHANGED <<mutex_, defragmentation_mutex_, ws_mutex_>>
    BY <1>1 DEF Translate, At, lockVars, moveVars
  <2>2. ~Grows(job[t])
    BY <2>1, Held DEF CallAt, WorkspaceLocs, LaunchLocs, DefragLocs
  <2>3. loc \in {"translate", "retry", "synchronize"} /\ (r.ptr /= Null <=> loc = "translate")
    OBVIOUS
  <2> HIDE DEF r, loc
  <2>4. r = Translation(t)
    BY DEF r
  <2> QED
    BY <2>1, <2>2, <2>3, <2>4, TranslatedControl
<1>2. CASE Retry(t)
  <2> DEFINE r == Translation(t)
             loc == IF r.ptr /= Null THEN "translate" ELSE "synchronize"
  <2>1. pc[t] = "retry" /\ Translated(t, r) /\ Goto(t, loc)
        /\ UNCHANGED <<mutex_, defragmentation_mutex_, ws_mutex_>>
    BY <1>2 DEF Retry, At, lockVars, moveVars
  <2>2. ~Grows(job[t]) /\ job[t].todo /= <<>>
    BY <2>1, Held DEF CallAt, WorkspaceLocs, LaunchLocs, DefragLocs
  <2>3. loc \in {"translate", "retry", "synchronize"} /\ (r.ptr /= Null <=> loc = "translate")
    OBVIOUS
  <2> HIDE DEF r, loc
  <2>4. r = Translation(t)
    BY DEF r
  <2> QED
    BY <2>1, <2>2, <2>3, <2>4, TranslatedControl
<1>3. CASE TranslateAgain(t)
  <2> DEFINE r == Translation(t)
  <2>1. pc[t] = "defragmented" /\ (job[t].ws /= Null \/ job[t].kind = "fix") /\ UNCHANGED mutex_
    BY <1>3 DEF TranslateAgain, At, moveVars
  <2>2. ~Grows(job[t])
    BY <2>1 DEF Grows
  <2>3. job[t].todo /= <<>>
    BY <2>1, <2>2, Held DEF CallAt, WorkspaceLocs, LaunchLocs, DefragLocs
  <2>4. CASE r.ptr /= Null
    <3>1. Translated(t, r) /\ Goto(t, "translate") /\ UNCHANGED <<defragmentation_mutex_, ws_mutex_>>
      BY <1>3, <2>4 DEF TranslateAgain
    <3> HIDE DEF r
    <3>2. r = Translation(t)
      BY DEF r
    <3> QED
      BY <2>1, <2>2, <2>3, <2>4, <3>1, <3>2, TranslatedControl
  <2>5. CASE r.ptr = Null
    BY <1>3, <2>5, <2>1, ControlEnd DEF TranslateAgain
  <2> QED
    BY <2>4, <2>5
<1> QED
  BY <1>1, <1>2, <1>3

\* The tensors of a call are looked up once more.
LEMMA AgainJob ==
  ASSUME NEW j, IsJob(j),
         NEW k, k = [j EXCEPT !.todo = j.list, !.out = <<>>, !.again = TRUE]
  PROVE  /\ IsJob(k) /\ k.kind = j.kind /\ k.list = j.list /\ k.ws = j.ws /\ k.n = j.n
         /\ k.again = TRUE /\ k.todo = j.list /\ k.out = <<>>
<1>1. /\ k.kind = j.kind /\ k.list = j.list /\ k.ws = j.ws /\ k.n = j.n /\ k.need = j.need
      /\ k.again = TRUE /\ k.todo = j.list /\ k.out = <<>>
      /\ k = [kind |-> k.kind, list |-> k.list, todo |-> k.todo, out |-> k.out,
              again |-> k.again, need |-> k.need, n |-> k.n, ws |-> k.ws]
  BY DEF IsJob
<1>2. j.list \in Seq(Handles) /\ Len(j.list) \in Nat /\ Len(<<>>) = 0
      /\ <<>> \in Seq(Units \ {Null})
  BY DEF IsJob
<1>3. /\ k.kind \in {"launch", "fix"} /\ k.list \in Seq(Handles)
      /\ k.n \in Nat /\ k.ws \in Units /\ (k.kind = "launch" => k.n > 0)
  BY <1>1 DEF IsJob
<1>4. Len(k.list) = Len(k.out) + Len(k.todo)
  BY <1>1, <1>2
<1>5. ASSUME NEW i \in 1 .. Len(k.todo) PROVE k.todo[i] = k.list[Len(k.out) + i]
  <2>1. Len(k.out) + i = i
    BY <1>1, <1>2
  <2> QED
    BY <1>1, <2>1
<1> QED
  BY <1>1, <1>2, <1>3, <1>4, <1>5 DEF IsJob

\* The end of a call that fixes addresses or locks them.
LEMMA FinishControl ==
  ASSUME ControlOK, NEW t \in Threads, FinishFix(t) \/ FinishLock(t)
  PROVE  ControlOK'
<1>1. pc[t] = "translate" /\ job[t].todo = <<>> /\ UNCHANGED mutex_
  BY DEF FinishFix, FinishLock, At, moveVars
<1>2. IsJob(job[t]) /\ ~Grows(job[t])
  BY <1>1, Held DEF CallAt, WorkspaceLocs, LaunchLocs, DefragLocs
<1>3. CASE FinishFix(t)
  BY <1>1, <1>3, ControlEnd DEF FinishFix
<1>4. CASE FinishLock(t) /\ LookUpAgain(t)
  <2> DEFINE k == [job[t] EXCEPT !.todo = job[t].list, !.out = <<>>, !.again = TRUE]
  <2>1. IsJob(k) /\ k.kind = job[t].kind /\ k.ws = job[t].ws
    BY <1>2, AgainJob
  <2>2. pc' = [pc EXCEPT ![t] = "translate"] /\ job' = [job EXCEPT ![t] = k]
        /\ UNCHANGED <<mutex_, defragmentation_mutex_, ws_mutex_>>
    BY <1>1, <1>4 DEF FinishLock, ControlOK, CallsOK
  <2> HIDE DEF k
  <2>3. CallAt("translate", k)
    BY <1>2, <2>1 DEF CallAt, Grows
  <2>4. /\ HoldsDefrag("translate", k) <=> HoldsDefrag("translate", job[t])
        /\ HoldsWs("translate", k) <=> HoldsWs("translate", job[t])
    BY <2>1 DEF HoldsDefrag, HoldsWs, DefragLocs
  <2> QED
    BY <1>1, <2>2, <2>3, <2>4, SameMutexes DEF Moves
<1>5. CASE FinishLock(t) /\ ~LookUpAgain(t)
  <2>1. Goto(t, "launch") /\ UNCHANGED <<job, ws_mutex_>> /\ defragmentation_mutex_' = None
        /\ job[t].kind = "launch"
    BY <1>5 DEF FinishLock
  <2>2. HoldsDefrag("translate", job[t]) /\ ~HoldsWs("translate", job[t])
        /\ ~HoldsDefrag("launch", job[t]) /\ ~HoldsWs("launch", job[t])
    BY <2>1 DEF HoldsDefrag, HoldsWs, DefragLocs
  <2>3. CallAt("launch", job[t])
    BY <1>1, <1>2, <2>1 DEF CallAt, Grows, LaunchLocs
  <2>4. /\ Passes(mutex_, mutex_', t, FALSE)
        /\ Passes(defragmentation_mutex_, defragmentation_mutex_', t, FALSE)
        /\ Passes(ws_mutex_, ws_mutex_', t, FALSE)
    BY <1>1, <2>1, <2>2, Held DEF Passes
  <2> QED
    BY <2>1, <2>2, <2>3, <2>4, Stays, ControlStep DEF Passes
<1> QED
  BY <1>3, <1>4, <1>5

\* A thread that defragments, at any point of it.
LEMMA DefragmentingCall ==
  ASSUME ControlOK, NEW t \in Threads, pc[t] \in DefragLocs
  PROVE  /\ IsJob(job[t]) /\ \A loc \in DefragLocs : CallAt(loc, job[t])
         /\ \A loc \in DefragLocs : /\ HoldsDefrag(loc, job[t]) <=> HoldsDefrag(pc[t], job[t])
                                    /\ HoldsWs(loc, job[t]) <=> HoldsWs(pc[t], job[t])
         /\ Growing(t) <=> Grows(job[t])
         /\ ~Growing(t) => job[t].todo /= <<>>
BY Held DEF CallAt, WorkspaceLocs, LaunchLocs, DefragLocs, HoldsDefrag, HoldsWs, Growing, Grows

\* The steps of a defragmentation.
LEMMA DefragmentsControl ==
  ASSUME ControlOK, NEW t \in Threads,
         Synchronize(t) \/ Drain(t) \/ DrainTimesOut(t) \/ Collect(t) \/ Copy(t)
  PROVE  ControlOK'
<1>1. pc[t] \in DefragLocs
  BY DEF Synchronize, Drain, DrainTimesOut, Collect, Copy, At, DefragLocs
<1>2. \A loc \in DefragLocs \ {"copy"} : pc[t] /= "copy" /\ Goto(t, loc) /\ UNCHANGED job
        /\ UNCHANGED <<mutex_, defragmentation_mutex_, ws_mutex_>> => ControlOK'
  BY <1>1, DefragmentingCall, Stays, SameMutexes
<1>3. CASE Synchronize(t) \/ Drain(t)
  BY <1>2, <1>3 DEF Synchronize, Drain, At, lockVars, moveVars, DefragLocs
<1>4. CASE DrainTimesOut(t)
  BY <1>4, ControlEnd DEF DrainTimesOut, At, moveVars
<1>5. CASE Collect(t)
  <2>1. pc[t] = "collect" /\ mutex_ = None
    BY <1>5 DEF Collect, At
  <2>2. \/ End(t) /\ UNCHANGED mutex_
        \/ /\ Goto(t, "defragmented") /\ UNCHANGED <<job, mutex_, defragmentation_mutex_, ws_mutex_>>
        \/ /\ Goto(t, "copy") /\ mutex_' = t /\ UNCHANGED <<job, defragmentation_mutex_, ws_mutex_>>
    BY <1>5 DEF Collect, GiveUp, moveVars
  <2>3. CASE Goto(t, "copy") /\ mutex_' = t /\ UNCHANGED <<job, defragmentation_mutex_, ws_mutex_>>
    <3>1. Moves(t, "copy", job[t]) /\ CallAt("copy", job[t])
      BY <1>1, <2>3, Stays, DefragmentingCall DEF DefragLocs
    <3>2. /\ HoldsDefrag("copy", job[t]) <=> HoldsDefrag(pc[t], job[t])
          /\ HoldsWs("copy", job[t]) <=> HoldsWs(pc[t], job[t])
      BY <1>1, DefragmentingCall DEF DefragLocs
    <3>3. /\ Passes(mutex_, mutex_', t, TRUE)
          /\ Passes(defragmentation_mutex_, defragmentation_mutex_', t, HoldsDefrag("copy", job[t]))
          /\ Passes(ws_mutex_, ws_mutex_', t, HoldsWs("copy", job[t]))
      BY <2>1, <2>3, <3>2, Held DEF Passes
    <3> QED
      BY <3>1, <3>3, ControlStep DEF Passes
  <2> QED
    BY <2>1, <2>2, <2>3, <1>2, ControlEnd DEF DefragLocs
<1>6. CASE Copy(t)
  <2>1. pc[t] = "copy" /\ Goto(t, "defragmented") /\ mutex_' = None
        /\ UNCHANGED <<job, defragmentation_mutex_, ws_mutex_>>
    BY <1>6 DEF Copy, At, lockVars
  <2>2. Moves(t, "defragmented", job[t]) /\ CallAt("defragmented", job[t])
    BY <1>1, <2>1, Stays, DefragmentingCall DEF DefragLocs
  <2>3. /\ HoldsDefrag("defragmented", job[t]) <=> HoldsDefrag(pc[t], job[t])
        /\ HoldsWs("defragmented", job[t]) <=> HoldsWs(pc[t], job[t])
    BY <1>1, DefragmentingCall DEF DefragLocs
  <2>4. /\ Passes(mutex_, mutex_', t, FALSE)
        /\ Passes(defragmentation_mutex_, defragmentation_mutex_', t,
                  HoldsDefrag("defragmented", job[t]))
        /\ Passes(ws_mutex_, ws_mutex_', t, HoldsWs("defragmented", job[t]))
    BY <2>1, <2>3, Held DEF Passes
  <2> QED
    BY <2>2, <2>4, ControlStep DEF Passes
<1> QED
  BY <1>3, <1>4, <1>5, <1>6

\* The launch of the recipe and the count of recipes in flight.
LEMMA LaunchControl ==
  ASSUME ControlOK, NEW t \in Threads, Launch(t) \/ CountRecipe(t)
  PROVE  ControlOK'
<1>1. CASE Launch(t)
  <2>1. pc[t] = "launch" /\ Goto(t, "count") /\ UNCHANGED job
        /\ UNCHANGED <<mutex_, defragmentation_mutex_, ws_mutex_>>
    BY <1>1 DEF Launch, At, lockVars, moveVars
  <2>2. CallAt("count", job[t])
    BY <2>1, Held DEF CallAt, LaunchLocs, WorkspaceLocs, DefragLocs
  <2>3. \A loc \in {"launch", "count"} : ~HoldsDefrag(loc, job[t]) /\ ~HoldsWs(loc, job[t])
    BY DEF HoldsDefrag, HoldsWs, DefragLocs
  <2> QED
    BY <2>1, <2>2, <2>3, Stays, SameMutexes
<1>2. CASE CountRecipe(t)
  BY <1>2, ControlEnd DEF CountRecipe, At, moveVars
<1> QED
  BY <1>1, <1>2

\* All threads are idle at first and no mutex is held.
LEMMA ControlInit == Init => ControlOK
<1> SUFFICES ASSUME Init PROVE ControlOK
  OBVIOUS
<1>1. \A t \in Threads : pc[t] = "idle" /\ job[t] = NoJob
  BY DEF Init
<1>2. CallsOK
  BY <1>1 DEF CallsOK, Init, CallAt
<1>3. MutexesOK
  BY <1>1, MemoryAssumption DEF MutexesOK, Init, HoldsDefrag, HoldsWs, DefragLocs, NoJob
<1> QED
  BY <1>2, <1>3 DEF ControlOK

\* Every step keeps a call at its control point and the mutexes with their holders.
LEMMA ControlNext ==
  ASSUME ControlOK, TableOK, [Next]_vars
  PROVE  ControlOK'
<1>1. ASSUME NEW t \in Threads, Continue(t) PROVE ControlOK'
  BY <1>1, MemoryControl, EnterControl, ExtendsControl, LockControl, TranslatesControl,
     FinishControl, DefragmentsControl, LaunchControl DEF Continue
<1>2. ASSUME NEW t \in Threads, NEW r \in Recipes, BeginLaunch(t, r[1], r[2]) PROVE ControlOK'
  <2>1. r[1] \in Seq(Handles) /\ r[2] \in Nat /\ r[2] > 0
    BY MemoryAssumption
  <2>2. Begin(t, "launch", r[1], r[2], "memory")
        /\ UNCHANGED <<mutex_, defragmentation_mutex_, ws_mutex_>>
    BY <1>2 DEF BeginLaunch, lockVars, moveVars
  <2> QED
    BY <2>1, <2>2, BeginControl
<1>3. ASSUME NEW t \in Threads, NEW h \in Handles, FixAddress(t, h) PROVE ControlOK'
  <2>1. <<h>> \in Seq(Handles)
    OBVIOUS
  <2>2. Begin(t, "fix", <<h>>, 0, "translate")
        /\ UNCHANGED <<mutex_, defragmentation_mutex_, ws_mutex_>>
    BY <1>3 DEF FixAddress, lockVars, moveVars
  <2> QED
    BY <2>1, <2>2, BeginControl
<1>4. CASE (\E h \in Handles : Malloc(h) \/ Free(h)) \/ Execute \/ Release
  <2>1. UNCHANGED <<pc, job, mutex_, defragmentation_mutex_, ws_mutex_>>
    BY <1>4 DEF Malloc, Free, Execute, Release, lockVars, moveVars
  <2> QED
    BY <2>1, ControlFrame
<1>5. CASE UNCHANGED vars
  BY <1>5, ControlFrame DEF vars, lockVars, moveVars
<1> QED
  BY <1>1, <1>2, <1>3, <1>4, <1>5 DEF Next

\* A thread that holds a mutex can go on unless it needs one that comes behind
\* it in the order ws_mutex_, defragmentation_mutex_, mutex_, or a recipe to end.
LEMMA ControlNoDeadlock ==
  ASSUME ControlOK
  PROVE  NoDeadlock
<1> SUFFICES ASSUME NEW u \in Threads, pc[u] /= "idle", recipes = <<>>
             PROVE  \E t \in Threads : pc[t] /= "idle" /\ ~Blocked(t)
  BY DEF NoDeadlock
<1>1. RecipeCount = 0 /\ {i \in DOMAIN recipes : ~recipes[i].done} = {}
  <2>1. {i \in DOMAIN recipes : recipes[i].counted} = {}
        /\ {i \in DOMAIN recipes : ~recipes[i].done} = {}
    OBVIOUS
  <2> QED
    BY <2>1, FS_EmptySet DEF RecipeCount
<1>2. \A t \in Threads : MayLock(job[t].need)
  BY <1>1 DEF MayLock
<1>3. ASSUME NEW t \in Threads, Blocked(t)
      PROVE  \/ pc[t] \in {"cleanup", "workspace"} /\ ws_mutex_ /= None
             \/ pc[t] \in {"extend_lock", "limit"} /\ defragmentation_mutex_ /= None
             \/ pc[t] \in {"memory", "extend", "extend_idle", "required", "translate", "retry",
                           "collect", "defragmented"} /\ mutex_ /= None
  BY <1>1, <1>2, <1>3 DEF Blocked
<1>4. {mutex_, defragmentation_mutex_, ws_mutex_} \subseteq Threads \cup {None}
  BY DEF ControlOK, MutexesOK
<1>5. CASE mutex_ /= None
  <2>1. mutex_ \in Threads /\ pc[mutex_] = "copy"
    BY <1>4, <1>5, Held
  <2> QED
    BY <2>1, <1>3
<1>6. CASE mutex_ = None /\ defragmentation_mutex_ /= None
  <2>1. PICK t \in Threads : t = defragmentation_mutex_
    BY <1>4, <1>6
  <2>2. HoldsDefrag(pc[t], job[t])
    BY <2>1, Held
  <2>3. pc[t] \in {"extend", "extend_idle", "translate", "retry"} \cup DefragLocs
    BY <2>2 DEF HoldsDefrag
  <2> QED
    BY <2>3, <1>3, <1>6 DEF DefragLocs
<1>7. CASE mutex_ = None /\ defragmentation_mutex_ = None /\ ws_mutex_ /= None
  <2>1. PICK t \in Threads : t = ws_mutex_
    BY <1>4, <1>7
  <2>2. HoldsWs(pc[t], job[t])
    BY <2>1, Held
  <2>3. pc[t] \in {"cleanup_wait", "extend_lock", "extend", "extend_idle"} \cup DefragLocs
    BY <2>2 DEF HoldsWs
  <2> QED
    BY <2>3, <1>3, <1>7 DEF DefragLocs
<1>8. CASE mutex_ = None /\ defragmentation_mutex_ = None /\ ws_mutex_ = None
  BY <1>3, <1>8
<1> QED
  BY <1>5, <1>6, <1>7, <1>8

-----------------------------------------------------------------------------
(* Giving back the memory of movers, and finding new memory for them: what    *)
(* Ascending makes, address by address.                                       *)

FreeUpTo(f, p, A, top) ==
  f = [a \in 0 .. top |-> IF a = 0 THEN p
                          ELSE IF a \in A THEN PoolFree(f[a - 1], a) ELSE f[a - 1]]

\* The pools of Deallocate are a function.
LEMMA FreeExists ==
  ASSUME NEW p, NEW A, NEW top \in Nat
  PROVE  \E f : FreeUpTo(f, p, A, top)
<1> DEFINE T == {n \in Nat : ~ \E f : FreeUpTo(f, p, A, n)}
<1>1. CASE T = {}
  BY <1>1
<1>2. CASE T /= {}
  <2>1. PICK n \in T : \A y \in T : ~(y < n)
    <3>1. T \subseteq Nat
      OBVIOUS
    <3> HIDE DEF T
    <3> QED
      BY <1>2, <3>1, Smallest
  <2>2. CASE n = 0
    <3> DEFINE f == [a \in 0 .. 0 |-> p]
    <3>1. FreeUpTo(f, p, A, 0)
      BY DEF FreeUpTo
    <3> QED
      BY <2>2, <3>1
  <2>3. CASE n > 0
    <3>1. n - 1 \in Nat /\ n - 1 < n
      BY <2>3
    <3>2. PICK g : FreeUpTo(g, p, A, n - 1)
      BY <2>1, <3>1
    <3> DEFINE f == [a \in 0 .. n |-> IF a = n
                       THEN IF n \in A THEN PoolFree(g[n - 1], n) ELSE g[n - 1]
                       ELSE g[a]]
    <3>3. ASSUME NEW a \in 0 .. n
          PROVE  f[a] = IF a = 0 THEN p
                        ELSE IF a \in A THEN PoolFree(f[a - 1], a) ELSE f[a - 1]
      <4>1. CASE a = n
        <5>1. f[n - 1] = g[n - 1]
          BY <3>1
        <5> QED
          BY <4>1, <5>1, <2>3
      <4>2. CASE a /= n
        <5>1. a \in 0 .. n - 1
          BY <4>2
        <5>2. g[a] = IF a = 0 THEN p
                     ELSE IF a \in A THEN PoolFree(g[a - 1], a) ELSE g[a - 1]
          BY <3>2, <5>1 DEF FreeUpTo
        <5>3. a /= 0 => f[a - 1] = g[a - 1]
          BY <5>1
        <5>4. f[a] = g[a]
          BY <4>2
        <5> QED
          BY <5>2, <5>3, <5>4
      <4> QED
        BY <4>1, <4>2
    <3>4. FreeUpTo(f, p, A, n)
      BY <3>3 DEF FreeUpTo
    <3> QED
      BY <3>4, <2>1
  <2> QED
    BY <2>1, <2>2, <2>3
<1> QED
  BY <1>1, <1>2

\* What Deallocate does, one address after the other.
LEMMA DeallocateSteps ==
  ASSUME NEW p, NEW A
  PROVE  \E f : /\ Deallocate(p, A) = f[PoolSize - 1] /\ f[0] = p
                /\ \A a \in 1 .. PoolSize - 1 :
                     f[a] = IF a \in A THEN PoolFree(f[a - 1], a) ELSE f[a - 1]
<1>1. PoolSize - 1 \in Nat
  BY Sizes
<1> DEFINE f == CHOOSE g : FreeUpTo(g, p, A, PoolSize - 1)
<1>2. FreeUpTo(f, p, A, PoolSize - 1)
  BY <1>1, FreeExists
<1>3. Deallocate(p, A) = f[PoolSize - 1]
  BY DEF Deallocate, Ascending, FreeUpTo, Units
<1> HIDE DEF f
<1>4. f[0] = p
  BY <1>2, <1>1 DEF FreeUpTo
<1>5. ASSUME NEW a \in 1 .. PoolSize - 1
      PROVE  f[a] = IF a \in A THEN PoolFree(f[a - 1], a) ELSE f[a - 1]
  BY <1>2, <1>1 DEF FreeUpTo
<1> QED
  BY <1>3, <1>4, <1>5

\* The blocks that are moved: their addresses, the one at an address, and no
\* mover placed yet.
Sources(blocks)    == {b.ptr : b \in blocks}
BlockAt(blocks, a) == CHOOSE b \in blocks : b.ptr = a
NoneYet(p)         == [pool |-> p, movers |-> {}, ok |-> TRUE]

PlaceUpTo(f, p, blocks, top) ==
  f = [a \in 0 .. top |-> IF a = 0 THEN NoneYet(p)
                          ELSE IF a \in Sources(blocks) THEN PlaceOne(f[a - 1], BlockAt(blocks, a)) ELSE f[a - 1]]

\* The accumulators of Place are a function.
LEMMA PlaceExists ==
  ASSUME NEW p, NEW blocks, NEW top \in Nat
  PROVE  \E f : PlaceUpTo(f, p, blocks, top)
<1> DEFINE T == {n \in Nat : ~ \E f : PlaceUpTo(f, p, blocks, n)}
<1>1. CASE T = {}
  BY <1>1
<1>2. CASE T /= {}
  <2>1. PICK n \in T : \A y \in T : ~(y < n)
    <3>1. T \subseteq Nat
      OBVIOUS
    <3> HIDE DEF T
    <3> QED
      BY <1>2, <3>1, Smallest
  <2>2. CASE n = 0
    <3> DEFINE f == [a \in 0 .. 0 |-> NoneYet(p)]
    <3>1. PlaceUpTo(f, p, blocks, 0)
      BY DEF PlaceUpTo
    <3> QED
      BY <2>2, <3>1
  <2>3. CASE n > 0
    <3>1. n - 1 \in Nat /\ n - 1 < n
      BY <2>3
    <3>2. PICK g : PlaceUpTo(g, p, blocks, n - 1)
      BY <2>1, <3>1
    <3> DEFINE f == [a \in 0 .. n |-> IF a = n
                       THEN IF n \in Sources(blocks) THEN PlaceOne(g[n - 1], BlockAt(blocks, n)) ELSE g[n - 1]
                       ELSE g[a]]
    <3>3. ASSUME NEW a \in 0 .. n
          PROVE  f[a] = IF a = 0 THEN NoneYet(p)
                        ELSE IF a \in Sources(blocks) THEN PlaceOne(f[a - 1], BlockAt(blocks, a)) ELSE f[a - 1]
      <4>1. CASE a = n
        <5>1. f[n - 1] = g[n - 1]
          BY <3>1
        <5> QED
          BY <4>1, <5>1, <2>3
      <4>2. CASE a /= n
        <5>1. a \in 0 .. n - 1
          BY <4>2
        <5>2. g[a] = IF a = 0 THEN NoneYet(p)
                     ELSE IF a \in Sources(blocks) THEN PlaceOne(g[a - 1], BlockAt(blocks, a)) ELSE g[a - 1]
          BY <3>2, <5>1 DEF PlaceUpTo
        <5>3. a /= 0 => f[a - 1] = g[a - 1]
          BY <5>1
        <5>4. f[a] = g[a]
          BY <4>2
        <5> QED
          BY <5>2, <5>3, <5>4
      <4> QED
        BY <4>1, <4>2
    <3>4. PlaceUpTo(f, p, blocks, n)
      BY <3>3 DEF PlaceUpTo
    <3> QED
      BY <3>4, <2>1
  <2> QED
    BY <2>1, <2>2, <2>3
<1> QED
  BY <1>1, <1>2

\* What Place does, one address after the other.
LEMMA PlaceSteps ==
  ASSUME NEW p, NEW blocks
  PROVE  \E f : /\ Place(p, blocks) = f[PoolSize - 1] /\ f[0] = NoneYet(p)
                /\ \A a \in 1 .. PoolSize - 1 :
                     f[a] = IF a \in Sources(blocks) THEN PlaceOne(f[a - 1], BlockAt(blocks, a)) ELSE f[a - 1]
<1>1. PoolSize - 1 \in Nat
  BY Sizes
<1> DEFINE f == CHOOSE g : PlaceUpTo(g, p, blocks, PoolSize - 1)
<1>2. PlaceUpTo(f, p, blocks, PoolSize - 1)
  BY <1>1, PlaceExists
<1>3. Place(p, blocks) = f[PoolSize - 1]
  BY DEF Place, Ascending, PlaceUpTo, Units, NoneYet, Sources, BlockAt
<1> HIDE DEF f
<1>4. f[0] = NoneYet(p)
  BY <1>2, <1>1 DEF PlaceUpTo
<1>5. ASSUME NEW a \in 1 .. PoolSize - 1
      PROVE  f[a] = IF a \in Sources(blocks) THEN PlaceOne(f[a - 1], BlockAt(blocks, a)) ELSE f[a - 1]
  BY <1>2, <1>1 DEF PlaceUpTo
<1> QED
  BY <1>3, <1>4, <1>5

-----------------------------------------------------------------------------
(* More about the pool: its top chunk, and what an extension leaves.          *)

\* The addresses that were handed out: units of the corner, and chunks.
Given(p) == p.small \cup GivenChunks(p.chunks)

\* Where a chunk is the top one, it stays that.
LEMMA TopStays ==
  ASSUME NEW c, Tiles(c), NEW d, Tiles(d), NEW a \in DOMAIN c, a \in DOMAIN d,
         d[a].size = c[a].size
  PROVE  a = Top(c) <=> a = Top(d)
<1>1. After(c, a) = After(d, a)
  BY DEF After
<1>2. a = Top(c) => After(c, a) = PoolSize
  BY TopChunk
<1>3. a = Top(d) => After(d, a) = PoolSize
  BY TopChunk
<1>6. PoolSize >= PoolSize
  BY Sizes
<1>4. After(c, a) = PoolSize => a = Top(c)
  BY <1>6, EndsPool
<1>5. After(d, a) = PoolSize => a = Top(d)
  BY <1>6, EndsPool
<1> QED
  BY <1>1, <1>2, <1>3, <1>4, <1>5

\* Units of the corner, chunks behind it and the top are told apart.
LEMMA GivenParts ==
  ASSUME NEW p, IsPool(p)
  PROVE  /\ p.small \subseteq 1 .. SmallEnd - 1
         /\ \A a \in GivenChunks(p.chunks) : a \in SmallEnd .. PoolSize - 1 /\ a \notin p.small
         /\ Top(p.chunks) \in SmallEnd .. PoolSize - 1
         /\ Top(p.chunks) \in DOMAIN p.chunks /\ Top(p.chunks) /= SmallBase
         /\ Top(p.chunks) \notin p.small
         /\ p.chunks[Top(p.chunks)].used <=> Top(p.chunks) \in GivenChunks(p.chunks)
         /\ Given(p) \subseteq Units \ {Null}
<1>1. Tiles(p.chunks) /\ SmallBase \in DOMAIN p.chunks /\ p.small \subseteq SmallBase .. SmallEnd - 1
  BY DEF IsPool, Sound
<1>2. \A a \in GivenChunks(p.chunks) : a \in Nat /\ a >= SmallEnd /\ a \in 1 .. PoolSize - 1
  BY <1>1, GivenBehindCorner DEF GivenChunks, Tiles
<1>3. Top(p.chunks) \in DOMAIN p.chunks /\ Top(p.chunks) /= SmallBase
      /\ Top(p.chunks) \in 1 .. PoolSize - 1
  BY <1>1, TopChunk, GivenBehindCorner DEF Tiles
<1>4. Top(p.chunks) >= SmallEnd
  <2>1. SmallBase < Top(p.chunks)
    BY <1>3 DEF SmallBase
  <2>2. After(p.chunks, SmallBase) <= Top(p.chunks)
    BY <1>1, <1>3, <2>1 DEF Tiles
  <2> QED
    BY <2>2, GivenBehindCorner
<1>5. SmallEnd \in Nat /\ SmallEnd < PoolSize
  BY Sizes DEF SmallEnd, SmallBase
<1>6. p.small \subseteq 1 .. SmallEnd - 1
  BY <1>1 DEF SmallBase
<1>7. \A a \in GivenChunks(p.chunks) : a \in SmallEnd .. PoolSize - 1 /\ a \notin p.small
  BY <1>2, <1>5, <1>6, Sizes
<1>8. Given(p) \subseteq Units \ {Null}
  <2>1. \A a : a \in 1 .. SmallEnd - 1 \/ a \in SmallEnd .. PoolSize - 1 => a \in 0 .. PoolSize - 1 /\ a /= 0
    BY <1>5, Sizes DEF SmallEnd, SmallBase
  <2> QED
    BY <1>6, <1>7, <2>1 DEF Given, Units, Null
<1>9. Top(p.chunks) \in SmallEnd .. PoolSize - 1
  BY <1>3, <1>4, <1>5, Sizes
<1>10. Top(p.chunks) \notin p.small
  <2>1. \A a \in 1 .. SmallEnd - 1 : a \notin SmallEnd .. PoolSize - 1
    BY <1>5
  <2> QED
    BY <2>1, <1>6, <1>9
<1> QED
  BY <1>3, <1>6, <1>7, <1>8, <1>9, <1>10 DEF GivenChunks

\* Merging a chunk with its neighbours makes no new chunk.
LEMMA CoalesceDomain ==
  ASSUME NEW c, NEW a \in DOMAIN c
  PROVE  DOMAIN Coalesce(c, a) \subseteq DOMAIN c
<1>1. \A d, x : DOMAIN Merge(d, x) \subseteq DOMAIN d
  BY DEF Merge
<1>2. \A d, x : DOMAIN MergeNext(d, x) \subseteq DOMAIN d
  BY <1>1 DEF MergeNext
<1>3. \A d, x : DOMAIN MergePrev(d, x) \subseteq DOMAIN d
  BY <1>1 DEF MergePrev
<1>4. DOMAIN Mark(c, a, FALSE) = DOMAIN c
  BY DEF Mark
<1> QED
  BY <1>2, <1>3, <1>4 DEF Coalesce

\* A workspace that is at the top stays within what is at the top afterwards,
\* and nothing else is handed out.
Extended(p, n, r) ==
  /\ r.pool.small = p.small /\ r.pool.high \in BOOLEAN /\ r.pool.exact = p.exact
  /\ p.high => r.pool.high
  /\ r.ptr /= Null => r.pool.high /\ n <= PoolSize
  /\ p.high /\ p.chunks[Top(p.chunks)].used =>
       r.pool.chunks[Top(r.pool.chunks)].used /\ Top(r.pool.chunks) <= Top(p.chunks)
  /\ \/ r.pool = p
     \/ /\ p.high \/ ~p.chunks[Top(p.chunks)].used
        /\ GivenChunks(r.pool.chunks) \subseteq
             (GivenChunks(p.chunks) \ {Top(p.chunks)}) \cup {Top(r.pool.chunks)}

\* extend_high_memory_allocation moves nothing that was handed out.
LEMMA ExtendHighMemoryKeeps ==
  ASSUME NEW p, IsPool(p), p.high \in BOOLEAN, NEW n \in Nat \ {0}, NEW current,
         NEW r, r = ExtendHighMemory(p, n, current)
  PROVE  Extended(p, n, r)
<1>0. IsPool(r.pool) /\ Tiles(r.pool.chunks) /\ Sound(p.chunks) /\ Tiles(p.chunks)
      /\ (r.ptr # Null => r.ptr = Top(r.pool.chunks))
  BY ExtendHighMemorySound DEF IsPool, Sound
<1>1. PICK c, sm, h, e, b :
        p = [chunks |-> c, small |-> sm, high |-> h, exact |-> e, bytes |-> b]
  BY DEF IsPool
<1>c. p.chunks = c /\ p.high = h /\ h \in BOOLEAN /\ p.small = sm /\ p.exact = e
  BY <1>1
<1>2. PICK top : top = Top(c)
  OBVIOUS
<1>3. top \in DOMAIN c /\ top \in Nat /\ c[top].size \in Nat /\ top + c[top].size = PoolSize
      /\ \A x \in DOMAIN c : x <= top
  BY <1>0, <1>c, <1>2, TopChunk, AfterBounds DEF After
<1>5. PICK f : f = IF h THEN Coalesce(c, top) ELSE c
  OBVIOUS
<1>6. PICK tail : tail = Top(f)
  OBVIOUS
<1>7. PICK left : left = f[tail].size - n
  OBVIOUS
<1>8. \/ r = [pool |-> p, ptr |-> Null]
      \/ h /\ c[top].used /\ n <= c[top].size /\ r = [pool |-> p, ptr |-> top]
      \/ /\ h \/ ~c[top].used
         /\ left < 0
         /\ r = [pool |-> [p EXCEPT !.chunks = Used(f, tail)], ptr |-> Null]
      \/ /\ h \/ ~c[top].used
         /\ ~(left < 0)
         /\ h /\ c[top].used => ~(n <= c[top].size)
         /\ n <= PoolSize
         /\ \E by :
              r = [pool |-> [p EXCEPT
                      !.chunks = Used(IF left > 0 THEN Split(f, tail, left) ELSE f, tail + left),
                      !.high = TRUE, !.bytes = by],
                   ptr |-> tail + left]
  <2>1. p.chunks = c /\ (p.high <=> h) /\ p.bytes = b
    BY <1>1
  <2>2. ~(n > PoolSize) => n <= PoolSize
    BY Sizes
  <2> QED
    BY <1>2, <1>5, <1>6, <1>7, <2>1, <2>2, ZenonT(60) DEF ExtendHighMemory, Used
<1>9. CASE \/ r = [pool |-> p, ptr |-> Null]
           \/ h /\ c[top].used /\ n <= c[top].size /\ r = [pool |-> p, ptr |-> top]
  <2>1. r.pool = p /\ (r.ptr /= Null => h /\ n <= c[top].size)
    BY <1>9
  <2>2. n <= c[top].size => n <= PoolSize
    BY <1>3
  <2>3. Top(p.chunks) <= Top(p.chunks)
    BY <1>3, <1>c, <1>2
  <2> QED
    BY <2>1, <2>2, <2>3, <1>c DEF Extended
<1>10. ASSUME h \/ ~c[top].used
       PROVE  /\ Tiles(f) /\ tail \in DOMAIN f /\ tail <= top /\ tail \in Nat
              /\ f[tail].size \in Nat /\ tail + f[tail].size = PoolSize
              /\ \A x \in DOMAIN f : f[x].used => x \in DOMAIN c /\ c[x].used /\ x /= top
  <2>1. CASE h
    <3>1. f = Coalesce(c, top)
      BY <1>5, <2>1
    <3>2. /\ Sound(f)
          /\ \A x \in DOMAIN f : f[x].used => x # top /\ x \in DOMAIN c /\ f[x] = c[x]
      BY <3>1, <1>0, <1>c, <1>3, CoalesceSound
    <3>3. Tiles(f) /\ tail \in DOMAIN f /\ After(f, tail) = PoolSize
      BY <3>2, <1>6, TopChunk DEF Sound
    <3>4. tail \in DOMAIN c
      BY <3>1, <3>3, <1>3, CoalesceDomain
    <3> QED
      BY <3>2, <3>3, <3>4, <1>3, AfterBounds DEF After
  <2>2. CASE ~h
    <3>1. f = c /\ tail = top
      BY <2>2, <1>2, <1>5, <1>6
    <3> QED
      BY <3>1, <2>2, <1>10, <1>0, <1>c, <1>3
  <2> QED
    BY <2>1, <2>2
\* What becomes of the pool when the chunk x is marked in the end.
<1>11. ASSUME NEW g, NEW x \in Nat, h \/ ~c[top].used, r.pool.chunks = g,
              x \in DOMAIN g, g[x].used, After(g, x) = PoolSize,
              h /\ c[top].used => x <= top,
              \A z \in DOMAIN g : g[z].used => z = x \/ (z \in DOMAIN f /\ f[z].used),
              r.pool.small = sm, r.pool.exact = e,
              r.pool.high \in BOOLEAN, h => r.pool.high,
              r.ptr /= Null => r.pool.high /\ n <= PoolSize
       PROVE  Extended(p, n, r)
  <2>1. x = Top(g)
    <3>1. PoolSize >= PoolSize /\ Tiles(g) /\ After(g, x) >= PoolSize
      BY <1>0, <1>11, Sizes
    <3> QED
      BY <3>1, <1>11, EndsPool
  <2>2. GivenChunks(g) \subseteq (GivenChunks(c) \ {top}) \cup {x}
    BY <1>10, <1>11 DEF GivenChunks
  <2> QED
    BY <1>c, <1>2, <1>11, <2>1, <2>2 DEF Extended
<1>12. CASE /\ h \/ ~c[top].used
            /\ left < 0
            /\ r = [pool |-> [p EXCEPT !.chunks = Used(f, tail)], ptr |-> Null]
  <2>1. PICK g : g = Used(f, tail)
    OBVIOUS
  <2>2. r = [pool |-> [chunks |-> g, small |-> sm, high |-> h, exact |-> e, bytes |-> b],
             ptr |-> Null]
    BY <1>1, <1>12, <2>1
  <2>3. /\ DOMAIN g = DOMAIN f /\ After(g, tail) = After(f, tail) /\ g[tail].used
        /\ \A z \in DOMAIN f \ {tail} : g[z] = f[z]
    BY <1>10, <1>12, <2>1, MarkUsedTiles
  <2>4. After(g, tail) = PoolSize
    BY <2>3, <1>10, <1>12 DEF After
  <2>5. r.pool.chunks = g /\ r.pool.small = sm /\ r.pool.exact = e /\ r.pool.high = h /\ r.ptr = Null
    BY <2>2
  <2> QED
    BY <1>c, <1>10, <1>11, <1>12, <2>3, <2>4, <2>5
<1>13. CASE /\ h \/ ~c[top].used
            /\ ~(left < 0)
            /\ h /\ c[top].used => ~(n <= c[top].size)
            /\ n <= PoolSize
            /\ \E by :
                 r = [pool |-> [p EXCEPT
                         !.chunks = Used(IF left > 0 THEN Split(f, tail, left) ELSE f, tail + left),
                         !.high = TRUE, !.bytes = by],
                      ptr |-> tail + left]
  <2>1. PICK s : s = IF left > 0 THEN Split(f, tail, left) ELSE f
    OBVIOUS
  <2>2. PICK x : x = tail + left
    OBVIOUS
  <2>3. PICK g : g = Used(s, x)
    OBVIOUS
  <2>4. PICK by : r = [pool |-> [p EXCEPT !.chunks = Used(s, x), !.high = TRUE, !.bytes = by],
                       ptr |-> x]
    BY <1>13, <2>1, <2>2
  <2>5. PICK w : w = [p EXCEPT !.chunks = g, !.high = TRUE, !.bytes = by]
    OBVIOUS
  <2>6. w = [chunks |-> g, small |-> sm, high |-> TRUE, exact |-> e, bytes |-> by]
    BY <1>1, <2>5
  <2>7. r = [pool |-> w, ptr |-> x]
    BY <2>3, <2>4, <2>5
  <2>8. r.pool.chunks = g /\ r.pool.small = sm /\ r.pool.exact = e /\ r.pool.high = TRUE
    BY <2>6, <2>7
  <2>9. left \in Int /\ left >= 0 /\ left = f[tail].size - n /\ x \in Nat
    BY <1>7, <1>10, <1>13, <2>2
  <2>10. /\ x \in DOMAIN s /\ s[x].size \in Nat
         /\ \A z \in DOMAIN s : s[z].used => z \in DOMAIN f /\ f[z].used
    <3>1. CASE left > 0
      <4>1. s = Split(f, tail, left)
        BY <3>1, <2>1
      <4>2. x \in DOMAIN s /\ x /= tail
        BY <4>1, <2>2, <2>9, <3>1, <1>10, <1>13 DEF Split
      <4>3. s[x].size = f[tail].size - left
        BY <4>1, <4>2, <2>2 DEF Split, Chunk
      <4>4. \A z \in DOMAIN s : s[z].used => z \in DOMAIN f /\ f[z].used
        BY <4>1, <2>2 DEF Split, Chunk
      <4> QED
        BY <4>2, <4>3, <4>4, <2>9, <1>10, <1>13
    <3>2. CASE ~(left > 0)
      <4>1. s = f /\ x = tail
        BY <3>2, <2>1, <2>2, <2>9, <1>10, <1>13
      <4> QED
        BY <4>1, <1>10, <1>13
    <3> QED
      BY <3>1, <3>2
  <2>11. /\ DOMAIN g = DOMAIN s /\ g[x].used
         /\ \A z \in DOMAIN s \ {x} : g[z] = s[z]
    BY <2>3, <2>10 DEF Used, Mark, Chunk
  <2>12. x = Top(g) /\ After(g, x) = PoolSize
    <3>1. Tiles(g)
      BY <1>0, <2>8
    <3>2. r.ptr = x /\ r.pool.chunks = g
      BY <2>7, <2>8
    <3>3. x # 0
      BY <1>10, <1>13, <2>9, <2>2, AfterBounds
    <3>4. x = Top(g)
      BY <3>2, <3>3, <1>0 DEF Null
    <3> QED
      BY <3>1, <3>4, TopChunk
  <2>13. h /\ c[top].used => x <= top
    <3>1. n > c[top].size => x <= top
      BY <2>2, <2>9, <1>3, <1>10, <1>13
    <3> QED
      BY <3>1, <1>13, <1>3
  <2>14. \A z \in DOMAIN g : g[z].used => z = x \/ (z \in DOMAIN f /\ f[z].used)
    BY <2>10, <2>11
  <2> QED
    BY <1>11, <1>13, <2>8, <2>9, <2>10, <2>11, <2>12, <2>13, <2>14
<1> QED
  BY <1>8, <1>9, <1>12, <1>13

-----------------------------------------------------------------------------
(* The table of handles against the pool.                                     *)

\* What was handed out at the addresses A stays as it is.
Keeps(p, q, A) ==
  \A a \in A :
    /\ a \in p.small => a \in q.small
    /\ a \in GivenChunks(p.chunks) => a \in GivenChunks(q.chunks) /\ q.chunks[a] = p.chunks[a]

\* The memory at an address is large enough for a tensor.
HasMemory(p, a, h) ==
  \/ a \in p.small /\ Size[h] = 1 /\ Stream[h] = 0
  \/ a \in GivenChunks(p.chunks) /\ p.chunks[a].size >= Size[h]

Allocated(p, h, r) ==
  /\ IsPool(r.pool) /\ r.pool.high = p.high /\ r.pool.exact = p.exact
  /\ r.ptr \in Units \ {Null} /\ r.ptr \notin Given(p)
  /\ Given(r.pool) = Given(p) \cup {r.ptr}
  /\ Keeps(p, r.pool, Given(p)) /\ HasMemory(r.pool, r.ptr, h)

\* pool_alloc_chunk gives free memory, large enough, and leaves the rest alone.
LEMMA AllocKeeps ==
  ASSUME NEW p, IsPool(p), NEW h \in Handles, NEW r, r = PoolAlloc(p, Size[h], Stream[h]),
         r.ptr /= Null
  PROVE  Allocated(p, h, r)
<1> DEFINE n == Size[h]
<1>1. n \in Nat \ {0}
  BY Sizing
<1>2. r.pool.high = p.high /\ r.pool.exact = p.exact
      /\ (r.pool.chunks = p.chunks /\ r.pool.small /= p.small => Stream[h] = 0)
  <2>1. p = [chunks |-> p.chunks, small |-> p.small, high |-> p.high,
             exact |-> p.exact, bytes |-> p.bytes]
    BY DEF IsPool
  <2>2. CASE IsSmall(p, n, Stream[h])
    <3>1. PICK s : r.pool = [p EXCEPT !.small = s]
      BY <2>2 DEF PoolAlloc
    <3> QED
      BY <2>1, <2>2, <3>1 DEF IsSmall
  <2>3. CASE ~IsSmall(p, n, Stream[h])
    <3>1. PICK c, b : r.pool = [p EXCEPT !.chunks = c, !.bytes = b] \/ r.pool = p
      BY <2>3 DEF PoolAlloc
    <3>2. r.pool.small = p.small /\ r.pool.high = p.high /\ r.pool.exact = p.exact
      BY <2>1, <3>1
    <3> QED
      BY <3>2
  <2> QED
    BY <2>2, <2>3
<1>3. IsPool(r.pool) /\ HandedOut(p, n, r)
  <2>1. PICK s : s = Stream[h]
    OBVIOUS
  <2>2. r = PoolAlloc(p, n, s)
    BY <2>1
  <2> HIDE DEF n
  <2> QED
    BY <1>1, <2>2, PoolAllocSound
<1> HIDE DEF n
<1>4. CASE n = 1 /\ r.ptr \in (SmallBase .. SmallEnd - 1) \ p.small
           /\ r.pool.small = p.small \cup {r.ptr} /\ r.pool.chunks = p.chunks
  <2>1. Given(r.pool) = Given(p) \cup {r.ptr} /\ Keeps(p, r.pool, Given(p))
    BY <1>4 DEF Given, Keeps
  <2>2. r.ptr \notin GivenChunks(p.chunks) /\ r.ptr \in Units \ {Null}
    <3>1. r.ptr \in Given(r.pool) /\ r.ptr \in r.pool.small
      BY <1>4, <2>1
    <3> QED
      BY <1>3, <1>4, <3>1, GivenParts DEF HandedOut
  <2>3. HasMemory(r.pool, r.ptr, h)
    BY <1>2, <1>4 DEF HasMemory, n
  <2> QED
    BY <1>2, <1>3, <1>4, <2>1, <2>2, <2>3 DEF HandedOut, Given, Allocated
<1>5. CASE /\ r.ptr \notin GivenChunks(p.chunks) /\ r.pool.chunks[r.ptr].size >= n
           /\ \A x : x \in GivenChunks(r.pool.chunks)
                     <=> x \in GivenChunks(p.chunks) \/ x = r.ptr
           /\ \A x \in GivenChunks(p.chunks) : r.pool.chunks[x] = p.chunks[x]
           /\ r.pool.small = p.small
  <2>1. r.ptr \in GivenChunks(r.pool.chunks)
    BY <1>5
  <2>2. Given(r.pool) = Given(p) \cup {r.ptr} /\ Keeps(p, r.pool, Given(p))
    BY <1>5 DEF Given, Keeps
  <2>3. r.ptr \notin p.small /\ r.ptr \in Units \ {Null}
    <3>1. r.ptr \in Given(r.pool)
      BY <2>1 DEF Given
    <3> QED
      BY <1>3, <1>5, <2>1, <3>1, GivenParts DEF HandedOut
  <2>4. HasMemory(r.pool, r.ptr, h)
    BY <1>5, <2>1 DEF HasMemory, n
  <2> QED
    BY <1>2, <1>3, <1>5, <2>2, <2>3, <2>4 DEF HandedOut, Given, Allocated
<1> QED
  BY <1>3, <1>4, <1>5 DEF HandedOut

GivenBack(p, a, q) ==
  /\ IsPool(q) /\ q.exact = p.exact /\ (q.high => p.high) /\ q.high \in BOOLEAN
  /\ Given(q) = Given(p) \ {a} /\ Keeps(p, q, Given(p) \ {a})
  /\ p.high /\ Top(p.chunks) \in Given(p) \ {a} => q.high

\* pool_free_chunk gives back what it is asked to and leaves the rest alone.
LEMMA FreeKeeps ==
  ASSUME NEW p, IsPool(p), p.high \in BOOLEAN, NEW a \in Given(p), NEW q, q = PoolFree(p, a)
  PROVE  GivenBack(p, a, q)
<1>1. a \in p.small \/ a \in GivenChunks(p.chunks)
  BY DEF Given
<1>2. /\ IsPool(q) /\ q.small = p.small \ {a}
      /\ \A x : x \in GivenChunks(q.chunks) <=> x \in GivenChunks(p.chunks) /\ x # a
      /\ \A x \in GivenChunks(q.chunks) : q.chunks[x] = p.chunks[x]
  BY <1>1, PoolFreeSound
<1>3. Given(q) = Given(p) \ {a} /\ Keeps(p, q, Given(p) \ {a})
  BY <1>2 DEF Given, Keeps
<1>4. p = [chunks |-> p.chunks, small |-> p.small, high |-> p.high,
           exact |-> p.exact, bytes |-> p.bytes]
  BY DEF IsPool
<1>5. CASE a \in p.small
  <2>1. q = [p EXCEPT !.small = p.small \ {a}]
    BY <1>5 DEF PoolFree
  <2>2. q.high = p.high /\ q.exact = p.exact
    BY <2>1, <1>4
  <2> QED
    BY <1>2, <1>3, <2>2 DEF GivenBack
<1>6. CASE a \notin p.small
  <2>1. IsAllocated(p, a)
    BY <1>1, <1>6 DEF IsAllocated, GivenChunks
  <2>2. PICK c : c = Coalesce(p.chunks, a)
    OBVIOUS
  <2>3. PICK b : q = [p EXCEPT !.chunks = c, !.bytes = b, !.high = p.high /\ Top(c) /= a]
    BY <1>6, <2>1, <2>2 DEF PoolFree
  <2>4. q.exact = p.exact /\ q.high = (p.high /\ Top(c) /= a) /\ q.chunks = c
    BY <2>3, <1>4
  <2>5. ASSUME p.high, Top(p.chunks) \in Given(p) \ {a} PROVE q.high
    <3>1. Top(p.chunks) \in GivenChunks(p.chunks) /\ Top(p.chunks) /= a
      <4>1. Top(p.chunks) \notin p.small
        BY GivenParts
      <4> QED
        BY <2>5, <4>1 DEF Given
    <3>2. Top(p.chunks) \in GivenChunks(q.chunks) /\ q.chunks[Top(p.chunks)] = p.chunks[Top(p.chunks)]
      BY <3>1, <2>5, <1>2
    <3>3. Top(p.chunks) = Top(q.chunks)
      BY <3>1, <3>2, <1>2, TopStays DEF IsPool, Sound, GivenChunks
    <3> QED
      BY <2>4, <2>5, <3>3
  <2> QED
    BY <1>2, <1>3, <2>4, <2>5 DEF GivenBack
<1> QED
  BY <1>5, <1>6

\* at: the address of each tensor, or Null.  old: the addresses that tensors have
\* left and that have not been given back.
Addresses(at) == {at[h] : h \in Handles} \ {Null}

Matches(p, at, old) ==
  /\ \A h \in Handles : at[h] /= Null => HasMemory(p, at[h], h)
  /\ \A h, g \in Handles : at[h] = at[g] /\ at[h] /= Null => h = g
  /\ Given(p) \subseteq Addresses(at) \cup old \cup {Top(p.chunks)}
  /\ old \subseteq Given(p) \ Addresses(at)

\* What is at the top passes for the workspace, unless it is one of A.
TopFree(p, A) == p.high => Top(p.chunks) \notin A

TableMatch(p, at, old) == Matches(p, at, old) /\ TopFree(p, Addresses(at) \cup old)

\* What tensors and old copies have was handed out.
LEMMA MatchGiven ==
  ASSUME NEW p, NEW at, NEW old, Matches(p, at, old)
  PROVE  Addresses(at) \cup old \subseteq Given(p)
BY DEF Matches, HasMemory, Given, Addresses

\* Memory that is kept is large enough as before.
LEMMA MemoryKept ==
  ASSUME NEW p, NEW q, NEW A, Keeps(p, q, A), NEW a \in A, NEW h, HasMemory(p, a, h)
  PROVE  HasMemory(q, a, h)
BY DEF Keeps, HasMemory

\* A tensor's chunk that is not at the top does not get there.
LEMMA NotAtTop ==
  ASSUME NEW p, IsPool(p), NEW q, IsPool(q), NEW A, Keeps(p, q, A), NEW a \in A, a \in Given(p),
         a /= Top(p.chunks)
  PROVE  a /= Top(q.chunks)
<1>1. CASE a \in p.small
  <2>1. a \in q.small
    BY <1>1 DEF Keeps
  <2> QED
    BY <2>1, GivenParts
<1>2. CASE a \in GivenChunks(p.chunks)
  <2>1. a \in DOMAIN p.chunks /\ a \in DOMAIN q.chunks /\ q.chunks[a].size = p.chunks[a].size
    BY <1>2 DEF Keeps, GivenChunks
  <2>2. Tiles(p.chunks) /\ Tiles(q.chunks)
    BY DEF IsPool, Sound
  <2> QED
    BY <2>1, <2>2, TopStays
<1> QED
  BY <1>1, <1>2 DEF Given

\* A top chunk that was handed out and is kept stays at the top.
LEMMA TopKept ==
  ASSUME NEW p, IsPool(p), NEW q, IsPool(q), NEW A, Keeps(p, q, A), Top(p.chunks) \in A,
         Top(p.chunks) \in Given(p)
  PROVE  Top(q.chunks) = Top(p.chunks) /\ Top(q.chunks) \in Given(q)
<1>1. Top(p.chunks) \in GivenChunks(p.chunks)
  <2>1. Top(p.chunks) \notin p.small
    BY GivenParts
  <2> QED
    BY <2>1 DEF Given
<1>2. Top(p.chunks) \in GivenChunks(q.chunks) /\ q.chunks[Top(p.chunks)] = p.chunks[Top(p.chunks)]
  BY <1>1 DEF Keeps
<1>3. Tiles(p.chunks) /\ Tiles(q.chunks)
  BY DEF IsPool, Sound
<1>4. Top(p.chunks) = Top(q.chunks)
  BY <1>1, <1>2, <1>3, TopStays DEF GivenChunks
<1> QED
  BY <1>2, <1>4 DEF Given

-----------------------------------------------------------------------------
(* Memory given, taken back and left, against the table.                      *)

\* Where chunks, corner and the mark of the top are the same, the table matches as before.
LEMMA MatchFrame ==
  ASSUME NEW p, NEW q, q.small = p.small, q.chunks = p.chunks, q.high = p.high,
         NEW at, NEW old, TableMatch(p, at, old)
  PROVE  TableMatch(q, at, old)
BY DEF TableMatch, Matches, TopFree, HasMemory, Given, Addresses

\* Tensors leave their memory without giving it back.
Leaves(at, H, at2, left) ==
  /\ \A h \in Handles : at2[h] = IF h \in H THEN Null ELSE at[h]
  /\ left = {at[h] : h \in H} \ {Null}

\* What tensors leave is still handed out, and is old.
LEMMA LeaveMatch ==
  ASSUME NEW p, NEW at, NEW old, TableMatch(p, at, old), NEW H \in SUBSET Handles,
         NEW at2, NEW left, Leaves(at, H, at2, left)
  PROVE  TableMatch(p, at2, old \cup left)
<1>1. /\ \A h \in Handles : at2[h] = IF h \in H THEN Null ELSE at[h]
      /\ left = {at[h] : h \in H} \ {Null}
  BY DEF Leaves
<1>2. \A h, g \in Handles : at[h] = at[g] /\ at[h] /= Null => h = g
  BY DEF TableMatch, Matches, TopFree
<1>3. left \cap Addresses(at2) = {}
  BY <1>1, <1>2 DEF Addresses
<1>4. Addresses(at) = Addresses(at2) \cup left
  <2>1. ASSUME NEW a \in Addresses(at) PROVE a \in Addresses(at2) \cup left
    BY <2>1, <1>1 DEF Addresses
  <2>2. ASSUME NEW a \in Addresses(at2) \cup left PROVE a \in Addresses(at)
    BY <2>2, <1>1 DEF Addresses
  <2> QED
    BY <2>1, <2>2
<1>5. left \subseteq Given(p)
  BY <1>4, MatchGiven DEF TableMatch
<1>6. \A h \in Handles : at2[h] /= Null => HasMemory(p, at2[h], h)
  BY <1>1 DEF TableMatch, Matches, TopFree
<1>7. \A h, g \in Handles : at2[h] = at2[g] /\ at2[h] /= Null => h = g
  BY <1>1, <1>2
<1>8. Given(p) \subseteq Addresses(at2) \cup (old \cup left) \cup {Top(p.chunks)}
  BY <1>4 DEF TableMatch, Matches, TopFree
<1>9. old \cup left \subseteq Given(p) \ Addresses(at2)
  BY <1>3, <1>4, <1>5 DEF TableMatch, Matches, TopFree
<1>10. p.high => Top(p.chunks) \notin Addresses(at2) \cup (old \cup left)
  BY <1>4 DEF TableMatch, Matches, TopFree
<1> QED
  BY <1>3, <1>4, <1>6, <1>7, <1>8, <1>9, <1>10 DEF TableMatch, Matches, TopFree

\* The top chunk, unless the workspace is in it, is not handed out.
LEMMA TopStaysFree ==
  ASSUME NEW p, IsPool(p), NEW q, IsPool(q), NEW A, A \subseteq Given(p), Keeps(p, q, A),
         q.high => p.high, TopFree(p, A)
  PROVE  TopFree(q, A)
BY NotAtTop DEF TopFree

\* Memory that is not a tensor's is given back.
LEMMA FreeMatch ==
  ASSUME NEW p, IsPool(p), p.high \in BOOLEAN, NEW at, NEW old, TableMatch(p, at, old),
         NEW a \in Given(p) \ Addresses(at), NEW q, q = PoolFree(p, a)
  PROVE  TableMatch(q, at, old \ {a})
<1>1. GivenBack(p, a, q)
  BY FreeKeeps
<1> DEFINE B == Addresses(at) \cup (old \ {a})
<1>2. B \subseteq Given(p) \ {a}
  BY MatchGiven DEF TableMatch
<1>3. Keeps(p, q, Given(p) \ {a}) /\ Given(q) = Given(p) \ {a} /\ IsPool(q) /\ (q.high => p.high)
  BY <1>1 DEF GivenBack
<1>4. Keeps(p, q, B)
  BY <1>2, <1>3 DEF Keeps
<1>5. TopFree(q, B)
  <2>1. TopFree(p, B)
    BY DEF TableMatch, Matches, TopFree
  <2> HIDE DEF B
  <2>2. B \subseteq Given(p)
    BY <1>2
  <2> QED
    BY <1>3, <1>4, <2>1, <2>2, TopStaysFree
<1>6. ASSUME NEW h \in Handles, at[h] /= Null PROVE HasMemory(q, at[h], h)
  <2>1. at[h] \in Given(p) \ {a} /\ HasMemory(p, at[h], h)
    BY <1>2, <1>6 DEF TableMatch, Matches, TopFree, Addresses
  <2> QED
    BY <2>1, <1>3, MemoryKept
<1>7. ASSUME NEW x \in Given(q) PROVE x \in Addresses(at) \cup (old \ {a}) \cup {Top(q.chunks)}
  <2>1. x \in Given(p) /\ x /= a
    BY <1>3
  <2>2. CASE x = Top(p.chunks)
    BY <1>3, <2>1, <2>2, TopKept
  <2>3. CASE x /= Top(p.chunks)
    BY <2>1, <2>3 DEF TableMatch, Matches, TopFree
  <2> QED
    BY <2>2, <2>3
<1>8. old \ {a} \subseteq Given(q) \ Addresses(at)
  BY <1>3 DEF TableMatch, Matches, TopFree
<1>9. \A h, g \in Handles : at[h] = at[g] /\ at[h] /= Null => h = g
  BY DEF TableMatch, Matches, TopFree
<1>10. q.high => Top(q.chunks) \notin Addresses(at) \cup (old \ {a})
  BY <1>5 DEF TopFree
<1> HIDE DEF B
<1>11. \A h \in Handles : at[h] /= Null => HasMemory(q, at[h], h)
  BY <1>6
<1>12. Given(q) \subseteq Addresses(at) \cup (old \ {a}) \cup {Top(q.chunks)}
  BY <1>7
<1> QED
  BY <1>8, <1>9, <1>10, <1>11, <1>12 DEF TableMatch, Matches, TopFree

\* A tensor without memory gets some.
LEMMA AllocMatch ==
  ASSUME NEW p, IsPool(p), NEW at, NEW old, Matches(p, at, old), NEW h \in Handles,
         at = [x \in Handles |-> at[x]], at[h] = Null, NEW r, Allocated(p, h, r),
         NEW at2, at2 = [at EXCEPT ![h] = r.ptr]
  PROVE  Matches(r.pool, at2, old)
<1> DEFINE q == r.pool
<1>1. /\ IsPool(q) /\ q.high = p.high /\ r.ptr /= Null /\ r.ptr \notin Given(p)
      /\ Given(q) = Given(p) \cup {r.ptr} /\ Keeps(p, q, Given(p)) /\ HasMemory(q, r.ptr, h)
  BY DEF Allocated
<1> HIDE DEF q
<1>2. \A x \in Handles : at2[x] = IF x = h THEN r.ptr ELSE at[x]
  OBVIOUS
<1>3. Addresses(at2) = Addresses(at) \cup {r.ptr}
  <2>1. ASSUME NEW a \in Addresses(at) PROVE a \in Addresses(at2)
    BY <1>2 DEF Addresses
  <2>2. r.ptr \in Addresses(at2)
    BY <1>1, <1>2 DEF Addresses
  <2>3. ASSUME NEW a \in Addresses(at2) PROVE a \in Addresses(at) \cup {r.ptr}
    BY <1>2 DEF Addresses
  <2> QED
    BY <2>1, <2>2, <2>3
<1>4. Addresses(at) \cup old \subseteq Given(p)
  BY MatchGiven
<1>5. ASSUME NEW x \in Handles, at2[x] /= Null PROVE HasMemory(q, at2[x], x)
  <2>1. CASE x = h
    BY <1>1, <1>2, <2>1
  <2>2. CASE x /= h
    <3>1. at2[x] = at[x] /\ at[x] \in Given(p) /\ HasMemory(p, at[x], x)
      BY <1>2, <1>4, <1>5, <2>2 DEF Matches, Addresses
    <3> QED
      BY <3>1, <1>1, MemoryKept
  <2> QED
    BY <2>1, <2>2
<1>6. ASSUME NEW x \in Handles, NEW y \in Handles, at2[x] = at2[y], at2[x] /= Null PROVE x = y
  <2>1. \A z \in Handles : at[z] /= r.ptr
    BY <1>1, <1>4 DEF Addresses
  <2>2. \A u, v \in Handles : at[u] = at[v] /\ at[u] /= Null => u = v
    BY DEF Matches
  <2> QED
    BY <1>2, <1>6, <2>1, <2>2
<1>7. ASSUME NEW x \in Given(q) PROVE x \in Addresses(at2) \cup old \cup {Top(q.chunks)}
  <2>1. CASE x = Top(p.chunks) /\ x \in Given(p)
    BY <1>1, <2>1, TopKept
  <2>2. CASE x \in Given(p) /\ x /= Top(p.chunks)
    BY <1>3, <2>2 DEF Matches
  <2>3. CASE x = r.ptr
    BY <1>3, <2>3
  <2> QED
    BY <1>1, <2>1, <2>2, <2>3
<1>8. old \subseteq Given(q) \ Addresses(at2)
  BY <1>1, <1>3, <1>4 DEF Matches
<1>11. \A x \in Handles : at2[x] /= Null => HasMemory(q, at2[x], x)
  BY <1>5
<1>12. Given(q) \subseteq Addresses(at2) \cup old \cup {Top(q.chunks)}
  BY <1>7
<1>13. \A x, y \in Handles : at2[x] = at2[y] /\ at2[x] /= Null => x = y
  BY <1>6
<1> QED
  BY <1>8, <1>11, <1>12, <1>13 DEF Matches, q

-----------------------------------------------------------------------------
(* The workspace at the top, and memory given back address by address.        *)

\* Units that lie in the top chunk, which is the workspace.
Reserved(p, w) ==
  p.high /\ p.chunks[Top(p.chunks)].used /\ w \subseteq Top(p.chunks) .. PoolSize - 1

\* The top chunk, when it is used, was handed out.
LEMMA TopGiven ==
  ASSUME NEW p, IsPool(p), p.chunks[Top(p.chunks)].used
  PROVE  Top(p.chunks) \in Given(p)
BY GivenParts DEF Given

\* The top chunk is kept, so is what was reserved in it.
LEMMA ReservedKept ==
  ASSUME NEW p, IsPool(p), NEW q, IsPool(q), NEW w, Reserved(p, w),
         Keeps(p, q, {Top(p.chunks)}), q.high
  PROVE  Reserved(q, w)
<1>1. Top(p.chunks) \in Given(p) \ p.small
  BY TopGiven, GivenParts DEF Reserved
<1>2. Top(q.chunks) = Top(p.chunks) /\ Top(q.chunks) \in Given(q)
  <2>1. Top(p.chunks) \in {Top(p.chunks)}
    OBVIOUS
  <2> QED
    BY <1>1, <2>1, TopKept
<1>3. Top(q.chunks) \notin q.small
  BY GivenParts
<1>4. q.chunks[Top(q.chunks)].used
  BY <1>2, <1>3 DEF Given, GivenChunks
<1> QED
  BY <1>2, <1>4 DEF Reserved

\* A tensor that gets memory does not get what is reserved.
LEMMA ReservedAlloc ==
  ASSUME NEW p, IsPool(p), NEW h, NEW r, Allocated(p, h, r), NEW w, Reserved(p, w)
  PROVE  Reserved(r.pool, w)
<1>1. Top(p.chunks) \in Given(p)
  BY TopGiven DEF Reserved
<1>2. IsPool(r.pool) /\ r.pool.high /\ Keeps(p, r.pool, {Top(p.chunks)})
  BY <1>1 DEF Allocated, Keeps, Reserved
<1> QED
  BY <1>2, ReservedKept

\* The addresses A were given back, and nothing else.
Returned(p, A, q) ==
  /\ IsPool(q) /\ q.high \in BOOLEAN /\ q.exact = p.exact /\ (q.high => p.high)
  /\ Given(q) = Given(p) \ A /\ Keeps(p, q, Given(p) \ A)

\* ... none of them the workspace: the table matches, and what was reserved is.
Settled(p, at, old, A, q) ==
  /\ Returned(p, A, q)
  /\ TableMatch(q, at, old \ A)
  /\ \A w : Reserved(p, w) => Reserved(q, w)

\* One address that a tensor has left is given back.
LEMMA FreeSettles ==
  ASSUME NEW p, IsPool(p), p.high \in BOOLEAN, NEW at, NEW old, TableMatch(p, at, old),
         NEW a \in old, NEW q, q = PoolFree(p, a)
  PROVE  Settled(p, at, old, {a}, q)
<1>1. a \in Given(p) \ Addresses(at)
  BY DEF TableMatch, Matches
<1>2. GivenBack(p, a, q)
  BY <1>1, FreeKeeps
<1>3. TableMatch(q, at, old \ {a})
  BY <1>1, FreeMatch
<1>4. Returned(p, {a}, q)
  BY <1>2 DEF GivenBack, Returned
<1>5. ASSUME NEW w, Reserved(p, w) PROVE Reserved(q, w)
  <2>1. Top(p.chunks) \in Given(p) \ {a}
    BY <1>5, TopGiven DEF TableMatch, TopFree, Reserved
  <2>2. q.high /\ Keeps(p, q, {Top(p.chunks)}) /\ IsPool(q)
    BY <1>2, <1>5, <2>1 DEF GivenBack, Keeps, Reserved
  <2> QED
    BY <1>5, <2>2, ReservedKept
<1> QED
  BY <1>3, <1>4, <1>5 DEF Settled

\* Addresses are given back one after the other.
LEMMA SettledTwice ==
  ASSUME NEW p, NEW q, NEW r, NEW at, NEW old, NEW A, NEW B,
         Settled(p, at, old, A, q), Settled(q, at, old \ A, B, r)
  PROVE  Settled(p, at, old, A \cup B, r)
<1>1. Given(r) = Given(p) \ (A \cup B)
  BY DEF Settled, Returned
<1>2. Keeps(p, r, Given(p) \ (A \cup B))
  BY DEF Settled, Returned, Keeps
<1>3. (old \ A) \ B = old \ (A \cup B)
  OBVIOUS
<1>4. TableMatch(r, at, old \ (A \cup B))
  BY <1>3 DEF Settled
<1>5. IsPool(r) /\ r.high \in BOOLEAN /\ r.exact = p.exact /\ (r.high => p.high)
  BY DEF Settled, Returned
<1>6. \A w : Reserved(p, w) => Reserved(r, w)
  BY DEF Settled
<1> QED
  BY <1>1, <1>2, <1>4, <1>5, <1>6 DEF Settled, Returned

\* Nothing given back changes nothing.
LEMMA SettledNothing ==
  ASSUME NEW p, IsPool(p), p.high \in BOOLEAN, NEW at, NEW old, TableMatch(p, at, old)
  PROVE  Settled(p, at, old, {}, p)
<1>1. old \ {} = old /\ Given(p) \ {} = Given(p)
  OBVIOUS
<1>2. Keeps(p, p, Given(p))
  BY DEF Keeps
<1> QED
  BY <1>1, <1>2 DEF Settled, Returned

\* What holds at 0 and is kept by each step upwards holds at the end.
LEMMA Upwards ==
  ASSUME NEW S, NEW top \in Nat, 0 \in S, \A a \in 1 .. top : a - 1 \in S => a \in S
  PROVE  top \in S
<1> DEFINE T == (0 .. top) \ S
<1>1. CASE T = {}
  BY <1>1
<1>2. CASE T /= {}
  <2>1. PICK n \in T : \A y \in T : ~(y < n)
    <3>1. T \subseteq Nat
      OBVIOUS
    <3> HIDE DEF T
    <3> QED
      BY <1>2, <3>1, Smallest
  <2>2. n \in 1 .. top /\ n - 1 \in 0 .. top /\ n - 1 < n
    BY <2>1
  <2>3. n - 1 \in S
    BY <2>1, <2>2
  <2> QED
    BY <2>1, <2>2, <2>3
<1> QED
  BY <1>1, <1>2

\* Deallocate: all of the addresses that tensors have left.
LEMMA DeallocateSettles ==
  ASSUME NEW p, IsPool(p), p.high \in BOOLEAN, NEW at, NEW old, TableMatch(p, at, old),
         NEW A \in SUBSET old, NEW q, q = Deallocate(p, A)
  PROVE  Settled(p, at, old, A, q)
<1>1. PICK f : /\ q = f[PoolSize - 1] /\ f[0] = p
               /\ \A a \in 1 .. PoolSize - 1 :
                    f[a] = IF a \in A THEN PoolFree(f[a - 1], a) ELSE f[a - 1]
  BY DeallocateSteps
<1> DEFINE Low(a) == {x \in A : x <= a}
           S == {a \in 0 .. PoolSize - 1 : Settled(p, at, old, Low(a), f[a])}
<1>2. A \subseteq 1 .. PoolSize - 1
  <2>1. A \subseteq Units \ {Null}
    BY GivenParts DEF TableMatch, Matches
  <2> QED
    BY <2>1, Sizes DEF Units, Null
<1>8. \A x \in A : x \in Nat /\ 1 <= x /\ x <= PoolSize - 1
  BY <1>2, Sizes
<1>3. 0 \in S
  <2>1. Low(0) = {}
    BY <1>8
  <2>2. Settled(p, at, old, {}, f[0])
    BY <1>1, SettledNothing
  <2> QED
    BY <2>1, <2>2, Sizes
<1>4. ASSUME NEW a \in 1 .. PoolSize - 1, a - 1 \in S PROVE a \in S
  <2>1. Settled(p, at, old, Low(a - 1), f[a - 1])
    BY <1>4
  <2>2. PICK B : B = Low(a - 1)
    OBVIOUS
  <2>3. Low(a) = IF a \in A THEN B \cup {a} ELSE B
    <3>1. ASSUME NEW x \in A PROVE x <= a <=> x <= a - 1 \/ x = a
      BY <1>8, Sizes
    <3> QED
      BY <2>2, <3>1, <1>8
  <2>4. a \notin B
    BY <2>2
  <2> HIDE DEF Low
  <2>5. CASE a \in A
    <3>1. IsPool(f[a - 1]) /\ f[a - 1].high \in BOOLEAN /\ TableMatch(f[a - 1], at, old \ B)
      BY <2>1, <2>2 DEF Settled, Returned
    <3>2. a \in old \ B /\ f[a] = PoolFree(f[a - 1], a)
      BY <1>1, <2>4, <2>5
    <3>3. Settled(f[a - 1], at, old \ B, {a}, f[a])
      BY <3>1, <3>2, FreeSettles
    <3>4. Settled(p, at, old, B \cup {a}, f[a])
      BY <2>1, <2>2, <3>3, SettledTwice
    <3> QED
      BY <2>3, <2>5, <3>4
  <2>6. CASE a \notin A
    <3>1. f[a] = f[a - 1] /\ Low(a) = B
      BY <1>1, <2>3, <2>6
    <3> QED
      BY <2>1, <2>2, <3>1
  <2> QED
    BY <2>5, <2>6
<1>5. PoolSize - 1 \in Nat
  BY Sizes
<1>6. PoolSize - 1 \in S
  <2>1. \A a \in 1 .. PoolSize - 1 : a - 1 \in S => a \in S
    BY <1>4
  <2> HIDE DEF S
  <2> QED
    BY <1>3, <1>5, <2>1, Upwards
<1>7. Low(PoolSize - 1) = A
  BY <1>8
<1> QED
  BY <1>1, <1>6, <1>7

-----------------------------------------------------------------------------
(* New memory for the movers, one after the other.                            *)

\* The addresses of the tensors when the movers have theirs.
Landed(at, movers) ==
  [h \in Handles |-> IF \E v \in movers : v.handle = h
                     THEN (CHOOSE v \in movers : v.handle = h).to ELSE at[h]]

\* The movers of the blocks B were placed, all of them if ok, or none was.
Placed(p, at, old, B, r) ==
  /\ r = [pool |-> r.pool, movers |-> r.movers, ok |-> r.ok]
  /\ IsPool(r.pool) /\ r.pool.high = p.high /\ r.pool.exact = p.exact
  /\ Keeps(p, r.pool, Given(p)) /\ Given(p) \subseteq Given(r.pool)
  /\ \A v \in r.movers : v.to \in Units \ {Null} /\ \E b \in B : v.handle = b.handle /\ v.from = b.ptr
  /\ \A v, w \in r.movers : v.handle = w.handle => v = w
  /\ r.ok => \A b \in B : \E v \in r.movers : v.handle = b.handle
  /\ r.movers = {} => r.pool = p
  /\ Matches(r.pool, Landed(at, r.movers), old)

\* Tensors that have left their memory, of which nobody has the address of another.
Leaving(at, B) ==
  /\ \A b \in B : b.handle \in Handles /\ at[b.handle] = Null /\ b.ptr \in 1 .. PoolSize - 1
  /\ \A b, c \in B : b.handle = c.handle \/ b.ptr = c.ptr => b = c

\* A mover more lands: its tensor is where it was placed.
LEMMA LandOne ==
  ASSUME NEW at, NEW movers, NEW h \in Handles, ~ \E v \in movers : v.handle = h,
         NEW w, w.handle = h
  PROVE  /\ Landed(at, movers)[h] = at[h]
         /\ Landed(at, movers \cup {w}) = [Landed(at, movers) EXCEPT ![h] = w.to]
<1> DEFINE more == movers \cup {w}
<1>1. Landed(at, movers)[h] = at[h]
  BY DEF Landed
<1>2. ASSUME NEW x \in Handles
      PROVE  Landed(at, more)[x] = [Landed(at, movers) EXCEPT ![h] = w.to][x]
  <2>1. CASE x = h
    <3>1. \A v \in more : v.handle = h => v = w
      OBVIOUS
    <3>2. (CHOOSE v \in more : v.handle = h) = w
      BY <3>1
    <3> QED
      BY <2>1, <3>2 DEF Landed
  <2>2. CASE x /= h
    <3>1. \A v : v \in more /\ v.handle = x <=> v \in movers /\ v.handle = x
      BY <2>2
    <3>2. (CHOOSE v \in more : v.handle = x) = (CHOOSE v \in movers : v.handle = x)
      BY <3>1
    <3>3. (\E v \in more : v.handle = x) <=> (\E v \in movers : v.handle = x)
      BY <3>1
    <3> HIDE DEF more
    <3> QED
      BY <2>2, <3>2, <3>3 DEF Landed
  <2> QED
    BY <2>1, <2>2
<1> QED
  BY <1>1, <1>2 DEF Landed

\* Without movers, tensors are where they were.
LEMMA LandNone ==
  ASSUME NEW at, at = [h \in Handles |-> at[h]]
  PROVE  Landed(at, {}) = at
BY DEF Landed

\* One tensor more that has left its memory is placed.
LEMMA PlaceOneMatch ==
  ASSUME NEW p, NEW at, NEW old, NEW B, NEW acc, Placed(p, at, old, B, acc),
         NEW b, b \notin B, Leaving(at, B \cup {b}), NEW r, r = PlaceOne(acc, b)
  PROVE  Placed(p, at, old, B \cup {b}, r)
<1> DEFINE h == b.handle
           s == PoolAlloc(acc.pool, Size[b.handle], Stream[b.handle])
<1>1. PICK q, m, ok : acc = [pool |-> q, movers |-> m, ok |-> ok]
  BY DEF Placed
<1>2. h \in Handles /\ at[h] = Null /\ \A c \in B : c.handle /= h
  BY DEF Leaving
<1>3. CASE ~acc.ok \/ s.ptr = Null
  <2>1. r = [pool |-> q, movers |-> m, ok |-> FALSE]
    BY <1>1, <1>3 DEF PlaceOne
  <2> QED
    BY <1>1, <2>1 DEF Placed
<1>4. CASE ~(~acc.ok \/ s.ptr = Null)
  <2> DEFINE w == [handle |-> h, from |-> b.ptr, to |-> s.ptr]
  <2>1. r = [pool |-> s.pool, movers |-> acc.movers \cup {w}, ok |-> TRUE]
    BY <1>4 DEF PlaceOne
  <2>2. Allocated(acc.pool, h, s)
    <3>1. PICK x : x = s
      OBVIOUS
    <3>2. PICK g : g = h
      OBVIOUS
    <3>3. g \in Handles /\ IsPool(acc.pool) /\ x.ptr /= Null
          /\ x = PoolAlloc(acc.pool, Size[g], Stream[g])
      BY <1>2, <1>4, <3>1, <3>2 DEF Placed
    <3> HIDE DEF h, s
    <3>4. Allocated(acc.pool, g, x)
      BY <3>3, AllocKeeps
    <3> QED
      BY <3>1, <3>2, <3>4
  <2>3. ~ \E v \in acc.movers : v.handle = h
    BY <1>2 DEF Placed
  <2>4. PICK land : land = Landed(at, acc.movers)
    OBVIOUS
  <2>5. land = [x \in Handles |-> land[x]] /\ Matches(acc.pool, land, old)
    BY <2>4 DEF Landed, Placed
  <2>6. PICK l2 : l2 = [land EXCEPT ![h] = s.ptr]
    OBVIOUS
  <2> HIDE DEF s, h
  <2>7. w.handle = h /\ w.to = s.ptr /\ w.from = b.ptr
    OBVIOUS
  <2> HIDE DEF w
  <2>8. land[h] = Null /\ Landed(at, acc.movers \cup {w}) = l2
    <3>1. PICK g : g = acc.movers
      OBVIOUS
    <3>2. /\ Landed(at, g)[h] = at[h]
          /\ Landed(at, g \cup {w}) = [Landed(at, g) EXCEPT ![h] = w.to]
      BY <1>2, <2>3, <2>7, <3>1, LandOne
    <3> QED
      BY <1>2, <2>4, <2>6, <2>7, <3>1, <3>2
  <2>9. IsPool(acc.pool)
    BY DEF Placed
  <2>10. Matches(s.pool, l2, old)
    BY <1>2, <2>2, <2>5, <2>6, <2>8, <2>9, AllocMatch
  <2>11. /\ IsPool(s.pool) /\ s.pool.high = p.high /\ s.pool.exact = p.exact
         /\ Given(p) \subseteq Given(s.pool) /\ s.ptr \in Units \ {Null}
    BY <2>2 DEF Allocated, Placed
  <2>12. Keeps(p, s.pool, Given(p))
    BY <2>2 DEF Allocated, Placed, Keeps
  <2>13. \A v \in r.movers :
           v.to \in Units \ {Null} /\ \E c \in B \cup {b} : v.handle = c.handle /\ v.from = c.ptr
    BY <2>1, <2>7, <2>11 DEF Placed, h
  <2>14. \A v, x \in r.movers : v.handle = x.handle => v = x
    BY <2>1, <2>3, <2>7 DEF Placed
  <2>15. \A c \in B \cup {b} : \E v \in r.movers : v.handle = c.handle
    BY <1>4, <2>1, <2>7 DEF Placed, h
  <2>16. r = [pool |-> r.pool, movers |-> r.movers, ok |-> r.ok] /\ r.pool = s.pool
         /\ r.movers = acc.movers \cup {w}
    BY <2>1
  <2> QED
    BY <2>8, <2>10, <2>11, <2>12, <2>13, <2>14, <2>15, <2>16 DEF Placed
<1> QED
  BY <1>3, <1>4

\* Place: all of them are.
LEMMA PlaceMatch ==
  ASSUME NEW p, IsPool(p), NEW at, at = [h \in Handles |-> at[h]], NEW old, Matches(p, at, old),
         NEW B, Leaving(at, B), NEW r, r = Place(p, B)
  PROVE  Placed(p, at, old, B, r)
<1>1. PICK f : /\ r = f[PoolSize - 1] /\ f[0] = NoneYet(p)
               /\ \A a \in 1 .. PoolSize - 1 :
                    f[a] = IF a \in Sources(B) THEN PlaceOne(f[a - 1], BlockAt(B, a)) ELSE f[a - 1]
  BY PlaceSteps
<1> DEFINE Low(a) == {b \in B : b.ptr <= a}
           S == {a \in 0 .. PoolSize - 1 : Placed(p, at, old, Low(a), f[a])}
<1>2. \A b \in B : b.ptr \in Nat /\ 1 <= b.ptr /\ b.ptr <= PoolSize - 1
  BY Sizes DEF Leaving
<1>3. 0 \in S
  <2>1. Low(0) = {}
    BY <1>2
  <2>2. Placed(p, at, old, {}, NoneYet(p))
    <3>1. NoneYet(p).movers = {} /\ NoneYet(p).pool = p /\ NoneYet(p).ok = TRUE
          /\ Landed(at, {}) = at
      BY LandNone DEF NoneYet
    <3>2. Keeps(p, p, Given(p))
      BY DEF Keeps
    <3> QED
      BY <3>1, <3>2 DEF Placed, NoneYet
  <2>3. 0 \in 0 .. PoolSize - 1
    BY Sizes
  <2>4. Placed(p, at, old, Low(0), f[0])
    BY <1>1, <2>1, <2>2
  <2> QED
    BY <2>3, <2>4
<1>4. ASSUME NEW a \in 1 .. PoolSize - 1, a - 1 \in S PROVE a \in S
  <2>1. Placed(p, at, old, Low(a - 1), f[a - 1])
    BY <1>4
  <2>2. PICK C : C = Low(a - 1)
    OBVIOUS
  <2>3. \A b \in B : b.ptr <= a <=> b \in C \/ b.ptr = a
    BY <1>2, <2>2, Sizes
  <2>4. CASE a \in Sources(B)
    <3>1. PICK b \in B : b.ptr = a
      BY <2>4 DEF Sources
    <3>2. BlockAt(B, a) = b
      BY <3>1 DEF BlockAt, Leaving
    <3>3. Low(a) = C \cup {b} /\ b \notin C
      <4>1. \A c \in B : c.ptr = a => c = b
        BY <3>1 DEF Leaving
      <4>2. b \notin C
        BY <2>2, <3>1, Sizes
      <4>3. C \subseteq B
        BY <2>2
      <4> QED
        BY <2>3, <3>1, <4>1, <4>2, <4>3
    <3> HIDE DEF Low
    <3>4. Leaving(at, C \cup {b})
      <4>1. C \cup {b} \subseteq B
        BY <2>2, <3>1 DEF Low
      <4> QED
        BY <4>1 DEF Leaving
    <3>5. f[a] = PlaceOne(f[a - 1], b)
      BY <1>1, <2>4, <3>2
    <3>6. Placed(p, at, old, C \cup {b}, f[a])
      BY <2>1, <2>2, <3>3, <3>4, <3>5, PlaceOneMatch
    <3>7. a \in 0 .. PoolSize - 1
      BY Sizes
    <3> QED
      BY <3>3, <3>6, <3>7
  <2>5. CASE a \notin Sources(B)
    <3>1. f[a] = f[a - 1]
      BY <1>1, <2>5
    <3>2. Low(a) = C
      <4>1. \A b \in B : b.ptr /= a
        BY <2>5 DEF Sources
      <4> QED
        BY <2>2, <2>3, <4>1
    <3> QED
      BY <2>1, <2>2, <3>1, <3>2
  <2> QED
    BY <2>4, <2>5
<1>5. PoolSize - 1 \in Nat
  BY Sizes
<1>6. PoolSize - 1 \in S
  <2>1. \A a \in 1 .. PoolSize - 1 : a - 1 \in S => a \in S
    BY <1>4
  <2> HIDE DEF S
  <2> QED
    BY <1>3, <1>5, <2>1, Upwards
<1>7. Low(PoolSize - 1) = B
  BY <1>2
<1> QED
  BY <1>1, <1>6, <1>7

-----------------------------------------------------------------------------
(* What was given back is large enough for who has left it.                   *)

\* Units no chunk in use reaches are part of a free chunk: free neighbours are merged.
LEMMA RoomFits ==
  ASSUME NEW c, Sound(c), NEW a \in Nat, NEW n \in Nat \ {0}, a >= 1, a + n <= PoolSize,
         \A x \in DOMAIN c : c[x].used => After(c, x) <= a \/ a + n <= x
  PROVE  Fits(c, n) /= {}
<1>1. Tiles(c) /\ Coalesced(c)
  BY DEF Sound
<1>2. \A x \in DOMAIN c : /\ x \in Nat /\ c[x].size \in Nat \ {0} /\ After(c, x) = x + c[x].size
                          /\ c[x].used \in BOOLEAN
                          /\ After(c, x) = PoolSize \/ After(c, x) \in DOMAIN c
  BY <1>1 DEF Tiles, After
<1> DEFINE D == {x \in DOMAIN c : x <= a}
<1>3. PICK x \in D : \A y \in D : y <= x
  <2>1. D \in SUBSET (0 .. PoolSize) /\ D /= {}
    <3>1. 1 \in DOMAIN c /\ DOMAIN c \subseteq 1 .. PoolSize - 1
      BY <1>1 DEF Tiles
    <3>2. 1 .. PoolSize - 1 \subseteq 0 .. PoolSize
      BY Sizes
    <3> QED
      BY <3>1, <3>2
  <2> HIDE DEF D
  <2> QED
    BY <2>1, Largest
<1>4. x \in DOMAIN c /\ x <= a
  BY <1>3
<1>5. After(c, x) > a
  <2>1. SUFFICES ASSUME After(c, x) <= a PROVE FALSE
    BY <1>2, <1>4
  <2>2. After(c, x) \in DOMAIN c
    BY <1>2, <1>4, <2>1, Sizes
  <2>3. After(c, x) <= x
    BY <1>3, <2>1, <2>2
  <2> QED
    BY <1>2, <1>4, <2>3
<1>6. ~c[x].used
  BY <1>2, <1>4, <1>5
<1>7. After(c, x) >= a + n
  <2>1. SUFFICES ASSUME After(c, x) < a + n PROVE FALSE
    BY <1>2, <1>4
  <2>2. After(c, x) \in DOMAIN c
    BY <1>2, <1>4, <2>1, Sizes
  <2>3. ~c[After(c, x)].used
    <3>1. After(c, After(c, x)) > After(c, x)
      BY <1>2, <2>2
    <3> QED
      BY <1>2, <1>4, <1>5, <2>1, <2>2, <3>1
  <2> QED
    BY <1>1, <1>4, <1>6, <2>2, <2>3 DEF Coalesced, IsFree
<1>8. c[x].size >= n
  BY <1>2, <1>4, <1>7
<1> QED
  BY <1>4, <1>6, <1>8 DEF Fits, IsFree

\* pool_alloc_chunk finds memory where there is some.
LEMMA AllocFinds ==
  ASSUME NEW p, IsPool(p), NEW n \in Nat \ {0}, NEW stream,
         IsSmall(p, n, stream) \/ Fits(p.chunks, n) /= {}
  PROVE  PoolAlloc(p, n, stream).ptr /= Null
<1>1. CASE IsSmall(p, n, stream)
  <2>1. PICK u : u = Min(FreeSmallUnits(p))
    OBVIOUS
  <2>2. PoolAlloc(p, n, stream).ptr = u
    BY <1>1, <2>1 DEF PoolAlloc
  <2>3. FreeSmallUnits(p) \subseteq Nat \ {0} /\ FreeSmallUnits(p) # {}
    BY <1>1, Sizes DEF IsSmall, FreeSmallUnits, SmallBase, SmallEnd
  <2>4. PICK x \in FreeSmallUnits(p) : \A y \in FreeSmallUnits(p) : ~(y < x)
    BY <2>3, Smallest
  <2>5. \A y \in FreeSmallUnits(p) : x <= y
    BY <2>3, <2>4
  <2>6. u \in FreeSmallUnits(p)
    BY <2>1, <2>5 DEF Min
  <2> QED
    BY <2>2, <2>3, <2>6 DEF Null
<1>2. CASE ~IsSmall(p, n, stream)
  <2>1. PICK a : a = FindChunk(p.chunks, n)
    OBVIOUS
  <2>2. PoolAlloc(p, n, stream).ptr = a
    BY <1>2, <2>1 DEF PoolAlloc
  <2>3. Tiles(p.chunks) /\ Fits(p.chunks, n) /= {}
    BY <1>2 DEF IsPool, Sound
  <2>4. a \in DOMAIN p.chunks
    BY <2>1, <2>3, FindChunkFits DEF Fits
  <2>5. a \in Nat \ {0}
    BY <2>3, <2>4, Sizes DEF Tiles
  <2> QED
    BY <2>2, <2>5 DEF Null
<1> QED
  BY <1>1, <1>2

\* Memory that was given back has room for the tensor that had it.
LEMMA RoomForOne ==
  ASSUME NEW p, IsPool(p), NEW A, NEW q, Returned(p, A, q), NEW a \in A, NEW h \in Handles,
         HasMemory(p, a, h)
  PROVE  PoolAlloc(q, Size[h], Stream[h]).ptr /= Null
<1>1. IsPool(q) /\ Given(q) = Given(p) \ A /\ Keeps(p, q, Given(q))
  BY DEF Returned
<1> DEFINE n == Size[h]
           s == Stream[h]
<1>2. n \in Nat \ {0}
  BY Sizing
<1>3. CASE a \in p.small /\ Size[h] = 1 /\ Stream[h] = 0
  <2>1. a \in SmallBase .. SmallEnd - 1 /\ a \notin q.small
    BY <1>1, <1>3 DEF IsPool, Given
  <2>2. IsSmall(q, n, s)
    BY <1>3, <2>1 DEF IsSmall, FreeSmallUnits
  <2> HIDE DEF n, s
  <2>3. PoolAlloc(q, n, s).ptr /= Null
    BY <1>1, <1>2, <2>2, AllocFinds
  <2> QED
    BY <2>3 DEF n, s
<1>4. CASE a \in GivenChunks(p.chunks) /\ p.chunks[a].size >= Size[h]
  <2>1. Tiles(p.chunks) /\ Sound(q.chunks) /\ Tiles(q.chunks) /\ SmallBase \in DOMAIN q.chunks
        /\ q.chunks[SmallBase].size = SmallUnits
    BY <1>1 DEF IsPool, Sound
  <2>2. a \in SmallEnd .. PoolSize - 1 /\ a \in DOMAIN p.chunks
    BY <1>4, GivenParts DEF GivenChunks
  <2>3. a \in Nat /\ a >= 1 /\ a >= SmallEnd /\ SmallEnd = SmallBase + SmallUnits
    BY <2>2, Sizes DEF SmallEnd, SmallBase
  <2>4. p.chunks[a].size \in Nat /\ After(p.chunks, a) = a + p.chunks[a].size
        /\ After(p.chunks, a) <= PoolSize
    BY <2>1, <2>2, AfterBounds DEF After
  <2>5. a + n <= After(p.chunks, a)
    BY <1>2, <1>4, <2>3, <2>4
  <2>6. ASSUME NEW x \in DOMAIN q.chunks, q.chunks[x].used
        PROVE  After(q.chunks, x) <= a \/ a + n <= x
    <3>1. CASE x = SmallBase
      <4>1. After(q.chunks, x) = SmallEnd
        BY <2>1, <2>3, <3>1 DEF After
      <4> QED
        BY <2>3, <4>1
    <3>2. CASE x /= SmallBase
      <4>1. x \in GivenChunks(q.chunks)
        BY <2>6, <3>2 DEF GivenChunks
      <4>2. x \in Given(p) /\ x /= a /\ x \notin p.small
        <5>1. x \in SmallEnd .. PoolSize - 1 /\ x \in Given(q)
          BY <1>1, <4>1, GivenParts DEF Given
        <5>2. p.small \subseteq SmallBase .. SmallEnd - 1
          BY DEF IsPool
        <5>3. x \notin p.small
          BY <5>1, <5>2, Sizes DEF SmallEnd, SmallBase
        <5> QED
          BY <1>1, <5>1, <5>3
      <4>3. x \in GivenChunks(p.chunks) /\ x \in Given(q)
        BY <4>1, <4>2 DEF Given
      <4>4. x \in DOMAIN p.chunks /\ q.chunks[x] = p.chunks[x]
        BY <1>1, <4>3 DEF Keeps, GivenChunks
      <4>5. After(q.chunks, x) = After(p.chunks, x) /\ x \in Nat
        BY <2>1, <4>4, AfterBounds DEF After
      <4>6. x < a \/ a < x
        BY <2>3, <4>2, <4>5
      <4>7. CASE x < a
        BY <2>1, <2>2, <4>4, <4>5, <4>7 DEF Tiles
      <4>8. CASE a < x
        <5>1. After(p.chunks, a) <= x
          BY <2>1, <2>2, <4>4, <4>8 DEF Tiles
        <5> QED
          BY <1>2, <2>3, <2>4, <2>5, <4>5, <5>1
      <4> QED
        BY <4>6, <4>7, <4>8
    <3> QED
      BY <3>1, <3>2
  <2>7. a + n <= PoolSize
    BY <1>2, <2>3, <2>4, <2>5, Sizes
  <2> HIDE DEF n, s
  <2>8. Fits(q.chunks, n) /= {}
    BY <1>2, <2>1, <2>3, <2>6, <2>7, RoomFits
  <2>9. PoolAlloc(q, n, s).ptr /= Null
    BY <1>1, <1>2, <2>8, AllocFinds
  <2> QED
    BY <2>9 DEF n, s
<1> QED
  BY <1>3, <1>4 DEF HasMemory

\* The accumulator of Place when a mover finds no memory.
LEMMA NotOk ==
  ASSUME NEW q, NEW m, NEW k, NEW acc, acc = [pool |-> q, movers |-> m, ok |-> k],
         NEW r, r = [acc EXCEPT !.ok = FALSE]
  PROVE  r = [pool |-> q, movers |-> m, ok |-> FALSE]
OBVIOUS

\* ... so that of movers whose memory was given back, the first is placed.
LEMMA PlaceFirst ==
  ASSUME NEW p, NEW at, NEW B, Leaving(at, B), B /= {}, NEW r, r = Place(p, B),
         \A b \in B : PoolAlloc(p, Size[b.handle], Stream[b.handle]).ptr /= Null
  PROVE  r.movers /= {}
<1>1. PICK f : /\ r = f[PoolSize - 1] /\ f[0] = NoneYet(p)
               /\ \A a \in 1 .. PoolSize - 1 :
                    f[a] = IF a \in Sources(B) THEN PlaceOne(f[a - 1], BlockAt(B, a)) ELSE f[a - 1]
  BY PlaceSteps
<1> DEFINE Some(acc) ==
             acc.movers /= {} /\ acc = [pool |-> acc.pool, movers |-> acc.movers, ok |-> acc.ok]
           Good(a) ==
             (f[a] = NoneYet(p) /\ \A b \in B : ~(b.ptr <= a)) \/ Some(f[a])
           S == {a \in 0 .. PoolSize - 1 : Good(a)}
<1>2. \A b \in B : b.ptr \in Nat /\ 1 <= b.ptr /\ b.ptr <= PoolSize - 1
  BY Sizes DEF Leaving
<1>3. 0 \in S
  <2>1. \A b \in B : ~(b.ptr <= 0)
    BY <1>2
  <2> QED
    BY <1>1, <2>1, Sizes
<1>4. ASSUME NEW a \in 1 .. PoolSize - 1, a - 1 \in S PROVE a \in S
  <2>1. Good(a - 1)
    BY <1>4
  <2>4. a \in 0 .. PoolSize - 1
    BY Sizes
  <2>2. CASE a \in Sources(B)
    <3>1. PICK b \in B : b.ptr = a
      BY <2>2 DEF Sources
    <3>2. f[a] = PlaceOne(f[a - 1], b)
      <4>1. BlockAt(B, a) = b
        BY <3>1 DEF BlockAt, Leaving
      <4> QED
        BY <1>1, <2>2, <4>1
    <3>3. PICK s : s = PoolAlloc(f[a - 1].pool, Size[b.handle], Stream[b.handle])
      OBVIOUS
    <3>4. CASE f[a - 1] = NoneYet(p)
      <4>1. f[a - 1].pool = p /\ f[a - 1].ok = TRUE
        BY <3>4 DEF NoneYet
      <4>2. s.ptr /= Null
        BY <3>3, <4>1
      <4>3. \E w : f[a] = [pool |-> s.pool, movers |-> f[a - 1].movers \cup {w}, ok |-> TRUE]
        BY <3>2, <3>3, <4>1, <4>2 DEF PlaceOne
      <4>4. Some(f[a])
        BY <4>3
      <4> HIDE DEF Some
      <4> QED
        BY <2>4, <4>4
    <3>5. CASE Some(f[a - 1])
      <4>1. PICK q, m, k : f[a - 1] = [pool |-> q, movers |-> m, ok |-> k] /\ m /= {}
        BY <3>5
      <4>2. \/ f[a] = [f[a - 1] EXCEPT !.ok = FALSE]
            \/ \E w : f[a] = [pool |-> s.pool, movers |-> f[a - 1].movers \cup {w}, ok |-> TRUE]
        BY <3>2, <3>3 DEF PlaceOne
      <4>3. CASE f[a] = [f[a - 1] EXCEPT !.ok = FALSE]
        <5>1. f[a] = [pool |-> q, movers |-> m, ok |-> FALSE]
          <6>1. PICK acc : acc = f[a - 1]
            OBVIOUS
          <6>2. acc = [pool |-> q, movers |-> m, ok |-> k]
            BY <4>1, <6>1
          <6>3. f[a] = [acc EXCEPT !.ok = FALSE]
            BY <4>3, <6>1
          <6> QED
            BY <6>2, <6>3, NotOk
        <5>2. Some(f[a])
          BY <4>1, <5>1
        <5> HIDE DEF Some
        <5> QED
          BY <2>4, <5>2
      <4>4. CASE \E w : f[a] = [pool |-> s.pool, movers |-> f[a - 1].movers \cup {w}, ok |-> TRUE]
        <5>1. Some(f[a])
          BY <4>4
        <5> HIDE DEF Some
        <5> QED
          BY <2>4, <5>1
      <4> QED
        BY <4>2, <4>3, <4>4
    <3> QED
      BY <2>1, <3>4, <3>5
  <2>3. CASE a \notin Sources(B)
    <3>1. f[a] = f[a - 1] /\ \A b \in B : b.ptr /= a
      BY <1>1, <2>3 DEF Sources
    <3>2. \A b \in B : b.ptr <= a => b.ptr <= a - 1
      BY <1>2, <3>1, Sizes
    <3>3. Good(a)
      BY <2>1, <3>1, <3>2
    <3> QED
      BY <2>4, <3>3
  <2> QED
    BY <2>2, <2>3
<1>5. PoolSize - 1 \in Nat
  BY Sizes
<1>6. PoolSize - 1 \in S
  <2>1. \A a \in 1 .. PoolSize - 1 : a - 1 \in S => a \in S
    BY <1>4
  <2> HIDE DEF S
  <2> QED
    BY <1>3, <1>5, <2>1, Upwards
<1>7. Good(PoolSize - 1)
  BY <1>6
<1> QED
  BY <1>1, <1>2, <1>7

-----------------------------------------------------------------------------
(* What is moved: tensors with memory, none of them at the top or fixed.      *)

InUseBlock(B, b) == \E a \in DOMAIN B : b = B[a] /\ B[a].state = "in_use"

Plan(B, r) ==
  /\ r.found \in BOOLEAN /\ r.first \in BOOLEAN
  /\ \A b \in r.movers : InUseBlock(B, b)

\* A plan that found nothing moves nothing.
LEMMA NoPlan ==
  ASSUME NEW B
  PROVE  Plan(B, NotFound) /\ \A f \in BOOLEAN : Plan(B, Found({}, f))
BY DEF Plan, NotFound, Found

\* A plan with the blocks in use of a region.
LEMMA RegionPlan ==
  ASSUME NEW B, NEW i, NEW j, NEW f \in BOOLEAN
  PROVE  Plan(B, Found(InUseBlocks(B, i, j), f))
<1>1. \A b \in InUseBlocks(B, i, j) : InUseBlock(B, b)
  BY DEF InUseBlocks, InUseBlock
<1> QED
  BY <1>1 DEF Plan, Found

\* Every strategy plans to move blocks in use and no others.
LEMMA RunPlan ==
  ASSUME NEW B, NEW n, NEW grow
  PROVE  Plan(B, Run(B, n, grow))
<1>1. \A w : Plan(B, SelectForResource(B, n, w))
  <2> TAKE w
  <2> DEFINE x == SelectForResource(B, n, w)
  <2>1. x = NotFound \/ \E i, j : x = Found(InUseBlocks(B, i, j), FALSE)
    BY Zenon DEF SelectForResource
  <2> QED
    BY <2>1, NoPlan, RegionPlan
<1>2. \A e : Plan(B, SelectForWorkspace(B, e))
  <2> TAKE e
  <2> DEFINE x == SelectForWorkspace(B, e)
  <2>1. x = NotFound \/ \E i, j : x = Found(InUseBlocks(B, i, j), FALSE)
    BY Zenon DEF SelectForWorkspace
  <2> QED
    BY <2>1, NoPlan, RegionPlan
<1>3. \A e : Plan(B, SelectForWorkspaceV2(B, e))
  <2> TAKE e
  <2> DEFINE x == SelectForWorkspaceV2(B, e)
  <2>1. x = NotFound \/ \E i, j : x = Found(InUseBlocks(B, i, j), TRUE)
    BY Zenon DEF SelectForWorkspaceV2
  <2> QED
    BY <2>1, NoPlan, RegionPlan
<1> DEFINE r == Run(B, n, grow)
<1>4. \/ \E w : r = SelectForResource(B, n, w)
      \/ \E e : r = SelectForWorkspace(B, e) \/ r = SelectForWorkspaceV2(B, e)
      \/ r = Found({}, FALSE)
  BY Zenon DEF Run
<1> HIDE DEF r
<1>5. Plan(B, r)
  BY <1>1, <1>2, <1>3, <1>4, NoPlan
<1> QED
  BY <1>5 DEF r

\* A block that is moved is that of a tensor with memory.
TensorBlock(b) ==
  /\ b.handle \in Handles /\ ~table[b.handle].fixed
  /\ b.ptr = table[b.handle].ptr /\ b.ptr /= Null /\ b.ptr /= Top(pool.chunks)

\* A block in use of the memory map is the memory of a tensor that is not fixed.
LEMMA MapBlocks ==
  ASSUME NEW b, InUseBlock(MemoryMap, b)
  PROVE  TensorBlock(b) /\ b = MemoryMap[b.ptr]
<1> DEFINE blocks == Occupied \cup Gaps
<1>1. PICK a \in DOMAIN MemoryMap : b = MemoryMap[a] /\ b.state = "in_use"
  BY DEF InUseBlock
<1>2. a \in {x.ptr : x \in blocks} /\ b = CHOOSE x \in blocks : x.ptr = a
  BY <1>1 DEF MemoryMap
<1>3. b \in blocks
  <2> HIDE DEF blocks
  <2> QED
    BY <1>2
<1>4. ASSUME NEW x \in Gaps PROVE x.state = "free"
  <2>1. \E c, n : x = Block(c, n, "free", None)
    BY DEF Gaps
  <2> QED
    BY <2>1 DEF Block
<1>5. b \in Occupied
  BY <1>1, <1>3, <1>4
<1>6. PICK h \in Handles :
         table[h].ptr \notin {Null, Top(pool.chunks)}
         /\ b = Block(table[h].ptr, AllocatedSize(pool, table[h].ptr), State(h), h)
  <2>1. b /= Block(Top(pool.chunks), pool.chunks[Top(pool.chunks)].size, "fixed", None)
    BY <1>1 DEF Block
  <2> QED
    BY <1>5, <2>1 DEF Occupied
<1>7. b.ptr = table[h].ptr /\ b.handle = h /\ b.state = State(h)
  BY <1>6 DEF Block
<1>8. b.ptr = a
  <2> HIDE DEF blocks
  <2> QED
    BY <1>2
<1> QED
  BY <1>1, <1>6, <1>7, <1>8 DEF State, TensorBlock

\* ... and so is what a strategy plans to move.
LEMMA PlanBlocks ==
  ASSUME NEW n, NEW grow, NEW plan, plan = Run(MemoryMap, n, grow)
  PROVE  /\ plan.found \in BOOLEAN /\ plan.first \in BOOLEAN
         /\ \A b \in plan.movers : TensorBlock(b)
         /\ \A b, c \in plan.movers : b.ptr = c.ptr => b = c
<1>1. Plan(MemoryMap, plan)
  BY RunPlan
<1> QED
  BY <1>1, MapBlocks DEF Plan

-----------------------------------------------------------------------------
(* The table, the pool and the workspaces in a state.                         *)

AddressOf == [h \in Handles |-> table[h].ptr]

\* What movers have left until it is given back.
Old == IF moving.first THEN {v.from : v \in moving.movers} ELSE {}

\* The workspace, those of launches on their way and those of recipes that run.
WorkspaceOf(j) == IF j = NoJob \/ j.ws = Null THEN {} ELSE {Extent(j.ws, j.n)}
JobSpaces      == UNION {WorkspaceOf(job[t]) : t \in Threads}
RecipeSpaces   == {recipes[i].ws : i \in {j \in DOMAIN recipes : ~recipes[j].done}}
SharedSpace    == IF workspace.ptr = Null THEN {} ELSE {Extent(workspace.ptr, workspace.size)}
Workspaces     == SharedSpace \cup JobSpaces \cup RecipeSpaces

Recipe == [thread : Threads, list : Seq(Handles), out : Seq(Units \ {Null}), ws : SUBSET Int,
           done : BOOLEAN, counted : BOOLEAN]

\* Tensors without a handle have no memory, those of calls have a handle.
HandlesOK ==
  /\ \A h \in Handles : ~table[h].active => table[h].ptr = Null
  /\ \A t \in Threads : job[t] /= NoJob => \A h \in Elements(job[t].list) : table[h].active

MovingOK ==
  /\ mutex_ = None => moving = NoMove
  /\ moving.first \in BOOLEAN

MemoryOK ==
  /\ TableMatch(pool, AddressOf, Old)
  /\ \A w \in Workspaces : Reserved(pool, w)
  /\ workspace.ptr /= Null => workspace.size > 0

DataOK == TableOK /\ recipes \in Seq(Recipe) /\ HandlesOK /\ MovingOK /\ MemoryOK

MemoryInv == ControlOK /\ TableOK /\ (slips = {} => DataOK)

\* A call goes on with its tensors and its workspace, or ends.
SameUse(j, k) ==
  \/ k = NoJob
  \/ j /= NoJob /\ k.list = j.list /\ (k.ws = Null \/ (k.ws = j.ws /\ k.n = j.n))

JobKept == job' = job \/ \E t \in Threads : \E k : job' = [job EXCEPT ![t] = k] /\ SameUse(job[t], k)

\* A call is the same for its workspace and its tensors.
LEMMA KeptJob ==
  ASSUME ControlOK, JobKept, NEW t \in Threads
  PROVE  job'[t] = job[t] \/ SameUse(job[t], job'[t])
<1>1. job = [x \in Threads |-> job[x]]
  BY DEF ControlOK, CallsOK
<1> QED
  BY <1>1 DEF JobKept

\* No launch gets a workspace.
LEMMA KeptSpaces ==
  ASSUME ControlOK, JobKept
  PROVE  JobSpaces' \subseteq JobSpaces
<1>1. ASSUME NEW t \in Threads PROVE WorkspaceOf(job'[t]) \subseteq WorkspaceOf(job[t])
  BY KeptJob DEF SameUse, WorkspaceOf
<1> QED
  BY <1>1 DEF JobSpaces

\* A tensor of a call stays active.
ActiveKept == \A h \in Handles : (table[h].active /\ InUse(h)) => table'[h].active

\* The tensors of calls are still there.
LEMMA KeptActive ==
  ASSUME ControlOK, JobKept, HandlesOK, ActiveKept, NEW t \in Threads, job'[t] /= NoJob
  PROVE  \A h \in Elements(job'[t].list) : table'[h].active
<1>1. job[t] /= NoJob /\ job'[t].list = job[t].list
  BY KeptJob DEF SameUse
<1>2. ASSUME NEW h \in Elements(job[t].list) PROVE table'[h].active
  <2>1. h \in Handles
    <3>1. IsJob(job[t])
      BY <1>1, Held DEF CallAt
    <3> QED
      BY <3>1 DEF IsJob, Elements
  <2>2. InUse(h) /\ table[h].active
    BY <1>1 DEF InUse, HandlesOK
  <2> QED
    BY <2>1, <2>2 DEF ActiveKept
<1> QED
  BY <1>1, <1>2

\* No tensor gets another address, no workspace more room.
Undisturbed ==
  AddressOf' = AddressOf /\ \A w \in Workspaces' : \E v \in Workspaces : w \subseteq v

\* A step that gives no memory and takes none.
LEMMA DataFrame ==
  ASSUME ControlOK, DataOK, UNCHANGED <<pool, mutex_, moving>>, TableOK', (recipes \in Seq(Recipe))',
         AddressOf' = AddressOf, HandlesOK',
         \A w \in Workspaces' : \E v \in Workspaces : w \subseteq v,
         workspace.ptr' /= Null => workspace.size' > 0
  PROVE  DataOK' /\ Undisturbed
<1>1. TableMatch(pool, AddressOf, Old)' /\ MovingOK'
  BY DEF DataOK, MemoryOK, MovingOK, Old
<1>2. \A w \in Workspaces' : Reserved(pool', w)
  BY DEF DataOK, MemoryOK, Reserved
<1> QED
  BY <1>1, <1>2 DEF DataOK, MemoryOK, Undisturbed

\* ... nor changes the workspaces.
LEMMA CallFrame ==
  ASSUME ControlOK, DataOK, UNCHANGED <<pool, table, mutex_, moving, recipes, workspace>>, JobKept,
         update_on_defragment_' \in BOOLEAN
  PROVE  DataOK' /\ Undisturbed
<1>1. TableOK' /\ recipes' \in Seq(Recipe) /\ AddressOf' = AddressOf
  BY DEF DataOK, TableOK, AddressOf, Recipe
<1>2. HandlesOK'
  <2>1. ActiveKept
    BY DEF ActiveKept
  <2> QED
    BY <2>1, KeptActive DEF DataOK, HandlesOK
<1>3. Workspaces' \subseteq Workspaces
  BY KeptSpaces DEF Workspaces, SharedSpace, RecipeSpaces
<1>4. workspace.ptr' /= Null => workspace.size' > 0
  BY DEF DataOK, MemoryOK
<1> QED
  BY <1>1, <1>2, <1>3, <1>4, DataFrame

\* A call that ends.
LEMMA EndKeeps ==
  ASSUME NEW t \in Threads, End(t)
  PROVE  JobKept
BY DEF End, JobKept, SameUse

-----------------------------------------------------------------------------
(* The actions: those that go on with a call and touch nothing else.          *)

\* Steps within a call that leave memory alone.
LEMMA CallData ==
  ASSUME ControlOK, DataOK, NEW t \in Threads,
         \/ CheckMemory(t) \/ BeginCleanup(t) \/ LockExtend(t) \/ EstimateMemory(t)
         \/ LockAddresses(t) \/ FinishFix(t) \/ FinishLock(t) \/ Synchronize(t)
         \/ Drain(t) \/ DrainTimesOut(t)
  PROVE  DataOK' /\ Undisturbed
<1>0. update_on_defragment_ \in BOOLEAN
  BY DEF DataOK, TableOK
<1>1. CASE CheckMemory(t) \/ BeginCleanup(t) \/ LockExtend(t) \/ LockAddresses(t)
           \/ Synchronize(t) \/ Drain(t)
  <2>1. UNCHANGED <<pool, table, mutex_, moving, recipes, workspace, job, update_on_defragment_>>
    BY <1>1 DEF CheckMemory, BeginCleanup, LockExtend, LockAddresses, Synchronize, Drain,
                poolVars, lockVars, moveVars, deviceVars
  <2> QED
    BY <1>0, <2>1, CallFrame DEF JobKept
<1>2. CASE EstimateMemory(t)
  <2>1. UNCHANGED <<pool, table, mutex_, moving, recipes, workspace, update_on_defragment_>>
    BY <1>2 DEF EstimateMemory, poolVars, lockVars, moveVars, deviceVars
  <2>2. PICK k : k = [job[t] EXCEPT !.need = Required(job[t].list)]
    OBVIOUS
  <2>3. job' = [job EXCEPT ![t] = k]
    BY <1>2, <2>2, Held DEF EstimateMemory
  <2>4. IsJob(job[t])
    BY <1>2, Held DEF EstimateMemory, At, CallAt, WorkspaceLocs, DefragLocs
  <2>5. k.list = job[t].list /\ k.ws = job[t].ws /\ k.n = job[t].n
    BY <2>2, <2>4, NeededJob
  <2>6. job[t] /= NoJob
    BY <2>4 DEF IsJob, NoJob
  <2>7. JobKept
    BY <2>3, <2>5, <2>6 DEF JobKept, SameUse
  <2> QED
    BY <1>0, <2>1, <2>7, CallFrame
<1>3. CASE FinishFix(t) \/ DrainTimesOut(t)
  <2>1. UNCHANGED <<pool, table, mutex_, moving, recipes, workspace, update_on_defragment_>> /\ End(t)
    BY <1>3 DEF FinishFix, DrainTimesOut, poolVars, lockVars, moveVars, deviceVars
  <2> QED
    BY <1>0, <2>1, EndKeeps, CallFrame
<1>4. CASE FinishLock(t)
  <2>1. UNCHANGED <<pool, table, mutex_, moving, recipes, workspace>>
    BY <1>4 DEF FinishLock, poolVars, lockVars, moveVars, deviceVars
  <2>2. update_on_defragment_' \in BOOLEAN
    BY <1>0, <1>4 DEF FinishLock
  <2>3. PICK k : k = [job[t] EXCEPT !.todo = job[t].list, !.out = <<>>, !.again = TRUE]
    OBVIOUS
  <2>4. job' = job \/ job' = [job EXCEPT ![t] = k]
    BY <1>4, <2>3 DEF FinishLock
  <2>5. IsJob(job[t])
    BY <1>4, Held DEF FinishLock, At, CallAt, WorkspaceLocs, LaunchLocs, DefragLocs
  <2>6. k.list = job[t].list /\ k.ws = job[t].ws /\ k.n = job[t].n
    BY <2>3, <2>5, AgainJob
  <2>7. job[t] /= NoJob
    BY <2>5 DEF IsJob, NoJob
  <2>8. JobKept
    BY <2>4, <2>6, <2>7 DEF JobKept, SameUse
  <2> QED
    BY <2>1, <2>2, <2>8, CallFrame
<1> QED
  BY <1>1, <1>2, <1>3, <1>4

\* A call begins: it has no workspace, and its tensors are there.
LEMMA BeginData ==
  ASSUME ControlOK, DataOK, NEW t \in Threads, NEW kind, NEW list \in Seq(Handles), NEW n, NEW loc,
         Begin(t, kind, list, n, loc), \A h \in Elements(list) : table[h].active,
         UNCHANGED <<pool, mutex_, moving, recipes, workspace, update_on_defragment_>>,
         (table \in [Handles -> [active : BOOLEAN, ptr : Units, fixed : BOOLEAN]])',
         \A h \in Handles : table'[h].active = table[h].active /\ table'[h].ptr = table[h].ptr
  PROVE  DataOK' /\ Undisturbed
<1> DEFINE j == [kind |-> kind, list |-> list, todo |-> list, out |-> <<>>,
                 again |-> FALSE, need |-> 0, n |-> n, ws |-> Null]
<1>1. job' = [job EXCEPT ![t] = j] /\ j.list = list /\ j.ws = Null
  BY DEF Begin
<1> HIDE DEF j
<1>2. job = [x \in Threads |-> job[x]]
  BY DEF ControlOK, CallsOK
<1>3. job'[t] = j /\ \A x \in Threads \ {t} : job'[x] = job[x]
  BY <1>1, <1>2
<1>4. WorkspaceOf(j) = {}
  BY <1>1 DEF WorkspaceOf
<1>5. JobSpaces' \subseteq JobSpaces
  BY <1>3, <1>4 DEF JobSpaces
<1>6. Workspaces' \subseteq Workspaces
  BY <1>5 DEF Workspaces, SharedSpace, RecipeSpaces
<1>7. TableOK' /\ recipes' \in Seq(Recipe) /\ AddressOf' = AddressOf
  BY DEF DataOK, TableOK, AddressOf, Recipe
<1>8. HandlesOK'
  <2>1. \A h \in Handles : ~table'[h].active => table'[h].ptr = Null
    BY DEF DataOK, HandlesOK
  <2>2. ASSUME NEW x \in Threads, job'[x] /= NoJob, NEW h \in Elements(job'[x].list)
        PROVE  table'[h].active
    <3>1. CASE x = t
      <4>1. h \in Elements(list) /\ h \in Handles
        BY <1>1, <1>3, <2>2, <3>1 DEF Elements
      <4> QED
        BY <4>1
    <3>2. CASE x /= t
      <4>1. job'[x] = job[x]
        BY <1>3, <3>2
      <4>2. IsJob(job[x])
        BY <2>2, <4>1, Held DEF CallAt
      <4>3. h \in Handles /\ table[h].active
        BY <2>2, <4>1, <4>2 DEF IsJob, Elements, DataOK, HandlesOK
      <4> QED
        BY <4>3
    <3> QED
      BY <3>1, <3>2
  <2> QED
    BY <2>1, <2>2 DEF HandlesOK
<1>9. workspace.ptr' /= Null => workspace.size' > 0
  BY DEF DataOK, MemoryOK
<1> QED
  BY <1>6, <1>7, <1>8, <1>9, DataFrame

\* A launch or a fix begins.
LEMMA BeginsData ==
  ASSUME ControlOK, DataOK, NEW t \in Threads,
         \/ \E r \in Recipes : BeginLaunch(t, r[1], r[2])
         \/ \E h \in Handles : FixAddress(t, h)
  PROVE  DataOK' /\ Undisturbed
<1>0. table \in [Handles -> [active : BOOLEAN, ptr : Units, fixed : BOOLEAN]]
  BY DEF DataOK, TableOK
<1>1. ASSUME NEW r \in Recipes, BeginLaunch(t, r[1], r[2]) PROVE DataOK' /\ Undisturbed
  <2>1. r[1] \in Seq(Handles)
    BY MemoryAssumption
  <2>2. PICK list, n : list = r[1] /\ n = r[2]
    OBVIOUS
  <2>3. /\ Begin(t, "launch", list, n, "memory") /\ \A h \in Elements(list) : table[h].active
        /\ UNCHANGED <<pool, table, mutex_, moving, recipes, workspace, update_on_defragment_>>
    BY <1>1, <2>2 DEF BeginLaunch, poolVars, lockVars, moveVars, deviceVars
  <2> QED
    BY <1>0, <2>1, <2>2, <2>3, BeginData
<1>2. ASSUME NEW h \in Handles, FixAddress(t, h) PROVE DataOK' /\ Undisturbed
  <2>1. PICK list : list = <<h>>
    OBVIOUS
  <2>2. list \in Seq(Handles) /\ \A x \in Elements(list) : x = h
    BY <2>1 DEF Elements
  <2>3. /\ Begin(t, "fix", list, 0, "translate") /\ table[h].active
        /\ UNCHANGED <<pool, mutex_, moving, recipes, workspace, update_on_defragment_>>
        /\ table' = [table EXCEPT ![h].fixed = TRUE]
    BY <1>2, <2>1 DEF FixAddress, lockVars, moveVars, deviceVars
  <2>4. /\ table' \in [Handles -> [active : BOOLEAN, ptr : Units, fixed : BOOLEAN]]
        /\ \A x \in Handles : table'[x].active = table[x].active /\ table'[x].ptr = table[x].ptr
    BY <1>0, <2>3
  <2> QED
    BY <2>2, <2>3, <2>4, BeginData
<1> QED
  BY <1>1, <1>2

-----------------------------------------------------------------------------
(* The recipe on the device, and the workspace of a launch.                   *)

\* A launch that is given a part of what is shared.
LEMMA GiveData ==
  ASSUME ControlOK, DataOK, NEW t \in Threads, EnterWorkspace(t)
  PROVE  DataOK' /\ Undisturbed
<1>1. /\ UNCHANGED <<pool, table, mutex_, moving, recipes, workspace, update_on_defragment_>>
      /\ pc[t] = "workspace"
  BY DEF EnterWorkspace, poolVars, moveVars, deviceVars, At
<1>0. update_on_defragment_' \in BOOLEAN
  BY <1>1 DEF DataOK, TableOK
<1>2. CASE ~Suffices(t)
  <2>1. JobKept
    BY <1>2 DEF EnterWorkspace, JobKept
  <2> QED
    BY <1>0, <1>1, <2>1, CallFrame
<1>3. CASE Suffices(t)
  <2> DEFINE k == [job[t] EXCEPT !.ws = workspace.ptr]
  <2>1. workspace.ptr \in Units \ {Null} /\ workspace.size \in Nat /\ workspace.size >= job[t].n
    BY <1>3, Sizes DEF Suffices, DataOK, TableOK
  <2>2. IsJob(job[t]) /\ job[t].n \in Nat /\ job[t] /= NoJob
    BY <1>1, Waiting DEF WorkspaceLocs
  <2>3. k.ws = workspace.ptr /\ k.n = job[t].n /\ k.list = job[t].list /\ k.kind = job[t].kind
    BY <2>1, <2>2, GivenJob
  <2>4. job' = [job EXCEPT ![t] = k]
    BY <1>3, Held DEF EnterWorkspace, GiveWorkspace
  <2> HIDE DEF k
  <2>5. job = [x \in Threads |-> job[x]]
    BY DEF ControlOK, CallsOK
  <2>6. job'[t] = k /\ \A x \in Threads \ {t} : job'[x] = job[x]
    BY <2>4, <2>5
  <2>7. Extent(k.ws, k.n) \subseteq Extent(workspace.ptr, workspace.size)
    BY <2>1, <2>2, <2>3 DEF Extent, Units
  <2>8. SharedSpace = {Extent(workspace.ptr, workspace.size)}
    BY <2>1 DEF SharedSpace
  <2>9. ASSUME NEW w \in JobSpaces' PROVE \E v \in Workspaces : w \subseteq v
    <3>1. PICK x \in Threads : w \in WorkspaceOf(job'[x])
      BY DEF JobSpaces
    <3>2. CASE x = t
      <4>1. w = Extent(k.ws, k.n)
        BY <2>6, <3>1, <3>2 DEF WorkspaceOf
      <4> QED
        BY <2>7, <2>8, <4>1 DEF Workspaces
    <3>3. CASE x /= t
      BY <2>6, <3>1, <3>3 DEF Workspaces, JobSpaces
    <3> QED
      BY <3>2, <3>3
  <2>10. \A w \in Workspaces' : \E v \in Workspaces : w \subseteq v
    <3>1. SharedSpace' = SharedSpace /\ RecipeSpaces' = RecipeSpaces
      BY <1>1 DEF SharedSpace, RecipeSpaces
    <3> QED
      BY <2>9, <3>1 DEF Workspaces
  <2>11. TableOK' /\ (recipes \in Seq(Recipe))' /\ AddressOf' = AddressOf
    BY <1>0, <1>1 DEF DataOK, TableOK, AddressOf, Recipe
  <2>12. HandlesOK'
    <3>1. ASSUME NEW x \in Threads, job'[x] /= NoJob
          PROVE  job[x] /= NoJob /\ job'[x].list = job[x].list
      BY <2>2, <2>3, <2>6, <3>1
    <3> QED
      BY <1>1, <3>1 DEF HandlesOK, DataOK
  <2>13. workspace.ptr' /= Null => workspace.size' > 0
    BY <1>1 DEF DataOK, MemoryOK
  <2> QED
    BY <1>1, <2>10, <2>11, <2>12, <2>13, DataFrame
<1> QED
  BY <1>2, <1>3

\* The recipes change, and keep their workspaces as long as they run.
LEMMA RecipeFrame ==
  ASSUME ControlOK, DataOK, UNCHANGED <<pool, table, mutex_, moving, workspace>>, JobKept,
         update_on_defragment_' \in BOOLEAN, (recipes \in Seq(Recipe))',
         RecipeSpaces' \subseteq RecipeSpaces \cup JobSpaces
  PROVE  DataOK' /\ Undisturbed
<1>1. TableOK' /\ AddressOf' = AddressOf
  BY DEF DataOK, TableOK, AddressOf
<1>2. HandlesOK'
  <2>1. ActiveKept
    BY DEF ActiveKept
  <2> QED
    BY <2>1, KeptActive DEF DataOK, HandlesOK
<1>3. Workspaces' \subseteq Workspaces
  BY KeptSpaces DEF Workspaces, SharedSpace
<1>4. workspace.ptr' /= Null => workspace.size' > 0
  BY DEF DataOK, MemoryOK
<1> QED
  BY <1>1, <1>2, <1>3, <1>4, DataFrame

\* The recipe takes the workspace over from its launch.
LEMMA LaunchData ==
  ASSUME ControlOK, DataOK, NEW t \in Threads, Launch(t)
  PROVE  DataOK' /\ Undisturbed
<1>1. /\ UNCHANGED <<pool, table, mutex_, moving, workspace, job, update_on_defragment_>>
      /\ pc[t] = "launch"
  BY DEF Launch, poolVars, lockVars, moveVars, At
<1>2. IsJob(job[t]) /\ job[t].kind = "launch" /\ job[t].ws /= Null
  BY <1>1, Held DEF CallAt, WorkspaceLocs, DefragLocs
<1> DEFINE r == [thread |-> t, list |-> job[t].list, out |-> job[t].out,
                 ws |-> Extent(job[t].ws, job[t].n), done |-> FALSE, counted |-> FALSE]
<1>3. r \in Recipe
  <2>1. Extent(job[t].ws, job[t].n) \subseteq Int
    BY <1>2 DEF Extent, IsJob, Units
  <2> QED
    BY <1>2, <2>1 DEF IsJob, Recipe
<1>4. recipes' = Append(recipes, r) /\ recipes \in Seq(Recipe)
  BY DEF Launch, DataOK
<1>5. r.ws = Extent(job[t].ws, job[t].n) /\ ~r.done
  OBVIOUS
<1> HIDE DEF r
<1>6. recipes' \in Seq(Recipe)
  BY <1>3, <1>4
<1>7. RecipeSpaces' \subseteq RecipeSpaces \cup JobSpaces
  <2>1. r.ws \in JobSpaces
    <3>1. job[t] /= NoJob
      BY <1>2 DEF IsJob, NoJob
    <3>2. r.ws \in WorkspaceOf(job[t])
      BY <1>2, <1>5, <3>1 DEF WorkspaceOf
    <3> QED
      BY <3>2 DEF JobSpaces
  <2>2. ASSUME NEW i \in DOMAIN recipes'
        PROVE  (i \in DOMAIN recipes /\ recipes'[i] = recipes[i]) \/ recipes'[i] = r
    BY <1>3, <1>4
  <2>3. ASSUME NEW w \in RecipeSpaces' PROVE w \in RecipeSpaces \cup JobSpaces
    <3>1. PICK i \in DOMAIN recipes' : w = recipes'[i].ws /\ ~recipes'[i].done
      BY <2>3 DEF RecipeSpaces
    <3> QED
      BY <2>1, <2>2, <3>1 DEF RecipeSpaces
  <2> QED
    BY <2>3
<1>8. update_on_defragment_' \in BOOLEAN /\ JobKept
  BY <1>1 DEF DataOK, TableOK, JobKept
<1> QED
  BY <1>1, <1>6, <1>7, <1>8, RecipeFrame

\* One recipe changes its state.
LEMMA MarkedRecipe ==
  ASSUME recipes \in Seq(Recipe), NEW i \in DOMAIN recipes, NEW q,
         \/ q = [recipes[i] EXCEPT !.counted = TRUE]
         \/ q = [recipes[i] EXCEPT !.done = TRUE],
         recipes' = [recipes EXCEPT ![i] = q]
  PROVE  recipes' \in Seq(Recipe) /\ RecipeSpaces' \subseteq RecipeSpaces
<1>1. recipes[i] \in Recipe
  OBVIOUS
<1>2. q \in Recipe /\ q.ws = recipes[i].ws /\ (~q.done => ~recipes[i].done)
  BY <1>1 DEF Recipe
<1>3. recipes' \in Seq(Recipe) /\ DOMAIN recipes' = DOMAIN recipes
  BY <1>2
<1>4. \A k \in DOMAIN recipes : recipes'[k] = IF k = i THEN q ELSE recipes[k]
  OBVIOUS
<1>5. RecipeSpaces' \subseteq RecipeSpaces
  BY <1>2, <1>3, <1>4 DEF RecipeSpaces
<1> QED
  BY <1>3, <1>5

\* A recipe ends.
LEMMA ExecuteData ==
  ASSUME ControlOK, DataOK, Execute
  PROVE  DataOK' /\ Undisturbed
<1>1. PICK i \in DOMAIN recipes : recipes' = [recipes EXCEPT ![i].done = TRUE]
  BY DEF Execute
<1>2. UNCHANGED <<pool, table, mutex_, moving, workspace, job, update_on_defragment_>>
  BY DEF Execute, poolVars, lockVars, moveVars
<1>3. PICK q : q = [recipes[i] EXCEPT !.done = TRUE]
  OBVIOUS
<1>4. recipes' = [recipes EXCEPT ![i] = q] /\ recipes \in Seq(Recipe)
  BY <1>1, <1>3 DEF DataOK
<1>5. recipes' \in Seq(Recipe) /\ RecipeSpaces' \subseteq RecipeSpaces
  BY <1>3, <1>4, MarkedRecipe
<1>6. update_on_defragment_' \in BOOLEAN /\ JobKept
  BY <1>2 DEF DataOK, TableOK, JobKept
<1> QED
  BY <1>2, <1>5, <1>6, RecipeFrame

\* Its workspace is not needed any more.
LEMMA ReleaseData ==
  ASSUME ControlOK, DataOK, Release
  PROVE  DataOK' /\ Undisturbed
<1>1. UNCHANGED <<pool, table, mutex_, moving, workspace, job, update_on_defragment_>>
      /\ recipes' = Tail(recipes) /\ recipes /= <<>> /\ recipes \in Seq(Recipe)
  BY DEF Release, poolVars, moveVars, DataOK
<1>2. recipes' \in Seq(Recipe) /\ \A i \in DOMAIN recipes' : i + 1 \in DOMAIN recipes /\ recipes'[i] = recipes[i + 1]
  BY <1>1
<1>3. RecipeSpaces' \subseteq RecipeSpaces
  BY <1>2 DEF RecipeSpaces
<1>4. update_on_defragment_' \in BOOLEAN /\ JobKept
  BY <1>1 DEF DataOK, TableOK, JobKept
<1> QED
  BY <1>1, <1>2, <1>3, <1>4, RecipeFrame

\* A recipe in flight is counted.
LEMMA CountData ==
  ASSUME ControlOK, DataOK, NEW t \in Threads, CountRecipe(t)
  PROVE  DataOK' /\ Undisturbed
<1>1. PICK i : recipes' = [recipes EXCEPT ![i].counted = TRUE]
  BY DEF CountRecipe
<1>2. UNCHANGED <<pool, table, mutex_, moving, workspace, update_on_defragment_>> /\ End(t)
  BY DEF CountRecipe, poolVars, moveVars
<1>3. recipes \in Seq(Recipe) /\ update_on_defragment_' \in BOOLEAN
  BY <1>2 DEF DataOK, TableOK
<1>4. recipes' \in Seq(Recipe) /\ RecipeSpaces' \subseteq RecipeSpaces
  <2>1. CASE i \in DOMAIN recipes
    <3>1. PICK q : q = [recipes[i] EXCEPT !.counted = TRUE]
      OBVIOUS
    <3>2. recipes' = [recipes EXCEPT ![i] = q]
      BY <1>1, <3>1
    <3> QED
      BY <1>3, <2>1, <3>1, <3>2, MarkedRecipe
  <2>2. CASE i \notin DOMAIN recipes
    <3>1. recipes' = recipes
      BY <1>1, <1>3, <2>2
    <3> QED
      BY <1>3, <3>1 DEF RecipeSpaces
  <2> QED
    BY <2>1, <2>2
<1> QED
  BY <1>2, <1>3, <1>4, EndKeeps, RecipeFrame

-----------------------------------------------------------------------------
(* Tensors come and go.                                                       *)

\* A tensor is made, without memory.
LEMMA MallocData ==
  ASSUME ControlOK, DataOK, NEW h \in Handles, Malloc(h)
  PROVE  DataOK' /\ Undisturbed
<1>1. /\ UNCHANGED <<pool, mutex_, moving, recipes, workspace, job, update_on_defragment_>>
      /\ ~table[h].active
      /\ table' = [table EXCEPT ![h] = [active |-> TRUE, ptr |-> Null, fixed |-> FALSE]]
  BY DEF Malloc, lockVars, moveVars, deviceVars
<1>2. table \in [Handles -> [active : BOOLEAN, ptr : Units, fixed : BOOLEAN]]
  BY DEF DataOK, TableOK
<1>3. Null \in Units
  BY Sizes DEF Null, Units
<1>4. table' \in [Handles -> [active : BOOLEAN, ptr : Units, fixed : BOOLEAN]]
  BY <1>1, <1>2, <1>3
<1>5. \A x \in Handles : table'[x].ptr = table[x].ptr /\ (table[x].active => table'[x].active)
      /\ (~table'[x].active => table'[x] = table[x])
  <2>1. table[h].ptr = Null
    BY <1>1 DEF DataOK, HandlesOK
  <2> QED
    BY <1>1, <1>2, <2>1
<1>6. TableOK' /\ (recipes \in Seq(Recipe))' /\ AddressOf' = AddressOf
  BY <1>1, <1>4, <1>5 DEF DataOK, TableOK, AddressOf, Recipe
<1>7. HandlesOK'
  <2>1. ActiveKept /\ JobKept
    BY <1>1, <1>5 DEF ActiveKept, JobKept
  <2>2. \A x \in Handles : ~table'[x].active => table'[x].ptr = Null
    BY <1>5 DEF DataOK, HandlesOK
  <2> QED
    BY <2>1, <2>2, KeptActive DEF DataOK, HandlesOK
<1>8. Workspaces' = Workspaces /\ (workspace.ptr' /= Null => workspace.size' > 0)
  BY <1>1 DEF Workspaces, SharedSpace, JobSpaces, RecipeSpaces, DataOK, MemoryOK
<1> QED
  BY <1>1, <1>6, <1>7, <1>8, DataFrame

\* With no movers under way, the table matches the pool with nothing left over.
LEMMA NoMovers ==
  ASSUME DataOK, mutex_ = None
  PROVE  moving = NoMove /\ Old = {} /\ TableMatch(pool, AddressOf, {})
BY DEF DataOK, MovingOK, MemoryOK, Old, NoMove

\* A tensor is freed, with its memory.
LEMMA FreeData ==
  ASSUME ControlOK, DataOK, NEW h \in Handles, Free(h)
  PROVE  DataOK'
<1> DEFINE a == table[h].ptr
<1>1. /\ UNCHANGED <<mutex_, moving, recipes, workspace, job, update_on_defragment_>>
      /\ table' = [table EXCEPT ![h] = [@ EXCEPT !.active = FALSE, !.ptr = Null]]
      /\ ~InUse(h) /\ mutex_ = None
      /\ pool' = IF a = Null THEN pool ELSE PoolFree(pool, a)
  BY DEF Free, lockVars, moveVars
<1>2. table \in [Handles -> [active : BOOLEAN, ptr : Units, fixed : BOOLEAN]]
      /\ IsPool(pool) /\ pool.high \in BOOLEAN /\ pool.exact \in BOOLEAN
  BY DEF DataOK, TableOK
<1>3. Null \in Units
  BY Sizes DEF Null, Units
<1>4. /\ table' \in [Handles -> [active : BOOLEAN, ptr : Units, fixed : BOOLEAN]]
      /\ table'[h].active = FALSE /\ table'[h].ptr = Null
      /\ \A x \in Handles \ {h} : table'[x] = table[x]
  <2>1. PICK e : e = [table[h] EXCEPT !.active = FALSE, !.ptr = Null]
    OBVIOUS
  <2>2. e \in [active : BOOLEAN, ptr : Units, fixed : BOOLEAN] /\ e.active = FALSE /\ e.ptr = Null
    <3>1. table[h] \in [active : BOOLEAN, ptr : Units, fixed : BOOLEAN]
      BY <1>2
    <3> QED
      BY <1>3, <2>1, <3>1
  <2>3. table' = [table EXCEPT ![h] = e]
    BY <1>1, <2>1
  <2> QED
    BY <1>2, <2>2, <2>3
<1> DEFINE at == AddressOf
           left == {AddressOf[x] : x \in {h}} \ {Null}
<1>5. AddressOf' = [x \in Handles |-> IF x \in {h} THEN Null ELSE at[x]]
  BY <1>4 DEF AddressOf
<1>6. TableMatch(pool, AddressOf', left)
  <2>1. TableMatch(pool, at, {})
    BY <1>1, NoMovers
  <2>2. PICK at2 : at2 = AddressOf'
    OBVIOUS
  <2>3. PICK l : l = left
    OBVIOUS
  <2>5. PICK b : b = AddressOf
    OBVIOUS
  <2>4. PICK H \in SUBSET Handles : H = {h}
    OBVIOUS
  <2>6. Leaves(b, H, at2, l)
    BY <1>5, <2>2, <2>3, <2>4, <2>5 DEF Leaves
  <2>7. PICK o, p : o = {} /\ p = pool
    OBVIOUS
  <2>8. TableMatch(p, at2, o \cup l)
    <3> HIDE DEF at, left
    <3>1. TableMatch(p, b, o)
      BY <2>1, <2>5, <2>7 DEF at
    <3> QED
      BY <2>4, <2>6, <3>1, LeaveMatch
  <2>9. o \cup l = l
    BY <2>7
  <2> HIDE DEF left, at
  <2> QED
    BY <2>2, <2>3, <2>5, <2>7, <2>8, <2>9 DEF at
<1>7. left = IF a = Null THEN {} ELSE {a}
  BY DEF AddressOf
<1> HIDE DEF left, at, a
<1>8. Settled(pool, AddressOf', left, left, pool')
  <2>1. CASE a = Null
    <3>1. left = {} /\ pool' = pool
      BY <1>1, <1>7, <2>1
    <3>2. TableMatch(pool, AddressOf', {})
      BY <1>6, <3>1
    <3> QED
      BY <1>2, <3>1, <3>2, SettledNothing
  <2>2. CASE a /= Null
    <3>1. left = {a} /\ pool' = PoolFree(pool, a)
      BY <1>1, <1>7, <2>2
    <3>2. TableMatch(pool, AddressOf', {a})
      BY <1>6, <3>1
    <3> QED
      BY <1>2, <3>1, <3>2, FreeSettles
  <2> QED
    BY <2>1, <2>2
<1>9. TableMatch(pool', AddressOf', {}) /\ \A w : Reserved(pool, w) => Reserved(pool', w)
  <2>1. left \ left = {}
    OBVIOUS
  <2> QED
    BY <1>8, <2>1 DEF Settled
<1>10. TableOK' /\ (recipes \in Seq(Recipe))' /\ MovingOK' /\ Old' = {}
  <2>1. IsPool(pool') /\ pool'.high \in BOOLEAN /\ pool'.exact \in BOOLEAN
    BY <1>2, <1>8 DEF Settled, Returned
  <2>2. Old' = {}
    BY <1>1, NoMovers DEF Old
  <2> QED
    BY <1>1, <1>4, <2>1, <2>2 DEF DataOK, TableOK, Recipe, MovingOK
<1>11. HandlesOK'
  <2>1. ActiveKept /\ JobKept
    BY <1>1, <1>4 DEF ActiveKept, JobKept
  <2>2. \A x \in Handles : ~table'[x].active => table'[x].ptr = Null
    BY <1>4 DEF DataOK, HandlesOK
  <2> QED
    BY <2>1, <2>2, KeptActive DEF DataOK, HandlesOK
<1>12. Workspaces' = Workspaces /\ (workspace.ptr' /= Null => workspace.size' > 0)
  BY <1>1 DEF Workspaces, SharedSpace, JobSpaces, RecipeSpaces, DataOK, MemoryOK
<1>13. MemoryOK'
  <2>1. \A w \in Workspaces' : Reserved(pool', w)
    BY <1>9, <1>12 DEF DataOK, MemoryOK
  <2> QED
    BY <1>9, <1>10, <1>12, <2>1 DEF MemoryOK
<1> QED
  BY <1>10, <1>11, <1>13 DEF DataOK

-----------------------------------------------------------------------------
(* The workspace is freed, and extended.                                      *)

\* The workspace, which no tensor has, is freed.
LEMMA WorkspaceFreed ==
  ASSUME DataOK, NEW q, q = PoolFree(pool, workspace.ptr)
  PROVE  /\ IsPool(q) /\ q.high \in BOOLEAN /\ q.exact \in BOOLEAN
         /\ TableMatch(q, AddressOf, Old)
<1> DEFINE a == workspace.ptr
<1>1. /\ IsPool(pool) /\ pool.high \in BOOLEAN /\ pool.exact \in BOOLEAN
      /\ TableMatch(pool, AddressOf, Old)
  BY DEF DataOK, TableOK, MemoryOK
<1>2. CASE ~IsAllocated(pool, a)
  <2>1. q = pool
    BY <1>2 DEF PoolFree, IsAllocated
  <2> QED
    BY <1>1, <2>1
<1>3. CASE IsAllocated(pool, a)
  <2>1. a \in pool.small \/ (a \in DOMAIN pool.chunks /\ pool.chunks[a].used)
    BY <1>3 DEF IsAllocated
  <2>2. a /= Null
    <3>1. Tiles(pool.chunks)
      BY <1>1 DEF IsPool, Sound
    <3>2. a \in Nat /\ a >= 1
      BY <1>1, <2>1, <3>1, GivenParts, Sizes DEF Tiles
    <3> QED
      BY <3>2 DEF Null
  <2>3. Reserved(pool, Extent(a, workspace.size)) /\ workspace.size > 0
    BY <2>2 DEF DataOK, MemoryOK, Workspaces, SharedSpace
  <2>4. a \in Top(pool.chunks) .. PoolSize - 1
    <3>1. workspace.size \in Nat /\ a \in Nat
      BY Sizes DEF DataOK, TableOK, Units
    <3>2. a \in Extent(a, workspace.size)
      BY <2>3, <3>1 DEF Extent
    <3> QED
      BY <2>3, <3>2 DEF Reserved
  <2>5. a \notin pool.small /\ Top(pool.chunks) \in Nat
    <3>1. pool.small \subseteq 1 .. SmallEnd - 1 /\ Top(pool.chunks) \in SmallEnd .. PoolSize - 1
      BY <1>1, GivenParts
    <3> QED
      BY <2>4, <3>1, Sizes DEF SmallEnd, SmallBase
  <2>6. a = Top(pool.chunks)
    <3>1. a \in DOMAIN pool.chunks /\ Tiles(pool.chunks)
      BY <1>1, <2>1, <2>5 DEF IsPool, Sound
    <3>2. a <= Top(pool.chunks)
      BY <3>1, TopChunk
    <3> QED
      BY <2>4, <2>5, <3>2
  <2>7. a \in Given(pool) /\ a \notin Addresses(AddressOf) \cup Old
    BY <1>1, <2>3, <2>6, TopGiven DEF Reserved, TableMatch, TopFree
  <2>8. Old \ {a} = Old
    BY <2>7
  <2> HIDE DEF a
  <2>9. q = PoolFree(pool, a)
    BY DEF a
  <2>10. TableMatch(q, AddressOf, Old \ {a})
    BY <1>1, <2>7, <2>9, FreeMatch
  <2>11. GivenBack(pool, a, q)
    BY <1>1, <2>7, <2>9, FreeKeeps
  <2> QED
    BY <1>1, <2>8, <2>10, <2>11 DEF GivenBack
<1> QED
  BY <1>2, <1>3

\* cleanup_workspace_buffer frees what nothing in flight uses.
LEMMA CleanupData ==
  ASSUME ControlOK, DataOK, NEW t \in Threads, Cleanup(t)
  PROVE  TableOK' /\ (slips' = {} => DataOK' /\ Undisturbed)
<1>1. /\ UNCHANGED <<table, mutex_, moving, recipes, job, update_on_defragment_>>
      /\ pool' = PoolFree(pool, workspace.ptr) /\ workspace' = [ptr |-> Null, size |-> 0]
      /\ slips' = slips \cup NoteWorkspace(t) /\ pc[t] = "cleanup_wait"
  BY DEF Cleanup, moveVars, deviceVars, At
<1>2. /\ IsPool(pool') /\ pool'.high \in BOOLEAN /\ pool'.exact \in BOOLEAN
      /\ TableMatch(pool', AddressOf, Old)
  BY <1>1, WorkspaceFreed
<1>3. TableOK'
  <2>1. workspace'.ptr \in Units /\ workspace'.size \in 0 .. PoolSize
        /\ workspace' = [ptr |-> workspace'.ptr, size |-> workspace'.size]
    BY <1>1, Sizes DEF Null, Units
  <2> QED
    BY <1>1, <1>2, <2>1 DEF DataOK, TableOK
<1>4. ASSUME slips' = {} PROVE DataOK' /\ Undisturbed
  <2>1. /\ \A i \in DOMAIN recipes : recipes[i].done
        /\ \A x \in Threads \ {t} : job[x] = NoJob \/ job[x].ws = Null
    BY <1>1, <1>4 DEF NoteWorkspace
  <2>2. job[t].ws = Null
    BY <1>1, Waiting DEF WorkspaceLocs, Grows
  <2>3. Workspaces' = {}
    <3>1. JobSpaces' = {}
      BY <1>1, <2>1, <2>2 DEF JobSpaces, WorkspaceOf
    <3>2. RecipeSpaces' = {}
      BY <1>1, <2>1 DEF RecipeSpaces
    <3>3. SharedSpace' = {}
      BY <1>1 DEF SharedSpace
    <3> QED
      BY <3>1, <3>2, <3>3 DEF Workspaces
  <2>4. AddressOf' = AddressOf /\ Old' = Old /\ (workspace.ptr' /= Null => workspace.size' > 0)
    BY <1>1 DEF AddressOf, Old
  <2>5. MemoryOK'
    BY <1>2, <2>3, <2>4 DEF MemoryOK
  <2>6. (recipes \in Seq(Recipe))' /\ HandlesOK' /\ MovingOK'
    BY <1>1 DEF DataOK, HandlesOK, MovingOK, Recipe
  <2> QED
    BY <1>3, <2>3, <2>4, <2>5, <2>6 DEF DataOK, Undisturbed
<1> QED
  BY <1>3, <1>4

\* The workspace grows into free memory behind the tensors.
LEMMA ExtendMatch ==
  ASSUME NEW p, IsPool(p), p.high \in BOOLEAN, NEW at, TableMatch(p, at, {}),
         NEW n \in Nat \ {0}, NEW current, NEW r, r = ExtendHighMemory(p, n, current)
  PROVE  /\ IsPool(r.pool) /\ r.pool.high \in BOOLEAN /\ r.pool.exact = p.exact
         /\ TableMatch(r.pool, at, {})
         /\ \A w : Reserved(p, w) => Reserved(r.pool, w)
         /\ r.ptr /= Null => Reserved(r.pool, Extent(r.ptr, n)) /\ n <= PoolSize
<1> DEFINE q == r.pool
<1>1. Extended(p, n, r)
  BY ExtendHighMemoryKeeps
<1>2. /\ IsPool(q)
      /\ r.ptr # Null => r.ptr = Top(q.chunks) /\ q.chunks[r.ptr].used /\ q.chunks[r.ptr].size >= n
      /\ \A x \in GivenChunks(p.chunks) \ {Top(p.chunks)} :
           x \in GivenChunks(q.chunks) /\ q.chunks[x] = p.chunks[x]
  BY ExtendHighMemorySound
<1> HIDE DEF q
<1>3. q.small = p.small /\ q.high \in BOOLEAN /\ q.exact = p.exact /\ (r.ptr /= Null => q.high /\ n <= PoolSize)
  BY <1>1 DEF Extended, q
<1>4. Top(q.chunks) \in Nat /\ Top(p.chunks) \in Nat
  BY <1>2, GivenParts, Sizes DEF SmallEnd, SmallBase
<1>5. ASSUME NEW w, Reserved(p, w) PROVE Reserved(q, w)
  <2>1. q.high /\ q.chunks[Top(q.chunks)].used /\ Top(q.chunks) <= Top(p.chunks)
    BY <1>1, <1>5 DEF Extended, Reserved, q
  <2>2. Top(p.chunks) .. PoolSize - 1 \subseteq Top(q.chunks) .. PoolSize - 1
    BY <1>4, <2>1, Sizes
  <2> QED
    BY <1>5, <2>1, <2>2 DEF Reserved
<1>6. ASSUME r.ptr /= Null PROVE Reserved(q, Extent(r.ptr, n))
  <2>1. Tiles(q.chunks)
    BY <1>2 DEF IsPool, Sound
  <2>2. r.ptr + q.chunks[r.ptr].size = PoolSize /\ q.chunks[r.ptr].size \in Nat
    BY <1>2, <1>6, <2>1, TopChunk, AfterBounds DEF After
  <2>3. Extent(r.ptr, n) \subseteq r.ptr .. PoolSize - 1
    BY <1>2, <1>4, <1>6, <2>2, Sizes DEF Extent
  <2> QED
    BY <1>2, <1>3, <1>6, <2>3 DEF Reserved
<1>7. TableMatch(q, at, {})
  <2>1. CASE q = p
    BY <2>1
  <2>2. CASE q /= p
    <3>1. /\ p.high \/ ~p.chunks[Top(p.chunks)].used
          /\ GivenChunks(q.chunks) \subseteq (GivenChunks(p.chunks) \ {Top(p.chunks)}) \cup {Top(q.chunks)}
      BY <1>1, <2>2 DEF Extended, q
    <3>2. PICK A : A = Addresses(at)
      OBVIOUS
    <3>3. A \subseteq Given(p) /\ \A a \in A : a /= Top(p.chunks)
      <4>1. A \cup {} \subseteq Given(p)
        BY <3>2, MatchGiven DEF TableMatch
      <4>2. ASSUME NEW a \in A, a = Top(p.chunks) PROVE FALSE
        <5>1. ~p.high
          BY <3>2, <4>2 DEF TableMatch, TopFree
        <5>2. Top(p.chunks) \notin p.small /\ Top(p.chunks) \notin GivenChunks(p.chunks)
          BY <3>1, <5>1, GivenParts
        <5> QED
          BY <4>1, <4>2, <5>2 DEF Given
      <4> QED
        BY <4>1, <4>2
    <3>4. Keeps(p, q, A)
      BY <1>2, <1>3, <3>3 DEF Keeps
    <3>5. ASSUME NEW h \in Handles, at[h] /= Null PROVE HasMemory(q, at[h], h)
      <4>1. at[h] \in A /\ HasMemory(p, at[h], h)
        BY <3>2, <3>5 DEF Addresses, TableMatch, Matches
      <4> QED
        BY <3>4, <4>1, MemoryKept
    <3>6. Given(q) \subseteq A \cup {} \cup {Top(q.chunks)}
      <4>1. ASSUME NEW x \in Given(q), x /= Top(q.chunks) PROVE x \in A
        <5>1. x \in Given(p) /\ x /= Top(p.chunks)
          BY <1>3, <3>1, <4>1, GivenParts DEF Given
        <5> QED
          BY <3>2, <5>1 DEF TableMatch, Matches
      <4> QED
        BY <4>1
    <3>7. TopFree(q, A \cup {})
      BY <1>2, <3>3, <3>4, NotAtTop DEF TopFree
    <3>8. \A h, g \in Handles : at[h] = at[g] /\ at[h] /= Null => h = g
      BY DEF TableMatch, Matches
    <3>9. \A h \in Handles : at[h] /= Null => HasMemory(q, at[h], h)
      BY <3>5
    <3>10. {} \subseteq Given(q) \ A
      OBVIOUS
    <3> QED
      BY <3>2, <3>6, <3>7, <3>8, <3>9, <3>10 DEF TableMatch, Matches
  <2> QED
    BY <2>1, <2>2
<1>8. \A w : Reserved(p, w) => Reserved(q, w)
  BY <1>5
<1> QED
  BY <1>2, <1>3, <1>6, <1>7, <1>8 DEF q

\* One attempt to extend the workspace.
LEMMA ExtendData ==
  ASSUME ControlOK, DataOK, NEW t \in Threads, NEW loc, Extend(t, loc),
         pc[t] \in WorkspaceLocs \/ (pc[t] \in DefragLocs /\ Grows(job[t]))
  PROVE  DataOK'
<1> DEFINE r == ExtendHighMemory(pool, job[t].n, workspace.size)
<1>1. /\ UNCHANGED <<table, mutex_, moving, recipes, update_on_defragment_>>
      /\ mutex_ = None /\ pool' = r.pool
      /\ IF r.ptr /= Null
         THEN /\ workspace' = [ptr |-> r.ptr, size |-> job[t].n]
              /\ GiveWorkspace(t, r.ptr)
         ELSE IF loc = "throw"
         THEN workspace' = [workspace EXCEPT !.ptr = Null] /\ End(t)
         ELSE Goto(t, loc) /\ UNCHANGED <<workspace, job>>
  BY DEF Extend, moveVars, deviceVars
<1>2. IsJob(job[t]) /\ job[t].n \in Nat \ {0} /\ job[t] /= NoJob
  BY Waiting
<1>3. /\ IsPool(pool) /\ pool.high \in BOOLEAN /\ pool.exact \in BOOLEAN
      /\ TableMatch(pool, AddressOf, {}) /\ Old = {}
  BY <1>1, NoMovers DEF DataOK, TableOK
<1>4. PICK s : s = r
  OBVIOUS
<1> HIDE DEF r
<1>5. /\ IsPool(s.pool) /\ s.pool.high \in BOOLEAN /\ s.pool.exact = pool.exact
      /\ TableMatch(s.pool, AddressOf, {})
      /\ \A w : Reserved(pool, w) => Reserved(s.pool, w)
      /\ s.ptr /= Null => Reserved(s.pool, Extent(s.ptr, job[t].n)) /\ job[t].n <= PoolSize
  <2>1. PICK n, c : n = job[t].n /\ c = workspace.size
    OBVIOUS
  <2>2. s = ExtendHighMemory(pool, n, c) /\ n \in Nat \ {0}
    BY <1>2, <1>4, <2>1 DEF r
  <2>3. PICK p, at : p = pool /\ at = AddressOf
    OBVIOUS
  <2>4. /\ IsPool(s.pool) /\ s.pool.high \in BOOLEAN /\ s.pool.exact = p.exact
        /\ TableMatch(s.pool, at, {})
        /\ \A w : Reserved(p, w) => Reserved(s.pool, w)
        /\ s.ptr /= Null => Reserved(s.pool, Extent(s.ptr, n)) /\ n <= PoolSize
    BY <1>3, <2>2, <2>3, ExtendMatch
  <2> QED
    BY <2>1, <2>3, <2>4
<1>6. pool' = s.pool /\ AddressOf' = AddressOf /\ Old' = {}
  BY <1>1, <1>3, <1>4 DEF AddressOf, Old
<1>7. s.ptr \in Units \/ s.ptr = Null
  <2>1. PICK n, c, p : n = job[t].n /\ c = workspace.size /\ p = pool
    OBVIOUS
  <2>2. s = ExtendHighMemory(p, n, c) /\ n \in Nat \ {0} /\ IsPool(p)
    BY <1>2, <1>3, <1>4, <2>1 DEF r
  <2> QED
    BY <2>2, ExtendUnit
\* What is left to show of either outcome.
<1>8. ASSUME workspace' = [ptr |-> workspace'.ptr, size |-> workspace'.size],
             workspace'.ptr \in Units, workspace'.size \in 0 .. PoolSize,
             HandlesOK', workspace.ptr' /= Null => workspace.size' > 0,
             \A w \in Workspaces' : w \in Workspaces \/ Reserved(s.pool, w)
      PROVE  DataOK'
  <2>1. TableOK'
    BY <1>1, <1>3, <1>5, <1>6, <1>8 DEF DataOK, TableOK
  <2>2. \A w \in Workspaces' : Reserved(pool', w)
    BY <1>5, <1>6, <1>8 DEF DataOK, MemoryOK
  <2>3. MemoryOK'
    BY <1>5, <1>6, <1>8, <2>2 DEF MemoryOK
  <2>4. (recipes \in Seq(Recipe))' /\ MovingOK'
    BY <1>1 DEF DataOK, MovingOK, Recipe
  <2> QED
    BY <1>8, <2>1, <2>3, <2>4 DEF DataOK
<1>9. CASE s.ptr = Null
  <2>1. \/ UNCHANGED <<workspace, job>>
        \/ workspace' = [workspace EXCEPT !.ptr = Null] /\ End(t)
    BY <1>1, <1>4, <1>9
  <2>2. JobKept
    BY <2>1, EndKeeps DEF JobKept
  <2>3. HandlesOK'
    <3>1. ActiveKept
      BY <1>1 DEF ActiveKept
    <3> QED
      BY <1>1, <2>2, <3>1, KeptActive DEF DataOK, HandlesOK
  <2>4. /\ workspace' = [ptr |-> workspace'.ptr, size |-> workspace'.size]
        /\ workspace'.size = workspace.size /\ workspace'.ptr \in {workspace.ptr, Null}
    BY <2>1 DEF DataOK, TableOK
  <2>5. /\ workspace'.ptr \in Units /\ workspace'.size \in 0 .. PoolSize
        /\ workspace.ptr' /= Null => workspace.size' > 0
    BY <2>4, Sizes DEF DataOK, TableOK, MemoryOK, Null, Units
  <2>6. Workspaces' \subseteq Workspaces
    <3>1. SharedSpace' \subseteq SharedSpace /\ RecipeSpaces' = RecipeSpaces
      BY <1>1, <2>4 DEF SharedSpace, RecipeSpaces
    <3> QED
      BY <2>2, <3>1, KeptSpaces DEF Workspaces
  <2> QED
    BY <1>8, <2>3, <2>4, <2>5, <2>6
<1>10. CASE s.ptr /= Null
  <2> DEFINE k == [job[t] EXCEPT !.ws = s.ptr]
  <2>1. workspace' = [ptr |-> s.ptr, size |-> job[t].n] /\ GiveWorkspace(t, s.ptr)
    BY <1>1, <1>4, <1>10
  <2>2. s.ptr \in Units \ {Null}
    BY <1>7, <1>10
  <2>3. k.ws = s.ptr /\ k.n = job[t].n /\ k.list = job[t].list
    BY <1>2, <2>2, GivenJob
  <2>4. job' = [job EXCEPT ![t] = k]
    BY <2>1, Held DEF GiveWorkspace
  <2> HIDE DEF k
  <2>5. job = [x \in Threads |-> job[x]]
    BY DEF ControlOK, CallsOK
  <2>6. job'[t] = k /\ \A x \in Threads \ {t} : job'[x] = job[x]
    BY <2>4, <2>5
  <2>7. HandlesOK'
    <3>1. ASSUME NEW x \in Threads, job'[x] /= NoJob
          PROVE  job[x] /= NoJob /\ job'[x].list = job[x].list
      BY <1>2, <2>3, <2>6, <3>1
    <3> QED
      BY <1>1, <3>1 DEF HandlesOK, DataOK
  <2>8. \A w \in Workspaces' : w \in Workspaces \/ Reserved(s.pool, w)
    <3>1. PICK e : e = Extent(s.ptr, job[t].n)
      OBVIOUS
    <3>2. Reserved(s.pool, e)
      BY <1>5, <1>10, <3>1
    <3>3. SharedSpace' \subseteq {e} /\ RecipeSpaces' = RecipeSpaces
      BY <1>1, <2>1, <3>1 DEF SharedSpace, RecipeSpaces
    <3>4. JobSpaces' \subseteq JobSpaces \cup {e}
      BY <2>3, <2>6, <3>1 DEF JobSpaces, WorkspaceOf
    <3> QED
      BY <3>2, <3>3, <3>4 DEF Workspaces
  <2>9. /\ workspace' = [ptr |-> workspace'.ptr, size |-> workspace'.size]
        /\ workspace'.ptr \in Units /\ workspace'.size \in 0 .. PoolSize /\ workspace'.size > 0
    <3>1. job[t].n \in 0 .. PoolSize /\ job[t].n > 0
      BY <1>2, <1>5, <1>10, Sizes
    <3> QED
      BY <2>1, <2>2, <3>1
  <2> QED
    BY <1>8, <2>7, <2>8, <2>9
<1> QED
  BY <1>9, <1>10

\* The three attempts.
LEMMA ExtendsData ==
  ASSUME ControlOK, DataOK, NEW t \in Threads, ExtendFirst(t) \/ ExtendIdle(t) \/ ExtendAgain(t)
  PROVE  DataOK'
<1>1. CASE ExtendFirst(t)
  <2>1. Extend(t, "extend_idle") /\ pc[t] \in WorkspaceLocs
    BY <1>1 DEF ExtendFirst, At, WorkspaceLocs
  <2> QED
    BY <2>1, ExtendData
<1>2. CASE ExtendIdle(t)
  <2>1. Extend(t, "synchronize") /\ pc[t] \in WorkspaceLocs
    BY <1>2 DEF ExtendIdle, At, WorkspaceLocs
  <2> QED
    BY <2>1, ExtendData
<1>3. CASE ExtendAgain(t)
  <2>1. Extend(t, "throw") /\ pc[t] \in DefragLocs /\ Grows(job[t])
    BY <1>3 DEF ExtendAgain, At, DefragLocs, Grows
  <2> QED
    BY <2>1, ExtendData
<1> QED
  BY <1>1, <1>2, <1>3

-----------------------------------------------------------------------------
(* A tensor is translated.                                                    *)

\* A tensor gets memory that is not at the top.
LEMMA TensorGiven ==
  ASSUME NEW p, IsPool(p), NEW at, at = [x \in Handles |-> at[x]], TableMatch(p, at, {}),
         NEW h \in Handles, at[h] = Null, NEW r, Allocated(p, h, r), NoteTail(r) = {},
         NEW at2, at2 = [at EXCEPT ![h] = r.ptr]
  PROVE  TableMatch(r.pool, at2, {})
<1>1. Matches(r.pool, at2, {})
  <2>1. PICK old : old = {}
    OBVIOUS
  <2>2. Matches(p, at, old)
    BY <2>1 DEF TableMatch
  <2>3. Matches(r.pool, at2, old)
    BY <2>2, AllocMatch
  <2> QED
    BY <2>1, <2>3
<1>2. TopFree(r.pool, Addresses(at))
  <2>1. Addresses(at) \subseteq Given(p) /\ TopFree(p, Addresses(at))
    BY MatchGiven DEF TableMatch
  <2>2. PICK A : A = Addresses(at)
    OBVIOUS
  <2>3. IsPool(r.pool) /\ Keeps(p, r.pool, A) /\ (r.pool.high => p.high)
    BY <2>1, <2>2 DEF Allocated, Keeps
  <2> QED
    BY <2>1, <2>2, <2>3, TopStaysFree
<1>3. Addresses(at2) \subseteq Addresses(at) \cup {r.ptr}
  BY DEF Addresses
<1>4. r.pool.high => Top(r.pool.chunks) /= r.ptr
  BY DEF NoteTail
<1> QED
  BY <1>1, <1>2, <1>3, <1>4 DEF TableMatch, TopFree

\* A call is under way.
LEMMA UnderWay ==
  ASSUME NEW j, IsJob(j)
  PROVE  j /= NoJob
<1>1. j.kind /= "none" /\ NoJob.kind = "none"
  BY DEF IsJob, NoJob
<1> QED
  BY <1>1

\* Translating gives the next tensor of a call its memory, if it has none yet.
LEMMA TranslatedData ==
  ASSUME ControlOK, DataOK, NEW t \in Threads, job[t] /= NoJob, IsJob(job[t]),
         job[t].todo /= <<>>, NEW r, r = Translation(t), Translated(t, r),
         UNCHANGED <<mutex_, moving, recipes, workspace>>, update_on_defragment_' \in BOOLEAN
  PROVE  TableOK' /\ (slips' = {} => DataOK')
<1> DEFINE h == Head(job[t].todo)
           k == WithAddress(job[t], r.ptr)
<1>1. h \in Handles /\ h \in Elements(job[t].list)
  <2>1. PICK j : j = job[t]
    OBVIOUS
  <2>2. /\ Head(j.todo) \in Handles /\ Head(j.todo) = j.list[Len(j.out) + 1]
        /\ Len(j.out) + 1 \in 1 .. Len(j.list)
    BY <2>1, HeadHandle
  <2>3. DOMAIN j.list = 1 .. Len(j.list)
    BY <2>1 DEF IsJob
  <2> QED
    BY <2>1, <2>2, <2>3 DEF Elements
<1>2. TableOK /\ table \in [Handles -> [active : BOOLEAN, ptr : Units, fixed : BOOLEAN]]
  BY DEF DataOK, TableOK
<1>3. /\ IsPool(r.pool) /\ r.ptr \in Units
      /\ table[h].ptr /= Null => r = [pool |-> pool, ptr |-> table[h].ptr]
      /\ table[h].ptr = Null => r = PoolAlloc(pool, Size[h], Stream[h])
  BY <1>2, TranslationUnit
<1>4. /\ mutex_ = None /\ pool' = r.pool /\ table' = [table EXCEPT ![h].ptr = r.ptr]
      /\ job' = IF r.ptr = Null THEN job ELSE [job EXCEPT ![t] = k]
      /\ slips' = slips \cup NoteTail(r)
  BY DEF Translated
<1>5. JobKept
  <2>1. CASE r.ptr = Null
    BY <1>4, <2>1 DEF JobKept
  <2>2. CASE r.ptr /= Null
    <3>1. k.list = job[t].list /\ k.ws = job[t].ws /\ k.n = job[t].n
      BY <1>3, <2>2, TranslatedJob
    <3> HIDE DEF k
    <3>2. SameUse(job[t], k)
      BY <3>1 DEF SameUse
    <3> QED
      BY <1>4, <2>2, <3>2 DEF JobKept
  <2> QED
    BY <2>1, <2>2
<1> HIDE DEF h, k
<1>6. CASE table[h].ptr = r.ptr
  <2>1. pool' = pool
    <3>1. CASE table[h].ptr /= Null
      BY <1>3, <1>4, <3>1
    <3>2. CASE table[h].ptr = Null
      <4>1. Size[h] \in Nat \ {0} /\ IsPool(pool)
        BY <1>1, <1>2, Sizing DEF TableOK
      <4>2. PICK n, s, p : n = Size[h] /\ s = Stream[h] /\ p = pool
        OBVIOUS
      <4>3. r.ptr = Null /\ r = PoolAlloc(p, n, s)
        BY <1>3, <1>6, <3>2, <4>2
      <4>4. ~HandedOut(p, n, r)
        <5>1. ASSUME HandedOut(p, n, r) PROVE Null \in Given(r.pool)
          BY <4>3, <5>1 DEF HandedOut, Given
        <5> QED
          BY <1>3, <5>1, GivenParts
      <4> QED
        BY <1>4, <4>1, <4>2, <4>3, <4>4, PoolAllocSound
    <3> QED
      BY <3>1, <3>2
  <2>2. table' = table
    <3>1. [table[h] EXCEPT !.ptr = r.ptr] = table[h]
      BY <1>1, <1>2, <1>6
    <3> QED
      BY <1>1, <1>2, <1>4, <3>1
  <2>3. DataOK'
    BY <1>5, <2>1, <2>2, CallFrame
  <2> QED
    BY <2>3 DEF DataOK
<1>7. CASE table[h].ptr = Null /\ r.ptr /= Null
  <2>1. IsPool(pool) /\ pool.high \in BOOLEAN /\ pool.exact \in BOOLEAN
        /\ TableMatch(pool, AddressOf, {}) /\ Old = {}
    BY <1>2, <1>4, NoMovers DEF TableOK
  <2>2. PICK p, at, at2 : p = pool /\ at = AddressOf /\ at2 = AddressOf'
    OBVIOUS
  <2>3. Allocated(p, h, r)
    BY <1>1, <1>3, <1>7, <2>1, <2>2, AllocKeeps
  <2>4. at = [x \in Handles |-> at[x]] /\ at[h] = Null /\ at2 = [at EXCEPT ![h] = r.ptr]
    BY <1>1, <1>2, <1>4, <1>7, <2>2 DEF AddressOf
  <2>5. IsPool(pool') /\ pool'.high \in BOOLEAN /\ pool'.exact \in BOOLEAN
    BY <1>4, <2>1, <2>2, <2>3 DEF Allocated
  <2>6. TableOK'
    <3>1. table' \in [Handles -> [active : BOOLEAN, ptr : Units, fixed : BOOLEAN]]
      BY <1>1, <1>2, <1>3, <1>4
    <3> QED
      BY <2>5, <3>1 DEF DataOK, TableOK
  <2>7. ASSUME slips' = {} PROVE DataOK'
    <3>1. TableMatch(pool', AddressOf', {}) /\ Old' = {}
      <4>1. NoteTail(r) = {}
        BY <1>4, <2>7
      <4>2. TableMatch(p, at, {}) /\ IsPool(p)
        BY <2>1, <2>2
      <4>3. TableMatch(r.pool, at2, {})
        BY <1>1, <2>3, <2>4, <4>1, <4>2, TensorGiven
      <4> QED
        BY <1>4, <2>1, <2>2, <4>3 DEF Old
    <3>2. (recipes \in Seq(Recipe))' /\ MovingOK'
      BY DEF DataOK, Recipe, MovingOK
    <3>3. HandlesOK'
      <4>1. \A x \in Handles : /\ table'[x].active = table[x].active
                               /\ table'[x].ptr = IF x = h THEN r.ptr ELSE table[x].ptr
        BY <1>1, <1>2, <1>3, <1>4
      <4>2. table[h].active
        BY <1>1 DEF DataOK, HandlesOK
      <4>3. ActiveKept
        BY <4>1 DEF ActiveKept
      <4>4. \A x \in Handles : ~table'[x].active => table'[x].ptr = Null
        BY <4>1, <4>2 DEF DataOK, HandlesOK
      <4> QED
        BY <1>5, <4>3, <4>4, KeptActive DEF DataOK, HandlesOK
    <3>4. \A w \in Workspaces' : Reserved(pool', w)
      <4>1. Workspaces' \subseteq Workspaces
        BY <1>5, KeptSpaces DEF Workspaces, SharedSpace, RecipeSpaces
      <4>2. \A w \in Workspaces : Reserved(p, w)
        BY <2>2 DEF DataOK, MemoryOK
      <4>3. \A w \in Workspaces : Reserved(r.pool, w)
        BY <2>1, <2>2, <2>3, <4>2, ReservedAlloc
      <4> QED
        BY <1>4, <4>1, <4>3
    <3>5. workspace.ptr' /= Null => workspace.size' > 0
      BY DEF DataOK, MemoryOK
    <3> QED
      BY <2>6, <3>1, <3>2, <3>3, <3>4, <3>5 DEF DataOK, MemoryOK
  <2> QED
    BY <2>6, <2>7
<1> QED
  BY <1>3, <1>6, <1>7 DEF TableOK

\* The three attempts to translate a tensor.
LEMMA TranslatesData ==
  ASSUME ControlOK, DataOK, NEW t \in Threads, Translate(t) \/ Retry(t) \/ TranslateAgain(t)
  PROVE  TableOK' /\ (slips' = {} => DataOK')
<1>1. IsJob(job[t]) /\ job[t] /= NoJob /\ job[t].todo /= <<>>
  <2>1. IsJob(job[t]) /\ job[t].todo /= <<>>
    <3>1. CASE Translate(t) \/ Retry(t)
      BY <3>1, Held DEF Translate, Retry, At, CallAt, WorkspaceLocs, LaunchLocs, DefragLocs
    <3>2. CASE TranslateAgain(t)
      <4>1. pc[t] = "defragmented" /\ (job[t].ws /= Null \/ job[t].kind = "fix")
        BY <3>2 DEF TranslateAgain, At
      <4>2. ~Growing(t)
        BY <4>1 DEF Growing
      <4> QED
        BY <4>1, <4>2, DefragmentingCall DEF DefragLocs
    <3> QED
      BY <3>1, <3>2
  <2> QED
    BY <2>1, UnderWay
<1>2. UNCHANGED <<mutex_, moving, recipes, workspace>> /\ update_on_defragment_' \in BOOLEAN
  BY DEF Translate, Retry, TranslateAgain, lockVars, moveVars, deviceVars, DataOK, TableOK
<1>3. CASE Translated(t, Translation(t))
  BY <1>1, <1>2, <1>3, TranslatedData
<1>4. CASE End(t) /\ UNCHANGED <<poolVars, slips>>
  <2>1. DataOK'
    BY <1>2, <1>4, EndKeeps, CallFrame DEF poolVars
  <2> QED
    BY <2>1 DEF DataOK
<1> QED
  BY <1>3, <1>4 DEF Translate, Retry, TranslateAgain

-----------------------------------------------------------------------------
(* Tensors are moved together.                                                *)

\* What the movers have been given, together with what was left.
Resettled(p, at, old, r) ==
  /\ (\A v \in r.movers : NoteTail([pool |-> r.pool, ptr |-> v.to]) = {}) =>
       TableMatch(r.pool, Landed(at, r.movers), old)
  /\ \A w : Reserved(p, w) => Reserved(r.pool, w)

\* Tensors that have left their memory are placed.
LEMMA PlaceResettles ==
  ASSUME NEW p, IsPool(p), NEW at, at = [h \in Handles |-> at[h]], NEW old, TableMatch(p, at, old),
         NEW B, Leaving(at, B), NEW r, r = Place(p, B)
  PROVE  Placed(p, at, old, B, r) /\ Resettled(p, at, old, r)
<1>1. Placed(p, at, old, B, r)
  BY PlaceMatch DEF TableMatch
<1>2. /\ IsPool(r.pool) /\ r.pool.high = p.high /\ Keeps(p, r.pool, Given(p))
      /\ Matches(r.pool, Landed(at, r.movers), old)
  BY <1>1 DEF Placed
<1>3. TopFree(r.pool, Addresses(at) \cup old)
  <2>1. PICK A, q : A = Addresses(at) \cup old /\ q = r.pool
    OBVIOUS
  <2>2. A \subseteq Given(p) /\ TopFree(p, A)
    BY <2>1, MatchGiven DEF TableMatch
  <2>3. IsPool(q) /\ Keeps(p, q, A) /\ (q.high => p.high)
    BY <1>2, <2>1, <2>2 DEF Keeps
  <2> QED
    BY <2>1, <2>2, <2>3, TopStaysFree
<1>4. \A x \in Addresses(Landed(at, r.movers)) :
        x \in Addresses(at) \/ \E v \in r.movers : x = v.to
  <2> SUFFICES ASSUME NEW h \in Handles, Landed(at, r.movers)[h] /= Null
               PROVE  \/ Landed(at, r.movers)[h] \in Addresses(at)
                      \/ \E v \in r.movers : Landed(at, r.movers)[h] = v.to
    BY DEF Addresses
  <2>1. CASE \E v \in r.movers : v.handle = h
    BY <2>1 DEF Landed
  <2>2. CASE ~ \E v \in r.movers : v.handle = h
    BY <2>2 DEF Landed, Addresses
  <2> QED
    BY <2>1, <2>2
<1>5. ASSUME \A v \in r.movers : NoteTail([pool |-> r.pool, ptr |-> v.to]) = {}
      PROVE  TopFree(r.pool, Addresses(Landed(at, r.movers)) \cup old)
  <2>1. \A v \in r.movers : r.pool.high => v.to /= Top(r.pool.chunks)
    BY <1>5 DEF NoteTail
  <2> QED
    BY <1>3, <1>4, <2>1 DEF TopFree
<1>6. ASSUME NEW w, Reserved(p, w) PROVE Reserved(r.pool, w)
  <2>1. PICK q : q = r.pool
    OBVIOUS
  <2>2. Top(p.chunks) \in Given(p)
    BY <1>6, TopGiven DEF Reserved
  <2>3. IsPool(q) /\ q.high /\ Keeps(p, q, {Top(p.chunks)})
    BY <1>2, <1>6, <2>1, <2>2 DEF Keeps, Reserved
  <2> QED
    BY <1>6, <2>1, <2>3, ReservedKept
<1> QED
  BY <1>1, <1>2, <1>5, <1>6 DEF Resettled, TableMatch

\* The tensors of the blocks B, and their addresses, which they leave.
MovedHandles(B) == {b.handle : b \in B}
LeftBehind(B) == [h \in Handles |-> IF h \in MovedHandles(B) THEN Null ELSE table[h].ptr]

\* The tensors that are to be moved leave their memory.
LEMMA BlocksLeave ==
  ASSUME TableOK, TableMatch(pool, AddressOf, {}), NEW B, \A b \in B : TensorBlock(b),
         \A b, c \in B : b.ptr = c.ptr => b = c,
         NEW p, p.small = pool.small, p.chunks = pool.chunks, p.high = pool.high
  PROVE  /\ Leaving(LeftBehind(B), B) /\ TableMatch(p, LeftBehind(B), Sources(B))
         /\ \A b \in B : HasMemory(p, b.ptr, b.handle)
<1>1. \A b \in B : /\ b.handle \in Handles /\ b.ptr = table[b.handle].ptr /\ b.ptr /= Null
                   /\ b.ptr \in Units
  BY DEF TensorBlock, TableOK
<1>2. Leaving(LeftBehind(B), B)
  <2>1. ASSUME NEW b \in B
        PROVE  b.handle \in Handles /\ LeftBehind(B)[b.handle] = Null /\ b.ptr \in 1 .. PoolSize - 1
    <3>1. b.ptr \in 1 .. PoolSize - 1
      BY <1>1, Sizes DEF Units, Null
    <3> QED
      BY <1>1, <3>1 DEF LeftBehind, MovedHandles
  <2>2. ASSUME NEW b \in B, NEW c \in B, b.handle = c.handle \/ b.ptr = c.ptr PROVE b = c
    <3>1. b.ptr = c.ptr
      BY <1>1, <2>2
    <3> QED
      BY <3>1
  <2> QED
    BY <2>1, <2>2 DEF Leaving
<1>3. TableMatch(p, LeftBehind(B), Sources(B))
  <2>1. PICK at, at2, H, l, o : /\ at = AddressOf /\ at2 = LeftBehind(B) /\ H = MovedHandles(B)
                                /\ l = Sources(B) /\ o = {}
    OBVIOUS
  <2>2. H \in SUBSET Handles
    BY <1>1, <2>1 DEF MovedHandles
  <2>3. Leaves(at, H, at2, l)
    <3>1. \A h \in Handles : at[h] = table[h].ptr
      BY <2>1 DEF AddressOf
    <3>2. \A h \in Handles : at2[h] = IF h \in H THEN Null ELSE at[h]
      BY <2>1, <3>1 DEF LeftBehind
    <3>3. ASSUME NEW x \in l PROVE x \in {at[h] : h \in H} \ {Null}
      <4>1. PICK b \in B : x = b.ptr
        BY <2>1, <3>3 DEF Sources
      <4>2. b.handle \in H /\ at[b.handle] = b.ptr
        BY <1>1, <2>1, <3>1 DEF MovedHandles
      <4> QED
        BY <1>1, <4>1, <4>2
    <3>4. ASSUME NEW x \in {at[h] : h \in H} \ {Null} PROVE x \in l
      <4>1. PICK b \in B : x = at[b.handle]
        BY <2>1, <3>4 DEF MovedHandles
      <4> QED
        BY <1>1, <2>1, <3>1, <4>1 DEF Sources
    <3>5. l = {at[h] : h \in H} \ {Null}
      BY <3>3, <3>4
    <3> QED
      BY <3>2, <3>5 DEF Leaves
  <2>4. TableMatch(p, at, o)
    <3>1. PICK q : q = pool
      OBVIOUS
    <3>2. TableMatch(q, at, o) /\ p.small = q.small /\ p.chunks = q.chunks /\ p.high = q.high
      BY <2>1, <3>1
    <3> QED
      BY <3>2, MatchFrame
  <2>5. TableMatch(p, at2, o \cup l)
    BY <2>2, <2>3, <2>4, LeaveMatch
  <2>6. o \cup l = l
    BY <2>1
  <2> QED
    BY <2>1, <2>5, <2>6
<1>4. ASSUME NEW b \in B PROVE HasMemory(p, b.ptr, b.handle)
  <2>1. HasMemory(pool, b.ptr, b.handle)
    BY <1>1 DEF TableMatch, Matches, AddressOf
  <2> QED
    BY <2>1 DEF HasMemory, GivenChunks
<1> QED
  BY <1>2, <1>3, <1>4

\* A pool whose chunks are cut exactly, or no longer.
LEMMA ExactPool ==
  ASSUME NEW p, IsPool(p), NEW e \in BOOLEAN, NEW q, q = [p EXCEPT !.exact = e]
  PROVE  /\ IsPool(q) /\ q.exact = e
         /\ q.small = p.small /\ q.chunks = p.chunks /\ q.high = p.high
BY DEF IsPool

\* The tensors of the blocks B have been placed in the pool, before or after
\* they gave their old memory back.
Moved(B, first, r) ==
  /\ IsPool(r.pool) /\ r.pool.high \in BOOLEAN /\ r.pool.exact \in BOOLEAN
  /\ \A v \in r.movers : v.to \in Units \ {Null} /\ \E b \in B : v.handle = b.handle /\ v.from = b.ptr
  /\ \A v, w \in r.movers : v.handle = w.handle => v = w
  /\ r.ok => \A b \in B : \E v \in r.movers : v.handle = b.handle
  /\ r.movers = {} => first /\ r.pool.small = pool.small /\ r.pool.chunks = pool.chunks
                      /\ r.pool.high = pool.high
  /\ Resettled(pool, LeftBehind(B), IF first THEN Sources(B) ELSE {}, r)

\* Placing the planned movers, before or after their memory is given back.
LEMMA MovedSound ==
  ASSUME TableOK, TableMatch(pool, AddressOf, {}), NEW B, B /= {}, \A b \in B : TensorBlock(b),
         \A b, c \in B : b.ptr = c.ptr => b = c, NEW first \in BOOLEAN,
         NEW p, p = [pool EXCEPT !.exact = TRUE],
         NEW r, r = Place(IF first THEN p ELSE Deallocate(p, Sources(B)), B)
  PROVE  Moved(B, first, r)
<1>1. /\ IsPool(p) /\ p.exact = TRUE /\ p.small = pool.small /\ p.chunks = pool.chunks
      /\ p.high = pool.high /\ p.high \in BOOLEAN
  <2>1. PICK q : q = pool
    OBVIOUS
  <2>2. IsPool(q) /\ q.high \in BOOLEAN /\ p = [q EXCEPT !.exact = TRUE]
    BY <2>1 DEF TableOK
  <2>3. IsPool(p) /\ p.exact = TRUE /\ p.small = q.small /\ p.chunks = q.chunks /\ p.high = q.high
    BY <2>2, ExactPool
  <2> QED
    BY <2>1, <2>2, <2>3
<1>2. PICK at, l : at = LeftBehind(B) /\ l = Sources(B)
  OBVIOUS
<1>3. /\ Leaving(at, B) /\ TableMatch(p, at, l)
      /\ \A b \in B : HasMemory(p, b.ptr, b.handle)
  BY <1>1, <1>2, BlocksLeave
<1>4. at = [h \in Handles |-> at[h]]
  BY <1>2 DEF LeftBehind
<1>5. \A w : Reserved(pool, w) => Reserved(p, w)
  BY <1>1 DEF Reserved
<1>6. CASE first
  <2>1. r = Place(p, B)
    BY <1>6
  <2>2. Placed(p, at, l, B, r) /\ Resettled(p, at, l, r)
    BY <1>1, <1>3, <1>4, <2>1, PlaceResettles
  <2>3. Resettled(pool, at, l, r)
    BY <1>5, <2>2 DEF Resettled
  <2>4. IsPool(r.pool) /\ r.pool.high \in BOOLEAN /\ r.pool.exact \in BOOLEAN
    BY <1>1, <2>2 DEF Placed
  <2>5. r.movers = {} => r.pool.small = pool.small /\ r.pool.chunks = pool.chunks
                         /\ r.pool.high = pool.high
    BY <1>1, <2>2 DEF Placed
  <2> QED
    BY <1>2, <1>6, <2>2, <2>3, <2>4, <2>5 DEF Moved, Placed
<1>7. CASE ~first
  <2>1. PICK q : q = Deallocate(p, l)
    OBVIOUS
  <2>2. Settled(p, at, l, l, q)
    <3>1. l \in SUBSET l
      OBVIOUS
    <3> QED
      BY <1>1, <1>3, <2>1, <3>1, DeallocateSettles
  <2>3. PICK o : o = {}
    OBVIOUS
  <2>4. /\ IsPool(q) /\ q.high \in BOOLEAN /\ q.exact = TRUE /\ TableMatch(q, at, o)
        /\ Returned(p, l, q) /\ \A w : Reserved(p, w) => Reserved(q, w)
    <3>1. l \ l = o
      BY <2>3
    <3> QED
      BY <1>1, <2>2, <3>1 DEF Settled, Returned
  <2>5. r = Place(q, B)
    BY <1>2, <1>7, <2>1
  <2>6. Placed(q, at, o, B, r) /\ Resettled(q, at, o, r)
    BY <1>3, <1>4, <2>4, <2>5, PlaceResettles
  <2>7. Resettled(pool, at, o, r)
    BY <1>5, <2>4, <2>6 DEF Resettled
  <2>8. IsPool(r.pool) /\ r.pool.high \in BOOLEAN /\ r.pool.exact \in BOOLEAN
    BY <2>4, <2>6 DEF Placed
  <2>9. r.movers /= {}
    <3>1. ASSUME NEW b \in B PROVE PoolAlloc(q, Size[b.handle], Stream[b.handle]).ptr /= Null
      <4>1. b.ptr \in l /\ b.handle \in Handles /\ HasMemory(p, b.ptr, b.handle)
        BY <1>2, <1>3 DEF Sources, TensorBlock
      <4>2. PICK a, h : a = b.ptr /\ h = b.handle
        OBVIOUS
      <4>3. PoolAlloc(q, Size[h], Stream[h]).ptr /= Null
        BY <1>1, <2>4, <4>1, <4>2, RoomForOne
      <4> QED
        BY <4>2, <4>3
    <3> QED
      BY <1>3, <2>5, <3>1, PlaceFirst
  <2> QED
    BY <1>2, <1>7, <2>3, <2>6, <2>7, <2>8, <2>9 DEF Moved, Placed
<1> QED
  BY <1>6, <1>7

\* The table when all tensors of the blocks B have their new memory.
LEMMA RepointedTable ==
  ASSUME TableOK, NEW B, NEW first, NEW r, Moved(B, first, r), table' = Repointed(r.movers)
  PROVE  /\ table' \in [Handles -> [active : BOOLEAN, ptr : Units, fixed : BOOLEAN]]
         /\ \A h \in Handles : table'[h].active = table[h].active
         /\ \A h \in Handles : table'[h].ptr = IF \E v \in r.movers : v.handle = h
                                               THEN (CHOOSE v \in r.movers : v.handle = h).to
                                               ELSE table[h].ptr
<1> DEFINE moved(h) == \E v \in r.movers : v.handle = h
           mover(h) == CHOOSE v \in r.movers : v.handle = h
<1>1. \A h \in Handles : moved(h) => mover(h) \in r.movers /\ mover(h).to \in Units
  BY DEF Moved
<1>2. table' = [h \in Handles |-> IF moved(h) THEN [table[h] EXCEPT !.ptr = mover(h).to] ELSE table[h]]
  BY DEF Repointed
<1>3. \A h \in Handles : table[h] \in [active : BOOLEAN, ptr : Units, fixed : BOOLEAN]
  BY DEF TableOK
<1> HIDE DEF moved, mover
<1>4. ASSUME NEW h \in Handles
      PROVE  /\ table'[h] \in [active : BOOLEAN, ptr : Units, fixed : BOOLEAN]
             /\ table'[h].active = table[h].active
             /\ table'[h].ptr = IF moved(h) THEN mover(h).to ELSE table[h].ptr
  <2>1. CASE moved(h)
    <3>1. table'[h] = [table[h] EXCEPT !.ptr = mover(h).to]
      BY <1>2, <2>1
    <3> QED
      BY <1>1, <1>3, <2>1, <3>1
  <2>2. CASE ~moved(h)
    BY <1>2, <1>3, <2>2
  <2> QED
    BY <2>1, <2>2
<1>5. table' \in [Handles -> [active : BOOLEAN, ptr : Units, fixed : BOOLEAN]]
  BY <1>2, <1>4
<1>6. \A h \in Handles : table'[h].active = table[h].active
  BY <1>4
<1>7. \A h \in Handles : table'[h].ptr = IF moved(h) THEN mover(h).to ELSE table[h].ptr
  BY <1>4
<1> QED
  BY <1>5, <1>6, <1>7 DEF moved, mover

\* Nobody sees where tensors were that have moved, unless a slip is noted.
LEMMA MovedData ==
  ASSUME ControlOK, DataOK, mutex_ = None, NEW B, B /= {}, \A b \in B : TensorBlock(b),
         NEW first \in BOOLEAN, NEW r, Moved(B, first, r), NEW t \in Threads,
         pool' = r.pool, table' = Repointed(r.movers),
         UNCHANGED <<recipes, workspace, update_on_defragment_>>, JobKept,
         \A v \in r.movers : NoteTail([pool |-> r.pool, ptr |-> v.to]) = {},
         \/ r.ok /\ mutex_' = t /\ moving' = [movers |-> r.movers, first |-> first]
         \/ r.movers = {} /\ UNCHANGED <<mutex_, moving>>
  PROVE  DataOK'
<1>1. TableOK /\ TableMatch(pool, AddressOf, {}) /\ moving = NoMove /\ Old = {}
      /\ \A b \in B : b.handle \in Handles /\ b.ptr = table[b.handle].ptr
  BY NoMovers DEF DataOK, TensorBlock
<1>2. /\ table' \in [Handles -> [active : BOOLEAN, ptr : Units, fixed : BOOLEAN]]
      /\ \A h \in Handles : table'[h].active = table[h].active
      /\ \A h \in Handles : table'[h].ptr = IF \E v \in r.movers : v.handle = h
                                            THEN (CHOOSE v \in r.movers : v.handle = h).to
                                            ELSE table[h].ptr
  BY <1>1, RepointedTable
<1>3. \A w : Reserved(pool, w) => Reserved(pool', w)
  BY DEF Moved, Resettled
<1>4. TableMatch(pool', AddressOf', Old')
  <2>1. CASE r.ok /\ mutex_' = t /\ moving' = [movers |-> r.movers, first |-> first]
    <3>1. Old' = IF first THEN Sources(B) ELSE {}
      <4>1. \A b \in B : \E v \in r.movers : v.handle = b.handle
        BY <2>1 DEF Moved
      <4>2. \A v \in r.movers : \E b \in B : v.handle = b.handle /\ v.from = b.ptr
        BY DEF Moved
      <4>3. ASSUME NEW x \in Sources(B) PROVE x \in {v.from : v \in r.movers}
        <5>1. PICK b \in B : x = b.ptr
          BY <4>3 DEF Sources
        <5>2. PICK v \in r.movers : v.handle = b.handle
          BY <4>1
        <5>3. PICK c \in B : v.handle = c.handle /\ v.from = c.ptr
          BY <4>2
        <5>4. b.ptr = c.ptr
          BY <1>1, <5>2, <5>3
        <5> QED
          BY <5>1, <5>3, <5>4
      <4>4. {v.from : v \in r.movers} \subseteq Sources(B)
        BY <4>2 DEF Sources
      <4>5. {v.from : v \in r.movers} = Sources(B)
        BY <4>3, <4>4
      <4>6. moving'.first = first /\ moving'.movers = r.movers
        BY <2>1
      <4> QED
        BY <4>5, <4>6 DEF Old
    <3>2. AddressOf' = Landed(LeftBehind(B), r.movers)
      <4>1. ASSUME NEW h \in Handles, ~ \E v \in r.movers : v.handle = h
            PROVE  LeftBehind(B)[h] = table[h].ptr
        <5>1. h \notin MovedHandles(B)
          BY <2>1, <4>1 DEF Moved, MovedHandles
        <5> QED
          BY <5>1 DEF LeftBehind
      <4> QED
        BY <1>2, <4>1 DEF AddressOf, Landed
    <3> QED
      BY <3>1, <3>2 DEF Moved, Resettled
  <2>2. CASE r.movers = {} /\ UNCHANGED <<mutex_, moving>>
    <3>1. AddressOf' = AddressOf /\ Old' = {}
      BY <1>1, <1>2, <2>2 DEF AddressOf, Old
    <3>2. PICK p, q, at, o : p = pool /\ q = r.pool /\ at = AddressOf /\ o = {}
      OBVIOUS
    <3>3. q.small = p.small /\ q.chunks = p.chunks /\ q.high = p.high /\ TableMatch(p, at, o)
      BY <1>1, <2>2, <3>2 DEF Moved
    <3>4. TableMatch(q, at, o)
      BY <3>3, MatchFrame
    <3> QED
      BY <3>1, <3>2, <3>4
  <2> QED
    BY <2>1, <2>2
<1>5. MovingOK'
  <2>1. t /= None
    BY MemoryAssumption
  <2>2. CASE r.ok /\ mutex_' = t /\ moving' = [movers |-> r.movers, first |-> first]
    <3>1. moving'.first = first
      BY <2>2
    <3> QED
      BY <2>1, <2>2, <3>1 DEF MovingOK
  <2>3. CASE UNCHANGED <<mutex_, moving>>
    BY <2>3 DEF DataOK, MovingOK
  <2> QED
    BY <2>2, <2>3
<1>6. HandlesOK'
  <2>1. ActiveKept
    BY <1>2 DEF ActiveKept
  <2>2. ASSUME NEW h \in Handles, ~table'[h].active PROVE table'[h].ptr = Null
    <3>1. table[h].ptr = Null
      BY <1>2, <2>2 DEF DataOK, HandlesOK
    <3>2. ~ \E v \in r.movers : v.handle = h
      BY <1>1, <3>1 DEF Moved, TensorBlock
    <3> QED
      BY <1>2, <3>1, <3>2
  <2> QED
    BY <2>1, <2>2, KeptActive DEF DataOK, HandlesOK
<1>7. \A w \in Workspaces' : Reserved(pool', w)
  <2>1. Workspaces' \subseteq Workspaces
    BY KeptSpaces DEF Workspaces, SharedSpace, RecipeSpaces
  <2> QED
    BY <1>3, <2>1 DEF DataOK, MemoryOK
<1>8. workspace.ptr' /= Null => workspace.size' > 0
  BY DEF DataOK, MemoryOK
<1>9. TableOK' /\ (recipes \in Seq(Recipe))'
  BY <1>2 DEF DataOK, TableOK, Recipe, Moved
<1> QED
  BY <1>4, <1>5, <1>6, <1>7, <1>8, <1>9 DEF DataOK, MemoryOK

\* A call gives up: the workspace may be lost, nothing else changes.
LEMMA GiveUpFrame ==
  ASSUME ControlOK, DataOK, UNCHANGED <<pool, table, mutex_, moving, recipes, update_on_defragment_>>,
         JobKept, UNCHANGED workspace \/ workspace' = [workspace EXCEPT !.ptr = Null]
  PROVE  DataOK'
<1>1. /\ workspace' = [ptr |-> workspace'.ptr, size |-> workspace'.size]
      /\ workspace'.size = workspace.size /\ workspace'.ptr \in {workspace.ptr, Null}
  BY DEF DataOK, TableOK
<1>2. Null \in Units
  BY Sizes DEF Null, Units
<1>3. TableOK' /\ (recipes \in Seq(Recipe))' /\ AddressOf' = AddressOf
  BY <1>1, <1>2 DEF DataOK, TableOK, Recipe, AddressOf
<1>4. HandlesOK'
  <2>1. ActiveKept
    BY DEF ActiveKept
  <2> QED
    BY <2>1, KeptActive DEF DataOK, HandlesOK
<1>5. Workspaces' \subseteq Workspaces
  <2>1. SharedSpace' \subseteq SharedSpace /\ RecipeSpaces' = RecipeSpaces
    BY <1>1 DEF SharedSpace, RecipeSpaces
  <2> QED
    BY <2>1, KeptSpaces DEF Workspaces
<1>6. workspace.ptr' /= Null => workspace.size' > 0
  BY <1>1 DEF DataOK, MemoryOK
<1> QED
  BY <1>3, <1>4, <1>5, <1>6, DataFrame

\* Collect: the table names the new memory as soon as it is placed.
LEMMA CollectData ==
  ASSUME ControlOK, DataOK, NEW t \in Threads, Collect(t)
  PROVE  TableOK' /\ (slips' = {} => DataOK')
<1> DEFINE plan   == Run(MemoryMap, Requested(t), Growing(t))
           exact  == [pool EXCEPT !.exact = TRUE]
           placed == Place(IF plan.first THEN exact
                           ELSE Deallocate(exact, {b.ptr : b \in plan.movers}), plan.movers)
           tail   == UNION {NoteTail([pool |-> placed.pool, ptr |-> v.to]) : v \in placed.movers}
<1>1. /\ mutex_ = None /\ UNCHANGED <<recipes, update_on_defragment_>>
      /\ IF ~plan.found
         THEN GiveUp(t) /\ UNCHANGED <<poolVars, moveVars, slips>>
         ELSE IF plan.movers = {}
         THEN /\ Goto(t, "defragmented")
              /\ UNCHANGED <<poolVars, moveVars, workspace, job, defragmentation_mutex_, ws_mutex_, slips>>
         ELSE /\ pool' = placed.pool
              /\ table' = Repointed(placed.movers)
              /\ IF placed.ok
                 THEN /\ mutex_' = t
                      /\ moving' = [movers |-> placed.movers, first |-> plan.first]
                      /\ slips' = slips \cup NoteLock(t) \cup tail
                      /\ Goto(t, "copy")
                      /\ UNCHANGED <<workspace, job, defragmentation_mutex_, ws_mutex_>>
                 ELSE /\ End(t)
                      /\ slips' = slips \cup NoteLock(t) \cup tail \cup
                                  (IF placed.movers /= {} THEN {"v2"} ELSE {})
                      /\ UNCHANGED <<moveVars, workspace>>
  BY DEF Collect, deviceVars
<1>2. PICK r : r = placed
  OBVIOUS
<1>3. tail = UNION {NoteTail([pool |-> r.pool, ptr |-> v.to]) : v \in r.movers}
  BY <1>2
<1>4. PICK B, first : B = plan.movers /\ first = plan.first
  OBVIOUS
<1>5. /\ first \in BOOLEAN /\ \A b \in B : TensorBlock(b)
      /\ \A b, c \in B : b.ptr = c.ptr => b = c
  BY <1>4, PlanBlocks
<1>6. r = Place(IF first THEN exact ELSE Deallocate(exact, Sources(B)), B)
  BY <1>2, <1>4 DEF Sources
<1> HIDE DEF plan, placed, tail
<1>7. TableOK /\ TableMatch(pool, AddressOf, {})
  BY <1>1, NoMovers DEF DataOK
<1>8. CASE ~plan.found
  <2>1. GiveUp(t) /\ UNCHANGED <<pool, table, mutex_, moving, recipes, update_on_defragment_>>
    BY <1>1, <1>8 DEF poolVars, moveVars
  <2>2. JobKept /\ (UNCHANGED workspace \/ workspace' = [workspace EXCEPT !.ptr = Null])
    BY <2>1, EndKeeps DEF GiveUp
  <2>3. DataOK'
    BY <2>1, <2>2, GiveUpFrame
  <2> QED
    BY <2>3 DEF DataOK
<1>9. CASE plan.found /\ B = {}
  <2>1. UNCHANGED <<pool, table, mutex_, moving, recipes, workspace, job, update_on_defragment_>>
    BY <1>1, <1>4, <1>9 DEF poolVars, moveVars
  <2>2. JobKept /\ update_on_defragment_' \in BOOLEAN
    BY <1>7, <2>1 DEF JobKept, TableOK
  <2>3. DataOK'
    BY <2>1, <2>2, CallFrame
  <2> QED
    BY <2>3 DEF DataOK
<1>10. CASE plan.found /\ B /= {}
  <2>1. Moved(B, first, r)
    BY <1>5, <1>6, <1>7, <1>10, MovedSound
  <2>2. /\ pool' = r.pool /\ table' = Repointed(r.movers) /\ UNCHANGED <<workspace>>
        /\ tail \subseteq slips'
        /\ \/ r.ok /\ mutex_' = t /\ moving' = [movers |-> r.movers, first |-> first]
              /\ UNCHANGED job
           \/ End(t) /\ UNCHANGED <<mutex_, moving>> /\ (r.movers /= {} => "v2" \in slips')
    BY <1>1, <1>2, <1>4, <1>10 DEF moveVars
  <2>3. JobKept
    BY <2>2, EndKeeps DEF JobKept
  <2>4. TableOK'
    <3>1. table' \in [Handles -> [active : BOOLEAN, ptr : Units, fixed : BOOLEAN]]
      BY <1>7, <2>1, <2>2, RepointedTable
    <3> QED
      BY <1>1, <1>7, <2>1, <2>2, <3>1 DEF TableOK, Moved
  <2>5. ASSUME slips' = {} PROVE DataOK'
    <3>1. \A v \in r.movers : NoteTail([pool |-> r.pool, ptr |-> v.to]) = {}
      BY <1>3, <2>2, <2>5
    <3>2. \/ r.ok /\ mutex_' = t /\ moving' = [movers |-> r.movers, first |-> first]
          \/ r.movers = {} /\ UNCHANGED <<mutex_, moving>>
      BY <2>2, <2>5
    <3> QED
      BY <1>1, <1>5, <1>10, <2>1, <2>2, <2>3, <3>1, <3>2, MovedData
  <2> QED
    BY <2>4, <2>5
<1> QED
  BY <1>4, <1>8, <1>9, <1>10

\* Copy: what was left is given back once the data has been copied.
LEMMA CopyData ==
  ASSUME ControlOK, DataOK, NEW t \in Threads, Copy(t)
  PROVE  DataOK'
<1> DEFINE old == {v.from : v \in moving.movers}
<1>1. PICK q : q = IF moving.first THEN Deallocate(pool, old) ELSE pool
  OBVIOUS
<1>2. /\ UNCHANGED <<table, recipes, workspace, job, update_on_defragment_>>
      /\ pool' = [q EXCEPT !.exact = FALSE] /\ moving' = NoMove /\ mutex_' = None
  BY <1>1 DEF Copy, lockVars
<1>3. IsPool(pool) /\ pool.high \in BOOLEAN /\ moving.first \in BOOLEAN
      /\ TableMatch(pool, AddressOf, Old)
  BY DEF DataOK, TableOK, MovingOK, MemoryOK
<1>4. PICK p, at, l : p = pool /\ at = AddressOf /\ l = Old
  OBVIOUS
<1>5. Settled(p, at, l, l, q)
  <2>1. CASE moving.first
    <3>1. q = Deallocate(p, l)
      BY <1>1, <1>4, <2>1 DEF Old
    <3>2. l \in SUBSET l /\ IsPool(p) /\ p.high \in BOOLEAN /\ TableMatch(p, at, l)
      BY <1>3, <1>4
    <3> QED
      BY <3>1, <3>2, DeallocateSettles
  <2>2. CASE ~moving.first
    <3>1. q = p /\ l = {}
      BY <1>1, <1>4, <2>2 DEF Old
    <3>2. IsPool(p) /\ p.high \in BOOLEAN /\ TableMatch(p, at, l)
      BY <1>3, <1>4
    <3>3. Settled(p, at, l, {}, p)
      BY <3>2, SettledNothing
    <3> QED
      BY <3>1, <3>3
  <2> QED
    BY <2>1, <2>2
<1> HIDE DEF old
<1>6. IsPool(q) /\ q.high \in BOOLEAN /\ \A w : Reserved(p, w) => Reserved(q, w)
  BY <1>5 DEF Settled, Returned
<1>7. PICK o, q2 : o = {} /\ q2 = pool'
  OBVIOUS
<1>8. TableMatch(q, at, o)
  <2>1. l \ l = o
    BY <1>7
  <2> QED
    BY <1>5, <2>1 DEF Settled
<1>9. /\ IsPool(q2) /\ q2.exact = FALSE /\ q2.small = q.small /\ q2.chunks = q.chunks
      /\ q2.high = q.high
  <2>1. q2 = [q EXCEPT !.exact = FALSE] /\ FALSE \in BOOLEAN
    BY <1>2, <1>7
  <2> QED
    BY <1>6, <2>1, ExactPool
<1>10. TableMatch(q2, at, o)
  BY <1>8, <1>9, MatchFrame
<1>11. AddressOf' = AddressOf /\ Old' = {} /\ MovingOK'
  BY <1>2 DEF AddressOf, Old, NoMove, MovingOK
<1>12. TableOK' /\ (recipes \in Seq(Recipe))'
  BY <1>2, <1>6, <1>7, <1>9 DEF DataOK, TableOK, Recipe
<1>13. HandlesOK'
  BY <1>2 DEF DataOK, HandlesOK
<1>14. \A w \in Workspaces' : Reserved(pool', w)
  <2>1. Workspaces' = Workspaces
    BY <1>2 DEF Workspaces, SharedSpace, JobSpaces, RecipeSpaces
  <2>2. \A w \in Workspaces : Reserved(p, w)
    BY <1>4 DEF DataOK, MemoryOK
  <2>3. \A w : Reserved(q, w) => Reserved(q2, w)
    BY <1>9 DEF Reserved
  <2> QED
    BY <1>6, <1>7, <2>1, <2>2, <2>3
<1>15. MemoryOK'
  BY <1>2, <1>4, <1>7, <1>10, <1>11, <1>14 DEF DataOK, MemoryOK
<1> QED
  BY <1>11, <1>12, <1>13, <1>15 DEF DataOK

-----------------------------------------------------------------------------
(* The invariant.                                                             *)

\* A new pool has nothing handed out.
LEMMA PoolCreateEmpty ==
  Given(PoolCreate) = {} /\ PoolCreate.high = FALSE /\ PoolCreate.exact = FALSE
<1>1. PICK c : c = [a \in {SmallBase} |-> [size |-> PoolSize - 1, used |-> FALSE]]
  OBVIOUS
<1>2. PICK exact : exact = FALSE
  OBVIOUS
<1>3. PICK t : t = Take(c, SmallBase, SmallUnits, exact)
  OBVIOUS
<1>4. PoolCreate = [chunks |-> t, small |-> {}, high |-> FALSE, exact |-> FALSE,
                    bytes |-> 1 + 2 * SmallUnits]
  BY <1>1, <1>2, <1>3, Zenon DEF PoolCreate, Chunk
<1>5. GivenChunks(t) = {}
  <2>1. \A a \in DOMAIN c : a = SmallBase /\ ~c[a].used
    BY <1>1
  <2>2. PICK s : s = IF WorthSplitting(c[SmallBase].size, SmallUnits, exact)
                     THEN Split(c, SmallBase, SmallUnits) ELSE c
    OBVIOUS
  <2>3. t = Mark(s, SmallBase, TRUE)
    BY <1>3, <2>2 DEF Take
  <2>4. \A a \in DOMAIN s : ~s[a].used
    <3>1. CASE s = c
      BY <2>1, <3>1
    <3>2. CASE s = Split(c, SmallBase, SmallUnits)
      BY <2>1, <3>2 DEF Split, Chunk
    <3> QED
      BY <2>2, <3>1, <3>2
  <2>5. DOMAIN t = DOMAIN s /\ \A a \in DOMAIN t : a /= SmallBase => t[a] = s[a]
    BY <2>3 DEF Mark
  <2> QED
    BY <2>4, <2>5 DEF GivenChunks
<1> QED
  BY <1>4, <1>5 DEF Given

\* A device is created with a workspace and no tensor.
LEMMA MemoryInit == Init => MemoryInv
<1> SUFFICES ASSUME Init PROVE MemoryInv
  OBVIOUS
<1> DEFINE r == ExtendHighMemory(PoolCreate, InitialWorkspace, 0)
<1>1. /\ pool = r.pool /\ workspace = [ptr |-> r.ptr, size |-> InitialWorkspace]
      /\ table = [h \in Handles |-> [active |-> TRUE, ptr |-> Null, fixed |-> FALSE]]
      /\ update_on_defragment_ = FALSE /\ recipes = <<>> /\ mutex_ = None /\ moving = NoMove
      /\ \A t \in Threads : job[t] = NoJob
  BY DEF Init
<1>2. PICK p, c, s : p = PoolCreate /\ c = 0 /\ s = r
  OBVIOUS
<1>3. IsPool(p) /\ p.high \in BOOLEAN /\ p.exact = FALSE /\ Given(p) = {}
      /\ s = ExtendHighMemory(p, InitialWorkspace, c) /\ InitialWorkspace \in Nat \ {0}
  BY <1>2, PoolCreateSound, PoolCreateEmpty, MemoryAssumption
<1> HIDE DEF r
<1>4. PICK at : at = AddressOf
  OBVIOUS
<1>5. \A h \in Handles : at[h] = Null
  BY <1>1, <1>4 DEF AddressOf
<1>6. TableMatch(p, at, {})
  BY <1>2, <1>3, <1>5, PoolCreateEmpty DEF TableMatch, Matches, TopFree, Addresses
<1>7. /\ IsPool(s.pool) /\ s.pool.high \in BOOLEAN /\ s.pool.exact = p.exact
      /\ TableMatch(s.pool, at, {})
      /\ s.ptr /= Null => Reserved(s.pool, Extent(s.ptr, InitialWorkspace)) /\ InitialWorkspace <= PoolSize
  BY <1>3, <1>6, ExtendMatch
<1>8. s.ptr \in Units
  <2>1. s.ptr \in Units \/ s.ptr = Null
    BY <1>3, ExtendUnit
  <2> QED
    BY <2>1, Sizes DEF Units, Null
<1>9. TableOK
  <2>1. Null \in Units /\ InitialWorkspace \in 0 .. PoolSize
    BY Sizes, MemoryAssumption DEF Null, Units
  <2> QED
    BY <1>1, <1>2, <1>3, <1>7, <1>8, <2>1 DEF TableOK
<1>10. recipes \in Seq(Recipe) /\ HandlesOK /\ MovingOK /\ Old = {}
  BY <1>1 DEF HandlesOK, MovingOK, NoMove, Old
<1>11. \A w \in Workspaces : Reserved(pool, w)
  <2>1. JobSpaces = {} /\ RecipeSpaces = {}
    BY <1>1 DEF JobSpaces, RecipeSpaces, WorkspaceOf
  <2>2. SharedSpace = IF s.ptr = Null THEN {} ELSE {Extent(s.ptr, InitialWorkspace)}
    BY <1>1, <1>2 DEF SharedSpace
  <2> QED
    BY <1>1, <1>2, <1>7, <2>1, <2>2 DEF Workspaces
<1>12. MemoryOK
  <2>1. workspace.size > 0
    BY <1>1, MemoryAssumption
  <2> QED
    BY <1>1, <1>2, <1>4, <1>7, <1>10, <1>11, <2>1 DEF MemoryOK
<1> QED
  BY <1>9, <1>10, <1>12, ControlInit DEF MemoryInv, DataOK

\* No step follows a slip.
LEMMA NextFollowed ==
  ASSUME Next
  PROVE  slips = {}
<1>1. ASSUME NEW t \in Threads, Continue(t) PROVE slips = {}
  BY <1>1 DEF Continue, CheckMemory, BeginCleanup, Cleanup, EnterWorkspace, LockExtend, ExtendFirst,
     ExtendIdle, ExtendAgain, EstimateMemory, LockAddresses, Translate, Retry, TranslateAgain,
     FinishFix, FinishLock, Synchronize, Drain, DrainTimesOut, Collect, Copy, Launch, CountRecipe,
     At, Followed
<1>2. ASSUME NEW t \in Threads,
             \/ \E r \in Recipes : BeginLaunch(t, r[1], r[2])
             \/ \E h \in Handles : FixAddress(t, h)
      PROVE  slips = {}
  BY <1>2 DEF BeginLaunch, FixAddress, Begin, At, Followed
<1>3. CASE (\E h \in Handles : Malloc(h) \/ Free(h)) \/ Execute \/ Release
  BY <1>3 DEF Malloc, Free, Execute, Release, Followed
<1> QED
  BY <1>1, <1>2, <1>3 DEF Next

\* A step of a call.
LEMMA ContinueData ==
  ASSUME ControlOK, DataOK, NEW t \in Threads, Continue(t)
  PROVE  TableOK' /\ (slips' = {} => DataOK')
<1>1. CASE Translate(t) \/ Retry(t) \/ TranslateAgain(t)
  BY <1>1, TranslatesData
<1>2. CASE Collect(t)
  BY <1>2, CollectData
<1>3. CASE Cleanup(t)
  BY <1>3, CleanupData
<1>4. ASSUME DataOK' PROVE TableOK' /\ (slips' = {} => DataOK')
  BY <1>4 DEF DataOK
<1>5. CASE \/ CheckMemory(t) \/ BeginCleanup(t) \/ LockExtend(t) \/ EstimateMemory(t)
           \/ LockAddresses(t) \/ FinishFix(t) \/ FinishLock(t) \/ Synchronize(t)
           \/ Drain(t) \/ DrainTimesOut(t)
  BY <1>4, <1>5, CallData
<1>6. CASE EnterWorkspace(t)
  BY <1>4, <1>6, GiveData
<1>7. CASE ExtendFirst(t) \/ ExtendIdle(t) \/ ExtendAgain(t)
  BY <1>4, <1>7, ExtendsData
<1>8. CASE Copy(t)
  BY <1>4, <1>8, CopyData
<1>9. CASE Launch(t)
  BY <1>4, <1>9, LaunchData
<1>10. CASE CountRecipe(t)
  BY <1>4, <1>10, CountData
<1> QED
  BY <1>1, <1>2, <1>3, <1>5, <1>6, <1>7, <1>8, <1>9, <1>10 DEF Continue

\* Every step keeps the invariant.
LEMMA MemoryNext ==
  ASSUME MemoryInv, [Next]_vars
  PROVE  MemoryInv'
<1>1. CASE UNCHANGED vars
  <2>1. UNCHANGED <<pool, table, mutex_, moving, recipes, workspace, job, update_on_defragment_, slips>>
    BY <1>1 DEF vars, poolVars, lockVars, moveVars, deviceVars
  <2>2. ASSUME DataOK PROVE DataOK'
    <3>1. JobKept
      BY <2>1 DEF JobKept
    <3> QED
      BY <2>1, <2>2, <3>1, CallFrame DEF MemoryInv, DataOK, TableOK
  <2>3. ControlOK'
    BY <1>1, ControlFrame DEF MemoryInv, vars, lockVars, moveVars
  <2>4. TableOK'
    BY <2>1 DEF MemoryInv, TableOK
  <2> QED
    BY <2>1, <2>2, <2>3, <2>4 DEF MemoryInv
<1>2. CASE Next
  <2>1. ControlOK /\ DataOK /\ TableOK
    <3>1. slips = {}
      BY <1>2, NextFollowed
    <3> QED
      BY <3>1 DEF MemoryInv, DataOK
  <2>2. ControlOK'
    BY <1>2, <2>1, ControlNext
  <2>3. ASSUME NEW t \in Threads, Continue(t) PROVE TableOK' /\ (slips' = {} => DataOK')
    BY <2>1, <2>3, ContinueData
  <2>4. ASSUME NEW t \in Threads,
               \/ \E r \in Recipes : BeginLaunch(t, r[1], r[2])
               \/ \E h \in Handles : FixAddress(t, h)
        PROVE  DataOK'
    BY <2>1, <2>4, BeginsData
  <2>5. ASSUME (\E h \in Handles : Malloc(h) \/ Free(h)) \/ Execute \/ Release PROVE DataOK'
    <3>1. ASSUME NEW h \in Handles, Malloc(h) \/ Free(h) PROVE DataOK'
      BY <2>1, <3>1, MallocData, FreeData
    <3> QED
      BY <2>1, <2>5, <3>1, ExecuteData, ReleaseData
  <2>6. TableOK' /\ (slips' = {} => DataOK')
    <3>1. DataOK' => TableOK'
      BY DEF DataOK
    <3>2. \/ \E t \in Threads : Continue(t)
          \/ \E t \in Threads : \/ \E r \in Recipes : BeginLaunch(t, r[1], r[2])
                               \/ \E h \in Handles : FixAddress(t, h)
          \/ (\E h \in Handles : Malloc(h) \/ Free(h)) \/ Execute \/ Release
      BY <1>2, Zenon DEF Next
    <3> QED
      BY <2>3, <2>4, <2>5, <3>1, <3>2
  <2> QED
    BY <2>2, <2>6 DEF MemoryInv
<1> QED
  BY <1>1, <1>2

-----------------------------------------------------------------------------
(* The theorems.                                                              *)

\* What the invariant says of the table and the pool, with nobody moving tensors.
LEMMA MatchesPool ==
  ASSUME MemoryInv
  PROVE  TableMatchesPool
<1> SUFFICES ASSUME slips = {}, mutex_ = None
             PROVE  /\ \A h \in Handles : table[h].ptr /= Null =>
                         /\ Holders(table[h].ptr) = {h}
                         /\ IsAllocated(pool, table[h].ptr)
                         /\ AllocatedSize(pool, table[h].ptr) >= Size[h]
                    /\ \A x \in (UsedChunks \ {SmallBase, Top(pool.chunks)}) \cup pool.small :
                         Holders(x) /= {}
  BY DEF TableMatchesPool
<1>1. IsPool(pool) /\ TableMatch(pool, AddressOf, {})
  BY NoMovers DEF MemoryInv, TableOK
<1>2. ASSUME NEW h \in Handles, table[h].ptr /= Null
      PROVE  /\ Holders(table[h].ptr) = {h} /\ IsAllocated(pool, table[h].ptr)
             /\ AllocatedSize(pool, table[h].ptr) >= Size[h]
  <2>1. HasMemory(pool, table[h].ptr, h) /\ \A g \in Handles : table[g].ptr = table[h].ptr => g = h
    BY <1>1, <1>2 DEF TableMatch, Matches, AddressOf
  <2>2. Holders(table[h].ptr) = {h}
    BY <2>1 DEF Holders
  <2>3. CASE table[h].ptr \in pool.small
    <3>1. table[h].ptr \notin GivenChunks(pool.chunks)
      BY <1>1, <2>3, GivenParts
    <3>2. Size[h] = 1
      BY <2>1, <2>3, <3>1 DEF HasMemory
    <3> QED
      BY <2>2, <2>3, <3>2 DEF IsAllocated, AllocatedSize
  <2>4. CASE table[h].ptr \notin pool.small
    BY <2>1, <2>2, <2>4 DEF HasMemory, GivenChunks, IsAllocated, AllocatedSize
  <2> QED
    BY <2>3, <2>4
<1>3. ASSUME NEW x \in (UsedChunks \ {SmallBase, Top(pool.chunks)}) \cup pool.small
      PROVE  Holders(x) /= {}
  <2>1. x \in Given(pool)
    BY <1>3 DEF UsedChunks, Given, GivenChunks
  <2>2. x /= Top(pool.chunks)
    BY <1>1, <1>3, GivenParts
  <2>3. x \in Addresses(AddressOf)
    BY <1>1, <2>1, <2>2 DEF TableMatch, Matches
  <2> QED
    BY <2>3 DEF Addresses, AddressOf, Holders
<1> QED
  BY <1>2, <1>3

\* ... and of the workspaces.
LEMMA ReservesWorkspace ==
  ASSUME MemoryInv
  PROVE  WorkspaceReserved
<1> DEFINE top   == Top(pool.chunks)
           given == {recipes[i].ws : i \in {j \in DOMAIN recipes : ~recipes[j].done}}
                    \cup {Extent(job[t].ws, job[t].n) :
                            t \in {x \in Threads : job[x] /= NoJob /\ job[x].ws /= Null}}
<1> SUFFICES ASSUME slips = {}, NEW ws \in given
             PROVE  /\ ws \subseteq Extent(top, pool.chunks[top].size)
                    /\ pool.chunks[top].used /\ Holders(top) = {}
  BY DEF WorkspaceReserved
<1>1. IsPool(pool) /\ TableMatch(pool, AddressOf, Old) /\ \A w \in Workspaces : Reserved(pool, w)
  BY DEF MemoryInv, TableOK, DataOK, MemoryOK
<1>2. ws \in Workspaces
  <2>1. CASE ws \in RecipeSpaces
    BY <2>1 DEF Workspaces
  <2>2. CASE \E t \in Threads : job[t] /= NoJob /\ job[t].ws /= Null /\ ws = Extent(job[t].ws, job[t].n)
    <3>1. PICK t \in Threads : ws \in WorkspaceOf(job[t])
      BY <2>2 DEF WorkspaceOf
    <3> QED
      BY <3>1 DEF Workspaces, JobSpaces
  <2> QED
    BY <2>1, <2>2 DEF RecipeSpaces
<1>3. pool.high /\ pool.chunks[top].used /\ ws \subseteq top .. PoolSize - 1
  BY <1>1, <1>2 DEF Reserved
<1>4. Holders(top) = {}
  <2>1. top \notin Addresses(AddressOf) /\ top /= Null
    <3>1. top \in Given(pool)
      BY <1>1, <1>3, TopGiven
    <3> QED
      BY <1>1, <1>3, <3>1, GivenParts DEF TableMatch, TopFree
  <2> QED
    BY <2>1 DEF Holders, Addresses, AddressOf
<1>5. Extent(top, pool.chunks[top].size) = top .. PoolSize - 1
  <2>1. After(pool.chunks, top) = PoolSize
    BY <1>1, TopChunk DEF IsPool, Sound
  <2>2. top \in DOMAIN pool.chunks /\ Tiles(pool.chunks)
    BY <1>1, TopChunk DEF IsPool, Sound
  <2>3. top \in Nat /\ pool.chunks[top].size \in Nat
    BY <2>2 DEF Tiles
  <2>4. PICK a, n : a = top /\ n = pool.chunks[top].size
    OBVIOUS
  <2>5. a \in Nat /\ n \in Nat /\ a + n = PoolSize
    BY <2>1, <2>3, <2>4 DEF After
  <2> QED
    BY <2>4, <2>5 DEF Extent
<1> QED
  BY <1>3, <1>4, <1>5

\* The invariant holds always.
LEMMA MemoryInvariant == Spec => []MemoryInv
<1>1. MemoryInv /\ [Next]_vars => MemoryInv'
  BY MemoryNext
<1> QED
  BY <1>1, MemoryInit, PTL DEF Spec

\* Whatever is given, taken back, extended or moved, the chunks cover the pool
\* and free neighbours are one chunk (PoolSound).
THEOREM MemoryPoolSound == Spec => []PoolSound
<1>1. MemoryInv => PoolSound
  BY DEF MemoryInv, TableOK, IsPool, Sound, PoolSound
<1> QED
  BY <1>1, MemoryInvariant, PTL

\* handle2pointer_ and the pool agree: no two tensors have the same memory, each
\* has as much as it needs, and nothing is allocated that nobody has.
THEOREM TensorsOwnMemory == Spec => []TableMatchesPool
<1>1. MemoryInv => TableMatchesPool
  BY MatchesPool
<1> QED
  BY <1>1, MemoryInvariant, PTL

\* The workspace of a recipe or of a launch is never given to a tensor nor freed.
THEOREM WorkspacesReserved == Spec => []WorkspaceReserved
<1>1. MemoryInv => WorkspaceReserved
  BY ReservesWorkspace
<1> QED
  BY <1>1, MemoryInvariant, PTL

\* Launches never wait for each other in a circle.
THEOREM LaunchesNeverDeadlock == Spec => []NoDeadlock
<1>1. MemoryInv => NoDeadlock
  BY ControlNoDeadlock DEF MemoryInv
<1> QED
  BY <1>1, MemoryInvariant, PTL

-----------------------------------------------------------------------------
(* The addresses that launches have locked.                                   *)

\* The addresses out are those of the first tensors of list.
OutCurrent(out, list) == \A k \in DOMAIN out : out[k] = table[list[k]].ptr

MovableLocs == {"translate", "retry", "synchronize", "drain", "collect"}

\* A launch at a control point: its addresses are current, or will be looked up
\* again; what it has looked up once keeps having memory.
CallCurrent(loc, j) ==
  j.kind = "launch" =>
    /\ loc \in {"launch", "count"} => OutCurrent(j.out, j.list)
    /\ loc \in MovableLocs => OutCurrent(j.out, j.list) \/ (update_on_defragment_ /\ ~j.again)
    /\ \A k \in DOMAIN j.out : table[j.list[k]].ptr /= Null
    /\ j.again => /\ loc \in {"translate", "launch", "count"}
                  /\ \A k \in DOMAIN j.list : table[j.list[k]].ptr /= Null

RecipesCurrent ==
  \A i \in DOMAIN recipes : /\ Len(recipes[i].out) = Len(recipes[i].list)
                            /\ OutCurrent(recipes[i].out, recipes[i].list)

\* Each recipe holds a lock, and each launch that is about to start one.
LocksOK ==
  /\ locks = Len(recipes) + Cardinality({t \in Threads : pc[t] = "launch"})
  /\ \A t \in Threads :
       /\ pc[t] = "count" => \E i \in DOMAIN recipes : recipes[i].thread = t /\ ~recipes[i].counted
       /\ pc[t] = "collect" /\ job[t].kind = "launch" => locks = 0

AddressOK == LocksOK /\ RecipesCurrent /\ \A t \in Threads : CallCurrent(pc[t], job[t])

\* A step that moves no tensor: those in use keep their memory.
TableKeeps == \A h \in Handles : InUse(h) /\ table[h].ptr /= Null => table'[h].ptr = table[h].ptr

\* The tensors of a recipe and of a call are in use.
LEMMA RecipeUse ==
  ASSUME DataOK, NEW i \in DOMAIN recipes, Len(recipes[i].out) = Len(recipes[i].list),
         NEW k \in DOMAIN recipes[i].out
  PROVE  recipes[i].list[k] \in Handles /\ InUse(recipes[i].list[k]) /\ recipes[i].out[k] /= Null
<1>1. recipes[i] \in Recipe
  BY DEF DataOK
<1>2. /\ recipes[i].list \in Seq(Handles) /\ recipes[i].out \in Seq(Units \ {Null})
  BY <1>1 DEF Recipe
<1>3. k \in DOMAIN recipes[i].list
  BY <1>2
<1>4. recipes[i].list[k] \in Elements(recipes[i].list)
  BY <1>3 DEF Elements
<1> QED
  BY <1>2, <1>3, <1>4 DEF InUse

\* The tensors of a call are in use.
LEMMA CallUse ==
  ASSUME NEW t \in Threads, job[t] /= NoJob, IsJob(job[t])
  PROVE  /\ DOMAIN job[t].out \subseteq DOMAIN job[t].list
         /\ \A k \in DOMAIN job[t].list : job[t].list[k] \in Handles /\ InUse(job[t].list[k])
         /\ \A k \in DOMAIN job[t].out : job[t].out[k] /= Null
<1>1. /\ job[t].list \in Seq(Handles) /\ job[t].out \in Seq(Units \ {Null})
      /\ Len(job[t].list) = Len(job[t].out) + Len(job[t].todo) /\ job[t].todo \in Seq(Handles)
  BY DEF IsJob
<1>2. DOMAIN job[t].out \subseteq DOMAIN job[t].list
  <2>1. ASSUME NEW S, NEW s \in Seq(S) PROVE DOMAIN s = 1 .. Len(s) /\ Len(s) \in Nat
    OBVIOUS
  <2>3. DOMAIN job[t].out = 1 .. Len(job[t].out) /\ DOMAIN job[t].list = 1 .. Len(job[t].list)
        /\ Len(job[t].out) \in Nat /\ Len(job[t].todo) \in Nat
    BY <1>1, <2>1
  <2>2. \A a, b \in Nat : 1 .. a \subseteq 1 .. a + b
    OBVIOUS
  <2> QED
    BY <1>1, <2>2, <2>3
<1>3. ASSUME NEW k \in DOMAIN job[t].list
      PROVE  job[t].list[k] \in Handles /\ InUse(job[t].list[k])
  <2>1. job[t].list[k] \in Elements(job[t].list)
    BY DEF Elements
  <2> QED
    BY <1>1, <2>1 DEF InUse
<1> QED
  BY <1>1, <1>2, <1>3

\* A launch under way is a call.
LEMMA LaunchCall ==
  ASSUME ControlOK, NEW t \in Threads, job[t].kind = "launch"
  PROVE  IsJob(job[t]) /\ job[t] /= NoJob
<1>1. job[t] /= NoJob
  BY DEF NoJob
<1> QED
  BY <1>1, Held DEF CallAt

\* Recipes keep their addresses, and launches theirs, when no tensor moves.
LEMMA RecipesKept ==
  ASSUME DataOK, RecipesCurrent, TableKeeps, UNCHANGED recipes
  PROVE  RecipesCurrent'
<1>1. ASSUME NEW i \in DOMAIN recipes, NEW k \in DOMAIN recipes[i].out
      PROVE  recipes[i].out[k] = table'[recipes[i].list[k]].ptr
  <2>1. Len(recipes[i].out) = Len(recipes[i].list) /\ recipes[i].out[k] = table[recipes[i].list[k]].ptr
    BY DEF RecipesCurrent, OutCurrent
  <2> QED
    BY <2>1, RecipeUse DEF TableKeeps
<1> QED
  BY <1>1 DEF RecipesCurrent, OutCurrent

\* What a call has looked up stays as it is when no location of it moves.
LEMMA CallKept ==
  ASSUME ControlOK, TableKeeps, update_on_defragment_ => update_on_defragment_',
         NEW t \in Threads, NEW loc, CallCurrent(loc, job[t]), NEW j, j = job[t]
  PROVE  CallCurrent(loc, j)'
<1> SUFFICES ASSUME j.kind = "launch" PROVE CallCurrent(loc, j)'
  BY DEF CallCurrent
<1>1. IsJob(job[t]) /\ job[t] /= NoJob
  BY LaunchCall
<1>2. /\ DOMAIN j.out \subseteq DOMAIN j.list
      /\ \A k \in DOMAIN j.list : table[j.list[k]].ptr /= Null => table'[j.list[k]].ptr = table[j.list[k]].ptr
      /\ \A k \in DOMAIN j.out : j.out[k] /= Null
  BY <1>1, CallUse DEF TableKeeps
<1>3. OutCurrent(j.out, j.list) => OutCurrent(j.out, j.list)'
  BY <1>2 DEF OutCurrent
<1> QED
  BY <1>2, <1>3 DEF CallCurrent

\* A step of a thread that takes no lock, starts no recipe and moves no tensor.
LEMMA CallStep ==
  ASSUME ControlOK, DataOK, AddressOK, NEW t \in Threads, NEW loc, NEW j, Moves(t, loc, j),
         pc[t] /= "launch", loc \notin {"launch", "count"}, UNCHANGED <<recipes, locks>>, TableKeeps,
         update_on_defragment_ => update_on_defragment_', CallCurrent(loc, j)',
         loc = "collect" /\ j.kind = "launch" => locks = 0
  PROVE  AddressOK'
<1>1. pc'[t] = loc /\ job'[t] = j /\ \A x \in Threads \ {t} : pc'[x] = pc[x] /\ job'[x] = job[x]
  BY DEF ControlOK, CallsOK, Moves
<1>2. LocksOK'
  <2>1. {x \in Threads : pc'[x] = "launch"} = {x \in Threads : pc[x] = "launch"}
    BY <1>1
  <2>2. ASSUME NEW x \in Threads
        PROVE  /\ pc'[x] = "count" => \E i \in DOMAIN recipes : recipes[i].thread = x /\ ~recipes[i].counted
               /\ pc'[x] = "collect" /\ job'[x].kind = "launch" => locks = 0
    BY <1>1 DEF AddressOK, LocksOK
  <2> QED
    BY <2>1, <2>2 DEF AddressOK, LocksOK
<1>3. RecipesCurrent'
  BY RecipesKept DEF AddressOK
<1>4. ASSUME NEW x \in Threads PROVE CallCurrent(pc[x], job[x])'
  <2>1. CASE x = t
    BY <1>1, <2>1 DEF CallCurrent, OutCurrent
  <2>2. CASE x /= t
    <3>1. PICK l, k : l = pc[x] /\ k = job[x]
      OBVIOUS
    <3>2. CallCurrent(l, job[x])
      BY <3>1 DEF AddressOK
    <3>3. CallCurrent(l, k)'
      BY <3>1, <3>2, CallKept
    <3> QED
      BY <1>1, <2>2, <3>1, <3>3 DEF CallCurrent, OutCurrent
  <2> QED
    BY <2>1, <2>2
<1> QED
  BY <1>2, <1>3, <1>4 DEF AddressOK

\* ... whose call stays as it is, or has no addresses.
LEMMA QuietStep ==
  ASSUME ControlOK, DataOK, AddressOK, NEW t \in Threads, NEW loc, NEW j, Moves(t, loc, j),
         pc[t] \notin {"launch", "count"}, loc \notin {"launch", "count"},
         UNCHANGED <<recipes, locks>>, TableKeeps,
         update_on_defragment_ => update_on_defragment_',
         loc = "collect" /\ j.kind = "launch" => locks = 0,
         \/ j.kind /= "launch"
         \/ j.out = <<>> /\ j.again = FALSE
         \/ /\ j = job[t] /\ pc[t] /= "translate"
            /\ loc \in MovableLocs => pc[t] \in MovableLocs
  PROVE  AddressOK'
<1>1. CallCurrent(loc, j)'
  <2>1. CASE j.kind /= "launch"
    BY <2>1 DEF CallCurrent
  <2>2. CASE j.out = <<>> /\ j.again = FALSE
    BY <2>2 DEF CallCurrent, OutCurrent
  <2>3. CASE /\ j = job[t] /\ pc[t] /= "translate"
             /\ loc \in MovableLocs => pc[t] \in MovableLocs
    <3>1. CallCurrent(loc, job[t])
      <4>1. CallCurrent(pc[t], job[t])
        BY DEF AddressOK
      <4> QED
        BY <2>3, <4>1 DEF CallCurrent
    <3> QED
      BY <2>3, <3>1, CallKept
  <2> QED
    BY <2>1, <2>2, <2>3
<1> QED
  BY <1>1, CallStep

\* Where nobody changes the table.
LEMMA SameTable ==
  ASSUME UNCHANGED table
  PROVE  TableKeeps
BY DEF TableKeeps

\* The end of a call that does not give back a lock.
LEMMA EndAddress ==
  ASSUME ControlOK, DataOK, AddressOK, NEW t \in Threads, End(t),
         pc[t] \notin {"launch", "count"}, UNCHANGED <<recipes, locks>>, TableKeeps,
         update_on_defragment_ => update_on_defragment_'
  PROVE  AddressOK'
<1>1. Moves(t, "idle", NoJob) /\ NoJob.kind /= "launch"
  BY DEF End, Goto, Moves, NoJob
<1> QED
  BY <1>1, QuietStep

-----------------------------------------------------------------------------
(* The actions: those that lock no address and move no tensor.                *)

\* The addresses are looked up again only at the end of the call.
LEMMA NotAgain ==
  ASSUME AddressOK, NEW t \in Threads, IsJob(job[t]), job[t].kind = "launch",
         pc[t] \notin {"translate", "launch", "count"}
  PROVE  job[t].again = FALSE
BY DEF AddressOK, CallCurrent, IsJob

\* A step that only goes on.
LEMMA GoAddress ==
  ASSUME ControlOK, DataOK, AddressOK, NEW t \in Threads,
         \/ CheckMemory(t) \/ BeginCleanup(t) \/ Cleanup(t) \/ LockExtend(t)
         \/ Synchronize(t) \/ Drain(t)
  PROVE  AddressOK'
<1>1. UNCHANGED <<table, recipes, locks, update_on_defragment_, job>>
  BY DEF CheckMemory, BeginCleanup, Cleanup, LockExtend, Synchronize, Drain,
         poolVars, lockVars, moveVars, deviceVars
<1>2. /\ pc[t] \in {"memory", "cleanup", "cleanup_wait", "extend_lock", "synchronize", "drain"}
      /\ \E loc \in {"workspace", "cleanup", "cleanup_wait", "extend", "drain", "collect"} :
           /\ Goto(t, loc)
           /\ loc \in {"drain", "collect"} => pc[t] \in {"synchronize", "drain"}
           /\ loc = "collect" => locks = 0
  BY DEF CheckMemory, BeginCleanup, Cleanup, LockExtend, Synchronize, Drain, Drained, At
<1>3. PICK loc \in {"workspace", "cleanup", "cleanup_wait", "extend", "drain", "collect"} :
        /\ Goto(t, loc)
        /\ loc \in {"drain", "collect"} => pc[t] \in {"synchronize", "drain"}
        /\ loc = "collect" => locks = 0
  BY <1>2
<1>4. PICK j : j = job[t]
  OBVIOUS
<1>5. Moves(t, loc, j)
  BY <1>1, <1>3, <1>4, Stays
<1>6. loc \in MovableLocs => pc[t] \in MovableLocs
  BY <1>3 DEF MovableLocs
<1>7. pc[t] \notin {"launch", "count", "translate"} /\ loc \notin {"launch", "count"}
  BY <1>2
<1>8. TableKeeps
  BY <1>1, SameTable
<1> QED
  BY <1>1, <1>3, <1>4, <1>5, <1>6, <1>7, <1>8, QuietStep

\* A step of a launch that has translated nothing.
LEMMA EmptyAddress ==
  ASSUME ControlOK, DataOK, AddressOK, NEW t \in Threads, NEW j, NEW loc, Moves(t, loc, j),
         IsJob(job[t]), job[t].kind = "launch", job[t].out = <<>>,
         pc[t] \notin {"translate", "launch", "count"}, loc \notin {"collect", "launch", "count"},
         j.out = job[t].out, j.again = job[t].again,
         UNCHANGED <<table, recipes, locks, update_on_defragment_>>
  PROVE  AddressOK'
<1>1. j.out = <<>> /\ j.again = FALSE
  BY NotAgain
<1>2. TableKeeps
  BY SameTable
<1> QED
  BY <1>1, <1>2, QuietStep

\* The memory that is needed is estimated, and the addresses may be locked.
LEMMA LimitAddress ==
  ASSUME ControlOK, DataOK, AddressOK, NEW t \in Threads, EstimateMemory(t) \/ LockAddresses(t)
  PROVE  AddressOK'
<1>1. UNCHANGED <<table, recipes, locks, update_on_defragment_>>
  BY DEF EstimateMemory, LockAddresses, poolVars, lockVars, moveVars, deviceVars
<1>2. pc[t] \in {"required", "limit"}
  BY DEF EstimateMemory, LockAddresses, At
<1>3. IsJob(job[t]) /\ job[t].kind = "launch" /\ job[t].out = <<>>
  BY <1>2, Held DEF CallAt, WorkspaceLocs, LaunchLocs, DefragLocs
<1>4. CASE EstimateMemory(t)
  <2>1. PICK k : k = [job[t] EXCEPT !.need = Required(job[t].list)]
    OBVIOUS
  <2>2. Moves(t, "limit", k)
    BY <1>4, <2>1, Held DEF EstimateMemory, Goto, Moves
  <2>3. k.out = job[t].out /\ k.again = job[t].again
    BY <1>3, <2>1, NeededJob
  <2> QED
    BY <1>1, <1>2, <1>3, <2>2, <2>3, EmptyAddress
<1>5. CASE LockAddresses(t)
  <2>1. Moves(t, "translate", job[t])
    BY <1>5, Stays DEF LockAddresses
  <2> QED
    BY <1>1, <1>2, <1>3, <2>1, EmptyAddress
<1> QED
  BY <1>4, <1>5

\* The workspace is given to the launch.
LEMMA GiveAddress ==
  ASSUME ControlOK, DataOK, AddressOK, NEW t \in Threads, NEW p \in Units \ {Null},
         GiveWorkspace(t, p), IsJob(job[t]), job[t].kind = "launch", job[t].out = <<>>,
         pc[t] \notin {"translate", "launch", "count"},
         UNCHANGED <<table, recipes, locks, update_on_defragment_>>
  PROVE  AddressOK'
<1>1. PICK k : k = [job[t] EXCEPT !.ws = p]
  OBVIOUS
<1>2. Moves(t, "required", k)
  BY <1>1, Held DEF GiveWorkspace, Goto, Moves
<1>3. k.out = job[t].out /\ k.again = job[t].again
  BY <1>1, GivenJob
<1> QED
  BY <1>2, <1>3, EmptyAddress

\* get_workspace_buffer
LEMMA WorkspaceAddress ==
  ASSUME ControlOK, DataOK, AddressOK, NEW t \in Threads,
         EnterWorkspace(t) \/ ExtendFirst(t) \/ ExtendIdle(t) \/ ExtendAgain(t)
  PROVE  AddressOK'
<1>1. UNCHANGED <<table, recipes, locks, update_on_defragment_>>
  BY DEF EnterWorkspace, ExtendFirst, ExtendIdle, ExtendAgain, Extend,
         poolVars, lockVars, moveVars, deviceVars
<1>2. /\ pc[t] \in {"workspace", "extend", "extend_idle", "defragmented"}
      /\ pc[t] = "defragmented" => job[t].ws = Null /\ job[t].kind = "launch"
  BY DEF EnterWorkspace, ExtendFirst, ExtendIdle, ExtendAgain, At
<1>3. IsJob(job[t]) /\ job[t].kind = "launch" /\ job[t].out = <<>> /\ job[t].n \in Nat \ {0}
  BY <1>2, Waiting DEF WorkspaceLocs, DefragLocs, Grows
<1>4. TableKeeps
  BY <1>1, SameTable
<1>5. CASE EnterWorkspace(t)
  <2>1. CASE Suffices(t)
    <3>1. workspace.ptr \in Units \ {Null}
      BY <2>1 DEF Suffices, DataOK, TableOK
    <3> QED
      BY <1>1, <1>2, <1>3, <1>5, <2>1, <3>1, GiveAddress DEF EnterWorkspace
  <2>2. CASE ~Suffices(t)
    <3>1. Moves(t, "extend_lock", job[t])
      BY <1>5, <2>2, Stays DEF EnterWorkspace
    <3> QED
      BY <1>1, <1>2, <1>3, <3>1, EmptyAddress
  <2> QED
    BY <2>1, <2>2
<1>6. ASSUME NEW loc \in {"extend_idle", "synchronize", "throw"}, Extend(t, loc)
      PROVE  AddressOK'
  <2>1. PICK r : r = ExtendHighMemory(pool, job[t].n, workspace.size)
    OBVIOUS
  <2>2. CASE r.ptr /= Null
    <3>1. r.ptr \in Units \ {Null}
      BY <1>3, <2>1, <2>2, ExtendUnit DEF DataOK, TableOK
    <3>2. GiveWorkspace(t, r.ptr)
      BY <1>6, <2>1, <2>2 DEF Extend
    <3> QED
      BY <1>1, <1>2, <1>3, <3>1, <3>2, GiveAddress
  <2>3. CASE r.ptr = Null /\ loc = "throw"
    <3>1. End(t)
      BY <1>6, <2>1, <2>3 DEF Extend
    <3> QED
      BY <1>1, <1>2, <1>4, <3>1, EndAddress
  <2>4. CASE r.ptr = Null /\ loc /= "throw"
    <3>1. Goto(t, loc) /\ UNCHANGED job
      BY <1>6, <2>1, <2>4 DEF Extend
    <3>2. Moves(t, loc, job[t])
      BY <3>1, Stays
    <3> QED
      BY <1>1, <1>2, <1>3, <1>6, <2>4, <3>2, EmptyAddress
  <2> QED
    BY <2>2, <2>3, <2>4
<1>7. CASE ExtendFirst(t) \/ ExtendIdle(t) \/ ExtendAgain(t)
  BY <1>6, <1>7 DEF ExtendFirst, ExtendIdle, ExtendAgain
<1> QED
  BY <1>5, <1>7

\* A call begins or ends.
LEMMA BeginAddress ==
  ASSUME ControlOK, DataOK, AddressOK, NEW t \in Threads,
         \/ \E r \in Recipes : BeginLaunch(t, r[1], r[2])
         \/ \E h \in Handles : FixAddress(t, h)
         \/ FinishFix(t) \/ DrainTimesOut(t)
  PROVE  AddressOK'
<1>1. ASSUME NEW r \in Recipes, BeginLaunch(t, r[1], r[2]) PROVE AddressOK'
  <2>1. PICK j : j = [kind |-> "launch", list |-> r[1], todo |-> r[1], out |-> <<>>,
                      again |-> FALSE, need |-> 0, n |-> r[2], ws |-> Null]
    OBVIOUS
  <2>2. Moves(t, "memory", j) /\ pc[t] = "idle" /\ j.out = <<>> /\ j.again = FALSE
    BY <1>1, <2>1 DEF BeginLaunch, Begin, Moves, Goto, At
  <2>3. UNCHANGED <<table, recipes, locks, update_on_defragment_>>
    BY <1>1 DEF BeginLaunch, poolVars, lockVars, moveVars, deviceVars
  <2> QED
    BY <2>2, <2>3, SameTable, QuietStep
<1>2. ASSUME NEW h \in Handles, FixAddress(t, h) PROVE AddressOK'
  <2>1. PICK j : j = [kind |-> "fix", list |-> <<h>>, todo |-> <<h>>, out |-> <<>>,
                      again |-> FALSE, need |-> 0, n |-> 0, ws |-> Null]
    OBVIOUS
  <2>2. Moves(t, "translate", j) /\ pc[t] = "idle" /\ j.kind = "fix"
    BY <1>2, <2>1 DEF FixAddress, Begin, Moves, Goto, At
  <2>3. UNCHANGED <<recipes, locks, update_on_defragment_>>
    BY <1>2 DEF FixAddress, lockVars, moveVars, deviceVars
  <2>4. TableKeeps
    BY <1>2 DEF FixAddress, TableKeeps, DataOK, TableOK
  <2> QED
    BY <2>2, <2>3, <2>4, QuietStep
<1>3. CASE FinishFix(t)
  <2>1. /\ IsJob(job[t]) /\ job[t].kind = "fix" /\ pc[t] = "translate"
    BY <1>3, Held DEF FinishFix, At, CallAt, WorkspaceLocs, LaunchLocs, DefragLocs
  <2>2. UNCHANGED <<table, recipes, locks, update_on_defragment_>> /\ End(t)
    BY <1>3 DEF FinishFix, poolVars, lockVars, moveVars, deviceVars
  <2> QED
    BY <2>1, <2>2, SameTable, EndAddress
<1>4. CASE DrainTimesOut(t)
  <2>1. UNCHANGED <<table, recipes, locks, update_on_defragment_>> /\ End(t) /\ pc[t] = "drain"
    BY <1>4 DEF DrainTimesOut, poolVars, lockVars, moveVars, deviceVars, At
  <2> QED
    BY <2>1, SameTable, EndAddress
<1> QED
  BY <1>1, <1>2, <1>3, <1>4

-----------------------------------------------------------------------------
(* The actions: translating a tensor.                                         *)

\* The table when a tensor has been translated: only its memory may be new.
LEMMA TranslatedTable ==
  ASSUME DataOK, NEW t, IsJob(job[t]), job[t].todo /= <<>>, NEW r, r = Translation(t),
         Translated(t, r)
  PROVE  /\ TableKeeps
         /\ table'[Head(job[t].todo)].ptr = r.ptr
         /\ table[Head(job[t].todo)].ptr /= Null => r.ptr /= Null
<1>1. Head(job[t].todo) \in Handles
  BY HeadHandle
<1>2. table[Head(job[t].todo)].ptr /= Null => r.ptr = table[Head(job[t].todo)].ptr
  BY TranslationUnit DEF DataOK
<1>3. table' = [table EXCEPT ![Head(job[t].todo)].ptr = r.ptr]
  BY DEF Translated
<1> QED
  BY <1>1, <1>2, <1>3 DEF TableKeeps, DataOK, TableOK

\* Addresses that were current are, with the next one.
LEMMA OneMore ==
  ASSUME ControlOK, DataOK, TableKeeps, NEW t \in Threads, NEW j, j = job[t], j /= NoJob, IsJob(j),
         j.todo /= <<>>, NEW p \in Units \ {Null}, table'[Head(j.todo)].ptr = p,
         NEW k, k = WithAddress(j, p)
  PROVE  /\ OutCurrent(j.out, j.list) => OutCurrent(k.out, k.list)'
         /\ (\A i \in DOMAIN j.out : table[j.list[i]].ptr /= Null) =>
              \A i \in DOMAIN k.out : table'[k.list[i]].ptr /= Null
<1>1. k.out = Append(j.out, p) /\ k.list = j.list
  BY TranslatedJob
<1>2. j.list[Len(j.out) + 1] = Head(j.todo)
  BY HeadHandle
<1>3. j.out \in Seq(Units \ {Null})
  BY DEF IsJob
<1>4. /\ DOMAIN k.out = DOMAIN j.out \cup {Len(j.out) + 1}
      /\ \A i \in DOMAIN j.out : k.out[i] = j.out[i]
      /\ k.out[Len(j.out) + 1] = p
  <2>1. ASSUME NEW S, NEW s \in Seq(S), NEW x \in S
        PROVE  /\ DOMAIN Append(s, x) = 1 .. Len(s) + 1 /\ DOMAIN s = 1 .. Len(s) /\ Len(s) \in Nat
               /\ \A i \in 1 .. Len(s) : Append(s, x)[i] = s[i]
               /\ Append(s, x)[Len(s) + 1] = x
    OBVIOUS
  <2>2. /\ DOMAIN k.out = 1 .. Len(j.out) + 1 /\ DOMAIN j.out = 1 .. Len(j.out) /\ Len(j.out) \in Nat
        /\ \A i \in 1 .. Len(j.out) : k.out[i] = j.out[i]
        /\ k.out[Len(j.out) + 1] = p
    BY <1>1, <1>3, <2>1
  <2>3. \A n \in Nat : 1 .. n + 1 = (1 .. n) \cup {n + 1}
    OBVIOUS
  <2> QED
    BY <2>2, <2>3
<1>5. \A i \in DOMAIN j.out : table[j.list[i]].ptr /= Null => table'[j.list[i]].ptr = table[j.list[i]].ptr
  BY CallUse DEF TableKeeps
<1>6. \A i \in DOMAIN j.out : j.out[i] /= Null
  BY CallUse
<1>7. ASSUME OutCurrent(j.out, j.list) PROVE OutCurrent(k.out, k.list)'
  BY <1>1, <1>2, <1>4, <1>5, <1>6, <1>7 DEF OutCurrent
<1>8. ASSUME \A i \in DOMAIN j.out : table[j.list[i]].ptr /= Null
      PROVE  \A i \in DOMAIN k.out : table'[k.list[i]].ptr /= Null
  BY <1>1, <1>2, <1>4, <1>5, <1>8
<1> QED
  BY <1>7, <1>8

\* Translating one tensor of a call.
LEMMA TranslatedAddress ==
  ASSUME ControlOK, DataOK, AddressOK, NEW t \in Threads,
         pc[t] \in {"translate", "retry", "defragmented"}, job[t] /= NoJob, IsJob(job[t]),
         job[t].todo /= <<>>, NEW r, r = Translation(t), Translated(t, r),
         NEW loc \in {"translate", "retry", "synchronize"}, Goto(t, loc),
         r.ptr /= Null <=> loc = "translate", UNCHANGED <<recipes, locks>>,
         IF pc[t] = "defragmented" THEN update_on_defragment_' = TRUE /\ r.ptr /= Null
                                   ELSE UNCHANGED update_on_defragment_
  PROVE  AddressOK'
<1>1. /\ TableKeeps
      /\ table'[Head(job[t].todo)].ptr = r.ptr
      /\ table[Head(job[t].todo)].ptr /= Null => r.ptr /= Null
  BY TranslatedTable
<1>2. PICK j : j = job[t]
  OBVIOUS
<1>3. CallCurrent(pc[t], j)
  BY <1>2 DEF AddressOK
<1>4. update_on_defragment_ => update_on_defragment_'
  OBVIOUS
<1>5. pc[t] /= "launch" /\ loc \notin {"launch", "count", "collect"}
  OBVIOUS
<1>6. CASE r.ptr = Null
  <2>1. Moves(t, loc, j)
    BY <1>2, <1>6, Stays DEF Translated
  <2>2. CallCurrent(loc, j)
    <3>1. SUFFICES ASSUME j.kind = "launch" PROVE CallCurrent(loc, j)
      BY DEF CallCurrent
    <3>2. Head(j.todo) = j.list[Len(j.out) + 1] /\ Len(j.out) + 1 \in DOMAIN j.list
      <4>1. Head(j.todo) = j.list[Len(j.out) + 1] /\ Len(j.out) + 1 \in 1 .. Len(j.list)
        BY <1>2, HeadHandle
      <4>2. j.list \in Seq(Handles)
        BY <1>2 DEF IsJob
      <4> QED
        BY <4>1, <4>2
    <3>3. ~j.again
      BY <1>1, <1>2, <1>3, <1>6, <3>1, <3>2 DEF CallCurrent
    <3>4. pc[t] \in MovableLocs /\ loc \in MovableLocs
      BY <1>6 DEF MovableLocs
    <3> QED
      BY <1>3, <1>5, <3>1, <3>3, <3>4 DEF CallCurrent
  <2>3. CallCurrent(loc, j)'
    BY <1>1, <1>2, <1>4, <2>2, CallKept
  <2> QED
    BY <1>1, <1>4, <1>5, <2>1, <2>3, CallStep
<1>7. CASE r.ptr /= Null
  <2>1. r.ptr \in Units \ {Null}
    BY <1>7, TranslationUnit DEF DataOK
  <2>2. PICK k : k = WithAddress(j, r.ptr)
    OBVIOUS
  <2>3. Moves(t, loc, k)
    <3>1. job' = [job EXCEPT ![t] = k]
      BY <1>2, <1>7, <2>2, Held DEF Translated
    <3> QED
      BY <3>1 DEF Moves, Goto
  <2>4. k.kind = j.kind /\ k.list = j.list /\ k.again = j.again
    BY <1>2, <2>1, <2>2, TranslatedJob
  <2>5. /\ OutCurrent(j.out, j.list) => OutCurrent(k.out, k.list)'
        /\ (\A i \in DOMAIN j.out : table[j.list[i]].ptr /= Null) =>
             \A i \in DOMAIN k.out : table'[k.list[i]].ptr /= Null
    BY <1>1, <1>2, <2>1, <2>2, OneMore
  <2>6. CallCurrent(loc, k)'
    <3>1. SUFFICES ASSUME k.kind = "launch" PROVE CallCurrent(loc, k)'
      BY DEF CallCurrent
    <3>2. OutCurrent(k.out, k.list)' \/ (update_on_defragment_' /\ ~k.again)
      BY <1>3, <1>4, <2>4, <2>5, <3>1 DEF CallCurrent, MovableLocs
    <3>3. \A i \in DOMAIN k.out : table'[k.list[i]].ptr /= Null
      BY <1>3, <2>4, <2>5, <3>1 DEF CallCurrent
    <3>4. k.again => loc = "translate" /\ \A i \in DOMAIN k.list : table'[k.list[i]].ptr /= Null
      <4>1. \A i \in DOMAIN j.list :
               table[j.list[i]].ptr /= Null => table'[j.list[i]].ptr = table[j.list[i]].ptr
        BY <1>1, <1>2, CallUse DEF TableKeeps
      <4> QED
        BY <1>3, <1>7, <2>4, <3>1, <4>1 DEF CallCurrent
    <3> QED
      BY <1>5, <3>1, <3>2, <3>3, <3>4 DEF CallCurrent
  <2> QED
    BY <1>1, <1>4, <1>5, <2>3, <2>6, CallStep
<1> QED
  BY <1>6, <1>7

\* The three attempts to translate a tensor.
LEMMA TranslatesAddress ==
  ASSUME ControlOK, DataOK, AddressOK, NEW t \in Threads, Translate(t) \/ Retry(t) \/ TranslateAgain(t)
  PROVE  AddressOK'
<1>1. /\ IsJob(job[t]) /\ job[t].todo /= <<>>
      /\ pc[t] \in {"translate", "retry", "defragmented"}
  BY Held DEF Translate, Retry, TranslateAgain, At, CallAt, WorkspaceLocs, LaunchLocs, DefragLocs, Grows
<1>2. job[t] /= NoJob
  BY <1>1, UnderWay
<1>3. PICK r : r = Translation(t)
  OBVIOUS
<1>4. UNCHANGED <<recipes, locks>>
  BY DEF Translate, Retry, TranslateAgain, deviceVars, lockVars
<1>5. CASE Translate(t) \/ Retry(t)
  <2>1. \E loc \in {"translate", "retry", "synchronize"} :
           Goto(t, loc) /\ (r.ptr /= Null <=> loc = "translate")
    BY <1>3, <1>5 DEF Translate, Retry
  <2>2. Translated(t, r) /\ UNCHANGED update_on_defragment_ /\ pc[t] /= "defragmented"
    BY <1>3, <1>5 DEF Translate, Retry, lockVars, At
  <2> QED
    BY <1>1, <1>2, <1>3, <1>4, <2>1, <2>2, TranslatedAddress
<1>6. CASE TranslateAgain(t)
  <2>1. pc[t] = "defragmented" /\ update_on_defragment_' = TRUE
    BY <1>6 DEF TranslateAgain, At
  <2>2. CASE r.ptr /= Null
    <3>1. Translated(t, r) /\ Goto(t, "translate")
      BY <1>3, <1>6, <2>2 DEF TranslateAgain
    <3> QED
      BY <1>1, <1>2, <1>3, <1>4, <2>1, <2>2, <3>1, TranslatedAddress
  <2>3. CASE r.ptr = Null
    <3>1. End(t) /\ UNCHANGED table
      BY <1>3, <1>6, <2>3 DEF TranslateAgain, poolVars
    <3> QED
      BY <1>4, <2>1, <3>1, SameTable, EndAddress
  <2> QED
    BY <2>2, <2>3
<1> QED
  BY <1>5, <1>6

-----------------------------------------------------------------------------
(* The actions: the locks.                                                    *)

\* The threads that have locked their addresses and are about to start a recipe.
Launching == {t \in Threads : pc[t] = "launch"}

\* Their number is finite, and with the recipes makes the number of locks.
LEMMA LockCount ==
  ASSUME DataOK, LocksOK
  PROVE  /\ IsFiniteSet(Launching) /\ Cardinality(Launching) \in Nat /\ Len(recipes) \in Nat
         /\ locks = Len(recipes) + Cardinality(Launching) /\ DOMAIN recipes = 1 .. Len(recipes)
         /\ locks \in Nat
<1>1. IsFiniteSet(Launching)
  BY MemoryAssumption, FS_Subset DEF Launching
<1>2. Cardinality(Launching) \in Nat
  BY <1>1, FS_CardinalityType
<1>3. recipes \in Seq(Recipe)
  BY DEF DataOK
<1>4. Len(recipes) \in Nat /\ DOMAIN recipes = 1 .. Len(recipes)
  BY <1>3
<1>5. locks = Len(recipes) + Cardinality(Launching)
  BY DEF LocksOK, Launching
<1> QED
  BY <1>1, <1>2, <1>4, <1>5

\* Where nobody works with an address, no recipe is left and none is about to start.
LEMMA NoLocks ==
  ASSUME DataOK, LocksOK, locks = 0
  PROVE  recipes = <<>> /\ \A t \in Threads : pc[t] \notin {"launch", "count"}
<1>1. /\ IsFiniteSet(Launching) /\ Cardinality(Launching) = 0 /\ Len(recipes) = 0
      /\ DOMAIN recipes = 1 .. Len(recipes)
  BY LockCount
<1>2. Launching = {}
  BY <1>1, FS_EmptySet
<1>3. recipes = <<>>
  BY <1>1 DEF DataOK
<1>4. DOMAIN recipes = {}
  BY <1>1
<1> QED
  BY <1>2, <1>3, <1>4 DEF Launching, LocksOK

\* What is known of a call where its tensors are all translated.
LEMMA AllTranslated ==
  ASSUME ControlOK, NEW t \in Threads, pc[t] \in {"launch", "count"}
  PROVE  /\ IsJob(job[t]) /\ job[t].kind = "launch" /\ job[t] /= NoJob
         /\ Len(job[t].out) = Len(job[t].list)
         /\ job[t].list \in Seq(Handles) /\ job[t].out \in Seq(Units \ {Null})
<1>1. IsJob(job[t]) /\ job[t].kind = "launch" /\ job[t].todo = <<>>
  BY Held DEF CallAt, WorkspaceLocs, LaunchLocs, DefragLocs
<1>2. job[t].out \in Seq(Units \ {Null}) /\ Len(job[t].list) = Len(job[t].out) + Len(job[t].todo)
  BY <1>1 DEF IsJob
<1>3. Len(job[t].out) \in Nat /\ Len(<<>>) = 0
  BY <1>2
<1>4. Len(job[t].out) = Len(job[t].list)
  BY <1>1, <1>2, <1>3
<1>5. job[t].list \in Seq(Handles)
  BY <1>1 DEF IsJob
<1> QED
  BY <1>1, <1>2, <1>4, <1>5, UnderWay

\* lock_addresses looks all tensors up again, or ends.
LEMMA LockAddress ==
  ASSUME ControlOK, DataOK, AddressOK, NEW t \in Threads, FinishLock(t)
  PROVE  AddressOK'
<1>1. /\ pc[t] = "translate" /\ job[t].todo = <<>> /\ job[t].kind = "launch"
      /\ UNCHANGED <<table, recipes>>
  BY DEF FinishLock, At, poolVars, deviceVars
<1>2. PICK j : j = job[t]
  OBVIOUS
<1>3. IsJob(j)
  BY <1>1, <1>2, LaunchCall
<1>4. CallCurrent("translate", j)
  BY <1>1, <1>2 DEF AddressOK
<1>5. DOMAIN j.out = DOMAIN j.list
  <2>1. /\ j.out \in Seq(Units \ {Null}) /\ j.list \in Seq(Handles)
        /\ Len(j.list) = Len(j.out) + Len(j.todo)
    BY <1>3 DEF IsJob
  <2>2. Len(j.todo) = 0
    BY <1>1, <1>2
  <2>3. Len(j.list) = Len(j.out)
    BY <2>1, <2>2
  <2> QED
    BY <2>1, <2>3
<1>6. CASE LookUpAgain(t)
  <2>1. PICK k : k = [j EXCEPT !.todo = j.list, !.out = <<>>, !.again = TRUE]
    OBVIOUS
  <2>2. /\ k.kind = j.kind /\ k.list = j.list /\ k.again = TRUE /\ k.out = <<>>
    BY <1>3, <2>1, AgainJob
  <2>3. job' = [job EXCEPT ![t] = k] /\ UNCHANGED <<update_on_defragment_, locks, pc>>
    BY <1>2, <1>6, <2>1 DEF FinishLock
  <2>4. Moves(t, "translate", k)
    BY <1>1, <2>3 DEF Moves, ControlOK, CallsOK
  <2>5. CallCurrent("translate", k)'
    BY <1>1, <1>2, <1>4, <1>5, <2>2 DEF CallCurrent, OutCurrent
  <2> QED
    BY <1>1, <2>3, <2>4, <2>5, SameTable, CallStep
<1>7. CASE ~LookUpAgain(t)
  <2>1. /\ update_on_defragment_' = FALSE /\ locks' = locks + 1 /\ UNCHANGED job
        /\ Goto(t, "launch")
    BY <1>7 DEF FinishLock
  <2>2. pc'[t] = "launch" /\ \A x \in Threads \ {t} : pc'[x] = pc[x]
    BY <2>1 DEF Goto, ControlOK, CallsOK
  <2>3. \A x \in Threads \ {t} : job[x].kind = "launch" => pc[x] \notin MovableLocs
    <3>1. HoldsDefrag(pc[t], job[t])
      BY <1>1 DEF HoldsDefrag
    <3>2. \A x \in Threads \ {t} : ~HoldsDefrag(pc[x], job[x])
      BY <3>1, Held
    <3> QED
      BY <3>2 DEF HoldsDefrag, MovableLocs, DefragLocs
  <2>4. LocksOK'
    <3>1. LocksOK
      BY DEF AddressOK
    <3>2. /\ IsFiniteSet(Launching) /\ Cardinality(Launching) \in Nat /\ Len(recipes) \in Nat
          /\ locks = Len(recipes) + Cardinality(Launching)
      BY <3>1, LockCount
    <3>3. Launching' = Launching \cup {t} /\ t \notin Launching
      BY <1>1, <2>2 DEF Launching
    <3>4. Cardinality(Launching \cup {t}) = Cardinality(Launching) + 1
      BY <3>2, <3>3, FS_AddElement
    <3>5. locks' = Len(recipes') + Cardinality(Launching')
      BY <1>1, <2>1, <3>2, <3>3, <3>4
    <3>6. ASSUME NEW x \in Threads
          PROVE  /\ pc'[x] = "count" => \E i \in DOMAIN recipes : recipes[i].thread = x /\ ~recipes[i].counted
                 /\ ~(pc'[x] = "collect" /\ job[x].kind = "launch")
      BY <2>2, <2>3, <3>1 DEF LocksOK, MovableLocs
    <3> QED
      BY <1>1, <2>1, <3>5, <3>6 DEF LocksOK, Launching
  <2>5. RecipesCurrent'
    BY <1>1, SameTable, RecipesKept DEF AddressOK
  <2>6. ASSUME NEW x \in Threads PROVE CallCurrent(pc[x], job[x])'
    <3>1. CASE x = t
      <4>1. OutCurrent(j.out, j.list)
        BY <1>1, <1>2, <1>4, <1>7 DEF CallCurrent, MovableLocs, LookUpAgain
      <4> QED
        BY <1>1, <1>2, <1>4, <2>1, <2>2, <3>1, <4>1 DEF CallCurrent, OutCurrent, MovableLocs
    <3>2. CASE x /= t
      <4>1. CallCurrent(pc[x], job[x]) /\ (job[x].kind = "launch" => pc[x] \notin MovableLocs)
        BY <2>3, <3>2 DEF AddressOK
      <4> QED
        BY <1>1, <2>1, <2>2, <3>2, <4>1 DEF CallCurrent, OutCurrent
    <3> QED
      BY <3>1, <3>2
  <2> QED
    BY <2>4, <2>5, <2>6 DEF AddressOK
<1> QED
  BY <1>6, <1>7

-----------------------------------------------------------------------------
(* The actions: recipes, and tensors that come and go.                        *)

\* synLaunch: the recipe has the addresses and the lock of its launch.
LEMMA LaunchAddress ==
  ASSUME ControlOK, DataOK, AddressOK, NEW t \in Threads, Launch(t)
  PROVE  AddressOK'
<1>1. /\ pc[t] = "launch" /\ Goto(t, "count")
      /\ UNCHANGED <<table, job, locks, update_on_defragment_>>
  BY DEF Launch, At, poolVars, lockVars
<1>2. /\ IsJob(job[t]) /\ job[t].kind = "launch" /\ Len(job[t].out) = Len(job[t].list)
      /\ job[t].list \in Seq(Handles) /\ job[t].out \in Seq(Units \ {Null})
  BY <1>1, AllTranslated
<1>3. PICK r : r = [thread |-> t, list |-> job[t].list, out |-> job[t].out,
                    ws |-> Extent(job[t].ws, job[t].n), done |-> FALSE, counted |-> FALSE]
  OBVIOUS
<1>4. r.thread = t /\ r.list = job[t].list /\ r.out = job[t].out /\ r.counted = FALSE
  BY <1>3
<1>5. pc'[t] = "count" /\ \A x \in Threads \ {t} : pc'[x] = pc[x]
  BY <1>1 DEF Goto, ControlOK, CallsOK
<1>6. /\ Len(recipes') = Len(recipes) + 1 /\ DOMAIN recipes' = 1 .. Len(recipes) + 1
      /\ \A i \in 1 .. Len(recipes) : recipes'[i] = recipes[i]
      /\ recipes'[Len(recipes) + 1] = r
      /\ DOMAIN recipes = 1 .. Len(recipes) /\ Len(recipes) \in Nat
  <2>1. ASSUME NEW S, NEW s \in Seq(S), NEW x
        PROVE  /\ Len(Append(s, x)) = Len(s) + 1 /\ DOMAIN Append(s, x) = 1 .. Len(s) + 1
               /\ \A i \in 1 .. Len(s) : Append(s, x)[i] = s[i]
               /\ Append(s, x)[Len(s) + 1] = x
               /\ DOMAIN s = 1 .. Len(s) /\ Len(s) \in Nat
    OBVIOUS
  <2>2. recipes' = Append(recipes, r) /\ recipes \in Seq(Recipe)
    BY <1>3 DEF Launch, DataOK
  <2> QED
    BY <2>1, <2>2
<1>7. \A n \in Nat : 1 .. n \subseteq 1 .. n + 1 /\ n + 1 \in 1 .. n + 1
                     /\ \A i \in 1 .. n + 1 : i = n + 1 \/ i \in 1 .. n
  OBVIOUS
<1>8. LocksOK'
  <2>1. LocksOK
    BY DEF AddressOK
  <2>2. /\ IsFiniteSet(Launching) /\ Cardinality(Launching) \in Nat
        /\ locks = Len(recipes) + Cardinality(Launching)
    BY <2>1, LockCount
  <2>3. Launching' = Launching \ {t} /\ t \in Launching
    BY <1>1, <1>5 DEF Launching
  <2>4. Cardinality(Launching \ {t}) = Cardinality(Launching) - 1
    BY <2>2, <2>3, FS_RemoveElement
  <2>5. locks' = Len(recipes') + Cardinality(Launching')
    BY <1>1, <1>6, <2>2, <2>3, <2>4
  <2>6. ASSUME NEW x \in Threads
        PROVE  /\ pc'[x] = "count" =>
                    \E i \in DOMAIN recipes' : recipes'[i].thread = x /\ ~recipes'[i].counted
               /\ pc'[x] = "collect" /\ job'[x].kind = "launch" => locks' = 0
    <3>1. CASE x = t
      BY <1>4, <1>5, <1>6, <1>7, <3>1
    <3>2. CASE x /= t
      BY <1>1, <1>5, <1>6, <1>7, <2>1, <3>2 DEF LocksOK
    <3> QED
      BY <3>1, <3>2
  <2> QED
    BY <2>5, <2>6 DEF LocksOK, Launching
<1>9. RecipesCurrent'
  <2>1. CallCurrent("launch", job[t]) /\ RecipesCurrent
    BY <1>1 DEF AddressOK
  <2>2. OutCurrent(job[t].out, job[t].list)
    BY <1>2, <2>1 DEF CallCurrent
  <2>3. ASSUME NEW i \in DOMAIN recipes'
        PROVE  /\ Len(recipes'[i].out) = Len(recipes'[i].list)
               /\ \A k \in DOMAIN recipes'[i].out : recipes'[i].out[k] = table[recipes'[i].list[k]].ptr
    <3>1. CASE i = Len(recipes) + 1
      BY <1>2, <1>4, <1>6, <2>2, <3>1 DEF OutCurrent
    <3>2. CASE i \in 1 .. Len(recipes)
      BY <1>6, <2>1, <3>2 DEF RecipesCurrent, OutCurrent
    <3> QED
      BY <1>6, <1>7, <3>1, <3>2
  <2> QED
    BY <1>1, <2>3 DEF RecipesCurrent, OutCurrent
<1>10. ASSUME NEW x \in Threads PROVE CallCurrent(pc[x], job[x])'
  <2>1. CallCurrent(pc[x], job[x])
    BY DEF AddressOK
  <2>2. x = t => pc[x] = "launch" /\ pc'[x] = "count"
    BY <1>1, <1>5
  <2> QED
    BY <1>1, <1>5, <2>1, <2>2 DEF CallCurrent, OutCurrent, MovableLocs
<1> QED
  BY <1>8, <1>9, <1>10 DEF AddressOK

\* A recipe changes its state: its addresses stay.
LEMMA MarkedCurrent ==
  ASSUME DataOK, AddressOK, NEW i \in DOMAIN recipes, NEW q,
         \/ q = [recipes[i] EXCEPT !.counted = TRUE]
         \/ q = [recipes[i] EXCEPT !.done = TRUE],
         recipes' = [recipes EXCEPT ![i] = q], UNCHANGED table
  PROVE  /\ RecipesCurrent' /\ Len(recipes') = Len(recipes) /\ DOMAIN recipes' = DOMAIN recipes
         /\ \A k \in DOMAIN recipes \ {i} : recipes'[k] = recipes[k]
         /\ recipes'[i] = q /\ q.thread = recipes[i].thread
<1>1. recipes[i] \in Recipe /\ recipes \in Seq(Recipe)
  BY DEF DataOK
<1>2. q.out = recipes[i].out /\ q.list = recipes[i].list /\ q.thread = recipes[i].thread
  BY <1>1 DEF Recipe
<1>3. /\ Len(recipes') = Len(recipes) /\ DOMAIN recipes' = DOMAIN recipes
      /\ \A k \in DOMAIN recipes \ {i} : recipes'[k] = recipes[k]
      /\ recipes'[i] = q
  <2>1. ASSUME NEW S, NEW s \in Seq(S), NEW n \in DOMAIN s, NEW x
        PROVE  /\ Len([s EXCEPT ![n] = x]) = Len(s) /\ DOMAIN [s EXCEPT ![n] = x] = DOMAIN s
               /\ \A k \in DOMAIN s \ {n} : [s EXCEPT ![n] = x][k] = s[k]
               /\ [s EXCEPT ![n] = x][n] = x
    OBVIOUS
  <2> QED
    BY <1>1, <2>1
<1>4. RecipesCurrent'
  BY <1>2, <1>3 DEF AddressOK, RecipesCurrent, OutCurrent
<1> QED
  BY <1>2, <1>3, <1>4

\* recipe_counter.increase()
LEMMA CountAddress ==
  ASSUME ControlOK, DataOK, AddressOK, NEW t \in Threads, CountRecipe(t)
  PROVE  AddressOK'
<1>1. pc[t] = "count" /\ End(t) /\ UNCHANGED <<table, locks, update_on_defragment_>>
  BY DEF CountRecipe, At, poolVars
<1>2. PICK i : i = CHOOSE k \in DOMAIN recipes : recipes[k].thread = t /\ ~recipes[k].counted
  OBVIOUS
<1>3. i \in DOMAIN recipes /\ recipes[i].thread = t /\ ~recipes[i].counted
  BY <1>1, <1>2 DEF AddressOK, LocksOK
<1>4. PICK q : q = [recipes[i] EXCEPT !.counted = TRUE]
  OBVIOUS
<1>5. recipes' = [recipes EXCEPT ![i] = q]
  BY <1>2, <1>4 DEF CountRecipe
<1>6. /\ RecipesCurrent' /\ Len(recipes') = Len(recipes) /\ DOMAIN recipes' = DOMAIN recipes
      /\ \A k \in DOMAIN recipes \ {i} : recipes'[k] = recipes[k]
  BY <1>1, <1>3, <1>4, <1>5, MarkedCurrent
<1>7. /\ pc'[t] = "idle" /\ \A x \in Threads \ {t} : pc'[x] = pc[x] /\ job'[x] = job[x]
      /\ job'[t] = NoJob
  BY <1>1 DEF End, Goto, ControlOK, CallsOK
<1>8. LocksOK'
  <2>1. {x \in Threads : pc'[x] = "launch"} = {x \in Threads : pc[x] = "launch"}
    BY <1>1, <1>7
  <2>2. ASSUME NEW x \in Threads
        PROVE  /\ pc'[x] = "count" =>
                    \E k \in DOMAIN recipes' : recipes'[k].thread = x /\ ~recipes'[k].counted
               /\ pc'[x] = "collect" /\ job'[x].kind = "launch" => locks' = 0
    <3>1. CASE x = t
      BY <1>7, <3>1
    <3>2. CASE x /= t
      BY <1>1, <1>3, <1>6, <1>7, <3>2 DEF AddressOK, LocksOK
    <3> QED
      BY <3>1, <3>2
  <2> QED
    BY <1>1, <1>6, <2>1, <2>2 DEF AddressOK, LocksOK
<1>9. ASSUME NEW x \in Threads PROVE CallCurrent(pc[x], job[x])'
  <2>1. CASE x = t
    <3>1. NoJob.kind /= "launch"
      BY DEF NoJob
    <3> QED
      BY <1>7, <2>1, <3>1 DEF CallCurrent
  <2>2. CASE x /= t
    BY <1>1, <1>7, <2>2 DEF AddressOK, CallCurrent, OutCurrent
  <2> QED
    BY <2>1, <2>2
<1> QED
  BY <1>6, <1>8, <1>9 DEF AddressOK

\* Where no call goes on.
LEMMA CallsKept ==
  ASSUME ControlOK, AddressOK, TableKeeps, UNCHANGED <<pc, job, update_on_defragment_>>
  PROVE  \A x \in Threads : CallCurrent(pc[x], job[x])'
<1>1. ASSUME NEW x \in Threads PROVE CallCurrent(pc[x], job[x])'
  <2>1. PICK l, k : l = pc[x] /\ k = job[x]
    OBVIOUS
  <2>2. CallCurrent(l, job[x])
    BY <2>1 DEF AddressOK
  <2>3. CallCurrent(l, k)'
    BY <2>1, <2>2, CallKept
  <2> QED
    BY <2>1, <2>3 DEF CallCurrent, OutCurrent
<1> QED
  BY <1>1

\* A recipe ends.
LEMMA ExecuteAddress ==
  ASSUME ControlOK, DataOK, AddressOK, Execute
  PROVE  AddressOK'
<1>1. PICK i \in DOMAIN recipes : recipes' = [recipes EXCEPT ![i].done = TRUE]
  BY DEF Execute
<1>2. UNCHANGED <<table, pc, job, locks, update_on_defragment_>>
  BY DEF Execute, poolVars, lockVars
<1>3. PICK q : q = [recipes[i] EXCEPT !.done = TRUE]
  OBVIOUS
<1>4. /\ RecipesCurrent' /\ Len(recipes') = Len(recipes) /\ DOMAIN recipes' = DOMAIN recipes
      /\ \A k \in DOMAIN recipes \ {i} : recipes'[k] = recipes[k]
      /\ recipes'[i] = q /\ q.thread = recipes[i].thread
  BY <1>1, <1>2, <1>3, MarkedCurrent
<1>5. q.counted = recipes[i].counted
  <2>1. recipes[i] \in Recipe
    BY DEF DataOK
  <2> QED
    BY <1>3, <2>1 DEF Recipe
<1>6. \A k \in DOMAIN recipes : recipes'[k].thread = recipes[k].thread
                               /\ recipes'[k].counted = recipes[k].counted
  BY <1>4, <1>5
<1>7. LocksOK'
  BY <1>2, <1>4, <1>6 DEF AddressOK, LocksOK
<1> QED
  BY <1>2, <1>4, <1>7, SameTable, CallsKept DEF AddressOK

\* Its lock is given back once it is counted.
LEMMA ReleaseAddress ==
  ASSUME ControlOK, DataOK, AddressOK, Release
  PROVE  AddressOK'
<1>1. /\ UNCHANGED <<table, pc, job, update_on_defragment_>> /\ locks' = locks - 1
      /\ recipes' = Tail(recipes) /\ recipes /= <<>> /\ Head(recipes).counted
  BY DEF Release, poolVars
<1>2. /\ Len(recipes) \in Nat \ {0} /\ Len(recipes') = Len(recipes) - 1
      /\ DOMAIN recipes' = 1 .. Len(recipes) - 1 /\ DOMAIN recipes = 1 .. Len(recipes)
      /\ \A i \in 1 .. Len(recipes) - 1 : recipes'[i] = recipes[i + 1]
      /\ recipes[1].counted
  <2>1. recipes \in Seq(Recipe) /\ recipes' \in Seq(Recipe)
    BY <1>1 DEF DataOK
  <2>2. Len(recipes) \in Nat /\ Len(recipes) > 0
    BY <1>1, <2>1
  <2>3. Len(recipes') = Len(recipes) - 1 /\ Head(recipes) = recipes[1]
    BY <1>1, <2>1, <2>2
  <2>4. \A i \in DOMAIN recipes' : recipes'[i] = recipes[i + 1]
    BY <1>1, <2>1
  <2>5. DOMAIN recipes = 1 .. Len(recipes) /\ DOMAIN recipes' = 1 .. Len(recipes')
    BY <2>1
  <2> QED
    BY <1>1, <2>2, <2>3, <2>4, <2>5
<1>3. \A n \in Nat \ {0} : /\ \A i \in 1 .. n - 1 : i + 1 \in 1 .. n
                           /\ \A i \in 1 .. n : i = 1 \/ (i - 1 \in 1 .. n - 1 /\ (i - 1) + 1 = i)
  OBVIOUS
<1>4. LocksOK'
  <2>1. LocksOK
    BY DEF AddressOK
  <2>2. /\ Cardinality(Launching) \in Nat /\ locks = Len(recipes) + Cardinality(Launching)
    BY <2>1, LockCount
  <2>3. Launching' = Launching
    BY <1>1 DEF Launching
  <2>4. locks' = Len(recipes') + Cardinality(Launching')
    BY <1>1, <1>2, <2>2, <2>3
  <2>5. locks /= 0
    BY <1>2, <2>2
  <2>6. ASSUME NEW x \in Threads
        PROVE  /\ pc'[x] = "count" =>
                    \E k \in DOMAIN recipes' : recipes'[k].thread = x /\ ~recipes'[k].counted
               /\ pc'[x] = "collect" /\ job'[x].kind = "launch" => locks' = 0
    <3>1. ASSUME pc[x] = "count"
          PROVE  \E k \in DOMAIN recipes' : recipes'[k].thread = x /\ ~recipes'[k].counted
      <4>1. PICK i \in 1 .. Len(recipes) : recipes[i].thread = x /\ ~recipes[i].counted
        BY <1>2, <2>1, <3>1 DEF LocksOK
      <4>2. i /= 1
        BY <1>2, <4>1
      <4>3. i - 1 \in 1 .. Len(recipes) - 1 /\ recipes'[i - 1] = recipes[i]
        BY <1>2, <1>3, <4>2
      <4> QED
        BY <1>2, <4>1, <4>3
    <3> QED
      BY <1>1, <2>1, <2>5, <3>1 DEF LocksOK
  <2> QED
    BY <2>4, <2>6 DEF LocksOK, Launching
<1>5. RecipesCurrent'
  <2>1. ASSUME NEW i \in DOMAIN recipes'
        PROVE  /\ Len(recipes'[i].out) = Len(recipes'[i].list)
               /\ \A k \in DOMAIN recipes'[i].out : recipes'[i].out[k] = table[recipes'[i].list[k]].ptr
    <3>1. i + 1 \in DOMAIN recipes /\ recipes'[i] = recipes[i + 1]
      BY <1>2, <1>3
    <3> QED
      BY <3>1 DEF AddressOK, RecipesCurrent, OutCurrent
  <2> QED
    BY <1>1, <2>1 DEF RecipesCurrent, OutCurrent
<1> QED
  BY <1>1, <1>4, <1>5, SameTable, CallsKept DEF AddressOK

\* A tensor is made or freed, which no call and no recipe uses.
LEMMA TensorAddress ==
  ASSUME ControlOK, DataOK, AddressOK, NEW h \in Handles, Malloc(h) \/ Free(h)
  PROVE  AddressOK'
<1>1. UNCHANGED <<pc, job, locks, update_on_defragment_, recipes>>
  BY DEF Malloc, Free, lockVars, deviceVars
<1>2. table \in [Handles -> [active : BOOLEAN, ptr : Units, fixed : BOOLEAN]]
  BY DEF DataOK, TableOK
<1>3. \A x \in Handles \ {h} : table'[x] = table[x]
  BY <1>2 DEF Malloc, Free
<1>4. ~InUse(h) \/ table[h].ptr = Null
  BY DEF Malloc, Free, DataOK, HandlesOK
<1>5. TableKeeps
  BY <1>3, <1>4 DEF TableKeeps
<1>6. RecipesCurrent'
  BY <1>1, <1>5, RecipesKept DEF AddressOK
<1>7. LocksOK'
  BY <1>1 DEF AddressOK, LocksOK
<1> QED
  BY <1>1, <1>5, <1>6, <1>7, CallsKept DEF AddressOK

\* Copy: the table named the new memory before.
LEMMA CopyAddress ==
  ASSUME ControlOK, DataOK, AddressOK, NEW t \in Threads, Copy(t)
  PROVE  AddressOK'
<1>1. /\ UNCHANGED <<table, job, recipes, locks, update_on_defragment_>>
      /\ pc[t] = "copy" /\ Goto(t, "defragmented")
  BY DEF Copy, At, lockVars
<1>2. PICK j : j = job[t]
  OBVIOUS
<1>3. Moves(t, "defragmented", j)
  BY <1>1, <1>2, Stays
<1>4. TableKeeps
  BY <1>1, SameTable
<1>5. "defragmented" \notin MovableLocs
  BY DEF MovableLocs
<1>6. /\ pc[t] \notin {"launch", "count", "translate"}
      /\ "defragmented" \notin {"launch", "count", "collect"}
      /\ update_on_defragment_ => update_on_defragment_'
  BY <1>1
<1>7. UNCHANGED <<recipes, locks>>
  BY <1>1
<1> QED
  BY <1>2, <1>3, <1>4, <1>5, <1>6, <1>7, QuietStep

-----------------------------------------------------------------------------
(* The actions: tensors move, and nobody works with an address.               *)

\* Tensors that have moved have memory as before.
LEMMA MovedTable ==
  ASSUME DataOK, NEW B, NEW first, NEW r, Moved(B, first, r), table' = Repointed(r.movers)
  PROVE  \A h \in Handles : table[h].ptr /= Null => table'[h].ptr /= Null
<1>1. \A h \in Handles : table'[h].ptr = IF \E v \in r.movers : v.handle = h
                                         THEN (CHOOSE v \in r.movers : v.handle = h).to
                                         ELSE table[h].ptr
  BY RepointedTable DEF DataOK
<1>2. \A v \in r.movers : v.to /= Null
  BY DEF Moved
<1> QED
  BY <1>1, <1>2

\* Tensors move while no recipe is left and only t has translated anything.
LEMMA MovedAddress ==
  ASSUME ControlOK, DataOK, AddressOK, NEW t \in Threads, pc[t] = "collect", locks = 0,
         \A x \in Threads \ {t} : job[x].kind = "launch" => job[x].out = <<>>,
         \A h \in Handles : table[h].ptr /= Null => table'[h].ptr /= Null,
         UNCHANGED <<recipes, locks, update_on_defragment_>>,
         \/ Goto(t, "copy") /\ UNCHANGED job
         \/ End(t)
  PROVE  AddressOK'
<1>1. recipes = <<>> /\ \A x \in Threads : pc[x] \notin {"launch", "count"}
  BY NoLocks DEF AddressOK
<1>2. /\ pc'[t] \in {"copy", "idle"} /\ (job'[t] = job[t] \/ job'[t] = NoJob)
      /\ \A x \in Threads \ {t} : pc'[x] = pc[x] /\ job'[x] = job[x]
  BY DEF End, Goto, ControlOK, CallsOK
<1>3. LocksOK'
  <2>1. {x \in Threads : pc'[x] = "launch"} = {} /\ {x \in Threads : pc[x] = "launch"} = {}
    BY <1>1, <1>2
  <2>2. locks = Len(recipes) + Cardinality({x \in Threads : pc[x] = "launch"})
    BY DEF AddressOK, LocksOK
  <2>3. \A x \in Threads : pc'[x] /= "count"
    BY <1>1, <1>2
  <2> QED
    BY <2>1, <2>2, <2>3 DEF LocksOK
<1>4. RecipesCurrent'
  BY <1>1 DEF RecipesCurrent
<1>5. ASSUME NEW x \in Threads PROVE CallCurrent(pc[x], job[x])'
  <2>1. SUFFICES ASSUME job'[x].kind = "launch" PROVE CallCurrent(pc[x], job[x])'
    BY DEF CallCurrent
  <2>2. job'[x] = job[x] /\ job[x] /= NoJob /\ IsJob(job[x])
    <3>1. job'[x] = job[x]
      <4>1. NoJob.kind /= "launch"
        BY DEF NoJob
      <4> QED
        BY <1>2, <2>1, <4>1
    <3> QED
      BY <2>1, <3>1, LaunchCall
  <2>3. \A k \in DOMAIN job[x].list : job[x].list[k] \in Handles
    BY <2>2, CallUse
  <2>4. CallCurrent(pc[x], job[x])
    BY DEF AddressOK
  <2>5. /\ \A k \in DOMAIN job[x].out : table'[job[x].list[k]].ptr /= Null
        /\ job[x].again => \A k \in DOMAIN job[x].list : table'[job[x].list[k]].ptr /= Null
    <3>1. DOMAIN job[x].out \subseteq DOMAIN job[x].list
      BY <2>2, CallUse
    <3> QED
      BY <2>1, <2>2, <2>3, <2>4, <3>1 DEF CallCurrent
  <2>6. CASE x = t
    BY <1>2, <2>1, <2>2, <2>4, <2>5, <2>6 DEF CallCurrent, MovableLocs
  <2>7. CASE x /= t
    <3>1. job[x].out = <<>>
      BY <2>1, <2>2, <2>7
    <3>2. OutCurrent(job[x].out, job[x].list)'
      BY <2>2, <3>1 DEF OutCurrent
    <3> QED
      BY <1>1, <1>2, <2>1, <2>2, <2>4, <2>5, <2>7, <3>2 DEF CallCurrent
  <2> QED
    BY <2>6, <2>7
<1> QED
  BY <1>3, <1>4, <1>5 DEF AddressOK

\* Who moves tensors has nobody else translating, unless a slip is noted.
LEMMA NobodyElse ==
  ASSUME ControlOK, DataOK, AddressOK, NEW t \in Threads, pc[t] = "collect", NoteLock(t) = {}
  PROVE  locks = 0 /\ \A x \in Threads \ {t} : job[x].kind = "launch" => job[x].out = <<>>
<1>1. IsJob(job[t])
  BY DefragmentingCall DEF DefragLocs
<1>2. locks \in Nat
  BY LockCount DEF AddressOK
<1>3. CASE job[t].kind = "launch"
  <2>1. locks = 0
    BY <1>3 DEF AddressOK, LocksOK
  <2>2. HoldsDefrag(pc[t], job[t])
    BY <1>3 DEF HoldsDefrag, DefragLocs
  <2>3. defragmentation_mutex_ = t
    BY <2>2, Held
  <2>4. ASSUME NEW x \in Threads \ {t}, job[x].kind = "launch" PROVE job[x].out = <<>>
    <3>1. ~HoldsDefrag(pc[x], job[x])
      BY <2>3, Held
    <3>2. pc[x] \notin {"launch", "count"}
      BY <2>1, NoLocks DEF AddressOK
    <3>3. CallAt(pc[x], job[x]) /\ job[x] /= NoJob
      BY <2>4, Held, LaunchCall
    <3> QED
      BY <2>4, <3>1, <3>2, <3>3 DEF CallAt, HoldsDefrag, DefragLocs, LaunchLocs, WorkspaceLocs
  <2> QED
    BY <2>1, <2>4
<1>4. CASE job[t].kind /= "launch"
  <2>1. defragmentation_mutex_ /= t
    BY <1>4, Held DEF HoldsDefrag
  <2>2. ~(locks > 0 \/ \E x \in Threads \ {t} : job[x] /= NoJob /\ job[x].out /= <<>>)
    BY <2>1 DEF NoteLock
  <2>3. \A x \in Threads : job[x].kind = "launch" => job[x] /= NoJob
    BY LaunchCall
  <2> QED
    BY <1>2, <2>2, <2>3
<1> QED
  BY <1>3, <1>4

\* Collect: the table names the new memory of what has been moved.
LEMMA CollectAddress ==
  ASSUME ControlOK, DataOK, AddressOK, NEW t \in Threads, Collect(t), slips' = {}
  PROVE  AddressOK'
<1> DEFINE plan   == Run(MemoryMap, Requested(t), Growing(t))
           exact  == [pool EXCEPT !.exact = TRUE]
           placed == Place(IF plan.first THEN exact
                           ELSE Deallocate(exact, {b.ptr : b \in plan.movers}), plan.movers)
           tail   == UNION {NoteTail([pool |-> placed.pool, ptr |-> v.to]) : v \in placed.movers}
<1>1. /\ pc[t] = "collect" /\ mutex_ = None
      /\ UNCHANGED <<recipes, locks, update_on_defragment_>>
      /\ IF ~plan.found
         THEN GiveUp(t) /\ UNCHANGED <<poolVars, moveVars, slips>>
         ELSE IF plan.movers = {}
         THEN /\ Goto(t, "defragmented")
              /\ UNCHANGED <<poolVars, moveVars, workspace, job, defragmentation_mutex_, ws_mutex_, slips>>
         ELSE /\ pool' = placed.pool
              /\ table' = Repointed(placed.movers)
              /\ IF placed.ok
                 THEN /\ mutex_' = t
                      /\ moving' = [movers |-> placed.movers, first |-> plan.first]
                      /\ slips' = slips \cup NoteLock(t) \cup tail
                      /\ Goto(t, "copy")
                      /\ UNCHANGED <<workspace, job, defragmentation_mutex_, ws_mutex_>>
                 ELSE /\ End(t)
                      /\ slips' = slips \cup NoteLock(t) \cup tail \cup
                                  (IF placed.movers /= {} THEN {"v2"} ELSE {})
                      /\ UNCHANGED <<moveVars, workspace>>
  BY DEF Collect, At, deviceVars
<1>2. PICK r : r = placed
  OBVIOUS
<1>4. PICK B, first : B = plan.movers /\ first = plan.first
  OBVIOUS
<1>5. /\ first \in BOOLEAN /\ \A b \in B : TensorBlock(b)
      /\ \A b, c \in B : b.ptr = c.ptr => b = c
  BY <1>4, PlanBlocks
<1>6. r = Place(IF first THEN exact ELSE Deallocate(exact, Sources(B)), B)
  BY <1>2, <1>4 DEF Sources
<1> HIDE DEF plan, placed, tail
<1>7. TableOK /\ TableMatch(pool, AddressOf, {})
  BY <1>1, NoMovers DEF DataOK
<1>8. CASE ~plan.found
  <2>1. End(t) /\ UNCHANGED table
    BY <1>1, <1>8 DEF GiveUp, poolVars
  <2> QED
    BY <1>1, <2>1, SameTable, EndAddress
<1>9. CASE plan.found /\ B = {}
  <2>1. Goto(t, "defragmented") /\ UNCHANGED <<table, job>>
    BY <1>1, <1>4, <1>9 DEF poolVars
  <2>2. PICK j : j = job[t]
    OBVIOUS
  <2>3. Moves(t, "defragmented", j)
    BY <2>1, <2>2, Stays
  <2>4. TableKeeps
    BY <2>1, SameTable
  <2>5. /\ pc[t] \notin {"launch", "count", "translate"}
        /\ "defragmented" \notin {"launch", "count", "collect"}
        /\ "defragmented" \notin MovableLocs
        /\ update_on_defragment_ => update_on_defragment_'
    BY <1>1 DEF MovableLocs
  <2>6. UNCHANGED <<recipes, locks>>
    BY <1>1
  <2> QED
    BY <2>2, <2>3, <2>4, <2>5, <2>6, QuietStep
<1>10. CASE plan.found /\ B /= {}
  <2>1. Moved(B, first, r)
    BY <1>5, <1>6, <1>7, <1>10, MovedSound
  <2>2. /\ table' = Repointed(r.movers) /\ NoteLock(t) \subseteq slips'
        /\ (Goto(t, "copy") /\ UNCHANGED job) \/ End(t)
    BY <1>1, <1>2, <1>4, <1>10
  <2>3. \A h \in Handles : table[h].ptr /= Null => table'[h].ptr /= Null
    BY <2>1, <2>2, MovedTable
  <2>4. /\ locks = 0
        /\ \A x \in Threads \ {t} : job[x].kind = "launch" => job[x].out = <<>>
    BY <1>1, <2>2, NobodyElse
  <2> QED
    BY <1>1, <2>2, <2>3, <2>4, MovedAddress
<1> QED
  BY <1>4, <1>8, <1>9, <1>10

-----------------------------------------------------------------------------
(* The addresses: the theorem.                                                *)

\* At first there is nothing to be locked.
LEMMA AddressInit == Init => AddressOK
<1> SUFFICES ASSUME Init PROVE AddressOK
  OBVIOUS
<1>1. recipes = <<>> /\ locks = 0 /\ \A t \in Threads : pc[t] = "idle" /\ job[t] = NoJob
  BY DEF Init
<1>2. LocksOK
  <2>1. Launching = {}
    BY <1>1 DEF Launching
  <2>2. Cardinality(Launching) = 0
    BY <2>1, FS_EmptySet
  <2>3. Len(recipes) = 0
    BY <1>1
  <2>4. locks = Len(recipes) + Cardinality(Launching)
    BY <1>1, <2>2, <2>3
  <2>5. \A t \in Threads : pc[t] /= "count" /\ pc[t] /= "collect"
    BY <1>1
  <2> QED
    BY <2>4, <2>5 DEF LocksOK, Launching
<1>3. RecipesCurrent
  BY <1>1 DEF RecipesCurrent
<1>4. NoJob.kind /= "launch"
  BY DEF NoJob
<1> QED
  BY <1>1, <1>2, <1>3, <1>4 DEF AddressOK, CallCurrent

\* A step of a call keeps the addresses that are locked.
LEMMA ContinueAddress ==
  ASSUME ControlOK, DataOK, AddressOK, NEW t \in Threads, Continue(t), slips' = {}
  PROVE  AddressOK'
BY GoAddress, WorkspaceAddress, LimitAddress, TranslatesAddress, BeginAddress, LockAddress,
   CollectAddress, CopyAddress, LaunchAddress, CountAddress DEF Continue

\* The invariant, up to the first slip.
AddressInv == slips = {} => AddressOK

\* Every step does.
LEMMA AddressNext ==
  ASSUME MemoryInv, AddressInv, [Next]_vars
  PROVE  AddressInv'
<1>1. CASE Next
  <2>1. slips = {}
    BY <1>1, NextFollowed
  <2>2. ControlOK /\ DataOK /\ AddressOK
    BY <2>1 DEF MemoryInv, AddressInv
  <2>3. ASSUME slips' = {} PROVE AddressOK'
    <3>1. ASSUME NEW t \in Threads, Continue(t) PROVE AddressOK'
      BY <2>2, <2>3, <3>1, ContinueAddress
    <3>2. ASSUME NEW t \in Threads,
                 \/ \E r \in Recipes : BeginLaunch(t, r[1], r[2])
                 \/ \E h \in Handles : FixAddress(t, h)
          PROVE  AddressOK'
      BY <2>2, <3>2, BeginAddress
    <3>3. ASSUME NEW h \in Handles, Malloc(h) \/ Free(h) PROVE AddressOK'
      BY <2>2, <3>3, TensorAddress
    <3>4. CASE Execute \/ Release
      BY <2>2, <3>4, ExecuteAddress, ReleaseAddress
    <3> QED
      BY <1>1, <3>1, <3>2, <3>3, <3>4 DEF Next
  <2> QED
    BY <2>3 DEF AddressInv
<1>2. CASE UNCHANGED vars
  BY <1>2 DEF vars, poolVars, lockVars, deviceVars, AddressInv, AddressOK, LocksOK, RecipesCurrent,
              CallCurrent, OutCurrent
<1> QED
  BY <1>1, <1>2

\* The addresses a launch has locked are those of its tensors until the recipe
\* is released, whatever is moved meanwhile.
THEOREM LockedAddressesStay == Spec => []AddressesCurrent
<1>1. Init => MemoryInv /\ AddressInv
  BY MemoryInit, AddressInit DEF AddressInv
<1>2. MemoryInv /\ AddressInv /\ [Next]_vars => (MemoryInv /\ AddressInv)'
  BY MemoryNext, AddressNext
<1>3. MemoryInv /\ AddressInv => AddressesCurrent
  <2>1. ASSUME AddressOK, NEW t \in Threads, pc[t] \in {"launch", "count"}, MemoryInv
        PROVE  OutCurrent(job[t].out, job[t].list)
    BY <2>1, AllTranslated DEF AddressOK, CallCurrent, MemoryInv
  <2> QED
    BY <2>1 DEF AddressInv, AddressOK, AddressesCurrent, RecipesCurrent, OutCurrent
<1> QED
  BY <1>1, <1>2, <1>3, PTL DEF Spec

-----------------------------------------------------------------------------
(* A fixed tensor stays.                                                      *)

\* Collect moves no tensor that is fixed.
LEMMA CollectFixed ==
  ASSUME ControlOK, DataOK, NEW t \in Threads, Collect(t), NEW h \in Handles, table[h].fixed
  PROVE  table'[h].ptr = table[h].ptr
<1> DEFINE plan   == Run(MemoryMap, Requested(t), Growing(t))
           exact  == [pool EXCEPT !.exact = TRUE]
           placed == Place(IF plan.first THEN exact
                           ELSE Deallocate(exact, {b.ptr : b \in plan.movers}), plan.movers)
<1>1. /\ mutex_ = None
      /\ UNCHANGED table \/ (plan.movers /= {} /\ table' = Repointed(placed.movers))
  BY DEF Collect, poolVars
<1>2. PICK r : r = placed
  OBVIOUS
<1>3. PICK B, first : B = plan.movers /\ first = plan.first
  OBVIOUS
<1>4. /\ first \in BOOLEAN /\ \A b \in B : TensorBlock(b)
      /\ \A b, c \in B : b.ptr = c.ptr => b = c
  BY <1>3, PlanBlocks
<1>5. r = Place(IF first THEN exact ELSE Deallocate(exact, Sources(B)), B)
  BY <1>2, <1>3 DEF Sources
<1> HIDE DEF plan, placed
<1>6. TableOK /\ TableMatch(pool, AddressOf, {})
  BY <1>1, NoMovers DEF DataOK
<1>7. CASE B /= {} /\ table' = Repointed(r.movers)
  <2>1. Moved(B, first, r)
    BY <1>4, <1>5, <1>6, <1>7, MovedSound
  <2>2. ~ \E v \in r.movers : v.handle = h
    BY <1>4, <2>1 DEF Moved, TensorBlock
  <2> QED
    BY <1>6, <1>7, <2>1, <2>2, RepointedTable
<1> QED
  BY <1>1, <1>2, <1>3, <1>7

\* Translating gives a tensor memory only if it has none.
LEMMA TranslatesFixed ==
  ASSUME ControlOK, DataOK, NEW t \in Threads, Translate(t) \/ Retry(t) \/ TranslateAgain(t),
         NEW h \in Handles, table[h].ptr /= Null
  PROVE  table'[h].ptr = table[h].ptr
<1>1. IsJob(job[t]) /\ job[t].todo /= <<>>
  BY Held DEF Translate, Retry, TranslateAgain, At, CallAt, WorkspaceLocs, LaunchLocs, DefragLocs, Grows
<1>2. PICK r : r = Translation(t)
  OBVIOUS
<1>3. UNCHANGED table \/ Translated(t, r)
  BY <1>2 DEF Translate, Retry, TranslateAgain, poolVars
<1>4. CASE Translated(t, r)
  <2>1. table' = [table EXCEPT ![Head(job[t].todo)].ptr = r.ptr]
    BY <1>4 DEF Translated
  <2>2. Head(job[t].todo) \in Handles
    BY <1>1, HeadHandle
  <2>3. table[Head(job[t].todo)].ptr /= Null => r.ptr = table[Head(job[t].todo)].ptr
    BY <1>1, <1>2, TranslationUnit DEF DataOK
  <2> QED
    BY <2>1, <2>2, <2>3 DEF DataOK, TableOK
<1> QED
  BY <1>3, <1>4

\* fix_address: from the moment a tensor is marked as fixed, its memory is not moved.
THEOREM FixedTensorsStay == Spec => FixedStays
<1>1. ASSUME MemoryInv, Next, NEW h \in Handles, table[h].fixed, table[h].ptr /= Null,
             table'[h].active
      PROVE  table'[h].ptr = table[h].ptr
  <2>1. ControlOK /\ DataOK
    BY <1>1, NextFollowed DEF MemoryInv
  <2>2. table \in [Handles -> [active : BOOLEAN, ptr : Units, fixed : BOOLEAN]]
    BY <2>1 DEF DataOK, TableOK
  <2>3. ASSUME NEW t \in Threads, Continue(t) PROVE table'[h].ptr = table[h].ptr
    <3>1. CASE Collect(t)
      BY <1>1, <2>1, <3>1, CollectFixed
    <3>2. CASE Translate(t) \/ Retry(t) \/ TranslateAgain(t)
      BY <1>1, <2>1, <3>2, TranslatesFixed
    <3>3. UNCHANGED table \/ Collect(t) \/ Translate(t) \/ Retry(t) \/ TranslateAgain(t)
      BY <2>3 DEF Continue, CheckMemory, BeginCleanup, Cleanup, EnterWorkspace, LockExtend, ExtendFirst,
                  ExtendIdle, ExtendAgain, Extend, EstimateMemory, LockAddresses, FinishFix, FinishLock,
                  Synchronize, Drain, DrainTimesOut, Copy, Launch, CountRecipe, poolVars
    <3> QED
      BY <3>1, <3>2, <3>3
  <2>5. ASSUME NEW t \in Threads, NEW x \in Handles, FixAddress(t, x)
        PROVE  table'[h].ptr = table[h].ptr
    BY <2>2, <2>5 DEF FixAddress
  <2>6. ASSUME NEW x \in Handles, Malloc(x) \/ Free(x) PROVE table'[h].ptr = table[h].ptr
    <3>1. CASE x = h
      <4>1. ~Malloc(x)
        BY <1>1, <2>1, <3>1 DEF Malloc, DataOK, HandlesOK
      <4>2. ~Free(x)
        <5>1. table[h] \in [active : BOOLEAN, ptr : Units, fixed : BOOLEAN]
          BY <2>2
        <5> QED
          BY <1>1, <2>2, <3>1, <5>1 DEF Free
      <4> QED
        BY <2>6, <4>1, <4>2
    <3>2. CASE x /= h
      BY <2>2, <2>6, <3>2 DEF Malloc, Free
    <3> QED
      BY <3>1, <3>2
  <2>7. (\E t \in Threads, r \in Recipes : BeginLaunch(t, r[1], r[2])) \/ Execute \/ Release => UNCHANGED table
    BY DEF BeginLaunch, Execute, Release, poolVars
  <2> QED
    BY <1>1, <2>3, <2>5, <2>6, <2>7 DEF Next
<1>2. ASSUME UNCHANGED vars PROVE UNCHANGED table
  BY <1>2 DEF vars, poolVars
<1>3. MemoryInv /\ [Next]_vars =>
        [\A h \in Handles : (table[h].fixed /\ table[h].ptr /= Null /\ table'[h].active)
                              => table'[h].ptr = table[h].ptr]_vars
  BY <1>1, <1>2
<1> QED
  BY <1>3, MemoryInvariant, PTL DEF Spec, FixedStays

-----------------------------------------------------------------------------
(* What is stored where: the units of the memory that was handed out.         *)

\* The units of what was handed out at an address, and those of a tensor there.
Span(p, a) == IF a \in p.small THEN {a} ELSE a .. After(p.chunks, a) - 1
Room(a, h) == Extent(a, Size[h])

\* A tensor's units are among those that were handed out to it.
LEMMA RoomInSpan ==
  ASSUME NEW p, IsPool(p), NEW h \in Handles, NEW a, HasMemory(p, a, h)
  PROVE  /\ a \in Units \ {Null} /\ a + Size[h] <= PoolSize
         /\ Room(a, h) \subseteq Span(p, a)
         /\ Room(a, h) \subseteq Units
<1>1. Size[h] \in Nat \ {0} /\ PoolSize \in Nat
  BY Sizing, Sizes
<1>2. a \in Units \ {Null}
  BY GivenParts DEF HasMemory, Given
<1>3. a \in Nat \ {0} /\ a < PoolSize
  BY <1>1, <1>2 DEF Units, Null
<1>4. CASE a \in p.small /\ Size[h] = 1
  <2>1. Room(a, h) = {a}
    BY <1>3, <1>4 DEF Room, Extent
  <2> QED
    BY <1>1, <1>2, <1>3, <1>4, <2>1 DEF Span
<1>5. CASE a \in GivenChunks(p.chunks) /\ p.chunks[a].size >= Size[h]
  <2>1. a \notin p.small /\ a \in DOMAIN p.chunks /\ Tiles(p.chunks)
    BY <1>5, GivenParts DEF GivenChunks, IsPool, Sound
  <2>2. p.chunks[a].size \in Nat /\ After(p.chunks, a) = a + p.chunks[a].size
        /\ After(p.chunks, a) <= PoolSize
    BY <2>1, AfterBounds DEF After, Tiles
  <2>3. a + Size[h] <= PoolSize /\ Room(a, h) \subseteq a .. After(p.chunks, a) - 1
    BY <1>1, <1>3, <1>5, <2>2 DEF Room, Extent
  <2>4. Room(a, h) \subseteq Units
    BY <1>1, <1>3, <2>3 DEF Room, Extent, Units
  <2> QED
    BY <1>2, <2>1, <2>3, <2>4 DEF Span
<1> QED
  BY <1>4, <1>5 DEF HasMemory

\* What was handed out at different addresses has no unit in common.
LEMMA SpansApart ==
  ASSUME NEW p, IsPool(p), NEW a \in Given(p), NEW b \in Given(p), a /= b
  PROVE  Span(p, a) \cap Span(p, b) = {}
<1>1. /\ p.small \subseteq 1 .. SmallEnd - 1 /\ SmallEnd \in Nat
      /\ \A x \in GivenChunks(p.chunks) :
           x \in SmallEnd .. PoolSize - 1 /\ x \notin p.small /\ x \in DOMAIN p.chunks
  BY GivenParts, Sizes DEF SmallEnd, SmallBase, GivenChunks
<1>2. Tiles(p.chunks)
  BY DEF IsPool, Sound
<1>3. \A x \in GivenChunks(p.chunks) : After(p.chunks, x) \in Nat
  BY <1>1, <1>2, AfterBounds, Sizes DEF After, Tiles
<1>4. ASSUME NEW x \in p.small, NEW y \in GivenChunks(p.chunks)
      PROVE  Span(p, x) \cap Span(p, y) = {}
  BY <1>1, <1>3, Sizes DEF Span
<1>5. ASSUME NEW x \in GivenChunks(p.chunks), NEW y \in GivenChunks(p.chunks), x < y
      PROVE  Span(p, x) \cap Span(p, y) = {}
  <2>1. After(p.chunks, x) <= y
    BY <1>1, <1>2, <1>5 DEF Tiles
  <2>2. x \in Int /\ y \in Int
    BY <1>1, Sizes
  <2> QED
    BY <1>1, <1>3, <2>1, <2>2 DEF Span
<1>6. CASE a \in p.small /\ b \in p.small
  BY <1>6 DEF Span
<1>7. CASE a \in GivenChunks(p.chunks) /\ b \in GivenChunks(p.chunks)
  <2>1. a < b \/ b < a
    BY <1>1, <1>7, Sizes
  <2> QED
    BY <1>5, <1>7, <2>1
<1> QED
  BY <1>4, <1>6, <1>7 DEF Given

\* What is kept has the same units.
LEMMA SpanKept ==
  ASSUME NEW p, IsPool(p), NEW q, IsPool(q), NEW A, Keeps(p, q, A), NEW a \in A, a \in Given(p)
  PROVE  Span(q, a) = Span(p, a) /\ a \in Given(q)
<1>1. CASE a \in p.small
  BY <1>1 DEF Keeps, Span, Given
<1>2. CASE a \in GivenChunks(p.chunks)
  <2>1. a \in GivenChunks(q.chunks) /\ q.chunks[a] = p.chunks[a]
    BY <1>2 DEF Keeps
  <2>2. a \notin p.small /\ a \notin q.small
    BY <1>2, <2>1, GivenParts
  <2> QED
    BY <2>1, <2>2 DEF Span, After, Given
<1> QED
  BY <1>1, <1>2 DEF Given

\* The top chunk reaches up to the end of the pool.
LEMMA TopSpan ==
  ASSUME NEW p, IsPool(p), p.chunks[Top(p.chunks)].used
  PROVE  Span(p, Top(p.chunks)) = Top(p.chunks) .. PoolSize - 1 /\ Top(p.chunks) \in Given(p)
<1>1. Tiles(p.chunks) /\ Top(p.chunks) \notin p.small
  BY GivenParts DEF IsPool, Sound
<1>2. After(p.chunks, Top(p.chunks)) = PoolSize
  BY <1>1, TopChunk
<1> QED
  BY <1>1, <1>2, TopGiven DEF Span

\* The tensors have no unit in common,
LEMMA RoomsApart ==
  ASSUME NEW p, IsPool(p), NEW at, NEW old, Matches(p, at, old),
         NEW h \in Handles, NEW g \in Handles, h /= g, at[h] /= Null, at[g] /= Null
  PROVE  Room(at[h], h) \cap Room(at[g], g) = {}
<1>1. HasMemory(p, at[h], h) /\ HasMemory(p, at[g], g) /\ at[h] /= at[g]
  BY DEF Matches
<1>2. at[h] \in Given(p) /\ at[g] \in Given(p)
  BY <1>1 DEF HasMemory, Given
<1>3. Span(p, at[h]) \cap Span(p, at[g]) = {}
  BY <1>1, <1>2, SpansApart
<1>4. Room(at[h], h) \subseteq Span(p, at[h]) /\ Room(at[g], g) \subseteq Span(p, at[g])
  BY <1>1, RoomInSpan
<1> QED
  BY <1>3, <1>4

\* ... and none with a workspace.
LEMMA RoomReserved ==
  ASSUME NEW p, IsPool(p), NEW at, NEW old, TableMatch(p, at, old), NEW w, Reserved(p, w),
         NEW h \in Handles, at[h] /= Null
  PROVE  Room(at[h], h) \cap w = {}
<1>1. HasMemory(p, at[h], h) /\ at[h] \in Addresses(at)
  BY DEF TableMatch, Matches, Addresses
<1>2. at[h] \in Given(p) /\ at[h] /= Top(p.chunks)
  BY <1>1 DEF HasMemory, Given, TableMatch, TopFree, Reserved
<1>3. Span(p, Top(p.chunks)) = Top(p.chunks) .. PoolSize - 1 /\ Top(p.chunks) \in Given(p)
  BY TopSpan DEF Reserved
<1>4. Span(p, at[h]) \cap Span(p, Top(p.chunks)) = {}
  BY <1>2, <1>3, SpansApart
<1>5. Room(at[h], h) \subseteq Span(p, at[h])
  BY <1>1, RoomInSpan
<1> QED
  BY <1>3, <1>4, <1>5 DEF Reserved

-----------------------------------------------------------------------------
(* The order of the copies: no mover is copied to where one that is still to  *)
(* be copied lies.                                                            *)

InOrder(movers) ==
  \A v, w \in movers :
    v.from < w.from => Room(v.to, v.handle) \cap Room(w.from, w.handle) = {}

\* A mover's tensor has landed where the mover goes.
LEMMA LandedAt ==
  ASSUME NEW at, NEW movers, \A v, w \in movers : v.handle = w.handle => v = w,
         NEW v \in movers, v.handle \in Handles
  PROVE  Landed(at, movers)[v.handle] = v.to
<1>1. (CHOOSE w \in movers : w.handle = v.handle) = v
  OBVIOUS
<1> QED
  BY <1>1 DEF Landed

\* As long as the old memory is not given back, nobody is placed there.
LEMMA FirstInOrder ==
  ASSUME NEW p, IsPool(p), NEW at, NEW old, NEW B, NEW r, Placed(p, at, old, B, r),
         \A b \in B : b.handle \in Handles /\ b.ptr \in old /\ HasMemory(p, b.ptr, b.handle)
  PROVE  InOrder(r.movers)
<1> SUFFICES ASSUME NEW v \in r.movers, NEW w \in r.movers
             PROVE  Room(v.to, v.handle) \cap Room(w.from, w.handle) = {}
  BY DEF InOrder
<1>1. PICK b \in B : w.handle = b.handle /\ w.from = b.ptr
  BY DEF Placed
<1>2. v.handle \in Handles /\ v.to /= Null
  BY DEF Placed
<1>3. PICK l : l = Landed(at, r.movers)
  OBVIOUS
<1>4. l[v.handle] = v.to
  BY <1>2, <1>3, LandedAt DEF Placed
<1>5. Matches(r.pool, l, old) /\ IsPool(r.pool) /\ Keeps(p, r.pool, Given(p))
  BY <1>3 DEF Placed
<1>6. HasMemory(r.pool, v.to, v.handle) /\ v.to \in Addresses(l)
  BY <1>2, <1>4, <1>5 DEF Matches, Addresses
<1>7. b.ptr \in Given(r.pool) /\ b.ptr /= v.to
  BY <1>5, <1>6 DEF Matches
<1>8. b.ptr \in Given(p) /\ Room(b.ptr, b.handle) \subseteq Span(p, b.ptr)
  BY RoomInSpan DEF HasMemory, Given
<1>9. Span(r.pool, b.ptr) = Span(p, b.ptr)
  BY <1>5, <1>8, SpanKept
<1>10. Room(v.to, v.handle) \subseteq Span(r.pool, v.to) /\ v.to \in Given(r.pool)
  BY <1>2, <1>5, <1>6, RoomInSpan DEF HasMemory, Given
<1>11. Span(r.pool, v.to) \cap Span(r.pool, b.ptr) = {}
  BY <1>5, <1>7, <1>10, SpansApart
<1> QED
  BY <1>1, <1>8, <1>9, <1>10, <1>11

-----------------------------------------------------------------------------
(* Otherwise the region has been given back as a whole, and is filled again   *)
(* from its start.                                                            *)

\* Blocks of tensors, one behind the other.
Sited(B) ==
  /\ \A b \in B : /\ b.handle \in Handles /\ b.ptr \in Units \ {Null}
                  /\ b.ptr + Size[b.handle] <= PoolSize
                  /\ b.ptr < SmallEnd => Size[b.handle] = 1 /\ Stream[b.handle] = 0
  /\ \A b, c \in B : b.ptr < c.ptr => b.ptr + Size[b.handle] <= c.ptr
  /\ \A b, c \in B : b.ptr = c.ptr => b = c

Meets(c, f, b) == f < b.ptr + Size[b.handle] /\ b.ptr < After(c, f)

\* The units of the blocks are free, and a free chunk that reaches one of them
\* begins before all of them.
Ahead(p, B) ==
  /\ IsPool(p) /\ p.exact = TRUE
  /\ \A b \in B : b.ptr \notin p.small
  /\ \A b, d \in B : \A f \in DOMAIN p.chunks :
       ~p.chunks[f].used /\ b.ptr >= SmallEnd /\ d.ptr >= SmallEnd /\ Meets(p.chunks, f, b)
         => f <= d.ptr

\* Marking a chunk leaves the others alone.
LEMMA Marked ==
  ASSUME NEW c, NEW f \in DOMAIN c, NEW d, d = Used(c, f)
  PROVE  d[f].used /\ \A x : (x \in DOMAIN d <=> x \in DOMAIN c) /\ (x /= f /\ x \in DOMAIN c => d[x] = c[x])
<1>1. PICK m : m = Chunk(c[f].size, TRUE)
  OBVIOUS
<1>2. m.used
  BY <1>1 DEF Chunk
<1>3. d = [c EXCEPT ![f] = m]
  BY <1>1 DEF Used, Mark
<1> QED
  BY <1>2, <1>3

\* A chunk that is cut exactly,
Carved(c, f, n) == Take(c, f, n, TRUE)

\* ... and what is free afterwards.
LEMMA TakeExact ==
  ASSUME NEW c, Tiles(c), NEW n \in Nat \ {0}, NEW f \in Fits(c, n),
         NEW d, d = Carved(c, f, n), NEW g \in DOMAIN d, ~d[g].used
  PROVE  \/ g \in DOMAIN c /\ g /= f /\ d[g] = c[g]
         \/ g = f + n /\ After(d, g) = After(c, f)
<1>1. /\ f \in DOMAIN c /\ f \in Nat /\ c[f].size \in Nat /\ c[f].size >= n
      /\ ~c[f].used /\ After(c, f) = f + c[f].size
  BY Sizes DEF Fits, IsFree, Tiles, After
<1>2. PICK s : s = c[f].size
  OBVIOUS
<1>3. CASE s > n
  <2>1. WorthSplitting(s, n, TRUE)
    BY <1>3 DEF WorthSplitting
  <2>2. d = Used(Split(c, f, n), f)
    BY <1>2, <2>1 DEF Take, Carved, Used
  <2>3. PICK z : z = f + n
    OBVIOUS
  <2>4. z /= f
    BY <1>1, <2>3
  <2>5. /\ d[f].used
        /\ \A x \in DOMAIN d : x /= f => (x = z /\ d[x].size = c[f].size - n) \/ (x \in DOMAIN c /\ d[x] = c[x])
    <3>1. PICK k, m : k = Chunk(n, FALSE) /\ m = Chunk(c[f].size - n, FALSE)
      OBVIOUS
    <3>2. PICK e : e = Split(c, f, n)
      OBVIOUS
    <3>3. e = [b \in DOMAIN c \cup {z} |-> CASE b = f -> k [] b = z -> m [] OTHER -> c[b]]
      BY <2>3, <3>1, <3>2 DEF Split
    <3>4. m.size = c[f].size - n
      BY <3>1 DEF Chunk
    <3>5. PICK u : u = Chunk(e[f].size, TRUE)
      OBVIOUS
    <3>6. u.used
      BY <3>5 DEF Chunk
    <3>7. d = [e EXCEPT ![f] = u]
      BY <2>2, <3>2, <3>5 DEF Used, Mark
    <3> QED
      BY <1>1, <2>4, <3>3, <3>4, <3>6, <3>7
  <2>6. CASE g = z /\ d[g].size = s - n
    <3>1. After(d, g) = g + (s - n)
      BY <2>6 DEF After
    <3>2. \A x \in Nat : (x + n) + (s - n) = x + s /\ s \in Nat
      BY <1>1, <1>2
    <3> QED
      BY <1>1, <1>2, <2>3, <2>6, <3>1, <3>2
  <2> QED
    BY <1>2, <2>5, <2>6
<1>4. CASE ~(s > n)
  <2>1. ~WorthSplitting(s, n, TRUE)
    BY <1>4 DEF WorthSplitting
  <2>2. d = Used(c, f)
    BY <1>2, <2>1 DEF Take, Carved, Used
  <2>3. d[f].used /\ \A x : (x \in DOMAIN d <=> x \in DOMAIN c) /\ (x /= f /\ x \in DOMAIN c => d[x] = c[x])
    BY <1>1, <2>2, Marked
  <2> QED
    BY <2>3
<1> QED
  BY <1>3, <1>4

\* The lowest unit of the corner that is free.
LEMMA LowestUnit ==
  ASSUME NEW p, FreeSmallUnits(p) /= {}, NEW u, u = Min(FreeSmallUnits(p))
  PROVE  u \in FreeSmallUnits(p) /\ \A y \in FreeSmallUnits(p) : u <= y
<1>1. FreeSmallUnits(p) \subseteq Nat /\ FreeSmallUnits(p) # {}
  BY Sizes DEF FreeSmallUnits, SmallBase, SmallEnd
<1>2. PICK x \in FreeSmallUnits(p) : \A y \in FreeSmallUnits(p) : ~(y < x)
  BY <1>1, Smallest
<1>3. \A y \in FreeSmallUnits(p) : x <= y
  BY <1>1, <1>2
<1> QED
  BY <1>3 DEF Min

\* The lowest block is placed: nowhere near the others, and they stay ahead.
LEMMA AllocAhead ==
  ASSUME NEW C, Sited(C), NEW b \in C, \A d \in C : b.ptr <= d.ptr, NEW p, Ahead(p, C),
         NEW r, r = PoolAlloc(p, Size[b.handle], Stream[b.handle]), r.ptr /= Null
  PROVE  /\ Ahead(r.pool, C \ {b})
         /\ \A d \in C \ {b} : Room(r.ptr, b.handle) \cap Room(d.ptr, d.handle) = {}
<1> DEFINE n == Size[b.handle]
           s == Stream[b.handle]
<1>1. /\ b.handle \in Handles /\ n \in Nat \ {0} /\ b.ptr \in Nat \ {0} /\ b.ptr < PoolSize
      /\ SmallEnd \in Nat /\ SmallBase \in Nat /\ SmallBase = 1 /\ PoolSize \in Nat
  BY Sizing, Sizes DEF Sited, Units, Null, SmallEnd, SmallBase
<1>2. \A d \in C : /\ d.handle \in Handles /\ d.ptr \in Nat \ {0} /\ Size[d.handle] \in Nat \ {0}
                   /\ d.ptr + Size[d.handle] <= PoolSize
                   /\ d.ptr < SmallEnd => Size[d.handle] = 1 /\ Stream[d.handle] = 0
  BY Sizing, Sizes DEF Sited, Units, Null
<1>3. \A d \in C \ {b} : b.ptr < d.ptr /\ b.ptr + n <= d.ptr
  BY <1>1, <1>2 DEF Sited
<1>4. IsPool(p) /\ p.exact = TRUE /\ Tiles(p.chunks) /\ \A d \in C : d.ptr \notin p.small
  BY DEF Ahead, IsPool, Sound
<1>5. p = [chunks |-> p.chunks, small |-> p.small, high |-> p.high,
           exact |-> p.exact, bytes |-> p.bytes]
  BY <1>4 DEF IsPool
<1> HIDE DEF n, s
<1>6. r = PoolAlloc(p, n, s) /\ IsPool(r.pool)
  <2>1. r = PoolAlloc(p, n, s)
    BY DEF n, s
  <2> QED
    BY <1>1, <1>4, <2>1, PoolAllocSound
<1>7. \A d \in C : Room(d.ptr, d.handle) = d.ptr .. d.ptr + Size[d.handle] - 1
  BY DEF Room, Extent
<1>8. Room(r.ptr, b.handle) = r.ptr .. r.ptr + n - 1
  BY DEF Room, Extent, n
<1>9. CASE IsSmall(p, n, s)
  <2>1. PICK u : u = Min(FreeSmallUnits(p))
    OBVIOUS
  <2>2. u \in FreeSmallUnits(p) /\ \A y \in FreeSmallUnits(p) : u <= y
    BY <1>9, <2>1, LowestUnit DEF IsSmall
  <2>3. u \in SmallBase .. SmallEnd - 1 /\ n = 1
    BY <1>1, <1>9, <2>2 DEF FreeSmallUnits, IsSmall
  <2>4. r = [pool |-> [p EXCEPT !.small = p.small \cup {u}], ptr |-> u]
    BY <1>6, <1>9, <2>1 DEF PoolAlloc
  <2>5. r.ptr = u /\ r.pool.small = p.small \cup {u} /\ r.pool.chunks = p.chunks /\ r.pool.exact = TRUE
    BY <1>4, <1>5, <2>4
  <2>6. ASSUME NEW d \in C \ {b} PROVE u < d.ptr
    <3>1. CASE d.ptr >= SmallEnd
      BY <1>1, <1>2, <2>3, <3>1
    <3>2. CASE d.ptr < SmallEnd
      <4>1. b.ptr \in FreeSmallUnits(p)
        <5>1. b.ptr \in SmallBase .. SmallEnd - 1
          BY <1>1, <1>2, <1>3, <3>2
        <5> QED
          BY <1>4, <5>1 DEF FreeSmallUnits
      <4> QED
        BY <1>1, <1>2, <1>3, <2>2, <2>3, <4>1
    <3> QED
      BY <1>1, <1>2, <3>1, <3>2
  <2>7. \A d \in C \ {b} : d.ptr \notin r.pool.small
    BY <1>1, <1>2, <1>4, <2>3, <2>5, <2>6
  <2>8. Ahead(r.pool, C \ {b})
    BY <1>6, <2>5, <2>7 DEF Ahead
  <2>9. ASSUME NEW d \in C \ {b} PROVE Room(r.ptr, b.handle) \cap Room(d.ptr, d.handle) = {}
    <3>1. u < d.ptr /\ u \in Nat /\ d.ptr \in Nat /\ Size[d.handle] \in Nat
      BY <1>1, <1>2, <2>3, <2>6
    <3>2. Room(r.ptr, b.handle) = u .. u
      BY <1>8, <2>3, <2>5, <3>1
    <3> QED
      BY <1>7, <3>1, <3>2
  <2> QED
    BY <2>8, <2>9
<1>10. CASE ~IsSmall(p, n, s)
  <2>1. PICK f : f = FindChunk(p.chunks, n)
    OBVIOUS
  <2>2. PICK c : c = Carved(p.chunks, f, n)
    OBVIOUS
  <2>3. Fits(p.chunks, n) /= {}
    BY <1>6, <1>10 DEF PoolAlloc
  <2>4. f \in Fits(p.chunks, n)
    BY <1>4, <2>1, <2>3, FindChunkFits
  <2>5. PICK by, q : r = [pool |-> q, ptr |-> f] /\ q = [p EXCEPT !.chunks = c, !.bytes = by]
    BY <1>4, <1>6, <1>10, <2>1, <2>2, <2>3 DEF PoolAlloc, Carved
  <2>6. r.ptr = f /\ r.pool.small = p.small /\ r.pool.chunks = c /\ r.pool.exact = TRUE
    <3>1. q.small = p.small /\ q.chunks = c /\ q.exact = TRUE
      BY <1>4, <1>5, <2>5
    <3>2. r.pool = q /\ r.ptr = f
      BY <2>5
    <3> QED
      BY <3>1, <3>2
  <2>7. /\ f \in DOMAIN p.chunks /\ ~p.chunks[f].used /\ f \in Nat /\ p.chunks[f].size \in Nat
        /\ p.chunks[f].size >= n /\ After(p.chunks, f) = f + p.chunks[f].size
    BY <1>4, <2>4, Sizes DEF Fits, IsFree, Tiles, After
  <2>8. f + n <= After(p.chunks, f)
    BY <1>1, <2>7
  <2>9. f >= SmallEnd
    <3>1. f /= SmallBase /\ SmallBase \in DOMAIN p.chunks
      BY <1>4, <2>7 DEF IsPool
    <3>2. f \in 1 .. PoolSize - 1
      BY <1>4, <2>7 DEF Tiles
    <3>3. SmallBase < f
      BY <1>1, <2>7, <3>1, <3>2
    <3> QED
      BY <1>4, <2>7, <3>1, <3>3, GivenBehindCorner DEF Tiles
  <2>10. b.ptr >= SmallEnd
    <3>1. SUFFICES ASSUME b.ptr < SmallEnd PROVE FALSE
      BY <1>1
    <3>2. n = 1 /\ s = 0
      BY <1>2, <3>1 DEF n, s
    <3>3. b.ptr \in SmallBase .. SmallEnd - 1
      BY <1>1, <3>1
    <3>4. b.ptr \in FreeSmallUnits(p)
      BY <1>4, <3>3 DEF FreeSmallUnits
    <3> QED
      BY <1>10, <3>2, <3>4 DEF IsSmall
  <2>11. \A d \in C : d.ptr >= SmallEnd
    BY <1>1, <1>2, <1>3, <2>10
  <2>12. \A d, e \in C : \A x \in DOMAIN p.chunks :
           ~p.chunks[x].used /\ Meets(p.chunks, x, d) => x <= e.ptr
    BY <2>11 DEF Ahead
  <2>13. ASSUME NEW d \in C \ {b} PROVE f + n <= d.ptr \/ d.ptr + Size[d.handle] <= f
    <3>1. SUFFICES ASSUME f < d.ptr + Size[d.handle], d.ptr < f + n PROVE FALSE
      BY <1>1, <1>2, <2>7
    <3>2. After(p.chunks, f) \in Nat
      BY <2>7
    <3>3. Meets(p.chunks, f, d)
      BY <1>1, <1>2, <2>7, <2>8, <3>1, <3>2 DEF Meets
    <3>4. f <= b.ptr
      BY <2>7, <2>12, <3>3
    <3> QED
      BY <1>1, <1>2, <1>3, <2>7, <3>1, <3>4
  <2>14. ASSUME NEW d \in C \ {b} PROVE Room(r.ptr, b.handle) \cap Room(d.ptr, d.handle) = {}
    <3>1. /\ Room(r.ptr, b.handle) = f .. f + n - 1
          /\ Room(d.ptr, d.handle) = d.ptr .. d.ptr + Size[d.handle] - 1
      BY <1>7, <1>8, <2>6
    <3>2. \A x, y, k, m \in Nat : x + k <= y \/ y + m <= x => (x .. x + k - 1) \cap (y .. y + m - 1) = {}
      OBVIOUS
    <3>3. n \in Nat /\ f \in Nat /\ d.ptr \in Nat /\ Size[d.handle] \in Nat
      BY <1>1, <1>2, <2>7
    <3>4. (f .. f + n - 1) \cap (d.ptr .. d.ptr + Size[d.handle] - 1) = {}
      BY <2>13, <3>2, <3>3
    <3> QED
      BY <3>1, <3>4
  <2>15. ASSUME NEW d \in C \ {b}, NEW e \in C \ {b}, NEW g \in DOMAIN c, ~c[g].used, Meets(c, g, d)
         PROVE  g <= e.ptr
    <3>1. \/ g \in DOMAIN p.chunks /\ g /= f /\ c[g] = p.chunks[g]
          \/ g = f + n /\ After(c, g) = After(p.chunks, f)
      BY <1>1, <1>4, <2>2, <2>4, <2>15, TakeExact
    <3>2. CASE g \in DOMAIN p.chunks /\ g /= f /\ c[g] = p.chunks[g]
      <4>1. Meets(p.chunks, g, d)
        BY <2>15, <3>2 DEF Meets, After
      <4> QED
        BY <2>12, <2>15, <3>2, <4>1
    <3>3. CASE g = f + n /\ After(c, g) = After(p.chunks, f)
      <4>1. f < d.ptr + Size[d.handle] /\ d.ptr < After(p.chunks, f)
        BY <1>1, <1>2, <2>7, <2>15, <3>3 DEF Meets
      <4>2. f <= b.ptr
        BY <2>7, <2>12, <4>1 DEF Meets
      <4> QED
        BY <1>1, <1>2, <1>3, <2>7, <3>3, <4>2
    <3> QED
      BY <3>1, <3>2, <3>3
  <2>16. Ahead(r.pool, C \ {b})
    BY <1>4, <1>6, <2>6, <2>15 DEF Ahead
  <2> QED
    BY <2>14, <2>16
<1> QED
  BY <1>9, <1>10

\* A mover goes nowhere near the blocks D.
Clear(v, D) == \A d \in D : Room(v.to, v.handle) \cap Room(d.ptr, d.handle) = {}

\* What PlaceOne has got so far.
Shape(acc) == acc = [pool |-> acc.pool, movers |-> acc.movers, ok |-> acc.ok]

\* One block more is placed.
LEMMA OneAhead ==
  ASSUME NEW C, Sited(C), NEW b \in C, \A d \in C : b.ptr <= d.ptr,
         NEW acc, Shape(acc), Ahead(acc.pool, C),
         NEW r, r = PlaceOne(acc, b)
  PROVE  /\ Shape(r) /\ Ahead(r.pool, C \ {b})
         /\ \A v \in r.movers : \/ v \in acc.movers
                                \/ v.handle = b.handle /\ v.from = b.ptr /\ Clear(v, C \ {b})
<1>4. PICK q, m, k : q = acc.pool /\ m = acc.movers /\ k = acc.ok
  OBVIOUS
<1>5. acc = [pool |-> q, movers |-> m, ok |-> k]
  BY <1>4 DEF Shape
<1>1. PICK x : x = PoolAlloc(q, Size[b.handle], Stream[b.handle])
  OBVIOUS
<1>2. CASE ~acc.ok \/ x.ptr = Null
  <2>1. r = [acc EXCEPT !.ok = FALSE]
    BY <1>1, <1>2, <1>4 DEF PlaceOne
  <2>2. r = [pool |-> q, movers |-> m, ok |-> FALSE]
    BY <1>5, <2>1, NotOk
  <2>3. Ahead(q, C \ {b})
    BY <1>4 DEF Ahead
  <2>4. r.pool = q /\ r.movers = m
    BY <2>2
  <2>5. Shape(r)
    BY <2>2 DEF Shape
  <2> QED
    BY <1>4, <2>3, <2>4, <2>5
<1>3. CASE acc.ok /\ x.ptr /= Null
  <2>1. PICK w : w = [handle |-> b.handle, from |-> b.ptr, to |-> x.ptr]
    OBVIOUS
  <2>2. r = [pool |-> x.pool, movers |-> m \cup {w}, ok |-> TRUE]
    BY <1>1, <1>3, <1>4, <2>1 DEF PlaceOne
  <2>3. /\ Ahead(x.pool, C \ {b})
        /\ \A d \in C \ {b} : Room(x.ptr, b.handle) \cap Room(d.ptr, d.handle) = {}
    BY <1>1, <1>3, <1>4, AllocAhead
  <2>4. w.handle = b.handle /\ w.from = b.ptr /\ w.to = x.ptr
    BY <2>1
  <2>5. Clear(w, C \ {b})
    BY <2>3, <2>4 DEF Clear
  <2>6. r.pool = x.pool /\ r.movers = m \cup {w}
    BY <2>2
  <2>7. Shape(r)
    BY <2>2 DEF Shape
  <2> QED
    BY <1>4, <2>3, <2>4, <2>5, <2>6, <2>7
<1> QED
  BY <1>2, <1>3

\* Blocks whose memory was given back are placed from the lowest one upwards.
LEMMA PlaceAhead ==
  ASSUME NEW p, NEW B, Sited(B), Ahead(p, B), NEW r, r = Place(p, B)
  PROVE  \A v \in r.movers :
           /\ \E b \in B : v.handle = b.handle /\ v.from = b.ptr
           /\ Clear(v, {d \in B : v.from < d.ptr})
<1>1. PICK f : /\ r = f[PoolSize - 1] /\ f[0] = NoneYet(p)
               /\ \A a \in 1 .. PoolSize - 1 :
                    f[a] = IF a \in Sources(B) THEN PlaceOne(f[a - 1], BlockAt(B, a)) ELSE f[a - 1]
  BY PlaceSteps
<1> DEFINE High(a) == {b \in B : b.ptr > a}
           Fine(v) == /\ \E b \in B : v.handle = b.handle /\ v.from = b.ptr
                      /\ Clear(v, {d \in B : v.from < d.ptr})
           Good(acc, a) == /\ Shape(acc)
                           /\ Ahead(acc.pool, High(a)) /\ \A v \in acc.movers : Fine(v)
           S == {a \in 0 .. PoolSize - 1 : Good(f[a], a)}
<1>2. \A b \in B : b.ptr \in Nat /\ 1 <= b.ptr /\ b.ptr <= PoolSize - 1
  BY Sizes DEF Sited, Units, Null
<1>3. 0 \in S
  <2>1. High(0) = B
    BY <1>2
  <2>2. /\ f[0] = [pool |-> p, movers |-> {}, ok |-> TRUE]
        /\ f[0].pool = p /\ f[0].movers = {} /\ f[0].ok = TRUE
    BY <1>1 DEF NoneYet
  <2>3. Good(f[0], 0)
    BY <2>1, <2>2 DEF Shape
  <2> QED
    BY <2>3, Sizes
<1>4. ASSUME NEW a \in 1 .. PoolSize - 1, a - 1 \in S PROVE a \in S
  <2>1. Good(f[a - 1], a - 1)
    BY <1>4
  <2>2. a \in Nat /\ a \in 0 .. PoolSize - 1
    BY Sizes
  <2>3. CASE a \in Sources(B)
    <3>1. PICK b : b = BlockAt(B, a)
      OBVIOUS
    <3>2. b \in B /\ b.ptr = a
      BY <2>3, <3>1 DEF Sources, BlockAt
    <3>3. f[a] = PlaceOne(f[a - 1], b)
      BY <1>1, <2>3, <3>1
    <3>4. PICK C : C = High(a - 1)
      OBVIOUS
    <3>5. b \in C /\ \A d \in C : d \in B /\ b.ptr <= d.ptr
      BY <1>2, <2>2, <3>2, <3>4
    <3>6. Sited(C)
      <4>1. C \subseteq B
        BY <3>5
      <4> QED
        BY <4>1 DEF Sited
    <3>7. C \ {b} = High(a)
      <4>1. \A d \in B : d.ptr > a - 1 /\ d /= b <=> d.ptr > a
        BY <1>2, <2>2, <3>2 DEF Sited
      <4> QED
        BY <3>4, <4>1
    <3>8. PICK acc, s : acc = f[a - 1] /\ s = f[a]
      OBVIOUS
    <3> HIDE DEF High, Fine
    <3>9. /\ Shape(s) /\ Ahead(s.pool, C \ {b})
          /\ \A v \in s.movers : \/ v \in acc.movers
                                 \/ v.handle = b.handle /\ v.from = b.ptr /\ Clear(v, C \ {b})
      <4>1. Shape(acc) /\ Ahead(acc.pool, C)
        BY <2>1, <3>4, <3>8
      <4>2. s = PlaceOne(acc, b)
        BY <3>3, <3>8
      <4> QED
        BY <3>5, <3>6, <4>1, <4>2, OneAhead
    <3>10. ASSUME NEW v \in s.movers, v.handle = b.handle, v.from = b.ptr, Clear(v, C \ {b})
           PROVE  Fine(v)
      <4>1. {d \in B : v.from < d.ptr} \subseteq C \ {b}
        <5>1. ASSUME NEW d \in B, v.from < d.ptr PROVE d \in High(a)
          BY <1>2, <2>2, <3>2, <3>10, <5>1 DEF High
        <5> QED
          BY <3>7, <5>1
      <4>2. Clear(v, {d \in B : v.from < d.ptr})
        BY <3>10, <4>1 DEF Clear
      <4> QED
        BY <3>2, <3>10, <4>2 DEF Fine
    <3>11. \A v \in s.movers : Fine(v)
      BY <2>1, <3>8, <3>9, <3>10
    <3>12. Good(s, a)
      BY <3>7, <3>9, <3>11
    <3> QED
      BY <2>2, <3>8, <3>12
  <2>4. CASE a \notin Sources(B)
    <3>1. f[a] = f[a - 1]
      BY <1>1, <2>4
    <3>2. High(a) = High(a - 1)
      <4>1. \A b \in B : b.ptr /= a
        BY <2>4 DEF Sources
      <4>2. \A b \in B : b.ptr > a - 1 <=> b.ptr > a
        BY <1>2, <2>2, <4>1
      <4> QED
        BY <4>2
    <3> HIDE DEF High, Fine
    <3> QED
      BY <2>1, <2>2, <3>1, <3>2
  <2> QED
    BY <2>3, <2>4
<1>5. PoolSize - 1 \in S
  <2>1. PoolSize - 1 \in Nat
    BY Sizes
  <2>2. \A a \in 1 .. PoolSize - 1 : a - 1 \in S => a \in S
    BY <1>4
  <2> HIDE DEF S
  <2> QED
    BY <1>3, <2>1, <2>2, Upwards
<1>6. \A v \in f[PoolSize - 1].movers : Fine(v)
  BY <1>5
<1> QED
  BY <1>1, <1>6

-----------------------------------------------------------------------------
(* The region, when the memory of its tensors has been given back.            *)

\* Where blocks of a pool lie: one behind the other, in memory of their own.
Seated(p, B) ==
  /\ \A b \in B : b.handle \in Handles /\ HasMemory(p, b.ptr, b.handle)
  /\ \A b, c \in B : b.ptr = c.ptr => b = c

\* No memory between two of the blocks, behind the corner, is somebody else's.
Packed(p, B) ==
  \A b, d \in B : \A g \in GivenChunks(p.chunks) :
    SmallEnd <= d.ptr /\ d.ptr < g /\ g < b.ptr => g \in Sources(B)

\* A tensor with memory behind the corner has a chunk.
LEMMA SeatedChunk ==
  ASSUME NEW p, IsPool(p), NEW h \in Handles, NEW a, HasMemory(p, a, h)
  PROVE  /\ a \in Nat /\ a < SmallEnd => a \in p.small /\ Size[h] = 1 /\ Stream[h] = 0
         /\ a \in Nat /\ a >= SmallEnd => a \in GivenChunks(p.chunks) /\ p.chunks[a].size >= Size[h]
<1>1. p.small \subseteq 1 .. SmallEnd - 1 /\ SmallEnd \in Nat
      /\ \A x \in GivenChunks(p.chunks) : x \in SmallEnd .. PoolSize - 1
  BY GivenParts, Sizes DEF SmallEnd, SmallBase
<1> QED
  BY <1>1, Sizes DEF HasMemory

\* Such blocks lie within the pool.
LEMMA SeatedSited ==
  ASSUME NEW p, IsPool(p), NEW B, Seated(p, B)
  PROVE  Sited(B)
<1>1. ASSUME NEW b \in B
      PROVE  /\ b.handle \in Handles /\ b.ptr \in Units \ {Null}
             /\ b.ptr + Size[b.handle] <= PoolSize /\ b.ptr \in Nat
             /\ Size[b.handle] \in Nat \ {0}
  <2>1. b.handle \in Handles /\ HasMemory(p, b.ptr, b.handle)
    BY DEF Seated
  <2>2. b.ptr \in Units \ {Null} /\ b.ptr + Size[b.handle] <= PoolSize
    BY <2>1, RoomInSpan
  <2> QED
    BY <2>1, <2>2, Sizing, Sizes DEF Units
<1>2. ASSUME NEW b \in B, b.ptr < SmallEnd
      PROVE  Size[b.handle] = 1 /\ Stream[b.handle] = 0
  BY <1>1, <1>2, SeatedChunk DEF Seated
<1>3. ASSUME NEW b \in B, NEW c \in B, b.ptr < c.ptr
      PROVE  b.ptr + Size[b.handle] <= c.ptr
  <2>1. CASE b.ptr < SmallEnd
    BY <1>1, <1>2, <1>3, <2>1
  <2>2. CASE ~(b.ptr < SmallEnd)
    <3>1. SmallEnd \in Nat
      BY Sizes DEF SmallEnd, SmallBase
    <3>2. b.ptr >= SmallEnd /\ c.ptr >= SmallEnd
      BY <1>1, <1>3, <2>2, <3>1
    <3>3. /\ b.ptr \in DOMAIN p.chunks /\ c.ptr \in DOMAIN p.chunks
          /\ p.chunks[b.ptr].size >= Size[b.handle]
      BY <1>1, <3>2, SeatedChunk DEF Seated, GivenChunks
    <3>4. b.ptr + p.chunks[b.ptr].size <= c.ptr /\ p.chunks[b.ptr].size \in Nat
      BY <1>3, <3>3 DEF IsPool, Sound, Tiles, After
    <3> QED
      BY <1>1, <3>3, <3>4
  <2> QED
    BY <2>1, <2>2
<1> QED
  BY <1>1, <1>2, <1>3 DEF Sited, Seated

\* The chunk before one behind the corner.
LEMMA Before ==
  ASSUME NEW p, IsPool(p), NEW f \in DOMAIN p.chunks, ~p.chunks[f].used, f > SmallEnd
  PROVE  \E g \in GivenChunks(p.chunks) : g < f /\ After(p.chunks, g) = f
<1>1. Tiles(p.chunks) /\ Coalesced(p.chunks) /\ After(p.chunks, SmallBase) = SmallEnd
      /\ SmallBase \in DOMAIN p.chunks /\ SmallEnd \in Nat /\ SmallBase = 1
  BY GivenBehindCorner, Sizes DEF IsPool, Sound, SmallEnd, SmallBase
<1>2. PICK c : c = p.chunks
  OBVIOUS
<1>3. \A x \in DOMAIN c : /\ x \in Nat /\ x >= 1 /\ x < PoolSize /\ After(c, x) \in Nat /\ x < After(c, x)
                          /\ c[x].used \in BOOLEAN
                          /\ After(c, x) = PoolSize \/ After(c, x) \in DOMAIN c
  BY <1>1, <1>2, AfterBounds, Sizes DEF Tiles
<1> DEFINE D == {x \in DOMAIN c : x < f}
<1>4. PICK g \in D : \A y \in D : y <= g
  <2>1. D \in SUBSET (0 .. PoolSize) /\ D /= {}
    <3>1. 1 \in D
      BY <1>1, <1>2, <1>3
    <3>2. \A x \in D : x \in 0 .. PoolSize
      BY <1>3, Sizes
    <3> QED
      BY <3>1, <3>2
  <2> HIDE DEF D
  <2> QED
    BY <2>1, Largest
<1>5. g \in DOMAIN c /\ g < f /\ After(c, g) <= f
  BY <1>1, <1>2, <1>4 DEF Tiles
<1>6. After(c, g) = f
  <2>1. SUFFICES ASSUME After(c, g) < f PROVE FALSE
    BY <1>2, <1>3, <1>5
  <2>2. After(c, g) \in DOMAIN c
    BY <1>2, <1>3, <1>5, <2>1, Sizes
  <2>3. After(c, g) \in D
    BY <2>1, <2>2
  <2> QED
    BY <1>3, <1>4, <1>5, <2>3
<1>7. c[g].used
  <2>1. IsFree(c, f)
    BY <1>2 DEF IsFree
  <2> QED
    BY <1>1, <1>2, <1>3, <1>5, <1>6, <2>1 DEF Coalesced, IsFree
<1>8. g /= SmallBase
  BY <1>1, <1>2, <1>3, <1>6
<1> QED
  BY <1>2, <1>5, <1>6, <1>7, <1>8 DEF GivenChunks

\* The memory of the region has been given back: what is free there begins
\* before all of it.
LEMMA FreedAhead ==
  ASSUME NEW p, IsPool(p), NEW B, Seated(p, B), Packed(p, B),
         NEW q, Returned(p, Sources(B), q), q.exact = TRUE
  PROVE  Ahead(q, B)
<1>1. IsPool(q) /\ Given(q) = Given(p) \ Sources(B) /\ Keeps(p, q, Given(p) \ Sources(B))
  BY DEF Returned
<1>2. \A b \in B : b.ptr \in Sources(B)
  BY DEF Sources
<1>3. \A b \in B : b.ptr \notin q.small
  BY <1>1, <1>2 DEF Given
<1>4. ASSUME NEW b \in B, NEW d \in B, NEW f \in DOMAIN q.chunks, ~q.chunks[f].used,
             b.ptr >= SmallEnd, d.ptr >= SmallEnd, Meets(q.chunks, f, b), ~(f <= d.ptr)
      PROVE  FALSE
  <2>1. /\ b.ptr \in Nat /\ d.ptr \in Nat /\ b.handle \in Handles /\ Size[b.handle] \in Nat
        /\ b.ptr \in GivenChunks(p.chunks) /\ p.chunks[b.ptr].size >= Size[b.handle]
        /\ d.ptr \in GivenChunks(p.chunks)
    <3>1. \A x \in B : /\ x.handle \in Handles /\ HasMemory(p, x.ptr, x.handle)
                       /\ x.ptr \in Units \ {Null} /\ Size[x.handle] \in Nat
      BY RoomInSpan, Sizing DEF Seated
    <3>2. \A x \in B : x.ptr \in Nat
      BY <3>1, Sizes DEF Units
    <3> QED
      BY <1>4, <3>1, <3>2, SeatedChunk
  <2>2. /\ Tiles(p.chunks) /\ Tiles(q.chunks) /\ SmallEnd \in Nat
        /\ p.small \subseteq 1 .. SmallEnd - 1
    BY <1>1, GivenParts, Sizes DEF IsPool, Sound, SmallEnd, SmallBase
  <2>3. f \in Nat /\ f > SmallEnd /\ f > d.ptr
    BY <1>4, <2>1, <2>2, Sizes DEF Tiles
  <2>4. PICK g \in GivenChunks(q.chunks) : g < f /\ After(q.chunks, g) = f
    BY <1>1, <1>4, <2>3, Before
  <2>5. g \in Nat /\ g >= SmallEnd /\ g \in Given(q)
    BY <1>1, GivenBehindCorner DEF Given
  <2>6. g \in Given(p) \ Sources(B) /\ g \in GivenChunks(p.chunks)
    <3>1. g \in Given(p) \ Sources(B)
      BY <1>1, <2>5
    <3>2. g \notin p.small
      BY <2>2, <2>5
    <3> QED
      BY <3>1, <3>2 DEF Given
  <2>7. q.chunks[g] = p.chunks[g]
    BY <1>1, <2>6 DEF Keeps
  <2>8. After(p.chunks, g) = f
    BY <2>4, <2>7 DEF After
  <2>9. g \in DOMAIN p.chunks /\ b.ptr \in DOMAIN p.chunks /\ d.ptr \in DOMAIN p.chunks
    BY <2>1, <2>6 DEF GivenChunks
  <2>10. d.ptr < g
    <3>1. g /= d.ptr
      BY <1>2, <2>6
    <3>2. ~(g < d.ptr)
      BY <2>1, <2>2, <2>3, <2>8, <2>9 DEF Tiles
    <3> QED
      BY <2>1, <2>5, <3>1, <3>2
  <2>11. g < b.ptr
    <3>1. g /= b.ptr
      BY <1>2, <2>6
    <3>2. ~(b.ptr < g)
      <4>1. SUFFICES ASSUME b.ptr < g PROVE FALSE
        OBVIOUS
      <4>2. After(p.chunks, b.ptr) <= g
        BY <2>2, <2>9, <4>1 DEF Tiles
      <4>3. b.ptr + p.chunks[b.ptr].size <= g /\ p.chunks[b.ptr].size \in Nat
        BY <2>2, <2>9, <4>2 DEF After, Tiles
      <4>4. f < b.ptr + Size[b.handle]
        BY <1>4 DEF Meets
      <4> QED
        BY <2>1, <2>3, <2>4, <2>5, <4>3, <4>4
    <3> QED
      BY <2>1, <2>5, <3>1, <3>2
  <2>12. g \in Sources(B)
    BY <1>4, <2>6, <2>10, <2>11 DEF Packed
  <2> QED
    BY <2>6, <2>12
<1> QED
  BY <1>1, <1>3, <1>4 DEF Ahead

-----------------------------------------------------------------------------
(* The regions: between two tensors behind the corner that are moved without  *)
(* keeping their memory, everything is moved.                                 *)

\* What BlockSizes has summed up, address by address.
SizesUpTo(f, B, A, top) ==
  f = [a \in 0 .. top |-> IF a = 0 THEN 0 ELSE IF a \in A THEN f[a - 1] + B[a].size ELSE f[a - 1]]

\* The sums of BlockSizes are a function.
LEMMA SizesExist ==
  ASSUME NEW B, NEW A, NEW top \in Nat
  PROVE  \E f : SizesUpTo(f, B, A, top)
<1> DEFINE T == {n \in Nat : ~ \E f : SizesUpTo(f, B, A, n)}
<1>1. CASE T = {}
  BY <1>1
<1>2. CASE T /= {}
  <2>1. PICK n \in T : \A y \in T : ~(y < n)
    <3>1. T \subseteq Nat
      OBVIOUS
    <3> HIDE DEF T
    <3> QED
      BY <1>2, <3>1, Smallest
  <2>2. CASE n = 0
    <3> DEFINE f == [a \in 0 .. 0 |-> 0]
    <3>1. SizesUpTo(f, B, A, 0)
      BY DEF SizesUpTo
    <3> QED
      BY <2>2, <3>1
  <2>3. CASE n > 0
    <3>1. n - 1 \in Nat /\ n - 1 < n
      BY <2>3
    <3>2. PICK g : SizesUpTo(g, B, A, n - 1)
      BY <2>1, <3>1
    <3> DEFINE f == [a \in 0 .. n |-> IF a = n
                       THEN IF n \in A THEN g[n - 1] + B[n].size ELSE g[n - 1]
                       ELSE g[a]]
    <3>3. ASSUME NEW a \in 0 .. n
          PROVE  f[a] = IF a = 0 THEN 0
                        ELSE IF a \in A THEN f[a - 1] + B[a].size ELSE f[a - 1]
      <4>1. CASE a = n
        <5>1. f[n - 1] = g[n - 1]
          BY <3>1
        <5> QED
          BY <4>1, <5>1, <2>3
      <4>2. CASE a /= n
        <5>1. a \in 0 .. n - 1
          BY <4>2
        <5>2. g[a] = IF a = 0 THEN 0
                     ELSE IF a \in A THEN g[a - 1] + B[a].size ELSE g[a - 1]
          BY <3>2, <5>1 DEF SizesUpTo
        <5>3. a /= 0 => f[a - 1] = g[a - 1]
          BY <5>1
        <5>4. f[a] = g[a]
          BY <4>2
        <5> QED
          BY <5>2, <5>3, <5>4
      <4> QED
        BY <4>1, <4>2
    <3>4. SizesUpTo(f, B, A, n)
      BY <3>3 DEF SizesUpTo
    <3> QED
      BY <3>4, <2>1
  <2> QED
    BY <2>1, <2>2, <2>3
<1> QED
  BY <1>1, <1>2

\* The size of blocks is a number, zero if there are none.
LEMMA BlockSizesNat ==
  ASSUME NEW B, NEW A, \A a \in A : B[a].size \in Nat
  PROVE  BlockSizes(B, A) \in Nat /\ (A = {} => BlockSizes(B, A) = 0)
<1>1. PoolSize - 1 \in Nat
  BY Sizes
<1> DEFINE f == CHOOSE g : SizesUpTo(g, B, A, PoolSize - 1)
<1>2. SizesUpTo(f, B, A, PoolSize - 1)
  BY <1>1, SizesExist
<1>3. BlockSizes(B, A) = f[PoolSize - 1]
  BY DEF BlockSizes, Ascending, SizesUpTo, Units
<1> HIDE DEF f
<1>4. f[0] = 0
  BY <1>2, <1>1 DEF SizesUpTo
<1>5. ASSUME NEW a \in 1 .. PoolSize - 1
      PROVE  f[a] = IF a \in A THEN f[a - 1] + B[a].size ELSE f[a - 1]
  BY <1>2, <1>1 DEF SizesUpTo
<1> DEFINE S == {a \in 0 .. PoolSize - 1 : f[a] \in Nat /\ (A = {} => f[a] = 0)}
<1>6. 0 \in S
  BY <1>1, <1>4
<1>7. ASSUME NEW a \in 1 .. PoolSize - 1, a - 1 \in S PROVE a \in S
  <2>1. f[a - 1] \in Nat /\ (A = {} => f[a - 1] = 0)
    BY <1>7
  <2>2. a \in 0 .. PoolSize - 1
    BY Sizes
  <2>3. CASE a \in A
    <3>1. f[a] = f[a - 1] + B[a].size /\ B[a].size \in Nat
      BY <1>5, <2>3
    <3> QED
      BY <2>1, <2>2, <2>3, <3>1
  <2>4. CASE a \notin A
    <3>1. f[a] = f[a - 1]
      BY <1>5, <2>4
    <3> QED
      BY <2>1, <2>2, <3>1
  <2> QED
    BY <2>3, <2>4
<1>8. PoolSize - 1 \in S
  <2>1. \A a \in 1 .. PoolSize - 1 : a - 1 \in S => a \in S
    BY <1>7
  <2> HIDE DEF S
  <2> QED
    BY <1>1, <1>6, <2>1, Upwards
<1> QED
  BY <1>3, <1>8

\* Blocks of memory by their addresses.
Mapped(B) ==
  /\ DOMAIN B \in SUBSET (0 .. PoolSize) /\ DOMAIN B /= {}
  /\ \A a \in DOMAIN B : B[a].size \in Nat /\ B[a].ptr = a

\* A region in which nothing behind the corner is fixed.
Unfixed(B, i, j) == \A a \in DOMAIN B : SmallEnd <= a /\ i <= a /\ a <= j => B[a].state /= "fixed"

\* All that is in use in such a region, or nothing.
Region(B, r) ==
  \/ r = NotFound
  \/ \E i, j \in Int : Unfixed(B, i, j) /\ r = Found(InUseBlocks(B, i, j), FALSE)

\* The size of the blocks in some states, from one address to another.
LEMMA MapTotal ==
  ASSUME NEW B, Mapped(B), NEW states, NEW i, NEW j
  PROVE  Total(B, states, i, j) \in Nat
<1>1. PICK A : A = {a \in (DOMAIN B) \cap (i .. j) : B[a].state \in states}
  OBVIOUS
<1>2. \A a \in A : B[a].size \in Nat
  BY <1>1 DEF Mapped
<1>3. BlockSizes(B, A) \in Nat
  BY <1>2, BlockSizesNat
<1> QED
  BY <1>1, <1>3 DEF Total

\* The region with the least memory in use, the first of those.
LEMMA ResourceRegion ==
  ASSUME NEW B, Mapped(B), NEW n, NEW window
  PROVE  Region(B, SelectForResource(B, n, window))
<1> DEFINE Regions ==
             {r \in (DOMAIN B) \X (DOMAIN B) :
                /\ r[1] <= r[2] /\ B[r[1]].state = "free"
                /\ \A a \in (DOMAIN B) \cap (r[1] .. r[2]) : a \in window /\ B[a].state /= "fixed"
                /\ FreeMemory(B, r[1], r[2]) >= n
                /\ FreeMemory(B, r[1], r[2] - 1) < n}
           cost(r) == Total(B, {"in_use"}, r[1], r[2])
           best == CHOOSE r \in Regions : \A q \in Regions :
                     \/ cost(r) < cost(q)
                     \/ cost(r) = cost(q) /\ r[1] <= q[1]
<1>1. SelectForResource(B, n, window) =
        IF Regions = {} THEN NotFound ELSE Found(InUseBlocks(B, best[1], best[2]), FALSE)
  BY DEF SelectForResource
<1>2. \A r \in Regions : /\ r[1] \in DOMAIN B /\ r[2] \in DOMAIN B
                         /\ \A a \in (DOMAIN B) \cap (r[1] .. r[2]) : B[a].state /= "fixed"
  OBVIOUS
<1>3. \A r \in Regions : cost(r) \in Nat
  BY MapTotal
<1>4. DOMAIN B \subseteq Nat
  BY Sizes DEF Mapped
<1> HIDE DEF Regions, cost
<1>5. CASE Regions /= {}
  <2> DEFINE S == {s \in Nat : \E r \in Regions : cost(r) = s}
  <2>1. S \subseteq Nat /\ S /= {}
    BY <1>3, <1>5
  <2>2. PICK s \in S : \A y \in S : ~(y < s)
    <3> HIDE DEF S
    <3> QED
      BY <2>1, Smallest
  <2>3. \A q \in Regions : ~(cost(q) < s)
    BY <1>3, <2>2
  <2> DEFINE L == {a \in Nat : \E r \in Regions : cost(r) = s /\ r[1] = a}
  <2>4. L \subseteq Nat /\ L /= {}
    BY <1>2, <1>4, <2>2
  <2>5. PICK a \in L : \A b \in L : ~(b < a)
    <3> HIDE DEF L
    <3> QED
      BY <2>4, Smallest
  <2>6. PICK r \in Regions : cost(r) = s /\ r[1] = a
    BY <2>5
  <2>7. ASSUME NEW q \in Regions
        PROVE  cost(r) < cost(q) \/ (cost(r) = cost(q) /\ r[1] <= q[1])
    <3>1. cost(q) \in Nat /\ s \in Nat /\ a \in Nat /\ q[1] \in Nat
      BY <1>2, <1>3, <1>4, <2>2, <2>5
    <3>2. CASE cost(q) = s
      <4>1. q[1] \in L
        BY <3>1, <3>2
      <4> QED
        BY <2>5, <2>6, <3>1, <3>2, <4>1
    <3>3. CASE cost(q) /= s
      BY <2>3, <2>6, <3>1, <3>3
    <3> QED
      BY <3>2, <3>3
  <2>8. best \in Regions
    BY <2>7
  <2> HIDE DEF best
  <2>9. PICK i, j : i = best[1] /\ j = best[2]
    OBVIOUS
  <2>10. i \in DOMAIN B /\ j \in DOMAIN B /\ \A x \in (DOMAIN B) \cap (i .. j) : B[x].state /= "fixed"
    BY <1>2, <2>8, <2>9
  <2>11. i \in Int /\ j \in Int /\ Unfixed(B, i, j)
    BY <1>4, <2>10 DEF Unfixed
  <2> QED
    BY <1>1, <1>5, <2>9, <2>11 DEF Region
<1> QED
  BY <1>1, <1>5 DEF Region

\* A set of addresses has a maximum,
LEMMA Highest ==
  ASSUME NEW T \in SUBSET (0 .. PoolSize), T /= {}
  PROVE  Max(T) \in T /\ \A y \in T : y <= Max(T)
<1>1. PICK x \in T : \A y \in T : y <= x
  BY Largest
<1>2. \A y \in T : x >= y
  <2>1. T \subseteq Nat
    BY Sizes
  <2> QED
    BY <1>1, <2>1
<1>3. Max(T) \in T /\ \A y \in T : Max(T) >= y
  BY <1>2 DEF Max
<1>4. T \subseteq Nat
  BY Sizes
<1> QED
  BY <1>3, <1>4

\* ... and a minimum.
LEMMA Lowest ==
  ASSUME NEW T \in SUBSET Nat, T /= {}
  PROVE  Min(T) \in T /\ \A y \in T : Min(T) <= y
<1>1. PICK x \in T : \A y \in T : ~(y < x)
  BY Smallest
<1>2. \A y \in T : x <= y
  BY <1>1
<1> QED
  BY <1>2 DEF Min

\* The region before the workspace: it starts behind all that is fixed.
LEMMA WorkspaceRegion ==
  ASSUME NEW B, Mapped(B), NEW ext \in Int, ext > 0
  PROVE  Region(B, SelectForWorkspace(B, ext))
<1> DEFINE last    == Max(DOMAIN B) - 1
           before  == (DOMAIN B) \cap (SmallBase .. last)
           barrier == {a \in before : B[a].state = "fixed" /\ a >= SmallEnd}
           clear   == {a \in before : a >= SmallEnd /\ \A x \in barrier : x < a}
           starts  == {a \in before : B[a].state = "free" /\ FreeMemory(B, a, last) >= ext}
           open    == {a \in clear : B[a].state = "free"}
<1>1. SelectForWorkspace(B, ext) =
        IF BlockSizes(B, open) < ext THEN NotFound ELSE Found(InUseBlocks(B, Max(starts), last), FALSE)
  BY DEF SelectForWorkspace
<1>2. /\ DOMAIN B \in SUBSET (0 .. PoolSize) /\ DOMAIN B \subseteq Nat
      /\ last \in Int /\ SmallBase = 1 /\ SmallEnd \in Nat /\ SmallEnd > 1
  <2>1. DOMAIN B \in SUBSET (0 .. PoolSize) /\ DOMAIN B \subseteq Nat /\ DOMAIN B /= {}
    BY Sizes DEF Mapped
  <2>2. Max(DOMAIN B) \in DOMAIN B
    BY <2>1, Highest
  <2> QED
    BY <2>1, <2>2, Sizes DEF SmallBase, SmallEnd
<1> HIDE DEF last
<1>3. CASE ~(BlockSizes(B, open) < ext)
  <2>1. BlockSizes(B, open) \in Nat /\ (open = {} => BlockSizes(B, open) = 0)
    <3>1. PICK A : A = open
      OBVIOUS
    <3>2. \A a \in A : B[a].size \in Nat
      BY <3>1 DEF Mapped
    <3>3. BlockSizes(B, A) \in Nat /\ (A = {} => BlockSizes(B, A) = 0)
      BY <3>2, BlockSizesNat
    <3> QED
      BY <3>1, <3>3
  <2>2. open /= {} /\ open \in SUBSET Nat
    BY <1>2, <1>3, <2>1
  <2>3. PICK low \in open : \A a \in open : ~(a < low)
    <3> HIDE DEF open
    <3> QED
      BY <2>2, Smallest
  <2>4. /\ low \in before /\ low >= SmallEnd /\ B[low].state = "free" /\ low \in Nat
        /\ \A x \in barrier : x < low
    BY <1>2, <2>3
  <2>5. {a \in (DOMAIN B) \cap (low .. last) : B[a].state \in {"free"}} = open
    <3>1. ASSUME NEW a \in DOMAIN B, a \in low .. last, B[a].state = "free" PROVE a \in open
      BY <1>2, <2>4, <3>1
    <3>2. ASSUME NEW a \in open PROVE a \in DOMAIN B /\ a \in low .. last /\ B[a].state = "free"
      BY <1>2, <2>3, <2>4
    <3> QED
      BY <3>1, <3>2
  <2>6. FreeMemory(B, low, last) = BlockSizes(B, open)
    BY <2>5 DEF FreeMemory, Total
  <2>7. low \in starts
    BY <1>3, <2>1, <2>4, <2>6
  <2>8. Max(starts) \in starts /\ low <= Max(starts)
    <3>1. PICK T : T = starts
      OBVIOUS
    <3>2. T \in SUBSET (0 .. PoolSize) /\ low \in T
      BY <1>2, <2>7, <3>1
    <3>3. Max(T) \in T /\ low <= Max(T)
      BY <3>2, Highest
    <3> QED
      BY <3>1, <3>3
  <2>9. PICK i : i = Max(starts)
    OBVIOUS
  <2>10. i \in Nat /\ low <= i
    BY <1>2, <2>8, <2>9
  <2>11. ASSUME NEW a \in DOMAIN B, SmallEnd <= a, i <= a, a <= last PROVE B[a].state /= "fixed"
    <3>1. a \in before
      BY <1>2, <2>11
    <3> QED
      BY <1>2, <2>4, <2>10, <2>11, <3>1
  <2>12. Unfixed(B, i, last)
    BY <2>11 DEF Unfixed
  <2>13. PICK j : j = last
    OBVIOUS
  <2>14. SelectForWorkspace(B, ext) = Found(InUseBlocks(B, i, j), FALSE)
    BY <1>1, <1>3, <2>9, <2>13
  <2>15. i \in Int /\ j \in Int /\ Unfixed(B, i, j)
    BY <1>2, <2>10, <2>12, <2>13
  <2> QED
    BY <2>14, <2>15 DEF Region
<1> QED
  BY <1>1, <1>3 DEF Region

\* Movers that do not keep their memory are a region, or there are none.
LEMMA RunRegion ==
  ASSUME NEW B, Mapped(B), NEW n \in Int, NEW grow, NEW r, r = Run(B, n, grow), ~r.first
  PROVE  Region(B, r) \/ r.movers = {}
<1> DEFINE ext == n - B[Max(DOMAIN B)].size
<1>1. ext \in Int
  <2>1. Max(DOMAIN B) \in DOMAIN B
    BY Highest DEF Mapped
  <2>2. B[Max(DOMAIN B)].size \in Int
    BY <2>1 DEF Mapped
  <2> QED
    BY <2>2
<1> HIDE DEF ext
<1>2. \/ \E w : r = SelectForResource(B, n, w)
      \/ ~(ext <= 0) /\ (r = SelectForWorkspace(B, ext) \/ r = SelectForWorkspaceV2(B, ext))
      \/ r = Found({}, FALSE)
  BY Zenon DEF Run, ext
<1>3. CASE r = SelectForWorkspaceV2(B, ext)
  <2>1. r = NotFound \/ \E i, j : r = Found(InUseBlocks(B, i, j), TRUE)
    BY <1>3, Zenon DEF SelectForWorkspaceV2
  <2> QED
    BY <2>1 DEF NotFound, Found
<1>4. CASE ~(ext <= 0) /\ r = SelectForWorkspace(B, ext)
  <2>1. ext > 0
    BY <1>1, <1>4
  <2> QED
    BY <1>1, <1>4, <2>1, WorkspaceRegion
<1>5. CASE r = Found({}, FALSE)
  BY <1>5 DEF Found
<1> QED
  BY <1>2, <1>3, <1>4, <1>5, ResourceRegion

-----------------------------------------------------------------------------
(* The memory map against the pool.                                           *)

\* The blocks that are not free: within the pool, below the top or at the top.
LEMMA OccupiedBlocks ==
  ASSUME TableOK, TableMatch(pool, AddressOf, {}), NEW b \in Occupied
  PROVE  /\ b.ptr \in 1 .. PoolSize - 1 /\ b.size \in Nat \ {0} /\ b.state \in {"in_use", "fixed"}
         /\ b.ptr + b.size <= Top(pool.chunks) \/ b.ptr + b.size = PoolSize
<1>1. PICK p, c, top : p = pool /\ c = pool.chunks /\ top = Top(pool.chunks)
  OBVIOUS
<1>2. IsPool(p) /\ Tiles(c) /\ top = Top(c) /\ c = p.chunks
  BY <1>1 DEF TableOK, IsPool, Sound
<1>3. top \in DOMAIN c /\ After(c, top) = PoolSize /\ top \in 1 .. PoolSize - 1 /\ top >= SmallEnd
      /\ c[top].size \in Nat \ {0} /\ SmallEnd \in Nat
  BY <1>2, TopChunk, AfterBounds, GivenParts, Sizes DEF SmallEnd, SmallBase
<1>4. CASE b = Block(top, c[top].size, "fixed", None)
  <2>1. b.ptr = top /\ b.size = c[top].size /\ b.state = "fixed"
    BY <1>4 DEF Block
  <2> QED
    BY <1>3, <2>1 DEF After
<1>5. ASSUME NEW h \in Handles, table[h].ptr \notin {Null, top},
             b = Block(table[h].ptr, AllocatedSize(pool, table[h].ptr), State(h), h)
      PROVE  /\ b.ptr \in 1 .. PoolSize - 1 /\ b.size \in Nat \ {0} /\ b.state \in {"in_use", "fixed"}
             /\ b.ptr + b.size <= top
  <2>1. PICK a : a = table[h].ptr
    OBVIOUS
  <2>2. HasMemory(p, a, h) /\ a /= top
    BY <1>1, <1>5, <2>1 DEF TableMatch, Matches, AddressOf
  <2>3. b.ptr = a /\ b.size = AllocatedSize(p, a) /\ b.state = State(h)
    BY <1>1, <1>5, <2>1 DEF Block
  <2>4. b.state \in {"in_use", "fixed"}
    BY <2>3 DEF State
  <2>5. a \in Units \ {Null}
    BY <1>2, <2>2, RoomInSpan
  <2>6. a \in 1 .. PoolSize - 1
    BY <2>5, Sizes DEF Units, Null
  <2>7. CASE a \in p.small
    <3>1. b.size = 1 /\ a < SmallEnd
      BY <1>2, <1>3, <2>3, <2>6, <2>7, GivenParts DEF AllocatedSize
    <3> QED
      BY <1>3, <2>3, <2>4, <2>6, <3>1
  <2>8. CASE a \notin p.small
    <3>1. a \in DOMAIN c /\ b.size = c[a].size
      BY <1>2, <2>2, <2>3, <2>8 DEF HasMemory, AllocatedSize, GivenChunks
    <3>2. a <= top
      BY <1>2, <3>1, TopChunk
    <3>3. a < top
      BY <1>3, <2>2, <2>6, <3>2
    <3>4. a + c[a].size <= top /\ c[a].size \in Nat \ {0}
      BY <1>2, <1>3, <3>1, <3>3 DEF Tiles, After
    <3> QED
      BY <2>3, <2>4, <2>6, <3>1, <3>4
  <2> QED
    BY <2>7, <2>8
<1>6. \/ b = Block(top, c[top].size, "fixed", None)
      \/ \E h \in Handles : table[h].ptr \notin {Null, top}
                            /\ b = Block(table[h].ptr, AllocatedSize(pool, table[h].ptr), State(h), h)
  BY <1>1 DEF Occupied
<1> QED
  BY <1>1, <1>4, <1>5, <1>6

\* The blocks that are free: within the pool, and nothing else begins there.
LEMMA GapBlocks ==
  ASSUME TableOK, TableMatch(pool, AddressOf, {}), NEW x \in Gaps
  PROVE  x.ptr \in 1 .. PoolSize - 1 /\ x.size \in Nat /\ x.ptr \notin {b.ptr : b \in Occupied}
<1> DEFINE starts  == {b.ptr : b \in Occupied}
           ends    == {SmallBase} \cup {b.ptr + b.size : b \in Occupied}
           open    == {e \in ends \ starts : e < PoolSize}
           next(e) == Min({a \in starts : a > e})
           first   == {e \in open : e = SmallBase}
           cut     == {e \in open \ first : e < SmallEnd /\ SmallEnd < next(e)}
<1>1. PICK top : top = Top(pool.chunks)
  OBVIOUS
<1>2. /\ top \in 1 .. PoolSize - 1 /\ top >= SmallEnd /\ SmallEnd \in Nat /\ SmallBase = 1 /\ SmallEnd > 1
  BY <1>1, GivenParts, TopChunk, AfterBounds, Sizes DEF TableOK, IsPool, Sound, SmallEnd, SmallBase
<1>3. top \in starts
  <2>1. PICK t : t = Block(top, pool.chunks[top].size, "fixed", None)
    OBVIOUS
  <2>2. t \in Occupied /\ t.ptr = top
    BY <1>1, <2>1 DEF Occupied, Block
  <2> QED
    BY <2>2
<1>4. starts \subseteq 1 .. PoolSize - 1
  BY OccupiedBlocks
<1>5. \A e \in open : e \in 1 .. PoolSize - 1 /\ e < top /\ e \notin starts
  <2>1. TAKE e \in open
  <2>2. e \in ends /\ e \notin starts /\ e < PoolSize
    OBVIOUS
  <2>3. CASE e = SmallBase
    BY <1>2, <1>3, <2>2, <2>3, Sizes
  <2>4. ASSUME NEW b \in Occupied, e = b.ptr + b.size PROVE e \in 1 .. PoolSize - 1 /\ e < top
    <3>1. /\ b.ptr \in 1 .. PoolSize - 1 /\ b.size \in Nat \ {0}
          /\ b.ptr + b.size <= top \/ b.ptr + b.size = PoolSize
      BY <1>1, OccupiedBlocks
    <3>2. e /= top
      BY <1>3, <2>2
    <3> QED
      BY <1>2, <2>2, <2>4, <3>1, <3>2, Sizes
  <2> QED
    BY <2>2, <2>3, <2>4
<1> HIDE DEF starts, open
<1>6. ASSUME NEW e, e \in Nat, e < top
      PROVE  next(e) \in starts /\ e < next(e) /\ next(e) \in Nat /\ \A a \in starts : a > e => next(e) <= a
  <2>1. PICK T : T = {a \in starts : a > e}
    OBVIOUS
  <2>2. T \in SUBSET Nat /\ top \in T
    <3>1. \A a \in starts : a \in Nat
      BY <1>4, Sizes
    <3>2. top > e
      BY <1>2, <1>6, Sizes
    <3> QED
      BY <1>3, <2>1, <3>1, <3>2
  <2>3. Min(T) \in T /\ \A y \in T : Min(T) <= y
    BY <2>2, Lowest
  <2> QED
    BY <1>4, <1>6, <2>1, <2>2, <2>3
<1> HIDE DEF next
<1>7. \A e \in open : e \in Nat
  BY <1>5, Sizes
<1>8. \A e \in cut : /\ e \in open /\ e < SmallEnd /\ SmallEnd < next(e)
                     /\ SmallEnd \notin starts /\ SmallEnd < top
  <2>1. TAKE e \in cut
  <2>2. e \in open /\ e < SmallEnd /\ SmallEnd < next(e)
    OBVIOUS
  <2>3. next(e) \in Nat /\ \A a \in starts : a > e => next(e) <= a
    BY <1>5, <1>6, <1>7, <2>2
  <2>4. SmallEnd \notin starts
    BY <1>2, <1>7, <2>2, <2>3
  <2>5. SmallEnd /= top
    BY <1>3, <2>4
  <2> QED
    BY <1>2, <2>2, <2>4, <2>5
<1>9. \/ \E e \in open : x = Block(e, next(e) - e, "free", None)
      \/ \E e \in cut : x = Block(e, SmallEnd - e, "free", None)
      \/ \E e \in cut : x = Block(SmallEnd, next(e) - SmallEnd, "free", None)
  BY DEF Gaps, next, open, starts
<1> HIDE DEF cut
<1>10. ASSUME NEW e, NEW n \in Nat, e \in 1 .. PoolSize - 1, e \notin starts, x = Block(e, n, "free", None)
       PROVE  x.ptr \in 1 .. PoolSize - 1 /\ x.size \in Nat /\ x.ptr \notin starts
  <2>1. x.ptr = e /\ x.size = n
    BY <1>10 DEF Block
  <2> QED
    BY <1>10, <2>1
<1>11. ASSUME NEW e \in open, x = Block(e, next(e) - e, "free", None)
       PROVE  x.ptr \in 1 .. PoolSize - 1 /\ x.size \in Nat /\ x.ptr \notin starts
  <2>1. next(e) - e \in Nat
    BY <1>5, <1>6, <1>7
  <2> QED
    BY <1>5, <1>10, <1>11, <2>1
<1>12. ASSUME NEW e \in cut, x = Block(e, SmallEnd - e, "free", None)
       PROVE  x.ptr \in 1 .. PoolSize - 1 /\ x.size \in Nat /\ x.ptr \notin starts
  <2>1. SmallEnd - e \in Nat
    BY <1>2, <1>7, <1>8
  <2> QED
    BY <1>5, <1>8, <1>10, <1>12, <2>1
<1>13. ASSUME NEW e \in cut, x = Block(SmallEnd, next(e) - SmallEnd, "free", None)
       PROVE  x.ptr \in 1 .. PoolSize - 1 /\ x.size \in Nat /\ x.ptr \notin starts
  <2>1. next(e) \in Nat
    BY <1>5, <1>6, <1>7, <1>8
  <2>2. next(e) - SmallEnd \in Nat
    BY <1>2, <1>8, <2>1
  <2>3. SmallEnd \in 1 .. PoolSize - 1
    BY <1>2, <1>8, Sizes
  <2> QED
    BY <1>8, <1>10, <1>13, <2>2, <2>3
<1> QED
  BY <1>9, <1>11, <1>12, <1>13 DEF starts

\* The blocks of the map lie where they say, and what a tensor has is not free.
LEMMA MapOfPool ==
  ASSUME TableOK, TableMatch(pool, AddressOf, {})
  PROVE  /\ Mapped(MemoryMap)
         /\ \A g \in GivenChunks(pool.chunks) : g /= Top(pool.chunks) =>
              g \in DOMAIN MemoryMap /\ MemoryMap[g].state \in {"in_use", "fixed"}
<1> DEFINE blocks == Occupied \cup Gaps
<1>1. ASSUME NEW b \in blocks PROVE b.ptr \in 1 .. PoolSize - 1 /\ b.size \in Nat
  BY OccupiedBlocks, GapBlocks
<1>2. DOMAIN MemoryMap = {b.ptr : b \in blocks}
  BY DEF MemoryMap
<1>3. ASSUME NEW a \in DOMAIN MemoryMap
      PROVE  MemoryMap[a] \in blocks /\ MemoryMap[a].ptr = a
  <2>1. MemoryMap[a] = CHOOSE b \in blocks : b.ptr = a
    BY <1>2, <1>3 DEF MemoryMap
  <2>2. \E b \in blocks : b.ptr = a
    BY <1>2
  <2> HIDE DEF blocks
  <2> QED
    BY <2>1, <2>2
<1>4. PICK top : top = Top(pool.chunks)
  OBVIOUS
<1>5. Block(top, pool.chunks[top].size, "fixed", None) \in blocks
  BY <1>4 DEF Occupied
<1>6. Mapped(MemoryMap)
  <2>1. \A a \in DOMAIN MemoryMap : MemoryMap[a].size \in Nat /\ MemoryMap[a].ptr = a
    BY <1>1, <1>3
  <2>2. DOMAIN MemoryMap \in SUBSET (0 .. PoolSize)
    <3>1. \A a \in DOMAIN MemoryMap : a \in 1 .. PoolSize - 1
      BY <1>1, <1>3
    <3> QED
      BY <3>1, Sizes
  <2>3. DOMAIN MemoryMap /= {}
    BY <1>2, <1>5
  <2> QED
    BY <2>1, <2>2, <2>3 DEF Mapped
<1>7. ASSUME NEW g \in GivenChunks(pool.chunks), g /= top
      PROVE  g \in DOMAIN MemoryMap /\ MemoryMap[g].state \in {"in_use", "fixed"}
  <2>1. g \in Given(pool)
    BY DEF Given
  <2>2. PICK h \in Handles : table[h].ptr = g /\ g /= Null
    BY <1>4, <1>7, <2>1 DEF TableMatch, Matches, Addresses, AddressOf
  <2>3. PICK o : o = Block(g, AllocatedSize(pool, g), State(h), h)
    OBVIOUS
  <2>4. o \in Occupied /\ o.ptr = g
    BY <1>4, <1>7, <2>2, <2>3 DEF Occupied, Block
  <2>5. g \in DOMAIN MemoryMap
    BY <1>2, <2>4
  <2>6. MemoryMap[g] \notin Gaps
    BY <1>3, <2>4, <2>5, GapBlocks
  <2>7. MemoryMap[g] \in Occupied
    BY <1>3, <2>5, <2>6
  <2> QED
    BY <2>5, <2>7, OccupiedBlocks
<1> QED
  BY <1>4, <1>6, <1>7

\* The movers of a plan that does not keep their memory are packed.
LEMMA PlanPacked ==
  ASSUME TableOK, TableMatch(pool, AddressOf, {}), NEW n \in Int, NEW grow,
         NEW plan, plan = Run(MemoryMap, n, grow), ~plan.first
  PROVE  Packed(pool, plan.movers)
<1>1. PICK B : B = MemoryMap
  OBVIOUS
<1>2. /\ Mapped(B)
      /\ \A g \in GivenChunks(pool.chunks) : g /= Top(pool.chunks) =>
           g \in DOMAIN B /\ B[g].state \in {"in_use", "fixed"}
  BY <1>1, MapOfPool
<1>3. Region(B, plan) \/ plan.movers = {}
  BY <1>1, <1>2, RunRegion
<1>4. CASE plan.movers = {}
  BY <1>4 DEF Packed
<1>5. CASE plan = NotFound
  BY <1>5 DEF Packed, NotFound
<1>6. ASSUME NEW i \in Int, NEW j \in Int, Unfixed(B, i, j), plan = Found(InUseBlocks(B, i, j), FALSE)
      PROVE  Packed(pool, plan.movers)
  <2>1. plan.movers = InUseBlocks(B, i, j)
    BY <1>6 DEF Found
  <2>2. \A b \in plan.movers : b.ptr \in DOMAIN B /\ b.ptr \in i .. j
    BY <1>2, <2>1 DEF InUseBlocks, Mapped
  <2>3. ASSUME NEW b \in plan.movers, NEW d \in plan.movers, NEW g \in GivenChunks(pool.chunks),
               SmallEnd <= d.ptr, d.ptr < g, g < b.ptr
        PROVE  g \in Sources(plan.movers)
    <3>1. \A x \in plan.movers : TensorBlock(x)
      BY PlanBlocks
    <3>2. b.ptr \in Units /\ b.ptr /= Null /\ b.ptr /= Top(pool.chunks)
      BY <3>1 DEF TensorBlock, TableOK
    <3>3. /\ SmallEnd \in Nat /\ g \in Nat /\ b.ptr \in Nat /\ d.ptr \in Nat /\ g >= SmallEnd
      BY <1>2, <2>2, GivenBehindCorner, Sizes DEF TableOK, SmallEnd, SmallBase, Mapped
    <3>4. b.ptr \in DOMAIN pool.chunks
      <4>1. HasMemory(pool, b.ptr, b.handle) /\ b.handle \in Handles
        BY <3>1, <3>2 DEF TensorBlock, TableMatch, Matches, AddressOf
      <4>2. b.ptr \in GivenChunks(pool.chunks)
        BY <2>3, <3>3, <4>1, SeatedChunk DEF TableOK
      <4> QED
        BY <4>2 DEF GivenChunks
    <3>5. g /= Top(pool.chunks)
      <4>1. b.ptr <= Top(pool.chunks)
        BY <3>4, TopChunk DEF TableOK, IsPool, Sound
      <4> QED
        BY <2>3, <3>3, <4>1
    <3>6. g \in DOMAIN B /\ B[g].state \in {"in_use", "fixed"} /\ B[g].ptr = g
      BY <1>2, <3>5 DEF Mapped
    <3>7. i <= g /\ g <= j
      BY <2>2, <2>3, <3>3
    <3>8. B[g].state = "in_use"
      BY <1>6, <3>3, <3>6, <3>7 DEF Unfixed
    <3>9. B[g] \in plan.movers
      BY <2>1, <3>3, <3>6, <3>7, <3>8 DEF InUseBlocks
    <3> QED
      BY <3>6, <3>9 DEF Sources
  <2> QED
    BY <2>3 DEF Packed
<1> QED
  BY <1>3, <1>4, <1>5, <1>6 DEF Region

\* The movers of a defragmentation are copied in order, whether they give their
\* old memory back before or afterwards.
LEMMA MovedInOrder ==
  ASSUME TableOK, TableMatch(pool, AddressOf, {}), NEW n \in Int, NEW grow,
         NEW plan, plan = Run(MemoryMap, n, grow), NEW B, B = plan.movers,
         NEW p, p = [pool EXCEPT !.exact = TRUE],
         NEW r, r = Place(IF plan.first THEN p ELSE Deallocate(p, Sources(B)), B)
  PROVE  InOrder(r.movers)
<1>1. /\ IsPool(p) /\ p.exact = TRUE /\ p.small = pool.small /\ p.chunks = pool.chunks
      /\ p.high = pool.high /\ p.high \in BOOLEAN
  <2>1. PICK q : q = pool
    OBVIOUS
  <2>2. IsPool(q) /\ q.high \in BOOLEAN /\ p = [q EXCEPT !.exact = TRUE]
    BY <2>1 DEF TableOK
  <2>3. IsPool(p) /\ p.exact = TRUE /\ p.small = q.small /\ p.chunks = q.chunks /\ p.high = q.high
    BY <2>2, ExactPool
  <2> QED
    BY <2>1, <2>2, <2>3
<1>2. /\ plan.first \in BOOLEAN /\ \A b \in B : TensorBlock(b)
      /\ \A b, c \in B : b.ptr = c.ptr => b = c
  BY PlanBlocks
<1>3. PICK at, l : at = LeftBehind(B) /\ l = Sources(B)
  OBVIOUS
<1>4. /\ Leaving(at, B) /\ TableMatch(p, at, l)
      /\ \A b \in B : HasMemory(p, b.ptr, b.handle)
  BY <1>1, <1>2, <1>3, BlocksLeave
<1>5. at = [h \in Handles |-> at[h]]
  BY <1>3 DEF LeftBehind
<1>6. \A b \in B : b.handle \in Handles /\ b.ptr \in l
  BY <1>2, <1>3 DEF TensorBlock, Sources
<1>7. CASE plan.first
  <2>1. r = Place(p, B)
    BY <1>7
  <2>2. Placed(p, at, l, B, r)
    BY <1>1, <1>4, <1>5, <2>1, PlaceResettles
  <2> QED
    BY <1>1, <1>4, <1>6, <2>2, FirstInOrder
<1>8. CASE ~plan.first
  <2>1. PICK q : q = Deallocate(p, l)
    OBVIOUS
  <2>2. Returned(p, l, q)
    <3>1. l \in SUBSET l
      OBVIOUS
    <3>2. Settled(p, at, l, l, q)
      BY <1>1, <1>4, <2>1, <3>1, DeallocateSettles
    <3> QED
      BY <3>2 DEF Settled
  <2>3. Seated(p, B)
    BY <1>2, <1>4, <1>6 DEF Seated
  <2>4. Packed(p, B)
    <3>1. Packed(pool, B)
      BY <1>8, PlanPacked
    <3> QED
      BY <1>1, <3>1 DEF Packed
  <2>5. q.exact = TRUE
    BY <1>1, <2>2 DEF Returned
  <2>6. Ahead(q, B) /\ Sited(B)
    BY <1>1, <1>3, <2>2, <2>3, <2>4, <2>5, FreedAhead, SeatedSited
  <2>7. r = Place(q, B)
    BY <1>3, <1>8, <2>1
  <2>8. \A v \in r.movers : /\ \E b \in B : v.handle = b.handle /\ v.from = b.ptr
                            /\ Clear(v, {d \in B : v.from < d.ptr})
    BY <2>6, <2>7, PlaceAhead
  <2>9. ASSUME NEW v \in r.movers, NEW w \in r.movers, v.from < w.from
        PROVE  Room(v.to, v.handle) \cap Room(w.from, w.handle) = {}
    <3>1. PICK d \in B : w.handle = d.handle /\ w.from = d.ptr
      BY <2>8
    <3>2. d \in {x \in B : v.from < x.ptr}
      BY <2>9, <3>1
    <3>3. Room(v.to, v.handle) \cap Room(d.ptr, d.handle) = {}
      BY <2>8, <3>2 DEF Clear
    <3> QED
      BY <3>1, <3>3
  <2> QED
    BY <2>9 DEF InOrder
<1> QED
  BY <1>2, <1>7, <1>8

-----------------------------------------------------------------------------
(* What recipes have written is there: at the tensor's address, or where it   *)
(* is still to be copied from.                                                *)

\* In memory m, the tensor's data is at address a.
Stores(m, a, h) == \A i \in 0 .. Size[h] - 1 : m[a + i] = <<h, i>>

\* Where the data of a tensor is.
DataAt(h) == IF \E v \in moving.movers : v.handle = h
             THEN (CHOOSE v \in moving.movers : v.handle = h).from ELSE table[h].ptr

\* What was written is there.
WrittenOK ==
  \A h \in written : h \in Handles /\ DataAt(h) \in Units \ {Null} /\ Stores(mem, DataAt(h), h)

\* Movers have left memory that no recipe uses, for where the table says.
MoversOK ==
  /\ \A v \in moving.movers :
       /\ v.handle \in Handles /\ v.from \in Units \ {Null} /\ v.from + Size[v.handle] <= PoolSize
       /\ v.to = table[v.handle].ptr /\ v.to /= Null
       /\ \A w \in Workspaces : Room(v.from, v.handle) \cap w = {}
  /\ \A v, w \in moving.movers : v.handle = w.handle \/ v.from = w.from => v = w
  /\ InOrder(moving.movers)

\* While tensors move, nobody else has the address of one.
Unaddressed ==
  moving.movers /= {} =>
    /\ \A i \in DOMAIN recipes : recipes[i].out = <<>>
    /\ \A x \in Threads : pc[x] /= "copy" /\ job[x].kind = "launch" => job[x].out = <<>>

StoreOK == WrittenOK /\ MoversOK /\ Unaddressed

\* A tensor is where the table says, unless it moves.
LEMMA AtTable ==
  ASSUME moving.movers = {}, NEW h
  PROVE  DataAt(h) = table[h].ptr
BY DEF DataAt

\* The one mover of a tensor.
LEMMA AtMover ==
  ASSUME MoversOK, NEW v \in moving.movers
  PROVE  DataAt(v.handle) = v.from
<1>1. (CHOOSE w \in moving.movers : w.handle = v.handle) = v
  BY DEF MoversOK
<1> QED
  BY <1>1 DEF DataAt

\* A step that moves no tensor, and no workspace elsewhere.
LEMMA MoversFrame ==
  ASSUME MoversOK, UNCHANGED moving, Undisturbed
  PROVE  MoversOK' /\ \A h \in Handles : DataAt(h)' = DataAt(h)
<1>1. ASSUME NEW h \in Handles PROVE table'[h].ptr = table[h].ptr
  <2>1. AddressOf'[h] = AddressOf[h]
    BY DEF Undisturbed
  <2> QED
    BY <2>1 DEF AddressOf
<1>2. \A h \in Handles : DataAt(h)' = DataAt(h)
  BY <1>1 DEF DataAt
<1>3. ASSUME NEW v \in moving.movers, NEW w \in Workspaces'
      PROVE  Room(v.from, v.handle) \cap w = {}
  <2>1. PICK u \in Workspaces : w \subseteq u
    BY DEF Undisturbed
  <2>2. Room(v.from, v.handle) \cap u = {}
    BY DEF MoversOK
  <2> QED
    BY <2>1, <2>2
<1>4. MoversOK'
  BY <1>1, <1>3 DEF MoversOK
<1> QED
  BY <1>2, <1>4

\* ... and writes nothing.
LEMMA StoreFrame ==
  ASSUME WrittenOK, MoversOK, UNCHANGED <<mem, written, moving>>, Undisturbed
  PROVE  WrittenOK' /\ MoversOK'
<1>1. MoversOK' /\ \A h \in Handles : DataAt(h)' = DataAt(h)
  BY MoversFrame
<1> QED
  BY <1>1 DEF WrittenOK

\* Nothing moves, and what was written keeps its address and its data.
LEMMA StillFrame ==
  ASSUME WrittenOK, moving.movers = {}, UNCHANGED <<mem, moving>>,
         \A h \in written' : h \in written /\ (table[h].ptr /= Null => table'[h].ptr = table[h].ptr)
  PROVE  StoreOK'
<1>1. ASSUME NEW h \in written'
      PROVE  h \in Handles /\ DataAt(h)' = DataAt(h) /\ DataAt(h) \in Units \ {Null}
             /\ Stores(mem, DataAt(h), h)
  <2>1. h \in Handles /\ DataAt(h) \in Units \ {Null} /\ Stores(mem, DataAt(h), h)
    BY <1>1 DEF WrittenOK
  <2>2. DataAt(h) = table[h].ptr /\ DataAt(h)' = table'[h].ptr
    BY DEF DataAt
  <2> QED
    BY <1>1, <2>1, <2>2
<1>2. WrittenOK'
  BY <1>1 DEF WrittenOK
<1>3. MoversOK' /\ Unaddressed'
  BY DEF MoversOK, InOrder, Unaddressed
<1> QED
  BY <1>2, <1>3 DEF StoreOK

-----------------------------------------------------------------------------
(* The actions that go on while tensors move.                                 *)

\* No call gets an address, and the one that moves tensors goes on with it.
OutsKept ==
  \A x \in Threads : job'[x].kind = "launch" =>
    \/ job'[x].out = <<>>
    \/ job[x].kind = "launch" /\ job'[x].out = job[x].out /\ (pc[x] = "copy" => pc'[x] = "copy")

\* A recipe has the addresses of one that was there or is launched.
RecipeOuts ==
  \A i \in DOMAIN recipes' :
    \/ \E k \in DOMAIN recipes : recipes'[i].out = recipes[k].out
    \/ \E t \in Threads : pc[t] = "launch" /\ job[t].kind = "launch" /\ recipes'[i].out = job[t].out

\* In such a step nobody gets the address of a tensor that moves.
LEMMA UnaddressedKept ==
  ASSUME Unaddressed, UNCHANGED moving, OutsKept, RecipeOuts
  PROVE  Unaddressed'
BY DEF Unaddressed, OutsKept, RecipeOuts

\* A step of a thread that gets no address.
LEMMA ThreadOuts ==
  ASSUME ControlOK, NEW t \in Threads, pc[t] /= "copy", pc' = pc \/ \E loc : Goto(t, loc),
         \/ job' = job
         \/ \E k : /\ job' = [job EXCEPT ![t] = k]
                   /\ k.kind = "launch" => k.out = <<>> \/ (job[t].kind = "launch" /\ k.out = job[t].out)
  PROVE  OutsKept
<1>1. pc = [x \in Threads |-> pc[x]] /\ job = [x \in Threads |-> job[x]]
  BY DEF ControlOK, CallsOK
<1>2. \A x \in Threads : pc[x] = "copy" => pc'[x] = "copy"
  BY <1>1 DEF Goto
<1>3. \A x \in Threads \ {t} : job'[x] = job[x]
  BY <1>1
<1>4. \/ job'[t] = job[t]
      \/ job'[t].kind = "launch" => job'[t].out = <<>> \/ (job[t].kind = "launch" /\ job'[t].out = job[t].out)
  BY <1>1
<1> QED
  BY <1>2, <1>3, <1>4 DEF OutsKept

\* A call ends.
LEMMA EndOuts ==
  ASSUME ControlOK, NEW t \in Threads, pc[t] /= "copy", End(t)
  PROVE  OutsKept
<1>1. Goto(t, "idle") /\ job' = [job EXCEPT ![t] = NoJob] /\ NoJob.kind /= "launch"
  BY DEF End, NoJob
<1> QED
  BY <1>1, ThreadOuts

\* Steps within a call that leave memory alone.
LEMMA CallStore ==
  ASSUME ControlOK, DataOK, StoreOK, NEW t \in Threads,
         \/ CheckMemory(t) \/ BeginCleanup(t) \/ LockExtend(t) \/ EstimateMemory(t)
         \/ LockAddresses(t) \/ FinishFix(t) \/ FinishLock(t) \/ Synchronize(t)
         \/ Drain(t) \/ DrainTimesOut(t)
  PROVE  StoreOK'
<1>1. UNCHANGED <<mem, written, moving, recipes>> /\ pc[t] /= "copy"
  BY DEF CheckMemory, BeginCleanup, LockExtend, EstimateMemory, LockAddresses, FinishFix, FinishLock,
         Synchronize, Drain, DrainTimesOut, moveVars, deviceVars, At
<1>2. Undisturbed
  BY CallData
<1>3. RecipeOuts
  BY <1>1 DEF RecipeOuts
<1>4. OutsKept
  <2>1. CASE CheckMemory(t) \/ BeginCleanup(t) \/ LockExtend(t) \/ LockAddresses(t)
             \/ Synchronize(t) \/ Drain(t)
    <3>1. job' = job /\ \E loc : Goto(t, loc)
      BY <2>1 DEF CheckMemory, BeginCleanup, LockExtend, LockAddresses, Synchronize, Drain
    <3> QED
      BY <1>1, <3>1, ThreadOuts
  <2>2. CASE FinishFix(t) \/ DrainTimesOut(t)
    <3>1. End(t)
      BY <2>2 DEF FinishFix, DrainTimesOut
    <3> QED
      BY <1>1, <3>1, EndOuts
  <2>3. CASE EstimateMemory(t)
    <3>1. PICK k : k = [job[t] EXCEPT !.need = Required(job[t].list)]
      OBVIOUS
    <3>2. job' = [job EXCEPT ![t] = k] /\ Goto(t, "limit")
      BY <2>3, <3>1, Held DEF EstimateMemory
    <3>3. IsJob(job[t])
      BY <2>3, Held DEF EstimateMemory, At, CallAt, WorkspaceLocs, DefragLocs
    <3>4. k.kind = job[t].kind /\ k.out = job[t].out
      BY <3>1, <3>3, NeededJob
    <3> QED
      BY <1>1, <3>2, <3>4, ThreadOuts
  <2>4. CASE FinishLock(t)
    <3>1. PICK k : k = [job[t] EXCEPT !.todo = job[t].list, !.out = <<>>, !.again = TRUE]
      OBVIOUS
    <3>2. job' = job \/ job' = [job EXCEPT ![t] = k]
      BY <2>4, <3>1 DEF FinishLock
    <3>3. IsJob(job[t])
      BY <2>4, Held DEF FinishLock, At, CallAt, WorkspaceLocs, LaunchLocs, DefragLocs
    <3>4. k.out = <<>>
      BY <3>1, <3>3, AgainJob
    <3>5. pc' = pc \/ \E loc : Goto(t, loc)
      BY <2>4 DEF FinishLock
    <3> QED
      BY <1>1, <3>2, <3>4, <3>5, ThreadOuts
  <2> QED
    BY <2>1, <2>2, <2>3, <2>4
<1> QED
  BY <1>1, <1>2, <1>3, <1>4, StoreFrame, UnaddressedKept DEF StoreOK

\* A call begins.
LEMMA BeginStore ==
  ASSUME ControlOK, DataOK, StoreOK, NEW t \in Threads,
         \/ \E r \in Recipes : BeginLaunch(t, r[1], r[2])
         \/ \E h \in Handles : FixAddress(t, h)
  PROVE  StoreOK'
<1>1. UNCHANGED <<mem, written, moving, recipes>>
  BY DEF BeginLaunch, FixAddress, moveVars, deviceVars
<1>2. PICK kind, list, n, loc : Begin(t, kind, list, n, loc)
  BY DEF BeginLaunch, FixAddress
<1>3. PICK k : k = [kind |-> kind, list |-> list, todo |-> list, out |-> <<>>,
                    again |-> FALSE, need |-> 0, n |-> n, ws |-> Null]
  OBVIOUS
<1>4. job' = [job EXCEPT ![t] = k] /\ k.out = <<>> /\ Goto(t, loc) /\ pc[t] /= "copy"
  BY <1>2, <1>3 DEF Begin, At
<1>5. OutsKept
  BY <1>4, ThreadOuts
<1>6. RecipeOuts
  BY <1>1 DEF RecipeOuts
<1>7. Undisturbed
  BY BeginsData
<1> QED
  BY <1>1, <1>5, <1>6, <1>7, StoreFrame, UnaddressedKept DEF StoreOK

\* The workspace is given to a launch, or given back.
LEMMA WorkspaceStore ==
  ASSUME ControlOK, DataOK, StoreOK, NEW t \in Threads, EnterWorkspace(t) \/ (Cleanup(t) /\ slips' = {})
  PROVE  StoreOK'
<1>1. UNCHANGED <<mem, written, moving, recipes>> /\ pc[t] /= "copy"
  BY DEF EnterWorkspace, Cleanup, moveVars, deviceVars, At
<1>2. Undisturbed
  BY GiveData, CleanupData
<1>3. RecipeOuts
  BY <1>1 DEF RecipeOuts
<1>4. \E loc : Goto(t, loc)
  BY DEF EnterWorkspace, GiveWorkspace, Cleanup
<1>5. PICK k : k = [job[t] EXCEPT !.ws = workspace.ptr]
  OBVIOUS
<1>6. job' = job \/ (job' = [job EXCEPT ![t] = k] /\ pc[t] = "workspace")
  BY <1>5, Held DEF EnterWorkspace, GiveWorkspace, Cleanup, At
<1>7. ASSUME job' = [job EXCEPT ![t] = k], pc[t] = "workspace" PROVE OutsKept
  <2>1. IsJob(job[t])
    BY <1>7, Waiting DEF WorkspaceLocs
  <2>2. k.kind = job[t].kind /\ k.out = job[t].out
    BY <1>5, <2>1 DEF IsJob
  <2> QED
    BY <1>1, <1>4, <1>7, <2>2, ThreadOuts
<1>8. OutsKept
  BY <1>1, <1>4, <1>6, <1>7, ThreadOuts
<1> QED
  BY <1>1, <1>2, <1>3, <1>8, StoreFrame, UnaddressedKept DEF StoreOK

-----------------------------------------------------------------------------
(* Launching and releasing recipes.                                           *)

\* A recipe is launched.
LEMMA LaunchStore ==
  ASSUME ControlOK, DataOK, StoreOK, NEW t \in Threads, Launch(t)
  PROVE  StoreOK'
<1>1. /\ UNCHANGED <<mem, written, moving>> /\ pc[t] = "launch"
      /\ Goto(t, "count") /\ UNCHANGED job
  BY DEF Launch, moveVars, At
<1>2. PICK q : q = [thread |-> t, list |-> job[t].list, out |-> job[t].out,
                    ws |-> Extent(job[t].ws, job[t].n), done |-> FALSE, counted |-> FALSE]
  OBVIOUS
<1>3. recipes' = Append(recipes, q) /\ q.out = job[t].out
  BY <1>2 DEF Launch
<1>4. job[t].kind = "launch"
  BY <1>1, Held DEF CallAt, WorkspaceLocs, DefragLocs
<1>5. RecipeOuts
  <2>1. recipes \in Seq(Recipe)
    BY DEF DataOK
  <2>2. \A i \in DOMAIN recipes' : (i \in DOMAIN recipes /\ recipes'[i] = recipes[i]) \/ recipes'[i] = q
    BY <1>3, <2>1
  <2> QED
    BY <1>1, <1>3, <1>4, <2>2 DEF RecipeOuts
<1>6. OutsKept
  BY <1>1, ThreadOuts
<1>7. Undisturbed
  BY LaunchData
<1> QED
  BY <1>1, <1>5, <1>6, <1>7, StoreFrame, UnaddressedKept DEF StoreOK

\* It is counted,
LEMMA CountStore ==
  ASSUME ControlOK, DataOK, StoreOK, NEW t \in Threads, CountRecipe(t)
  PROVE  StoreOK'
<1>1. /\ UNCHANGED <<mem, written, moving>> /\ pc[t] = "count" /\ End(t)
      /\ \E i : recipes' = [recipes EXCEPT ![i].counted = TRUE]
  BY DEF CountRecipe, moveVars, At
<1>2. PICK i : recipes' = [recipes EXCEPT ![i].counted = TRUE]
  BY <1>1
<1>3. RecipeOuts
  <2>1. recipes \in Seq(Recipe)
    BY DEF DataOK
  <2>2. PICK q : q = [recipes[i] EXCEPT !.counted = TRUE]
    OBVIOUS
  <2>3. recipes' = [recipes EXCEPT ![i] = q]
    BY <1>2, <2>2
  <2>4. i \in DOMAIN recipes => q.out = recipes[i].out
    BY <2>1, <2>2 DEF Recipe
  <2>5. DOMAIN recipes' = DOMAIN recipes
        /\ \A k \in DOMAIN recipes : recipes'[k] = IF k = i THEN q ELSE recipes[k]
    BY <2>1, <2>3
  <2> QED
    BY <2>4, <2>5 DEF RecipeOuts
<1>4. OutsKept
  BY <1>1, EndOuts
<1>5. Undisturbed
  BY CountData
<1> QED
  BY <1>1, <1>3, <1>4, <1>5, StoreFrame, UnaddressedKept DEF StoreOK

\* ... and released when it has run.
LEMMA ReleaseStore ==
  ASSUME ControlOK, DataOK, StoreOK, Release
  PROVE  StoreOK'
<1>1. UNCHANGED <<mem, written, moving, pc, job>> /\ recipes' = Tail(recipes) /\ recipes /= <<>>
  BY DEF Release, moveVars
<1>2. RecipeOuts
  <2>1. recipes \in Seq(Recipe)
    BY DEF DataOK
  <2>2. \A i \in DOMAIN recipes' : i + 1 \in DOMAIN recipes /\ recipes'[i] = recipes[i + 1]
    BY <1>1, <2>1
  <2> QED
    BY <2>2 DEF RecipeOuts
<1>3. OutsKept
  BY <1>1 DEF OutsKept
<1>4. Undisturbed
  BY ReleaseData
<1> QED
  BY <1>1, <1>2, <1>3, <1>4, StoreFrame, UnaddressedKept DEF StoreOK

\* A tensor without memory is created.
LEMMA MallocStore ==
  ASSUME ControlOK, DataOK, StoreOK, NEW h \in Handles, Malloc(h)
  PROVE  StoreOK'
<1>1. UNCHANGED <<mem, written, moving, pc, job, recipes>>
  BY DEF Malloc, moveVars, deviceVars
<1>2. RecipeOuts /\ OutsKept
  BY <1>1 DEF RecipeOuts, OutsKept
<1>3. Undisturbed
  BY MallocData
<1> QED
  BY <1>1, <1>2, <1>3, StoreFrame, UnaddressedKept DEF StoreOK

\* A tensor is freed, with what was written in it.
LEMMA FreeStore ==
  ASSUME ControlOK, DataOK, StoreOK, NEW h \in Handles, Free(h)
  PROVE  StoreOK'
<1>1. /\ UNCHANGED <<mem, moving>> /\ mutex_ = None /\ written' = written \ {h}
      /\ table' = [table EXCEPT ![h] = [@ EXCEPT !.active = FALSE, !.ptr = Null]]
  BY DEF Free, moveVars
<1>2. moving.movers = {}
  BY <1>1, NoMovers DEF NoMove
<1>3. \A g \in written' : g \in written /\ g /= h
  BY <1>1
<1>4. \A g \in written : g \in Handles
  BY DEF StoreOK, WrittenOK
<1>5. \A g \in written' : g \in written /\ (table[g].ptr /= Null => table'[g].ptr = table[g].ptr)
  BY <1>1, <1>3, <1>4 DEF DataOK, TableOK
<1> QED
  BY <1>1, <1>2, <1>5, StillFrame DEF StoreOK

\* A tensor or the workspace gets memory: what was written had some already.
LEMMA GainStore ==
  ASSUME ControlOK, DataOK, StoreOK, NEW t \in Threads,
         \/ ExtendFirst(t) \/ ExtendIdle(t) \/ ExtendAgain(t)
         \/ Translate(t) \/ Retry(t) \/ TranslateAgain(t)
  PROVE  StoreOK'
<1>1. UNCHANGED <<mem, moving, written>> /\ mutex_ = None
  BY DEF ExtendFirst, ExtendIdle, ExtendAgain, Extend, Translate, Retry, TranslateAgain, Translated,
         moveVars, deviceVars
<1>2. moving.movers = {}
  BY <1>1, NoMovers DEF NoMove
<1>3. \A g \in written : g \in Handles
  BY DEF StoreOK, WrittenOK
<1>4. \A g \in Handles : table[g].ptr /= Null => table'[g].ptr = table[g].ptr
  <2>1. CASE ExtendFirst(t) \/ ExtendIdle(t) \/ ExtendAgain(t)
    <3>1. UNCHANGED table
      BY <2>1 DEF ExtendFirst, ExtendIdle, ExtendAgain, Extend
    <3> QED
      BY <3>1
  <2>2. CASE Translate(t) \/ Retry(t) \/ TranslateAgain(t)
    BY <2>2, TranslatesFixed
  <2> QED
    BY <2>1, <2>2
<1> QED
  BY <1>1, <1>2, <1>3, <1>4, StillFrame DEF StoreOK

-----------------------------------------------------------------------------
(* A recipe runs.                                                             *)

\* What was written lies in memory that is no workspace.
LEMMA DataRoom ==
  ASSUME DataOK, StoreOK, NEW h \in written
  PROVE  /\ h \in Handles /\ Room(DataAt(h), h) \subseteq Units
         /\ \A w \in Workspaces : Room(DataAt(h), h) \cap w = {}
<1>1. h \in Handles /\ DataAt(h) \in Units \ {Null}
  BY DEF StoreOK, WrittenOK
<1>2. ASSUME NEW v \in moving.movers, v.handle = h
      PROVE  /\ Room(DataAt(h), h) \subseteq Units
             /\ \A w \in Workspaces : Room(DataAt(h), h) \cap w = {}
  <2>1. DataAt(h) = v.from
    BY <1>2, AtMover DEF StoreOK
  <2>2. v.from \in Units /\ v.from + Size[h] <= PoolSize
        /\ \A w \in Workspaces : Room(v.from, h) \cap w = {}
    BY <1>2 DEF StoreOK, MoversOK
  <2>3. Size[h] \in Nat /\ PoolSize \in Nat
    BY <1>1, Sizing, Sizes
  <2>4. Room(v.from, h) \subseteq Units
    BY <2>2, <2>3 DEF Room, Extent, Units
  <2> QED
    BY <2>1, <2>2, <2>4
<1>3. CASE ~ \E v \in moving.movers : v.handle = h
  <2>1. DataAt(h) = table[h].ptr
    BY <1>3 DEF DataAt
  <2>2. PICK p, at, old : p = pool /\ at = AddressOf /\ old = Old
    OBVIOUS
  <2>3. at[h] = table[h].ptr /\ at[h] /= Null
    BY <1>1, <2>1, <2>2 DEF AddressOf
  <2>4. IsPool(p) /\ TableMatch(p, at, old) /\ \A w \in Workspaces : Reserved(p, w)
    BY <2>2 DEF DataOK, TableOK, MemoryOK
  <2>5. HasMemory(p, at[h], h)
    BY <1>1, <2>3, <2>4 DEF TableMatch, Matches
  <2>6. Room(at[h], h) \subseteq Units
    BY <1>1, <2>4, <2>5, RoomInSpan
  <2>7. \A w \in Workspaces : Room(at[h], h) \cap w = {}
    BY <1>1, <2>3, <2>4, RoomReserved
  <2> QED
    BY <1>1, <2>1, <2>3, <2>6, <2>7
<1> QED
  BY <1>1, <1>2, <1>3

\* A unit of the recipe's k-th tensor, at the address the launch has looked up.
Covers(r, k, u) == k \in DOMAIN r.out /\ u \in Room(r.out[k], r.list[k])

\* What a recipe does to memory: its tensors are written, nothing else but its
\* workspace changes.
Writes(r) ==
  /\ written' = written \cup Elements(r.list)
  /\ mem' = [u \in Units |-> mem'[u]]
  /\ \A u \in Units :
       \/ \E k : Covers(r, k, u) /\ mem'[u] = <<r.list[k], u - r.out[k]>>
       \/ /\ ~ \E k : Covers(r, k, u)
          /\ (u \in r.ws /\ mem'[u] = None) \/ mem'[u] = mem[u]

\* A recipe that has not run yet does that.
LEMMA ExecuteWrites ==
  ASSUME Execute
  PROVE  \E i \in DOMAIN recipes : ~recipes[i].done /\ Writes(recipes[i])
<1> DEFINE at(r, u) == {k \in DOMAIN r.out : u \in Extent(r.out[k], Size[r.list[k]])}
           of(r, u) == CHOOSE k \in at(r, u) : TRUE
<1>1. PICK i \in DOMAIN recipes :
        /\ ~recipes[i].done /\ written' = written \cup Elements(recipes[i].list)
        /\ mem' = [u \in Units |->
                     IF at(recipes[i], u) /= {}
                     THEN <<recipes[i].list[of(recipes[i], u)], u - recipes[i].out[of(recipes[i], u)]>>
                     ELSE IF u \in recipes[i].ws THEN None ELSE mem[u]]
  BY DEF Execute
<1>2. PICK r : r = recipes[i]
  OBVIOUS
<1>3. ASSUME NEW u \in Units
      PROVE  \/ \E k : Covers(r, k, u) /\ mem'[u] = <<r.list[k], u - r.out[k]>>
             \/ /\ ~ \E k : Covers(r, k, u)
                /\ (u \in r.ws /\ mem'[u] = None) \/ mem'[u] = mem[u]
  <2>1. \A k : Covers(r, k, u) <=> k \in at(r, u)
    BY DEF Covers, Room
  <2>2. mem'[u] = IF at(r, u) /= {} THEN <<r.list[of(r, u)], u - r.out[of(r, u)]>>
                  ELSE IF u \in r.ws THEN None ELSE mem[u]
    BY <1>1, <1>2
  <2>3. at(r, u) /= {} => of(r, u) \in at(r, u)
    OBVIOUS
  <2> HIDE DEF at, of
  <2> QED
    BY <2>1, <2>2, <2>3
<1>4. mem' = [u \in Units |-> mem'[u]]
  BY <1>1
<1> HIDE DEF at, of
<1>5. Writes(r)
  BY <1>1, <1>2, <1>3, <1>4 DEF Writes
<1> QED
  BY <1>1, <1>2, <1>5

\* A recipe writes its tensors where the table says, and nobody else's.
LEMMA ExecuteStore ==
  ASSUME ControlOK, DataOK, AddressOK, StoreOK, Execute
  PROVE  StoreOK'
<1>1. PICK i \in DOMAIN recipes : ~recipes[i].done /\ Writes(recipes[i])
  BY ExecuteWrites
<1>2. PICK r : /\ r = recipes[i] /\ ~r.done
               /\ written' = written \cup Elements(r.list)
               /\ \A u \in Units :
                    \/ \E k : Covers(r, k, u) /\ mem'[u] = <<r.list[k], u - r.out[k]>>
                    \/ (~ \E k : Covers(r, k, u)) /\ (u \in r.ws \/ mem'[u] = mem[u])
  BY <1>1 DEF Writes
<1>3. UNCHANGED <<moving, table, pc, job>>
  BY DEF Execute, poolVars, moveVars
<1>4. Undisturbed
  BY ExecuteData
<1>5. MoversOK' /\ \A h \in Handles : DataAt(h)' = DataAt(h)
  BY <1>3, <1>4, MoversFrame DEF StoreOK
<1>6. Len(r.out) = Len(r.list) /\ OutCurrent(r.out, r.list)
  BY <1>2 DEF AddressOK, RecipesCurrent
<1>7. r.list \in Seq(Handles) /\ r.out \in Seq(Units \ {Null}) /\ DOMAIN r.list = DOMAIN r.out
  <2>1. recipes[i] \in Recipe
    BY DEF DataOK
  <2> QED
    BY <1>2, <1>6, <2>1 DEF Recipe
<1>8. \A k \in DOMAIN r.out : /\ r.list[k] \in Handles /\ r.out[k] = table[r.list[k]].ptr
                              /\ r.out[k] /= Null
  BY <1>6, <1>7 DEF OutCurrent
<1>9. r.ws \in Workspaces
  BY <1>2 DEF Workspaces, RecipeSpaces
<1>10. moving.movers /= {} => DOMAIN r.out = {}
  <2>1. moving.movers /= {} => r.out = <<>>
    BY <1>2 DEF StoreOK, Unaddressed
  <2> QED
    BY <2>1
<1>11. \A u, k, h : Covers(r, k, u) /\ h \in Handles /\ table[h].ptr /= Null /\ u \in Room(table[h].ptr, h)
                      => r.list[k] = h
  <2> SUFFICES ASSUME NEW u, NEW k, NEW h \in Handles, Covers(r, k, u), table[h].ptr /= Null,
                      u \in Room(table[h].ptr, h), r.list[k] /= h
               PROVE  FALSE
    OBVIOUS
  <2>1. PICK p, at, old, g : p = pool /\ at = AddressOf /\ old = Old /\ g = r.list[k]
    OBVIOUS
  <2>2. /\ IsPool(p) /\ Matches(p, at, old) /\ g \in Handles /\ g /= h
        /\ at[g] = r.out[k] /\ at[h] = table[h].ptr /\ at[g] /= Null /\ at[h] /= Null
    BY <1>8, <2>1 DEF DataOK, TableOK, MemoryOK, TableMatch, AddressOf, Covers
  <2>3. Room(at[h], h) \cap Room(at[g], g) = {}
    BY <2>2, RoomsApart
  <2> QED
    BY <2>1, <2>2, <2>3 DEF Covers
<1>12. ASSUME NEW h \in Elements(r.list)
       PROVE  h \in Handles /\ DataAt(h) \in Units \ {Null} /\ Stores(mem', DataAt(h), h)
  <2>1. PICK k \in DOMAIN r.out : r.list[k] = h
    BY <1>7 DEF Elements
  <2>2. h \in Handles /\ table[h].ptr = r.out[k] /\ table[h].ptr /= Null /\ table[h].ptr \in Units
    BY <1>7, <1>8, <2>1
  <2>3. DataAt(h) = table[h].ptr
    BY <1>10, <2>1, AtTable
  <2>4. PICK p, at, old : p = pool /\ at = AddressOf /\ old = Old
    OBVIOUS
  <2>5. IsPool(p) /\ HasMemory(p, at[h], h) /\ at[h] = table[h].ptr
    BY <2>2, <2>4 DEF DataOK, TableOK, MemoryOK, TableMatch, Matches, AddressOf
  <2>6. Room(at[h], h) \subseteq Units
    BY <2>2, <2>5, RoomInSpan
  <2>7. ASSUME NEW n \in 0 .. Size[h] - 1
        PROVE  mem'[table[h].ptr + n] = <<h, n>>
    <3>1. PICK u, a : a = table[h].ptr /\ u = a + n
      OBVIOUS
    <3>2. a \in Nat /\ n \in Nat /\ n < Size[h] /\ Size[h] \in Nat /\ u - a = n
      BY <2>2, <3>1, Sizing, Sizes DEF Units
    <3>3. u \in Room(a, h)
      BY <3>1, <3>2 DEF Room, Extent
    <3>4. u \in Units /\ Covers(r, k, u)
      BY <2>1, <2>2, <2>5, <2>6, <3>1, <3>3 DEF Covers
    <3>5. PICK l : Covers(r, l, u) /\ mem'[u] = <<r.list[l], u - r.out[l]>>
      BY <1>2, <3>4
    <3>6. r.list[l] = h
      BY <1>11, <2>2, <3>1, <3>3, <3>5
    <3>7. r.out[l] = a
      BY <1>8, <3>1, <3>5, <3>6 DEF Covers
    <3> QED
      BY <3>1, <3>2, <3>5, <3>6, <3>7
  <2> QED
    BY <2>2, <2>3, <2>7 DEF Stores
<1>13. ASSUME NEW h \in written, h \notin Elements(r.list)
       PROVE  h \in Handles /\ DataAt(h) \in Units \ {Null} /\ Stores(mem', DataAt(h), h)
  <2>1. h \in Handles /\ DataAt(h) \in Units \ {Null} /\ Stores(mem, DataAt(h), h)
    BY DEF StoreOK, WrittenOK
  <2>2. Room(DataAt(h), h) \subseteq Units /\ Room(DataAt(h), h) \cap r.ws = {}
    BY <1>9, DataRoom
  <2>3. ASSUME NEW u \in Room(DataAt(h), h), NEW k PROVE ~Covers(r, k, u)
    <3>1. CASE moving.movers /= {}
      BY <1>10, <3>1 DEF Covers
    <3>2. CASE moving.movers = {}
      <4>1. Covers(r, k, u) => r.list[k] = h
        BY <1>11, <2>1, <3>2, AtTable
      <4> QED
        BY <1>7, <1>13, <4>1 DEF Covers, Elements
    <3> QED
      BY <3>1, <3>2
  <2>4. ASSUME NEW n \in 0 .. Size[h] - 1
        PROVE  mem'[DataAt(h) + n] = <<h, n>>
    <3>1. PICK u, a : a = DataAt(h) /\ u = a + n
      OBVIOUS
    <3>2. a \in Nat /\ n \in Nat /\ n < Size[h] /\ Size[h] \in Nat
      BY <2>1, <3>1, Sizing, Sizes DEF Units
    <3>3. u \in Room(a, h)
      BY <3>1, <3>2 DEF Room, Extent
    <3>4. mem'[u] = mem[u]
      BY <1>2, <2>2, <2>3, <3>1, <3>3
    <3>5. mem[u] = <<h, n>>
      BY <2>1, <3>1 DEF Stores
    <3> QED
      BY <3>1, <3>4, <3>5
  <2> QED
    BY <2>1, <2>4 DEF Stores
<1>14. WrittenOK'
  <2>1. ASSUME NEW h \in written'
        PROVE  h \in Handles /\ DataAt(h) \in Units \ {Null} /\ Stores(mem', DataAt(h), h)
    BY <1>2, <1>12, <1>13
  <2> QED
    BY <1>5, <2>1 DEF WrittenOK, Stores
<1>15. Unaddressed'
  <2>1. OutsKept
    BY <1>3 DEF OutsKept
  <2>2. RecipeOuts
    <3>1. recipes \in Seq(Recipe)
      BY DEF DataOK
    <3>2. PICK k \in DOMAIN recipes : recipes' = [recipes EXCEPT ![k].done = TRUE]
      BY DEF Execute
    <3>3. PICK q : q = [recipes[k] EXCEPT !.done = TRUE]
      OBVIOUS
    <3>4. recipes' = [recipes EXCEPT ![k] = q] /\ q.out = recipes[k].out
      BY <3>1, <3>2, <3>3 DEF Recipe
    <3>5. DOMAIN recipes' = DOMAIN recipes
          /\ \A x \in DOMAIN recipes : recipes'[x] = IF x = k THEN q ELSE recipes[x]
      BY <3>1, <3>4
    <3> QED
      BY <3>4, <3>5 DEF RecipeOuts
  <2> QED
    BY <1>3, <2>1, <2>2, UnaddressedKept DEF StoreOK
<1> QED
  BY <1>5, <1>14, <1>15 DEF StoreOK

-----------------------------------------------------------------------------
(* Tensors are going to move.                                                 *)

\* The table names the new memory, the data is where the movers come from.
LEMMA MovedStore ==
  ASSUME DataOK, StoreOK, mutex_ = None, NEW B, \A b \in B : TensorBlock(b), NEW first, NEW r,
         Moved(B, first, r), InOrder(r.movers), table' = Repointed(r.movers),
         moving' = [movers |-> r.movers, first |-> first],
         UNCHANGED <<mem, written>>, Workspaces' = Workspaces, Unaddressed'
  PROVE  StoreOK'
<1>1. TableOK /\ TableMatch(pool, AddressOf, {}) /\ moving.movers = {} /\ moving'.movers = r.movers
  BY NoMovers DEF DataOK, NoMove
<1>2. \A h \in Handles : table'[h].ptr = IF \E v \in r.movers : v.handle = h
                                         THEN (CHOOSE v \in r.movers : v.handle = h).to
                                         ELSE table[h].ptr
  BY <1>1, RepointedTable
<1>3. \A v, w \in r.movers : v.handle = w.handle => v = w
  BY DEF Moved
<1>4. ASSUME NEW v \in r.movers
      PROVE  /\ v.handle \in Handles /\ v.from = table[v.handle].ptr /\ v.from /= Null
             /\ v.from \in Units /\ v.to \in Units \ {Null} /\ table'[v.handle].ptr = v.to
  <2>1. PICK b \in B : v.handle = b.handle /\ v.from = b.ptr
    BY DEF Moved
  <2>2. b.handle \in Handles /\ b.ptr = table[b.handle].ptr /\ b.ptr /= Null
    BY DEF TensorBlock
  <2>3. table[b.handle].ptr \in Units
    BY <1>1, <2>2 DEF TableOK
  <2>4. (CHOOSE w \in r.movers : w.handle = v.handle) = v
    BY <1>3
  <2> QED
    BY <1>2, <2>1, <2>2, <2>3, <2>4 DEF Moved
<1>5. ASSUME NEW v \in r.movers
      PROVE  /\ v.from + Size[v.handle] <= PoolSize
             /\ \A w \in Workspaces : Room(v.from, v.handle) \cap w = {}
  <2>1. PICK p, at, old, h : p = pool /\ at = AddressOf /\ old = {} /\ h = v.handle
    OBVIOUS
  <2>2. h \in Handles /\ at[h] = v.from /\ at[h] /= Null
    BY <1>4, <2>1 DEF AddressOf
  <2>3. IsPool(p) /\ TableMatch(p, at, old) /\ \A w \in Workspaces : Reserved(p, w)
    BY <1>1, <2>1 DEF DataOK, TableOK, MemoryOK
  <2>4. HasMemory(p, at[h], h)
    BY <2>2, <2>3 DEF TableMatch, Matches
  <2>5. at[h] + Size[h] <= PoolSize
    BY <2>2, <2>3, <2>4, RoomInSpan
  <2>6. \A w \in Workspaces : Room(at[h], h) \cap w = {}
    BY <2>2, <2>3, RoomReserved
  <2> QED
    BY <2>1, <2>2, <2>5, <2>6
<1>6. ASSUME NEW v \in r.movers, NEW w \in r.movers, v.from = w.from PROVE v = w
  <2>1. AddressOf[v.handle] = AddressOf[w.handle] /\ AddressOf[v.handle] /= Null
    BY <1>4, <1>6 DEF AddressOf
  <2>2. v.handle = w.handle
    BY <1>1, <1>4, <2>1 DEF TableMatch, Matches
  <2> QED
    BY <1>3, <2>2
<1>7. MoversOK'
  <2>1. \A v \in r.movers :
          /\ v.handle \in Handles /\ v.from \in Units \ {Null} /\ v.from + Size[v.handle] <= PoolSize
          /\ v.to = table'[v.handle].ptr /\ v.to /= Null
          /\ \A w \in Workspaces : Room(v.from, v.handle) \cap w = {}
    BY <1>4, <1>5
  <2>2. \A v, w \in r.movers : v.handle = w.handle \/ v.from = w.from => v = w
    BY <1>3, <1>6
  <2> QED
    BY <1>1, <2>1, <2>2 DEF MoversOK
<1>8. ASSUME NEW h \in Handles PROVE DataAt(h)' = DataAt(h)
  <2>1. DataAt(h) = table[h].ptr
    BY <1>1, AtTable
  <2>2. DataAt(h)' = IF \E v \in r.movers : v.handle = h
                     THEN (CHOOSE v \in r.movers : v.handle = h).from ELSE table'[h].ptr
    BY <1>1 DEF DataAt
  <2>3. (\E v \in r.movers : v.handle = h)
          => (CHOOSE v \in r.movers : v.handle = h).from = table[h].ptr
    BY <1>4
  <2> QED
    BY <1>2, <2>1, <2>2, <2>3
<1>9. WrittenOK'
  <2>1. \A h \in written : /\ h \in Handles /\ DataAt(h)' = DataAt(h) /\ DataAt(h) \in Units \ {Null}
                           /\ Stores(mem, DataAt(h), h)
    BY <1>8 DEF StoreOK, WrittenOK
  <2> QED
    BY <2>1 DEF WrittenOK
<1> QED
  BY <1>7, <1>9 DEF StoreOK

\* While they do, no recipe is left, and no launch has an address.
LEMMA MovingUnaddressed ==
  ASSUME ControlOK, DataOK, AddressOK, NEW t \in Threads, pc[t] = "collect", NoteLock(t) = {},
         Goto(t, "copy"), UNCHANGED <<job, recipes>>
  PROVE  Unaddressed'
<1>1. locks = 0 /\ \A x \in Threads \ {t} : job[x].kind = "launch" => job[x].out = <<>>
  BY NobodyElse
<1>2. recipes = <<>>
  BY <1>1, NoLocks DEF AddressOK
<1>3. DOMAIN recipes' = {}
  BY <1>2
<1>4. pc'[t] = "copy"
  BY DEF Goto, ControlOK, CallsOK
<1> QED
  BY <1>1, <1>3, <1>4 DEF Unaddressed

\* Collect: the data stays where it is.
LEMMA CollectStore ==
  ASSUME ControlOK, DataOK, AddressOK, StoreOK, NEW t \in Threads, Collect(t), slips' = {}
  PROVE  StoreOK'
<1> DEFINE plan   == Run(MemoryMap, Requested(t), Growing(t))
           exact  == [pool EXCEPT !.exact = TRUE]
           placed == Place(IF plan.first THEN exact
                           ELSE Deallocate(exact, {b.ptr : b \in plan.movers}), plan.movers)
           tail   == UNION {NoteTail([pool |-> placed.pool, ptr |-> v.to]) : v \in placed.movers}
<1>1. /\ pc[t] = "collect" /\ mutex_ = None
      /\ UNCHANGED <<recipes, mem, written>>
      /\ IF ~plan.found
         THEN GiveUp(t) /\ UNCHANGED <<poolVars, moveVars, slips>>
         ELSE IF plan.movers = {}
         THEN /\ Goto(t, "defragmented")
              /\ UNCHANGED <<poolVars, moveVars, workspace, job, defragmentation_mutex_, ws_mutex_, slips>>
         ELSE /\ pool' = placed.pool
              /\ table' = Repointed(placed.movers)
              /\ IF placed.ok
                 THEN /\ mutex_' = t
                      /\ moving' = [movers |-> placed.movers, first |-> plan.first]
                      /\ slips' = slips \cup NoteLock(t) \cup tail
                      /\ Goto(t, "copy")
                      /\ UNCHANGED <<workspace, job, defragmentation_mutex_, ws_mutex_>>
                 ELSE /\ End(t)
                      /\ slips' = slips \cup NoteLock(t) \cup tail \cup
                                  (IF placed.movers /= {} THEN {"v2"} ELSE {})
                      /\ UNCHANGED <<moveVars, workspace>>
  BY DEF Collect, At, deviceVars
<1>2. PICK r : r = placed
  OBVIOUS
<1>3. PICK B, first, n, grow : /\ B = plan.movers /\ first = plan.first
                               /\ n = Requested(t) /\ grow = Growing(t)
  OBVIOUS
<1>4. PICK pl : pl = plan
  OBVIOUS
<1>5. pl = Run(MemoryMap, n, grow)
  BY <1>3, <1>4
<1>6. PICK p : p = exact
  OBVIOUS
<1>7. /\ r = Place(IF pl.first THEN p ELSE Deallocate(p, Sources(B)), B)
      /\ p = [pool EXCEPT !.exact = TRUE] /\ B = pl.movers /\ first = pl.first
  BY <1>2, <1>3, <1>4, <1>6 DEF Sources
<1>8. CASE UNCHANGED <<poolVars, moveVars>>
  <2>1. moving.movers = {} /\ UNCHANGED <<mem, moving>>
    BY <1>1, <1>8, NoMovers DEF NoMove, moveVars
  <2>2. \A h \in written' : h \in written /\ (table[h].ptr /= Null => table'[h].ptr = table[h].ptr)
    BY <1>1, <1>8 DEF poolVars
  <2> QED
    BY <2>1, <2>2, StillFrame DEF StoreOK
<1> HIDE DEF plan, placed, tail, exact
<1>9. TableOK /\ TableMatch(pool, AddressOf, {}) /\ moving.movers = {}
  BY <1>1, NoMovers DEF DataOK, NoMove
<1>10. /\ first \in BOOLEAN /\ \A b \in B : TensorBlock(b)
       /\ \A b, c \in B : b.ptr = c.ptr => b = c
  BY <1>5, <1>7, PlanBlocks
<1>11. n \in Int
  <2>1. IsJob(job[t]) /\ (~Growing(t) => job[t].todo /= <<>>)
    BY <1>1, DefragmentingCall DEF DefragLocs
  <2>2. CASE Growing(t)
    BY <1>3, <2>1, <2>2 DEF Requested, IsJob
  <2>3. CASE ~Growing(t)
    <3>1. Head(job[t].todo) \in Handles
      BY <2>1, <2>3, HeadHandle
    <3> QED
      BY <1>3, <2>3, <3>1, Sizing DEF Requested
  <2> QED
    BY <2>2, <2>3
<1>12. CASE /\ plan.found /\ B /= {} /\ table' = Repointed(r.movers)
            /\ \/ /\ r.ok /\ moving' = [movers |-> r.movers, first |-> first]
                  /\ NoteLock(t) \subseteq slips' /\ Goto(t, "copy")
                  /\ UNCHANGED <<workspace, job>>
               \/ r.movers = {} /\ UNCHANGED moving
  <2>1. r = Place(IF first THEN p ELSE Deallocate(p, Sources(B)), B)
    BY <1>7
  <2>2. Moved(B, first, r)
    BY <1>7, <1>9, <1>10, <1>12, <2>1, MovedSound
  <2>3. CASE /\ r.ok /\ moving' = [movers |-> r.movers, first |-> first]
             /\ NoteLock(t) \subseteq slips' /\ Goto(t, "copy") /\ UNCHANGED <<workspace, job>>
    <3>1. InOrder(r.movers)
      BY <1>5, <1>7, <1>9, <1>11, MovedInOrder
    <3>2. Workspaces' = Workspaces
      BY <1>1, <2>3 DEF Workspaces, SharedSpace, JobSpaces, RecipeSpaces
    <3>3. Unaddressed'
      BY <1>1, <2>3, MovingUnaddressed
    <3> QED
      BY <1>1, <1>10, <1>12, <2>2, <2>3, <3>1, <3>2, <3>3, MovedStore
  <2>4. CASE r.movers = {} /\ UNCHANGED moving
    <3>1. \A h \in Handles : table'[h].ptr = table[h].ptr
      <4>1. \A h \in Handles : table'[h].ptr = IF \E v \in r.movers : v.handle = h
                                               THEN (CHOOSE v \in r.movers : v.handle = h).to
                                               ELSE table[h].ptr
        BY <1>9, <1>12, <2>2, RepointedTable
      <4>2. \A h : ~ \E v \in r.movers : v.handle = h
        BY <2>4
      <4> QED
        BY <4>1, <4>2
    <3>2. \A h \in written : h \in Handles
      BY DEF StoreOK, WrittenOK
    <3>3. \A h \in written' : h \in written /\ (table[h].ptr /= Null => table'[h].ptr = table[h].ptr)
      BY <1>1, <3>1, <3>2
    <3>4. UNCHANGED <<mem, moving>>
      BY <1>1, <2>4
    <3> QED
      BY <1>9, <3>3, <3>4, StillFrame DEF StoreOK
  <2> QED
    BY <1>12, <2>3, <2>4
<1>13. \/ UNCHANGED <<poolVars, moveVars>>
       \/ /\ plan.found /\ B /= {} /\ table' = Repointed(r.movers)
          /\ \/ /\ r.ok /\ moving' = [movers |-> r.movers, first |-> first]
                /\ NoteLock(t) \subseteq slips' /\ Goto(t, "copy")
                /\ UNCHANGED <<workspace, job>>
             \/ r.movers = {} /\ UNCHANGED moving
  <2>1. CASE plan.found /\ plan.movers /= {} /\ ~placed.ok
    <3>1. "v2" \in slips' \/ placed.movers = {}
      BY <1>1, <2>1
    <3> QED
      BY <1>1, <1>2, <1>3, <2>1, <3>1 DEF moveVars
  <2>2. CASE plan.found /\ plan.movers /= {} /\ placed.ok
    BY <1>1, <1>2, <1>3, <2>2
  <2>3. CASE ~(plan.found /\ plan.movers /= {})
    BY <1>1, <2>3
  <2> QED
    BY <2>1, <2>2, <2>3
<1> QED
  BY <1>8, <1>12, <1>13

-----------------------------------------------------------------------------
(* Tensors are copied, from the lowest address they leave to the highest.     *)

\* What lies elsewhere is not touched by a copy,
LEMMA CopyKeeps ==
  ASSUME NEW m, NEW v, NEW a \in Nat, NEW h \in Handles, Stores(m, a, h), Room(a, h) \subseteq Units,
         Room(a, h) \cap Room(v.to, v.handle) = {}
  PROVE  Stores(CopyOne(m, v), a, h)
<1> SUFFICES ASSUME NEW n \in 0 .. Size[h] - 1 PROVE CopyOne(m, v)[a + n] = <<h, n>>
  BY DEF Stores
<1>1. PICK u : u = a + n
  OBVIOUS
<1>2. Size[h] \in Nat
  BY Sizing
<1>3. u \in Room(a, h)
  BY <1>1, <1>2 DEF Room, Extent
<1>4. u \in Units /\ u \notin Extent(v.to, Size[v.handle])
  BY <1>3 DEF Room
<1>5. CopyOne(m, v)[u] = m[u]
  BY <1>4 DEF CopyOne
<1> QED
  BY <1>1, <1>5 DEF Stores

\* ... and what is copied is there afterwards.
LEMMA CopyBrings ==
  ASSUME NEW m, NEW v, v.handle \in Handles, v.from \in Nat, v.to \in Nat,
         Stores(m, v.from, v.handle), Room(v.to, v.handle) \subseteq Units
  PROVE  Stores(CopyOne(m, v), v.to, v.handle)
<1> SUFFICES ASSUME NEW n \in 0 .. Size[v.handle] - 1
             PROVE  CopyOne(m, v)[v.to + n] = <<v.handle, n>>
  BY DEF Stores
<1>1. PICK u, a, b : a = v.to /\ b = v.from /\ u = a + n
  OBVIOUS
<1>2. Size[v.handle] \in Nat
  BY Sizing
<1>3. a \in Nat /\ b \in Nat /\ u \in Extent(a, Size[v.handle]) /\ u - a = n
  BY <1>1, <1>2 DEF Extent
<1>4. u \in Units
  BY <1>1, <1>3 DEF Room
<1>5. CopyOne(m, v)[u] = m[b + (u - a)]
  BY <1>1, <1>3, <1>4 DEF CopyOne
<1>6. m[b + n] = <<v.handle, n>>
  BY <1>1 DEF Stores
<1> QED
  BY <1>1, <1>3, <1>5, <1>6

\* What CopyAll has made of memory m, address by address.
CopyUpTo(f, m, movers, top) ==
  f = [a \in 0 .. top |->
         IF a = 0 THEN m
         ELSE IF a \in {v.from : v \in movers}
              THEN CopyOne(f[a - 1], CHOOSE v \in movers : v.from = a) ELSE f[a - 1]]

\* The memories of CopyAll are a function.
LEMMA CopyExists ==
  ASSUME NEW m, NEW movers, NEW top \in Nat
  PROVE  \E f : CopyUpTo(f, m, movers, top)
<1> DEFINE T == {n \in Nat : ~ \E f : CopyUpTo(f, m, movers, n)}
           A == {v.from : v \in movers}
           mover(a) == CHOOSE v \in movers : v.from = a
<1>1. CASE T = {}
  BY <1>1
<1>2. CASE T /= {}
  <2>1. PICK n \in T : \A y \in T : ~(y < n)
    <3>1. T \subseteq Nat
      OBVIOUS
    <3> HIDE DEF T
    <3> QED
      BY <1>2, <3>1, Smallest
  <2>2. CASE n = 0
    <3> DEFINE f == [a \in 0 .. 0 |-> m]
    <3>1. CopyUpTo(f, m, movers, 0)
      BY DEF CopyUpTo
    <3> QED
      BY <2>2, <3>1
  <2>3. CASE n > 0
    <3>1. n - 1 \in Nat /\ n - 1 < n
      BY <2>3
    <3>2. PICK g : CopyUpTo(g, m, movers, n - 1)
      BY <2>1, <3>1
    <3>3. \A a \in 0 .. n - 1 : g[a] = IF a = 0 THEN m
                                       ELSE IF a \in A THEN CopyOne(g[a - 1], mover(a)) ELSE g[a - 1]
      BY <3>1, <3>2 DEF CopyUpTo
    <3> HIDE DEF A, mover
    <3> DEFINE f == [a \in 0 .. n |-> IF a = n
                       THEN IF n \in A THEN CopyOne(g[n - 1], mover(n)) ELSE g[n - 1]
                       ELSE g[a]]
    <3>4. ASSUME NEW a \in 0 .. n
          PROVE  f[a] = IF a = 0 THEN m
                        ELSE IF a \in A THEN CopyOne(f[a - 1], mover(a)) ELSE f[a - 1]
      <4>1. CASE a = n
        <5>1. f[n - 1] = g[n - 1]
          BY <3>1
        <5> QED
          BY <4>1, <5>1, <2>3
      <4>2. CASE a /= n
        <5>1. a \in 0 .. n - 1
          BY <4>2
        <5>2. g[a] = IF a = 0 THEN m
                     ELSE IF a \in A THEN CopyOne(g[a - 1], mover(a)) ELSE g[a - 1]
          BY <3>3, <5>1
        <5>3. a /= 0 => f[a - 1] = g[a - 1]
          BY <5>1
        <5>4. f[a] = g[a]
          BY <4>2
        <5> QED
          BY <5>2, <5>3, <5>4
      <4> QED
        BY <4>1, <4>2
    <3>5. CopyUpTo(f, m, movers, n)
      BY <3>4 DEF CopyUpTo, A, mover
    <3> QED
      BY <3>5, <2>1
  <2> QED
    BY <2>1, <2>2, <2>3
<1> QED
  BY <1>1, <1>2

\* What CopyAll does, one address after the other.
LEMMA CopySteps ==
  ASSUME NEW m, NEW movers
  PROVE  \E f : /\ CopyAll(m, movers) = f[PoolSize - 1] /\ f[0] = m
                /\ \A a \in 1 .. PoolSize - 1 :
                     f[a] = IF a \in {v.from : v \in movers}
                            THEN CopyOne(f[a - 1], CHOOSE v \in movers : v.from = a) ELSE f[a - 1]
<1>1. PoolSize - 1 \in Nat
  BY Sizes
<1> DEFINE f == CHOOSE g : CopyUpTo(g, m, movers, PoolSize - 1)
<1>2. CopyUpTo(f, m, movers, PoolSize - 1)
  BY <1>1, CopyExists
<1>3. CopyAll(m, movers) = f[PoolSize - 1]
  BY DEF CopyAll, Ascending, CopyUpTo, Units
<1> HIDE DEF f
<1>4. f[0] = m
  BY <1>2, <1>1 DEF CopyUpTo
<1>5. ASSUME NEW a \in 1 .. PoolSize - 1
      PROVE  f[a] = IF a \in {v.from : v \in movers}
                    THEN CopyOne(f[a - 1], CHOOSE v \in movers : v.from = a) ELSE f[a - 1]
  BY <1>2, <1>1 DEF CopyUpTo
<1> QED
  BY <1>3, <1>4, <1>5

\* Where the data of tensors is in memory m when the movers up to address a
\* have been copied.
CopiedUpTo(m, a) ==
  \A h \in written :
    /\ \A v \in moving.movers : v.handle = h => Stores(m, IF v.from <= a THEN v.to ELSE v.from, h)
    /\ (~ \E v \in moving.movers : v.handle = h) => Stores(m, table[h].ptr, h)

\* The memory of tensors, old and new, as far as a copy has to do with it.
LEMMA TensorRooms ==
  ASSUME DataOK, StoreOK
  PROVE  /\ \A h \in Handles : table[h].ptr \in Nat
         /\ \A h \in Handles : table[h].ptr /= Null => Room(table[h].ptr, h) \subseteq Units
         /\ \A h, g \in Handles : h /= g /\ table[h].ptr /= Null /\ table[g].ptr /= Null =>
              Room(table[h].ptr, h) \cap Room(table[g].ptr, g) = {}
         /\ \A v \in moving.movers : Room(v.from, v.handle) \subseteq Units
<1>1. PICK p, at, old : p = pool /\ at = AddressOf /\ old = Old
  OBVIOUS
<1>2. IsPool(p) /\ Matches(p, at, old)
  BY <1>1 DEF DataOK, TableOK, MemoryOK, TableMatch
<1>3. \A h \in Handles : at[h] = table[h].ptr
  BY <1>1 DEF AddressOf
<1>4. \A h \in Handles : table[h].ptr \in Nat
  BY Sizes DEF DataOK, TableOK, Units
<1>5. \A h \in Handles : at[h] /= Null => Room(at[h], h) \subseteq Units
  BY <1>2, RoomInSpan DEF Matches
<1>6. \A h, g \in Handles : h /= g /\ at[h] /= Null /\ at[g] /= Null => Room(at[h], h) \cap Room(at[g], g) = {}
  BY <1>2, RoomsApart
<1>7. ASSUME NEW v \in moving.movers PROVE Room(v.from, v.handle) \subseteq Units
  <2>1. v.handle \in Handles /\ v.from \in Units /\ v.from + Size[v.handle] <= PoolSize
    BY DEF StoreOK, MoversOK
  <2>2. Size[v.handle] \in Nat /\ PoolSize \in Nat
    BY <2>1, Sizing, Sizes
  <2> QED
    BY <2>1, <2>2 DEF Room, Extent, Units
<1> QED
  BY <1>3, <1>4, <1>5, <1>6, <1>7

\* The next address up: nothing but its mover is copied.
LEMMA CopyStep ==
  ASSUME DataOK, StoreOK, NEW m, NEW a \in 1 .. PoolSize - 1, CopiedUpTo(m, a - 1),
         NEW w, w = IF a \in {v.from : v \in moving.movers}
                    THEN CopyOne(m, CHOOSE v \in moving.movers : v.from = a) ELSE m
  PROVE  CopiedUpTo(w, a)
<1>1. \A v \in moving.movers : /\ v.handle \in Handles /\ v.from \in Nat /\ v.to = table[v.handle].ptr
                               /\ v.to /= Null /\ v.to \in Nat /\ Room(v.to, v.handle) \subseteq Units
                               /\ Room(v.from, v.handle) \subseteq Units
  <2>1. \A v \in moving.movers : v.handle \in Handles /\ v.from \in Units
                                 /\ v.to = table[v.handle].ptr /\ v.to /= Null
    BY DEF StoreOK, MoversOK
  <2> QED
    BY <2>1, TensorRooms, Sizes DEF Units
<1>2. \A v, x \in moving.movers : v.handle = x.handle \/ v.from = x.from => v = x
  BY DEF StoreOK, MoversOK
<1>3. \A h \in written : h \in Handles
  BY DEF StoreOK, WrittenOK
<1>4. CASE a \notin {v.from : v \in moving.movers}
  <2>1. w = m
    BY <1>4
  <2>2. \A v \in moving.movers : v.from <= a <=> v.from <= a - 1
    BY <1>1, <1>4
  <2> QED
    BY <2>1, <2>2 DEF CopiedUpTo
<1>5. CASE a \in {v.from : v \in moving.movers}
  <2>1. PICK c : c = CHOOSE v \in moving.movers : v.from = a
    OBVIOUS
  <2>2. c \in moving.movers /\ c.from = a /\ w = CopyOne(m, c)
    BY <1>5, <2>1
  <2>3. ASSUME NEW h \in Handles, NEW b \in Nat, Stores(m, b, h), Room(b, h) \subseteq Units,
               Room(b, h) \cap Room(c.to, c.handle) = {}
        PROVE  Stores(w, b, h)
    BY <2>2, <2>3, CopyKeeps
  <2>4. ASSUME NEW h \in written, NEW v \in moving.movers, v.handle = h
        PROVE  Stores(w, IF v.from <= a THEN v.to ELSE v.from, h)
    <3>1. CASE v = c
      <4>1. Stores(m, c.from, c.handle)
        <5>1. ~(c.from <= a - 1)
          BY <2>2
        <5> QED
          BY <2>4, <3>1, <5>1 DEF CopiedUpTo
      <4>2. Stores(w, c.to, c.handle)
        BY <1>1, <2>2, <4>1, CopyBrings
      <4> QED
        BY <2>2, <2>4, <3>1, <4>2
    <3>2. CASE v /= c /\ v.from <= a
      <4>1. v.from <= a - 1
        BY <1>1, <1>2, <2>2, <3>2
      <4>2. Stores(m, v.to, h)
        BY <2>4, <4>1 DEF CopiedUpTo
      <4>3. v.handle /= c.handle
        BY <1>2, <2>2, <3>2
      <4>4. Room(v.to, h) \cap Room(c.to, c.handle) = {}
        BY <1>1, <2>2, <2>4, <4>3, TensorRooms
      <4>5. Stores(w, v.to, h)
        BY <1>1, <2>3, <2>4, <4>2, <4>4
      <4> QED
        BY <3>2, <4>5
    <3>3. CASE ~(v.from <= a)
      <4>1. ~(v.from <= a - 1) /\ c.from < v.from
        BY <1>1, <2>2, <3>3
      <4>2. Stores(m, v.from, h)
        BY <2>4, <4>1 DEF CopiedUpTo
      <4>3. Room(c.to, c.handle) \cap Room(v.from, h) = {}
        BY <2>2, <2>4, <4>1 DEF StoreOK, MoversOK, InOrder
      <4>4. Stores(w, v.from, h)
        BY <1>1, <2>3, <2>4, <4>2, <4>3
      <4> QED
        BY <3>3, <4>4
    <3> QED
      BY <3>1, <3>2, <3>3
  <2>5. ASSUME NEW h \in written, ~ \E v \in moving.movers : v.handle = h
        PROVE  Stores(w, table[h].ptr, h)
    <3>1. Stores(m, table[h].ptr, h)
      BY <2>5 DEF CopiedUpTo
    <3>2. h \in Handles /\ table[h].ptr /= Null
      BY <2>5 DEF StoreOK, WrittenOK, DataAt
    <3>3. c.handle /= h
      BY <2>2, <2>5
    <3>4. Room(table[h].ptr, h) \cap Room(c.to, c.handle) = {}
      BY <1>1, <2>2, <3>2, <3>3, TensorRooms
    <3>5. table[h].ptr \in Nat /\ Room(table[h].ptr, h) \subseteq Units
      BY <3>2, TensorRooms
    <3> QED
      BY <2>3, <3>1, <3>2, <3>4, <3>5
  <2> QED
    BY <2>4, <2>5 DEF CopiedUpTo
<1> QED
  BY <1>4, <1>5

\* Copy: what was written is where the table says.
LEMMA CopyStore ==
  ASSUME DataOK, StoreOK, NEW t \in Threads, Copy(t)
  PROVE  StoreOK'
<1>1. mem' = CopyAll(mem, moving.movers) /\ moving' = NoMove /\ UNCHANGED <<table, written>>
  BY DEF Copy
<1>2. PICK f : /\ mem' = f[PoolSize - 1] /\ f[0] = mem
               /\ \A a \in 1 .. PoolSize - 1 :
                    f[a] = IF a \in {v.from : v \in moving.movers}
                           THEN CopyOne(f[a - 1], CHOOSE v \in moving.movers : v.from = a) ELSE f[a - 1]
  BY <1>1, CopySteps
<1>3. CopiedUpTo(mem, 0)
  <2>1. ASSUME NEW h \in written, NEW v \in moving.movers, v.handle = h
        PROVE  Stores(mem, v.from, h) /\ ~(v.from <= 0)
    <3>1. DataAt(h) = v.from
      BY <2>1, AtMover DEF StoreOK
    <3>2. v.from \in Units \ {Null}
      BY DEF StoreOK, MoversOK
    <3> QED
      BY <3>1, <3>2, Sizes DEF StoreOK, WrittenOK, Units, Null
  <2>2. ASSUME NEW h \in written, ~ \E v \in moving.movers : v.handle = h
        PROVE  Stores(mem, table[h].ptr, h)
    BY <2>2 DEF StoreOK, WrittenOK, DataAt
  <2> QED
    BY <2>1, <2>2 DEF CopiedUpTo
<1>4. PICK top : top = PoolSize - 1
  OBVIOUS
<1>5. PICK S : S = {a \in 0 .. top : CopiedUpTo(f[a], a)}
  OBVIOUS
<1>6. top \in Nat
  BY <1>4, Sizes
<1>7. 0 \in S
  BY <1>2, <1>3, <1>5, <1>6
<1>8. ASSUME NEW a \in 1 .. top, a - 1 \in S PROVE a \in S
  <2>1. CopiedUpTo(f[a - 1], a - 1)
    BY <1>5, <1>8
  <2>2. CopiedUpTo(f[a], a)
    BY <1>2, <1>4, <2>1, CopyStep
  <2> QED
    BY <1>5, <1>6, <2>2
<1>9. CopiedUpTo(mem', top)
  <2>1. top \in S
    BY <1>6, <1>7, <1>8, Upwards
  <2> QED
    BY <1>2, <1>4, <1>5, <2>1
<1>10. ASSUME NEW h \in written
       PROVE  h \in Handles /\ table[h].ptr \in Units \ {Null} /\ Stores(mem', table[h].ptr, h)
  <2>1. h \in Handles /\ DataAt(h) \in Units \ {Null} /\ table[h].ptr \in Units
    BY DEF StoreOK, WrittenOK, DataOK, TableOK
  <2>2. CASE \E v \in moving.movers : v.handle = h
    <3>1. PICK v \in moving.movers : v.handle = h
      BY <2>2
    <3>2. v.from \in Units /\ v.to = table[h].ptr /\ v.to /= Null
      BY <3>1 DEF StoreOK, MoversOK
    <3>3. v.from <= top
      BY <1>4, <3>2, Sizes DEF Units
    <3>4. Stores(mem', v.to, h)
      BY <1>9, <3>1, <3>3 DEF CopiedUpTo
    <3> QED
      BY <2>1, <3>2, <3>4
  <2>3. CASE ~ \E v \in moving.movers : v.handle = h
    <3>1. Stores(mem', table[h].ptr, h)
      BY <1>9, <2>3 DEF CopiedUpTo
    <3> QED
      BY <2>1, <2>3, <3>1 DEF DataAt
  <2> QED
    BY <2>2, <2>3
<1>11. moving'.movers = {}
  BY <1>1 DEF NoMove
<1>12. WrittenOK'
  <2>1. \A h : DataAt(h)' = table[h].ptr
    BY <1>1, <1>11 DEF DataAt
  <2> QED
    BY <1>1, <1>10, <2>1 DEF WrittenOK
<1>13. MoversOK' /\ Unaddressed'
  BY <1>11 DEF MoversOK, InOrder, Unaddressed
<1> QED
  BY <1>12, <1>13 DEF StoreOK

-----------------------------------------------------------------------------
(* The data: the theorem.                                                     *)

\* A step of a call keeps what was written.
LEMMA ContinueStore ==
  ASSUME ControlOK, DataOK, AddressOK, StoreOK, NEW t \in Threads, Continue(t), slips' = {}
  PROVE  StoreOK'
BY CallStore, WorkspaceStore, GainStore, CollectStore, CopyStore, LaunchStore, CountStore DEF Continue

\* The invariant, up to the first slip.
StoreInv == slips = {} => StoreOK

\* At first nothing is written, and nothing moves.
LEMMA StoreInit == Init => StoreInv
<1> SUFFICES ASSUME Init PROVE StoreOK
  BY DEF StoreInv
<1>1. written = {} /\ moving.movers = {}
  BY DEF Init, NoMove
<1> QED
  BY <1>1 DEF StoreOK, WrittenOK, MoversOK, InOrder, Unaddressed

\* Every step keeps it.
LEMMA StoreNext ==
  ASSUME MemoryInv, AddressInv, StoreInv, [Next]_vars
  PROVE  StoreInv'
<1>1. CASE Next
  <2>1. slips = {}
    BY <1>1, NextFollowed
  <2>2. ControlOK /\ DataOK /\ AddressOK /\ StoreOK
    BY <2>1 DEF MemoryInv, AddressInv, StoreInv
  <2>3. ASSUME slips' = {} PROVE StoreOK'
    <3>1. ASSUME NEW t \in Threads, Continue(t) PROVE StoreOK'
      BY <2>2, <2>3, <3>1, ContinueStore
    <3>2. ASSUME NEW t \in Threads,
                 \/ \E r \in Recipes : BeginLaunch(t, r[1], r[2])
                 \/ \E h \in Handles : FixAddress(t, h)
          PROVE  StoreOK'
      BY <2>2, <3>2, BeginStore
    <3>3. ASSUME NEW h \in Handles, Malloc(h) \/ Free(h) PROVE StoreOK'
      BY <2>2, <3>3, MallocStore, FreeStore
    <3>4. CASE Execute \/ Release
      BY <2>2, <3>4, ExecuteStore, ReleaseStore
    <3> QED
      BY <1>1, <3>1, <3>2, <3>3, <3>4 DEF Next
  <2> QED
    BY <2>3 DEF StoreInv
<1>2. CASE UNCHANGED vars
  <2>1. UNCHANGED <<slips, mem, written, moving, table, recipes, workspace, pc, job>>
    BY <1>2 DEF vars, poolVars, moveVars, deviceVars
  <2>2. Undisturbed
    BY <2>1 DEF Undisturbed, AddressOf, Workspaces, SharedSpace, JobSpaces, RecipeSpaces
  <2>3. OutsKept /\ RecipeOuts
    BY <2>1 DEF OutsKept, RecipeOuts
  <2> QED
    BY <2>1, <2>2, <2>3, StoreFrame, UnaddressedKept DEF StoreInv, StoreOK
<1> QED
  BY <1>1, <1>2

\* What a recipe has written in a tensor is found at the tensor's address for as
\* long as the tensor lives, however often it moves and whatever runs meanwhile.
THEOREM DataSurvives == Spec => []DataIntact
<1>1. Init => MemoryInv /\ AddressInv /\ StoreInv
  BY MemoryInit, AddressInit, StoreInit DEF AddressInv
<1>2. MemoryInv /\ AddressInv /\ StoreInv /\ [Next]_vars => (MemoryInv /\ AddressInv /\ StoreInv)'
  BY MemoryNext, AddressNext, StoreNext
<1>3. MemoryInv /\ AddressInv /\ StoreInv => DataIntact
  <2> SUFFICES ASSUME MemoryInv, StoreInv, slips = {}, mutex_ = None, NEW h \in written,
                      NEW i \in 0 .. Size[h] - 1
               PROVE  mem[table[h].ptr + i] = <<h, i>>
    BY DEF DataIntact
  <2>1. WrittenOK /\ moving.movers = {}
    BY NoMovers DEF MemoryInv, StoreInv, StoreOK, NoMove
  <2>2. DataAt(h) = table[h].ptr
    BY <2>1, AtTable
  <2> QED
    BY <2>1, <2>2 DEF WrittenOK, Stores
<1> QED
  BY <1>1, <1>2, <1>3, PTL DEF Spec

-----------------------------------------------------------------------------
(* The values of the variables.                                               *)

\* What a unit of memory holds: nothing of a tensor, or one unit of one.
Contents == {None} \cup (Handles \X (0 .. PoolSize))

\* What is left of TypeOK: the locks beyond a slip, and the tensors' data.
TypeInv ==
  /\ slips /= {} => locks \in 0 .. Len(recipes) + Cardinality(Threads)
  /\ written \subseteq Handles
  /\ mem \in [Units -> Contents]

\* Never are there more locks than recipes and threads.
LEMMA LocksInRange ==
  ASSUME DataOK, LocksOK
  PROVE  locks \in 0 .. Len(recipes) + Cardinality(Threads)
<1>1. /\ IsFiniteSet(Launching) /\ Cardinality(Launching) \in Nat /\ Len(recipes) \in Nat
      /\ locks = Len(recipes) + Cardinality(Launching)
  BY LockCount
<1>2. Launching \subseteq Threads
  BY DEF Launching
<1>3. Cardinality(Launching) <= Cardinality(Threads) /\ Cardinality(Threads) \in Nat
  BY <1>2, MemoryAssumption, FS_Subset, FS_CardinalityType
<1> QED
  BY <1>1, <1>3

\* A recipe writes units of its tensors.
LEMMA ExecuteType ==
  ASSUME DataOK, AddressOK, TypeInv, Execute
  PROVE  written' \subseteq Handles /\ mem' \in [Units -> Contents]
<1>1. PICK i \in DOMAIN recipes : ~recipes[i].done /\ Writes(recipes[i])
  BY ExecuteWrites
<1>2. PICK r : r = recipes[i]
  OBVIOUS
<1>3. /\ r.list \in Seq(Handles) /\ r.out \in Seq(Units \ {Null})
      /\ Len(r.out) = Len(r.list)
  <2>1. recipes[i] \in Recipe
    BY DEF DataOK
  <2> QED
    BY <1>2, <2>1 DEF Recipe, AddressOK, RecipesCurrent
<1>4. DOMAIN r.out = DOMAIN r.list
  BY <1>3
<1>5. ASSUME NEW u \in Units PROVE mem'[u] \in Contents
  <2>1. CASE \E k : Covers(r, k, u) /\ mem'[u] = <<r.list[k], u - r.out[k]>>
    <3>1. PICK k : Covers(r, k, u) /\ mem'[u] = <<r.list[k], u - r.out[k]>>
      BY <2>1
    <3>2. PICK a, h : a = r.out[k] /\ h = r.list[k]
      OBVIOUS
    <3>3. h \in Handles /\ a \in Units
      BY <1>3, <1>4, <3>1, <3>2 DEF Covers
    <3>4. a <= u
      <4>1. Size[h] \in Nat
        BY <3>3, Sizing
      <4> QED
        BY <3>1, <3>2, <3>3, <4>1, Sizes DEF Covers, Room, Extent, Units
    <3>5. u - a \in 0 .. PoolSize
      BY <3>3, <3>4, Sizes DEF Units
    <3> QED
      BY <3>1, <3>2, <3>3, <3>5 DEF Contents
  <2>2. CASE mem'[u] = None \/ mem'[u] = mem[u]
    BY <2>2 DEF TypeInv, Contents
  <2> QED
    BY <1>1, <1>2, <2>1, <2>2 DEF Writes
<1>6. mem' \in [Units -> Contents]
  BY <1>1, <1>5 DEF Writes
<1>7. written' \subseteq Handles
  <2>1. Elements(r.list) \subseteq Handles
    BY <1>3 DEF Elements
  <2> QED
    BY <1>1, <1>2, <2>1 DEF Writes, TypeInv
<1> QED
  BY <1>6, <1>7

\* One copy reads units of memory.
LEMMA CopyOneType ==
  ASSUME NEW m \in [Units -> Contents], NEW v, v.handle \in Handles, v.from \in Units, v.to \in Units,
         v.from + Size[v.handle] <= PoolSize
  PROVE  CopyOne(m, v) \in [Units -> Contents]
<1>1. PICK a, b, n : a = v.from /\ b = v.to /\ n = Size[v.handle]
  OBVIOUS
<1>2. n \in Nat /\ a \in Nat /\ b \in Nat /\ a + n <= PoolSize
  BY <1>1, Sizing, Sizes DEF Units
<1>3. ASSUME NEW u \in Units, u \in Extent(b, n) PROVE a + (u - b) \in Units
  BY <1>2, <1>3, Sizes DEF Extent, Units
<1>4. CopyOne(m, v) = [u \in Units |-> IF u \in Extent(b, n) THEN m[a + (u - b)] ELSE m[u]]
  BY <1>1 DEF CopyOne
<1> QED
  BY <1>3, <1>4

\* ... and so do all of them.
LEMMA CopyType ==
  ASSUME DataOK, StoreOK, TypeInv, NEW t \in Threads, Copy(t)
  PROVE  mem' \in [Units -> Contents]
<1>1. mem' = CopyAll(mem, moving.movers)
  BY DEF Copy
<1>2. PICK f : /\ mem' = f[PoolSize - 1] /\ f[0] = mem
               /\ \A a \in 1 .. PoolSize - 1 :
                    f[a] = IF a \in {v.from : v \in moving.movers}
                           THEN CopyOne(f[a - 1], CHOOSE v \in moving.movers : v.from = a) ELSE f[a - 1]
  BY <1>1, CopySteps
<1>3. ASSUME NEW a \in 1 .. PoolSize - 1, f[a - 1] \in [Units -> Contents]
      PROVE  f[a] \in [Units -> Contents]
  <2>1. CASE a \in {v.from : v \in moving.movers}
    <3>1. PICK v : v = CHOOSE w \in moving.movers : w.from = a
      OBVIOUS
    <3>2. v \in moving.movers
      BY <2>1, <3>1
    <3>3. v.handle \in Handles /\ v.from \in Units /\ v.to \in Units /\ v.from + Size[v.handle] <= PoolSize
      BY <3>2 DEF StoreOK, MoversOK, DataOK, TableOK
    <3>4. CopyOne(f[a - 1], v) \in [Units -> Contents]
      BY <1>3, <3>3, CopyOneType
    <3> QED
      BY <1>2, <2>1, <3>1, <3>4
  <2>2. CASE a \notin {v.from : v \in moving.movers}
    BY <1>2, <1>3, <2>2
  <2> QED
    BY <2>1, <2>2
<1>4. PICK top : top = PoolSize - 1
  OBVIOUS
<1>5. PICK S : S = {a \in 0 .. top : f[a] \in [Units -> Contents]}
  OBVIOUS
<1>6. top \in Nat
  BY <1>4, Sizes
<1>7. 0 \in S
  BY <1>2, <1>5, <1>6 DEF TypeInv
<1>8. ASSUME NEW a \in 1 .. top, a - 1 \in S PROVE a \in S
  BY <1>3, <1>4, <1>5, <1>6, <1>8
<1>9. top \in S
  BY <1>6, <1>7, <1>8, Upwards
<1> QED
  BY <1>2, <1>4, <1>5, <1>9

\* The steps that write memory, and those that may end in a slip.
LEMMA ContinueWrites ==
  ASSUME NEW t \in Threads, Continue(t)
  PROVE  /\ UNCHANGED written /\ (UNCHANGED mem \/ Copy(t))
         /\ UNCHANGED slips \/ UNCHANGED <<locks, recipes>>
<1>1. CASE \/ CheckMemory(t) \/ BeginCleanup(t) \/ EnterWorkspace(t) \/ LockExtend(t)
           \/ EstimateMemory(t) \/ LockAddresses(t) \/ FinishFix(t) \/ FinishLock(t)
           \/ Synchronize(t) \/ Drain(t) \/ DrainTimesOut(t) \/ Copy(t) \/ Launch(t) \/ CountRecipe(t)
  BY <1>1 DEF CheckMemory, BeginCleanup, EnterWorkspace, LockExtend, EstimateMemory, LockAddresses,
     FinishFix, FinishLock, Synchronize, Drain, DrainTimesOut, Copy, Launch, CountRecipe, deviceVars
<1>2. CASE ExtendFirst(t) \/ ExtendIdle(t) \/ ExtendAgain(t)
  BY <1>2 DEF ExtendFirst, ExtendIdle, ExtendAgain, Extend, deviceVars
<1>3. CASE Cleanup(t) \/ Translate(t) \/ Retry(t) \/ TranslateAgain(t) \/ Collect(t)
  BY <1>3 DEF Cleanup, Translate, Retry, TranslateAgain, Collect, deviceVars, lockVars
<1> QED
  BY <1>1, <1>2, <1>3 DEF Continue

\* Every step keeps the values in range.
LEMMA TypeNext ==
  ASSUME MemoryInv, AddressInv, StoreInv, TypeInv, [Next]_vars
  PROVE  TypeInv'
<1>1. CASE UNCHANGED vars
  <2>1. UNCHANGED <<slips, locks, recipes, written, mem>>
    BY <1>1 DEF vars, lockVars, deviceVars
  <2> QED
    BY <2>1 DEF TypeInv, Contents
<1>2. CASE Next
  <2>1. slips = {} /\ ControlOK /\ DataOK /\ AddressOK /\ StoreOK
    BY <1>2, NextFollowed DEF MemoryInv, AddressInv, StoreInv
  <2>2. locks \in 0 .. Len(recipes) + Cardinality(Threads)
    BY <2>1, LocksInRange DEF AddressOK
  <2>3. /\ UNCHANGED slips \/ UNCHANGED <<locks, recipes>>
        /\ written' \subseteq Handles /\ mem' \in [Units -> Contents]
    <3>1. ASSUME NEW t \in Threads, Continue(t)
          PROVE  /\ UNCHANGED slips \/ UNCHANGED <<locks, recipes>>
                 /\ written' \subseteq Handles /\ mem' \in [Units -> Contents]
      BY <2>1, <3>1, ContinueWrites, CopyType DEF TypeInv
    <3>2. ASSUME NEW t \in Threads,
                 \/ \E r \in Recipes : BeginLaunch(t, r[1], r[2])
                 \/ \E h \in Handles : FixAddress(t, h)
          PROVE  UNCHANGED <<slips, written, mem>>
      BY <3>2 DEF BeginLaunch, FixAddress, deviceVars
    <3>3. ASSUME NEW h \in Handles, Malloc(h) \/ Free(h)
          PROVE  UNCHANGED <<slips, mem>> /\ written' \subseteq Handles
      BY <3>3 DEF Malloc, Free, deviceVars, TypeInv
    <3>4. CASE Release
      BY <3>4 DEF Release, TypeInv
    <3>5. CASE Execute
      <4>1. UNCHANGED slips
        BY <3>5 DEF Execute
      <4> QED
        BY <2>1, <3>5, <4>1, ExecuteType
    <3>6. mem \in [Units -> Contents] /\ written \subseteq Handles
      BY DEF TypeInv
    <3> QED
      BY <1>2, <3>1, <3>2, <3>3, <3>4, <3>5, <3>6 DEF Next
  <2>4. slips' /= {} => (locks \in 0 .. Len(recipes) + Cardinality(Threads))'
    BY <2>1, <2>2, <2>3
  <2> QED
    BY <2>3, <2>4 DEF TypeInv, Contents
<1> QED
  BY <1>1, <1>2

\* A device starts with nothing in memory.
LEMMA TypeInit == Init => TypeInv
<1> SUFFICES ASSUME Init PROVE TypeInv
  OBVIOUS
<1>1. slips = {} /\ written = {} /\ mem = [u \in Units |-> None]
  BY DEF Init
<1> QED
  BY <1>1 DEF TypeInv, Contents

\* A thread is at a control point of its call, with the addresses of the
\* tensors it has translated so far.
LEMMA CallType ==
  ASSUME ControlOK
  PROVE  /\ pc \in [Threads -> Locs]
         /\ \A t \in Threads : pc[t] = "idle" <=> job[t] = NoJob
         /\ \A t \in Threads : job[t] /= NoJob =>
              /\ Len(job[t].out) + Len(job[t].todo) = Len(job[t].list)
              /\ Elements(job[t].out) \subseteq Units \ {Null}
<1>1. ASSUME NEW t \in Threads
      PROVE  /\ pc[t] \in Locs /\ (pc[t] = "idle" <=> job[t] = NoJob)
             /\ job[t] /= NoJob => IsJob(job[t])
  <2>1. CASE pc[t] = "idle" /\ job[t] = NoJob
    BY <2>1 DEF Locs
  <2>2. CASE IsJob(job[t]) /\ pc[t] \in WorkspaceLocs \cup LaunchLocs \cup {"translate", "retry"} \cup DefragLocs
    <3>1. job[t] /= NoJob
      BY <2>2, UnderWay
    <3> QED
      BY <2>2, <3>1 DEF Locs, WorkspaceLocs, LaunchLocs, DefragLocs
  <2> QED
    BY <2>1, <2>2, Held DEF CallAt
<1>2. pc \in [Threads -> Locs]
  BY <1>1 DEF ControlOK, CallsOK
<1>3. ASSUME NEW t \in Threads, job[t] /= NoJob
      PROVE  /\ Len(job[t].out) + Len(job[t].todo) = Len(job[t].list)
             /\ Elements(job[t].out) \subseteq Units \ {Null}
  <2>1. PICK j : j = job[t]
    OBVIOUS
  <2>2. j.out \in Seq(Units \ {Null}) /\ Len(j.list) = Len(j.out) + Len(j.todo)
    BY <1>1, <1>3, <2>1 DEF IsJob
  <2>3. Elements(j.out) \subseteq Units \ {Null}
    BY <2>2 DEF Elements
  <2> QED
    BY <2>1, <2>2, <2>3
<1> QED
  BY <1>1, <1>2, <1>3

\* Every variable has a value of its type, beyond a slip too: no address lies
\* outside the pool, and no call has more or fewer addresses than it has
\* translated tensors.
THEOREM TypeCorrect == Spec => []TypeOK
<1>1. Init => MemoryInv /\ AddressInv /\ StoreInv /\ TypeInv
  BY MemoryInit, AddressInit, StoreInit, TypeInit DEF AddressInv
<1>2. MemoryInv /\ AddressInv /\ StoreInv /\ TypeInv /\ [Next]_vars
        => (MemoryInv /\ AddressInv /\ StoreInv /\ TypeInv)'
  BY MemoryNext, AddressNext, StoreNext, TypeNext
<1>3. MemoryInv /\ AddressInv /\ TypeInv => TypeOK
  <2> SUFFICES ASSUME MemoryInv, AddressInv, TypeInv PROVE TypeOK
    OBVIOUS
  <2>1. ControlOK /\ TableOK
    BY DEF MemoryInv
  <2>2. pool.small \subseteq Units
    <3>1. pool.small \subseteq 1 .. SmallEnd - 1 /\ SmallEnd - 1 < PoolSize
      BY <2>1, GivenParts, Sizes DEF TableOK, SmallEnd, SmallBase
    <3> QED
      BY <3>1, Sizes DEF Units, SmallEnd, SmallBase
  <2>3. {pool.high, pool.exact, update_on_defragment_} \subseteq BOOLEAN
    BY <2>1 DEF TableOK
  <2>4. {mutex_, defragmentation_mutex_, ws_mutex_} \subseteq Threads \cup {None}
    BY <2>1 DEF ControlOK, MutexesOK
  <2>5. /\ table \in [Handles -> [active : BOOLEAN, ptr : Units, fixed : BOOLEAN]]
        /\ workspace.ptr \in Units /\ workspace.size \in 0 .. PoolSize
    BY <2>1 DEF TableOK
  <2>6. locks \in 0 .. Len(recipes) + Cardinality(Threads)
    BY LocksInRange DEF MemoryInv, AddressInv, AddressOK, TypeInv
  <2> QED
    BY <2>1, <2>2, <2>3, <2>4, <2>5, <2>6, CallType DEF TypeOK, TypeInv, Contents
<1> QED
  BY <1>1, <1>2, <1>3, PTL DEF Spec

=============================================================================
