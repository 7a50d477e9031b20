---------------------------- MODULE DeviceMemory -----------------------------
(***************************************************************************)
(* Device memory behind handles (device_memory.cpp), its defragmentation   *)
(* (memory_defragmentation.cpp), the workspace shared by all recipes       *)
(* (device.cpp) and the threads that launch recipes (graph.cpp).           *)
(*                                                                         *)
(* A tensor is a handle; its memory is taken from the pool when it is      *)
(* translated to an address for the first time.  A launch makes sure of    *)
(* the workspace, translates its tensors and locks the addresses until the *)
(* recipe has run.  A thread that finds no memory moves tensors together;  *)
(* it must not do so while anybody works with an address.                  *)
(*                                                                         *)
(* In four situations the code loses track of who uses what; slips names   *)
(* them, and a behaviour is not followed any further once one has occurred *)
(* (see NoteTail, NoteWorkspace, NoteLock and Collect).                    *)
(***************************************************************************)
EXTENDS StringentPool, Sequences

CONSTANTS
  Threads,          \* the threads that launch recipes
  Fixers,           \* those of them that call fix_address
  Handles,          \* mem_handle::id_t
  Size, Stream,     \* of each handle, in units
  Recipes,          \* what is launched: lists of tensors, sizes of workspace
  InitialWorkspace, \* PT_HPU_INITIAL_WORKSPACE_SIZE
  MaxCalls,         \* bound on the calls of the program
  None

ASSUME MemoryAssumption ==
  /\ IsFiniteSet(Threads) /\ Fixers \subseteq Threads
  /\ Size \in [Handles -> Nat \ {0}] /\ Stream \in [Handles -> Nat]
  /\ Recipes \subseteq Seq(Handles) \X (Nat \ {0})
  /\ InitialWorkspace \in Nat \ {0}
  /\ SmallUnits + InitialWorkspace < PoolSize       \* or no device is created
  /\ None \notin Threads

VARIABLES
  pool,                    \* suballoc_
  table,                   \* handle2pointer_
  update_on_defragment_,
  locks,                   \* threads_in_defragmenter_critical_section_
  recipes,                 \* recipes given to the device and not yet released
  mutex_,                  \* the thread that defragments
  defragmentation_mutex_, ws_mutex_,
  workspace,               \* workspace_buffer_ and workspace_size_
  pc, job,                 \* control point and call of each thread
  moving,                  \* the movers whose data is still to be copied, and
                           \* whether they keep their old memory until then
  mem,                     \* what each unit of memory holds: a part of a tensor
  written,                 \* history: tensors that a recipe has written
  slips,                   \* history: see above
  calls                    \* calls of the program so far

poolVars   == <<pool, table>>
lockVars   == <<update_on_defragment_, locks, defragmentation_mutex_, ws_mutex_>>
moveVars   == <<mutex_, moving>>
deviceVars == <<recipes, mem, written>>
vars == <<poolVars, lockVars, moveVars, deviceVars, workspace, pc, job, slips, calls>>

NoJob  == [kind |-> "none"]
NoMove == [movers |-> {}, first |-> FALSE]
Units  == 0 .. PoolSize - 1

Elements(s) == {s[i] : i \in DOMAIN s}
Extent(a, n) == a .. a + n - 1

\* active_recipe_counter: recipes that were launched and counted.
RecipeCount == Cardinality({i \in DOMAIN recipes : recipes[i].counted})

Init ==
  /\ pool = ExtendHighMemory(PoolCreate, InitialWorkspace, 0).pool
  /\ table = [h \in Handles |-> [active |-> TRUE, ptr |-> Null, fixed |-> FALSE]]
  /\ update_on_defragment_ = FALSE
  /\ locks = 0
  /\ recipes = <<>>
  /\ mutex_ = None /\ defragmentation_mutex_ = None /\ ws_mutex_ = None
  /\ workspace = [ptr  |-> ExtendHighMemory(PoolCreate, InitialWorkspace, 0).ptr,
                  size |-> InitialWorkspace]
  /\ pc = [t \in Threads |-> "idle"]
  /\ job = [t \in Threads |-> NoJob]
  /\ moving = NoMove
  /\ mem = [u \in Units |-> None]
  /\ written = {}
  /\ slips = {}
  /\ calls = 0

----------------------------------------------------------------------------
(* Control. *)

\* No behaviour is followed beyond a slip.
Followed     == slips = {}
At(t, loc)   == Followed /\ pc[t] = loc
Goto(t, loc) == pc' = [pc EXCEPT ![t] = loc]

InUse(h) ==
  \/ \E t \in Threads : job[t] /= NoJob /\ h \in Elements(job[t].list)
  \/ \E i \in DOMAIN recipes : h \in Elements(recipes[i].list)

Begin(t, kind, list, n, loc) ==
  /\ At(t, "idle") /\ calls < MaxCalls
  /\ calls' = calls + 1
  /\ job' = [job EXCEPT ![t] = [kind |-> kind, list |-> list, todo |-> list,
                                out |-> <<>>, again |-> FALSE, need |-> 0,
                                n |-> n, ws |-> Null]]
  /\ Goto(t, loc)

\* Fault: a call that throws keeps the mutexes it has locked.
EndHolding(t) ==
  /\ Goto(t, "idle")
  /\ job' = [job EXCEPT ![t] = NoJob]
  /\ UNCHANGED <<defragmentation_mutex_, ws_mutex_>>

\* Fault: the call is not taken off the thread.
EndLingering(t) ==
  /\ Goto(t, "idle")
  /\ UNCHANGED job
  /\ defragmentation_mutex_' = IF defragmentation_mutex_ = t THEN None ELSE defragmentation_mutex_
  /\ ws_mutex_' = IF ws_mutex_ = t THEN None ELSE ws_mutex_

\* The call ends, by returning or by throwing; the locks it holds are guards.
End(t) ==
  /\ Goto(t, "idle")
  /\ job' = [job EXCEPT ![t] = NoJob]
  /\ defragmentation_mutex_' = IF defragmentation_mutex_ = t THEN None ELSE defragmentation_mutex_
  /\ ws_mutex_' = IF ws_mutex_ = t THEN None ELSE ws_mutex_

----------------------------------------------------------------------------
(* malloc and free of a tensor. *)

Malloc(h) ==
  /\ Followed /\ ~table[h].active /\ mutex_ = None
  /\ table' = [table EXCEPT ![h] = [active |-> TRUE, ptr |-> Null, fixed |-> FALSE]]
  /\ UNCHANGED <<pool, lockVars, moveVars, deviceVars, workspace, pc, job, slips, calls>>

\* Nobody frees a tensor that a recipe or a running call holds.
Free(h) ==
  /\ Followed /\ table[h].active /\ ~InUse(h) /\ mutex_ = None /\ calls < MaxCalls
  /\ calls' = calls + 1
  /\ table' = [table EXCEPT ![h] = [@ EXCEPT !.active = FALSE, !.ptr = Null]]
  /\ pool' = IF table[h].ptr = Null THEN pool ELSE PoolFree(pool, table[h].ptr)
  /\ written' = written \ {h}
  /\ UNCHANGED <<lockVars, moveVars, recipes, mem, workspace, pc, job, slips>>

----------------------------------------------------------------------------
(* The workspace: graph.cpp launch and device.cpp get_workspace_buffer. *)

\* get_total_memory_required: of the tensors without memory, each once.
Required(list) ==
  SumFunctionOnSet(Size, {h \in Elements(list) : table[h].ptr = Null})

BeginLaunch(t, list, n) ==
  /\ \A h \in Elements(list) : table[h].active
  /\ Begin(t, "launch", list, n, "memory")
  /\ UNCHANGED <<poolVars, lockVars, moveVars, deviceVars, workspace, slips>>

CheckMemory(t) ==
  /\ At(t, "memory") /\ mutex_ = None
  /\ Goto(t, IF IsMemoryAvailable(pool, Required(job[t].list)) THEN "workspace" ELSE "cleanup")
  /\ UNCHANGED <<poolVars, lockVars, moveVars, deviceVars, workspace, job, slips, calls>>

\* cleanup_workspace_buffer
BeginCleanup(t) ==
  /\ At(t, "cleanup") /\ ws_mutex_ = None
  /\ IF workspace.size = 0 THEN Goto(t, "workspace") /\ UNCHANGED ws_mutex_
                           ELSE Goto(t, "cleanup_wait") /\ ws_mutex_' = t
  /\ UNCHANGED <<poolVars, update_on_defragment_, locks, defragmentation_mutex_, moveVars,
                 deviceVars, workspace, job, slips, calls>>

\* A recipe that runs, or a launch on its way, has been given the workspace
\* which is freed.
NoteWorkspace(t) ==
  IF \/ \E i \in DOMAIN recipes : ~recipes[i].done
     \/ \E x \in Threads \ {t} : job[x] /= NoJob /\ job[x].ws /= Null
  THEN {"workspace"} ELSE {}

Cleanup(t) ==
  /\ At(t, "cleanup_wait") /\ RecipeCount <= 1
  /\ pool' = PoolFree(pool, workspace.ptr)      \* workspace_free: without mutex_
  /\ workspace' = [ptr |-> Null, size |-> 0]
  /\ ws_mutex_' = None
  /\ slips' = slips \cup NoteWorkspace(t)
  /\ Goto(t, "workspace")
  /\ UNCHANGED <<table, update_on_defragment_, locks, defragmentation_mutex_, moveVars,
                 deviceVars, job, calls>>

GiveWorkspace(t, ptr) ==
  /\ job' = [job EXCEPT ![t].ws = ptr]
  /\ Goto(t, "required")

\* Fault: only the size is looked at, which a failed extension leaves as it was.
LargeEnough(t) == workspace.size >= job[t].n

Suffices(t) == workspace.size >= job[t].n /\ workspace.ptr /= Null

EnterWorkspace(t) ==
  /\ At(t, "workspace") /\ ws_mutex_ = None
  /\ IF Suffices(t)
     THEN GiveWorkspace(t, workspace.ptr) /\ UNCHANGED ws_mutex_
     ELSE Goto(t, "extend_lock") /\ ws_mutex_' = t /\ UNCHANGED job
  /\ UNCHANGED <<poolVars, update_on_defragment_, locks, defragmentation_mutex_, moveVars,
                 deviceVars, workspace, slips, calls>>

LockExtend(t) ==
  /\ At(t, "extend_lock") /\ defragmentation_mutex_ = None
  /\ defragmentation_mutex_' = t
  /\ Goto(t, "extend")
  /\ UNCHANGED <<poolVars, update_on_defragment_, locks, ws_mutex_, moveVars, deviceVars,
                 workspace, job, slips, calls>>

\* extend_high_memory_alloc; when it fails the thread goes on at loc.
Extend(t, loc) ==
  LET r == ExtendHighMemory(pool, job[t].n, workspace.size) IN
  /\ mutex_ = None
  /\ pool' = r.pool
  /\ IF r.ptr /= Null
     THEN /\ workspace' = [ptr |-> r.ptr, size |-> job[t].n]
          /\ GiveWorkspace(t, r.ptr)
          /\ defragmentation_mutex_' = None /\ ws_mutex_' = None
     ELSE IF loc = "throw"
     THEN workspace' = [workspace EXCEPT !.ptr = Null] /\ End(t)
     ELSE Goto(t, loc) /\ UNCHANGED <<workspace, job, defragmentation_mutex_, ws_mutex_>>
  /\ UNCHANGED <<table, update_on_defragment_, locks, moveVars, deviceVars, slips, calls>>

ExtendFirst(t) == At(t, "extend") /\ Extend(t, "extend_idle")

\* ... once no recipe is left.
ExtendIdle(t) == At(t, "extend_idle") /\ RecipeCount = 0 /\ Extend(t, "synchronize")

ExtendAgain(t) == At(t, "defragmented") /\ job[t].ws = Null /\ job[t].kind = "launch" /\ Extend(t, "throw")

----------------------------------------------------------------------------
(* lock_addresses, fix_address and get_pointer. *)

\* check_and_limit_recipe_execution.
MayLock(need) == RecipeCount = 0 \/ need <= 1 \/ IsMemoryAvailable(pool, need)

EstimateMemory(t) ==
  /\ At(t, "required") /\ mutex_ = None
  /\ job' = [job EXCEPT ![t].need = Required(job[t].list)]
  /\ Goto(t, "limit")
  /\ UNCHANGED <<poolVars, lockVars, moveVars, deviceVars, workspace, slips, calls>>

LockAddresses(t) ==
  /\ At(t, "limit") /\ MayLock(job[t].need) /\ defragmentation_mutex_ = None
  /\ defragmentation_mutex_' = t
  /\ Goto(t, "translate")
  /\ UNCHANGED <<poolVars, update_on_defragment_, locks, ws_mutex_, moveVars, deviceVars,
                 workspace, job, slips, calls>>

\* fix_address marks the handle without a lock and translates it without
\* defragmentation_mutex_.
FixAddress(t, h) ==
  /\ t \in Fixers /\ table[h].active
  /\ Begin(t, "fix", <<h>>, 0, "translate")
  /\ table' = [table EXCEPT ![h].fixed = TRUE]
  /\ UNCHANGED <<pool, lockVars, moveVars, deviceVars, workspace, slips>>

\* get_and_alloc_mem, for the next address of the call.
Translation(t) ==
  LET h == Head(job[t].todo) IN
  IF table[h].ptr /= Null THEN [pool |-> pool, ptr |-> table[h].ptr]
                          ELSE PoolAlloc(pool, Size[h], Stream[h])

\* The top chunk is given to a tensor while it passes for the workspace.
NoteTail(r) == IF r.pool.high /\ r.ptr = Top(r.pool.chunks) THEN {"tail"} ELSE {}

WithAddress(j, ptr) == [j EXCEPT !.todo = Tail(@), !.out = Append(@, ptr)]

Translated(t, r) ==
  /\ mutex_ = None
  /\ pool' = r.pool
  /\ table' = [table EXCEPT ![Head(job[t].todo)].ptr = r.ptr]
  /\ job' = IF r.ptr = Null THEN job
            ELSE [job EXCEPT ![t] = WithAddress(@, r.ptr)]
  /\ slips' = slips \cup NoteTail(r)

Translate(t) ==
  /\ At(t, "translate") /\ job[t].todo /= <<>>
  /\ LET r == Translation(t) IN
     /\ Translated(t, r)
     /\ Goto(t, IF r.ptr /= Null THEN "translate"
                ELSE IF RecipeCount > 0 THEN "retry" ELSE "synchronize")
  /\ UNCHANGED <<lockVars, moveVars, deviceVars, workspace, calls>>

\* wait_for_next_decrease_call and the attempts that follow, the last of them
\* when no recipe is left.
Retry(t) ==
  /\ At(t, "retry")
  /\ LET r == Translation(t) IN
     /\ r.ptr /= Null \/ RecipeCount = 0
     /\ Translated(t, r)
     /\ Goto(t, IF r.ptr /= Null THEN "translate" ELSE "synchronize")
  /\ UNCHANGED <<lockVars, moveVars, deviceVars, workspace, calls>>

TranslateAgain(t) ==
  /\ At(t, "defragmented") /\ (job[t].ws /= Null \/ job[t].kind = "fix")
  /\ update_on_defragment_' = TRUE
  /\ LET r == Translation(t) IN
     IF r.ptr /= Null
     THEN Translated(t, r) /\ Goto(t, "translate") /\ UNCHANGED <<defragmentation_mutex_, ws_mutex_>>
     ELSE mutex_ = None /\ End(t) /\ UNCHANGED <<poolVars, slips>>
  /\ UNCHANGED <<locks, moveVars, deviceVars, workspace, calls>>

\* The end of fix_address and of lock_addresses: when memory was defragmented
\* meanwhile, all addresses are looked up once more.
FinishFix(t) ==
  /\ At(t, "translate") /\ job[t].todo = <<>> /\ job[t].kind = "fix"
  /\ End(t)
  /\ UNCHANGED <<poolVars, update_on_defragment_, locks, moveVars, deviceVars, workspace,
                 slips, calls>>

\* Fault: the addresses translated first are kept.
LookUpOnce(t) == FALSE

LookUpAgain(t) == update_on_defragment_ /\ ~job[t].again

FinishLock(t) ==
  /\ At(t, "translate") /\ job[t].todo = <<>> /\ job[t].kind = "launch"
  /\ IF LookUpAgain(t)
     THEN /\ job' = [job EXCEPT ![t] = [@ EXCEPT !.todo = job[t].list, !.out = <<>>, !.again = TRUE]]
          /\ UNCHANGED <<update_on_defragment_, locks, defragmentation_mutex_, pc>>
     ELSE /\ update_on_defragment_' = FALSE
          /\ locks' = locks + 1
          /\ defragmentation_mutex_' = None
          /\ Goto(t, "launch")
          /\ UNCHANGED job
  /\ UNCHANGED <<poolVars, ws_mutex_, moveVars, deviceVars, workspace, slips, calls>>

----------------------------------------------------------------------------
(* The memory map and the regions to defragment: memory_defragmentation.cpp. *)

Block(a, n, state, h) == [ptr |-> a, size |-> n, state |-> state, handle |-> h]

\* Fault: fixed_ is not looked at.
Movable(h) == "in_use"

State(h) == IF table[h].fixed THEN "fixed" ELSE "in_use"

\* CollectResourceInformation: the tensors that have memory, and the top
\* chunk, which passes for the workspace.
Occupied ==
  LET top == Top(pool.chunks) IN
  {Block(table[h].ptr, AllocatedSize(pool, table[h].ptr), State(h), h) :
     h \in {x \in Handles : table[x].ptr \notin {Null, top}}}
  \cup {Block(top, pool.chunks[top].size, "fixed", None)}

\* CreateMemoryMap: what lies between them is free.  A gap is cut at the end
\* of the corner, unless it is the first one.
Gaps ==
  LET starts  == {b.ptr : b \in Occupied}
      ends    == {SmallBase} \cup {b.ptr + b.size : b \in Occupied}
      open    == {e \in ends \ starts : e < PoolSize}
      next(e) == Min({a \in starts : a > e})
      first   == {e \in open : e = SmallBase}
      cut     == {e \in open \ first : e < SmallEnd /\ SmallEnd < next(e)} IN
  {Block(e, next(e) - e, "free", None) : e \in open \ cut}
  \cup {Block(e, SmallEnd - e, "free", None) : e \in cut}
  \cup {Block(SmallEnd, next(e) - SmallEnd, "free", None) : e \in cut}

\* The blocks by address.
MemoryMap ==
  LET blocks == Occupied \cup Gaps IN
  [a \in {b.ptr : b \in blocks} |-> CHOOSE b \in blocks : b.ptr = a]

\* What Step makes of base at the addresses A, one after the other upwards.
Ascending(Step(_, _), base, A) ==
  LET made[a \in Units] == IF a = 0 THEN base
                           ELSE IF a \in A THEN Step(made[a - 1], a) ELSE made[a - 1] IN
  made[PoolSize - 1]

\* The size of the blocks at the addresses A.
BlockSizes(B, A) == Ascending(LAMBDA n, a : n + B[a].size, 0, A)

Total(B, states, i, j) ==
  BlockSizes(B, {a \in (DOMAIN B) \cap (i .. j) : B[a].state \in states})

\* Fault: memory that is in use counts as free.
MovableMemory(B, i, j) == Total(B, {"free", "in_use"}, i, j)

FreeMemory(B, i, j) == Total(B, {"free"}, i, j)

InUseBlocks(B, i, j) == {B[a] : a \in {x \in (DOMAIN B) \cap (i .. j) : B[x].state = "in_use"}}

NotFound     == [found |-> FALSE, movers |-> {}, first |-> FALSE]
Found(ms, f) == [found |-> TRUE, movers |-> ms, first |-> f]

\* SelectRegionForResourceAllocation: from a free block on, up to where n units
\* are free; the region with the least memory in use, the first of those.
SelectForResource(B, n, window) ==
  LET Regions ==
        {r \in (DOMAIN B) \X (DOMAIN B) :
           /\ r[1] <= r[2] /\ B[r[1]].state = "free"
           /\ \A a \in (DOMAIN B) \cap (r[1] .. r[2]) : a \in window /\ B[a].state /= "fixed"
           /\ FreeMemory(B, r[1], r[2]) >= n
           /\ FreeMemory(B, r[1], r[2] - 1) < n}
      cost(r) == Total(B, {"in_use"}, r[1], r[2])
      best == CHOOSE r \in Regions : \A q \in Regions :
                \/ cost(r) < cost(q)
                \/ cost(r) = cost(q) /\ r[1] <= q[1] IN
  IF Regions = {} THEN NotFound ELSE Found(InUseBlocks(B, best[1], best[2]), FALSE)

\* SelectRegionForWorkspaceGrow: the shortest region before the workspace with
\* enough free memory, nothing fixed in it.
SelectForWorkspace(B, ext) ==
  LET last    == Max(DOMAIN B) - 1
      before  == (DOMAIN B) \cap (SmallBase .. last)
      barrier == {a \in before : B[a].state = "fixed" /\ a >= SmallEnd}
      clear   == {a \in before : a >= SmallEnd /\ \A x \in barrier : x < a}
      starts  == {a \in before : B[a].state = "free" /\ FreeMemory(B, a, last) >= ext} IN
  IF BlockSizes(B, {a \in clear : B[a].state = "free"}) < ext
  THEN NotFound ELSE Found(InUseBlocks(B, Max(starts), last), FALSE)

\* SelectRegionForWorkspaceGrowV2: the shortest region before the workspace that
\* is large enough when everything in it has moved elsewhere, or else all.
SelectForWorkspaceV2(B, ext) ==
  LET last   == Max(DOMAIN B) - 1
      before == (DOMAIN B) \cap (SmallBase .. last)
      large  == {a \in before : Total(B, {"free", "in_use"}, a, last) >= ext}
      start  == IF large = {} THEN SmallBase ELSE Max(large) IN
  IF \E a \in (DOMAIN B) \cap (start .. last) : B[a].state = "fixed" THEN NotFound
  ELSE Found(InUseBlocks(B, start, last), TRUE)

SmallThreshold == 2        \* small_allocs_threshold_

\* MemoryDefragementer::Run
Run(B, n, grow) ==
  LET ext   == n - B[Max(DOMAIN B)].size
      v1    == SelectForWorkspace(B, ext)
      small == SelectForResource(B, n, SmallBase .. SmallEnd - 1) IN
  IF grow THEN IF ext <= 0 THEN Found({}, FALSE)
               ELSE IF v1.found THEN v1 ELSE SelectForWorkspaceV2(B, ext)
  ELSE IF n <= SmallThreshold /\ small.found THEN small
  ELSE SelectForResource(B, n, SmallEnd .. PoolSize - 1)

----------------------------------------------------------------------------
(* defragment_memory *)

Growing(t)   == job[t].kind = "launch" /\ job[t].ws = Null
Requested(t) == IF Growing(t) THEN job[t].n ELSE Size[Head(job[t].todo)]

\* No success: the workspace or the tensor does not get its memory.
GiveUp(t) ==
  /\ workspace' = IF Growing(t) THEN [workspace EXCEPT !.ptr = Null] ELSE workspace
  /\ End(t)

\* synDeviceSynchronize
Synchronize(t) ==
  /\ At(t, "synchronize")
  /\ \A i \in DOMAIN recipes : recipes[i].done
  /\ Goto(t, "drain")
  /\ UNCHANGED <<poolVars, lockVars, moveVars, deviceVars, workspace, job, slips, calls>>

Drained == locks = 0

\* threads_in_defragmenter_critical_section_->wait_for(2s): when the time is over
\* the call throws, and workspace_buffer_ is not assigned.
Drain(t) ==
  /\ At(t, "drain") /\ Drained
  /\ Goto(t, "collect")
  /\ UNCHANGED <<poolVars, lockVars, moveVars, deviceVars, workspace, job, slips, calls>>

DrainTimesOut(t) ==
  /\ At(t, "drain") /\ ~Drained
  /\ End(t)
  /\ UNCHANGED <<poolVars, update_on_defragment_, locks, moveVars, deviceVars, workspace, slips,
                 calls>>

\* Tensors move although somebody works with addresses: fix_address got here
\* without defragmentation_mutex_.
NoteLock(t) ==
  IF defragmentation_mutex_ /= t /\
     (locks > 0 \/ \E x \in Threads \ {t} : job[x] /= NoJob /\ job[x].out /= <<>>)
  THEN {"lock"} ELSE {}

\* HandleMover::Allocate for one mover after the other; ok is FALSE from the
\* first for which there is no memory.
PlaceOne(acc, b) ==
  LET r == PoolAlloc(acc.pool, Size[b.handle], Stream[b.handle]) IN
  IF ~acc.ok \/ r.ptr = Null THEN [acc EXCEPT !.ok = FALSE]
  ELSE [pool   |-> r.pool,
        movers |-> acc.movers \cup {[handle |-> b.handle, from |-> b.ptr, to |-> r.ptr]},
        ok     |-> TRUE]

Place(p, blocks) ==
  Ascending(LAMBDA acc, a : PlaceOne(acc, CHOOSE b \in blocks : b.ptr = a),
            [pool |-> p, movers |-> {}, ok |-> TRUE], {b.ptr : b \in blocks})

\* Fault: the old memory of the movers is not given back.
Abandon(p, ptrs) == p

Deallocate(p, ptrs) == Ascending(PoolFree, p, ptrs)

\* HandlesMap::SetPtrSize for each mover.
Repointed(movers) ==
  [h \in Handles |->
     IF \E v \in movers : v.handle = h
     THEN [table[h] EXCEPT !.ptr = (CHOOSE v \in movers : v.handle = h).to] ELSE table[h]]

Collect(t) ==
  LET plan   == Run(MemoryMap, Requested(t), Growing(t))
      exact  == [pool EXCEPT !.exact = TRUE]
      placed == Place(IF plan.first THEN exact
                      ELSE Deallocate(exact, {b.ptr : b \in plan.movers}), plan.movers)
      tail   == UNION {NoteTail([pool |-> placed.pool, ptr |-> v.to]) : v \in placed.movers} IN
  /\ At(t, "collect") /\ mutex_ = None
  /\ IF ~plan.found
     THEN GiveUp(t) /\ UNCHANGED <<poolVars, moveVars, slips>>
     ELSE IF plan.movers = {}
     THEN /\ Goto(t, "defragmented")
          /\ UNCHANGED <<poolVars, moveVars, workspace, job, defragmentation_mutex_, ws_mutex_, slips>>
     ELSE /\ pool' = placed.pool
          /\ table' = Repointed(placed.movers)
          /\ IF placed.ok
             THEN /\ mutex_' = t
                  /\ moving' = [movers |-> placed.movers, first |-> plan.first]
                  /\ slips' = slips \cup NoteLock(t) \cup tail
                  /\ Goto(t, "copy")
                  /\ UNCHANGED <<workspace, job, defragmentation_mutex_, ws_mutex_>>
             ELSE \* destination_pointer_ allocation failed
                  /\ End(t)
                  /\ slips' = slips \cup NoteLock(t) \cup tail \cup
                              (IF placed.movers /= {} THEN {"v2"} ELSE {})
                  /\ UNCHANGED <<moveVars, workspace>>
  /\ UNCHANGED <<update_on_defragment_, locks, deviceVars, calls>>

CopyOne(m, v) ==
  [u \in Units |-> IF u \in Extent(v.to, Size[v.handle]) THEN m[v.from + (u - v.to)] ELSE m[u]]

\* Fault: the copies are made from the last mover to the first.
CopyBackwards(m, movers) ==
  Ascending(LAMBDA acc, a : CopyOne(acc, CHOOSE v \in movers : v.from = PoolSize - a), m,
            {PoolSize - v.from : v \in movers})

\* MoveData: the copies are made in the order of the movers.
CopyAll(m, movers) ==
  Ascending(LAMBDA acc, a : CopyOne(acc, CHOOSE v \in movers : v.from = a), m,
            {v.from : v \in movers})

Copy(t) ==
  LET old == {v.from : v \in moving.movers}
      p   == IF moving.first THEN Deallocate(pool, old) ELSE pool IN
  /\ At(t, "copy")
  /\ mem' = CopyAll(mem, moving.movers)
  /\ pool' = [p EXCEPT !.exact = FALSE]
  /\ moving' = NoMove /\ mutex_' = None
  /\ Goto(t, "defragmented")
  /\ UNCHANGED <<table, lockVars, recipes, written, workspace, job, slips, calls>>

----------------------------------------------------------------------------
(* The recipe on the device, and its end. *)

\* synLaunch comes first, recipe_counter.increase() after it.
Launch(t) ==
  /\ At(t, "launch")
  /\ recipes' = Append(recipes, [thread |-> t, list |-> job[t].list, out |-> job[t].out,
                                 ws |-> Extent(job[t].ws, job[t].n),
                                 done |-> FALSE, counted |-> FALSE])
  /\ Goto(t, "count")
  /\ UNCHANGED <<poolVars, lockVars, moveVars, mem, written, workspace, job, slips, calls>>

CountRecipe(t) ==
  LET mine == CHOOSE i \in DOMAIN recipes : recipes[i].thread = t /\ ~recipes[i].counted IN
  /\ At(t, "count")
  /\ recipes' = [recipes EXCEPT ![mine].counted = TRUE]
  /\ End(t)
  /\ UNCHANGED <<poolVars, update_on_defragment_, locks, moveVars, mem, written, workspace,
                 slips, calls>>

\* A recipe runs: it writes its tensors and uses its workspace.
Execute ==
  \E i \in DOMAIN recipes :
    LET r == recipes[i]
        at(u) == {k \in DOMAIN r.out : u \in Extent(r.out[k], Size[r.list[k]])}
        of(u) == CHOOSE k \in at(u) : TRUE IN
    /\ Followed /\ ~r.done /\ \A j \in 1 .. i - 1 : recipes[j].done
    /\ recipes' = [recipes EXCEPT ![i].done = TRUE]
    /\ mem' = [u \in Units |->
                 IF at(u) /= {}
                 THEN <<r.list[of(u)], u - r.out[of(u)]>>
                 ELSE IF u \in r.ws THEN None ELSE mem[u]]
    /\ written' = written \cup Elements(r.list)
    /\ UNCHANGED <<poolVars, lockVars, moveVars, workspace, pc, job, slips, calls>>

\* The callback of a finished recipe unlocks its addresses and then calls
\* decrease_and_notify.
Release ==
  /\ Followed /\ recipes /= <<>> /\ Head(recipes).done /\ Head(recipes).counted
  /\ recipes' = Tail(recipes)
  /\ locks' = locks - 1
  /\ UNCHANGED <<poolVars, update_on_defragment_, defragmentation_mutex_, ws_mutex_, moveVars,
                 mem, written, workspace, pc, job, slips, calls>>

----------------------------------------------------------------------------
Continue(t) ==
  \/ CheckMemory(t) \/ BeginCleanup(t) \/ Cleanup(t)
  \/ EnterWorkspace(t) \/ LockExtend(t) \/ ExtendFirst(t) \/ ExtendIdle(t) \/ ExtendAgain(t)
  \/ EstimateMemory(t) \/ LockAddresses(t)
  \/ Translate(t) \/ Retry(t) \/ TranslateAgain(t) \/ FinishFix(t) \/ FinishLock(t)
  \/ Synchronize(t) \/ Drain(t) \/ DrainTimesOut(t) \/ Collect(t) \/ Copy(t)
  \/ Launch(t) \/ CountRecipe(t)

Next ==
  \/ \E t \in Threads :
       \/ Continue(t)
       \/ \E r \in Recipes : BeginLaunch(t, r[1], r[2])
       \/ \E h \in Handles : FixAddress(t, h)
  \/ \E h \in Handles : Malloc(h) \/ Free(h)
  \/ Execute \/ Release

Spec == Init /\ [][Next]_vars

----------------------------------------------------------------------------
(* Properties. *)

Locs == {"idle", "memory", "cleanup", "cleanup_wait", "workspace", "extend_lock", "extend",
         "extend_idle", "required", "limit", "translate", "retry", "synchronize", "drain",
         "collect", "copy", "defragmented", "launch", "count"}

\* The values of the variables: a thread at a control point of its call, with
\* the addresses of the tensors it has translated so far.
TypeOK ==
  /\ table \in [Handles -> [active : BOOLEAN, ptr : Units, fixed : BOOLEAN]]
  /\ pool.small \subseteq Units /\ {pool.high, pool.exact, update_on_defragment_} \subseteq BOOLEAN
  /\ locks \in 0 .. Len(recipes) + Cardinality(Threads)
  /\ {mutex_, defragmentation_mutex_, ws_mutex_} \subseteq Threads \cup {None}
  /\ workspace.ptr \in Units /\ workspace.size \in 0 .. PoolSize
  /\ pc \in [Threads -> Locs]
  /\ \A t \in Threads : pc[t] = "idle" <=> job[t] = NoJob
  /\ \A t \in Threads : job[t] /= NoJob =>
       /\ Len(job[t].out) + Len(job[t].todo) = Len(job[t].list)
       /\ Elements(job[t].out) \subseteq Units \ {Null}
  /\ written \subseteq Handles
  /\ mem \in [Units -> {None} \cup (Handles \X (0 .. PoolSize))]

\* Whatever is allocated, freed, extended or moved, the chunks of the pool
\* cover it without gap or overlap, and free chunks side by side are merged
\* (try_to_merge): no memory is lost to bookkeeping.
PoolSound == Tiles(pool.chunks) /\ Coalesced(pool.chunks)

Holders(ptr) == {h \in Handles : table[h].ptr = ptr}
UsedChunks   == {x \in DOMAIN pool.chunks : pool.chunks[x].used}

\* The table of handles and the pool agree: two tensors never have the same
\* memory, a tensor's memory is allocated and large enough, and what is
\* allocated belongs to a tensor, to the corner or to the top.
TableMatchesPool ==
  (slips = {} /\ mutex_ = None) =>
     /\ \A h \in Handles : table[h].ptr /= Null =>
          /\ Holders(table[h].ptr) = {h}
          /\ IsAllocated(pool, table[h].ptr)
          /\ AllocatedSize(pool, table[h].ptr) >= Size[h]
     /\ \A x \in (UsedChunks \ {SmallBase, Top(pool.chunks)}) \cup pool.small : Holders(x) /= {}

\* What a recipe has written in a tensor is found at the tensor's address for
\* as long as the tensor lives, however often it moves and whatever other
\* recipes write.
DataIntact ==
  (slips = {} /\ mutex_ = None) =>
     \A h \in written : \A i \in 0 .. Size[h] - 1 : mem[table[h].ptr + i] = <<h, i>>

\* The same without exception: the comment on the second algorithm for the
\* workspace says that it can cause no regression.
NoRegression ==
  mutex_ = None =>
     \A h \in written : \A i \in 0 .. Size[h] - 1 : mem[table[h].ptr + i] = <<h, i>>

\* The addresses a launch has locked are those of its tensors until the recipe
\* is released, those of tensors that another thread's translation has moved
\* meanwhile included.
AddressesCurrent ==
  slips = {} =>
     /\ \A i \in DOMAIN recipes : \A k \in DOMAIN recipes[i].out :
          recipes[i].out[k] = table[recipes[i].list[k]].ptr
     /\ \A t \in Threads : pc[t] \in {"launch", "count"} =>
          \A k \in DOMAIN job[t].out : job[t].out[k] = table[job[t].list[k]].ptr

\* The workspace a recipe was launched with, or will be, lies in the top chunk,
\* which is allocated and no tensor's.
WorkspaceReserved ==
  slips = {} =>
     LET top == Top(pool.chunks)
         given == {recipes[i].ws : i \in {j \in DOMAIN recipes : ~recipes[j].done}}
                  \cup {Extent(job[t].ws, job[t].n) :
                          t \in {x \in Threads : job[x] /= NoJob /\ job[x].ws /= Null}} IN
     \A ws \in given :
       /\ ws \subseteq Extent(top, pool.chunks[top].size)
       /\ pool.chunks[top].used /\ Holders(top) = {}

\* When defragmentation reports success for a tensor that is not small, there
\* is memory for it: the thread that asked is not told to give up.
DefragmentationDelivers ==
  [][\A t \in Threads :
       (pc[t] /= "defragmented" /\ pc'[t] = "defragmented" /\ slips' = {}
        /\ ~Growing(t) /\ Requested(t) > SmallThreshold) => (Translation(t).ptr /= Null)']_vars

\* fix_address: from the moment a tensor is marked, its memory is not moved.
FixedStays ==
  [][\A h \in Handles : (table[h].fixed /\ table[h].ptr /= Null /\ table'[h].active)
                          => table'[h].ptr = table[h].ptr]_vars

\* What a thread waits for in the call it is in.
Blocked(t) ==
  \/ pc[t] \in {"cleanup", "workspace"} /\ ws_mutex_ /= None
  \/ pc[t] \in {"extend_lock", "limit"} /\ defragmentation_mutex_ /= None
  \/ pc[t] \in {"memory", "extend", "extend_idle", "required", "translate", "retry",
                "collect", "defragmented"} /\ mutex_ /= None
  \/ pc[t] = "cleanup_wait" /\ RecipeCount > 1
  \/ pc[t] = "extend_idle" /\ RecipeCount > 0
  \/ pc[t] = "retry" /\ RecipeCount > 0 /\ Translation(t).ptr = Null
  \/ pc[t] = "limit" /\ ~MayLock(job[t].need)
  \/ pc[t] = "synchronize" /\ \E i \in DOMAIN recipes : ~recipes[i].done

\* The threads never wait for each other in a circle: launches wait for recipes
\* to end with ws_mutex_ or defragmentation_mutex_ in their hands, yet as long
\* as one is under way, one can go on or a recipe is left to end.
NoDeadlock ==
  (\E t \in Threads : pc[t] /= "idle") =>
     recipes /= <<>> \/ \E t \in Threads : pc[t] /= "idle" /\ ~Blocked(t)
=============================================================================
