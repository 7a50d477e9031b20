---------------------------- MODULE StringentPool ----------------------------
(***************************************************************************)
(* The device memory pool (CoalescedStringentPoolAllocator.cpp): one block *)
(* of device memory cut into chunks, a corner of it for allocations of one *)
(* unit, and the workspace of the recipes at its high end.                 *)
(*                                                                         *)
(* A pool is a record; every method of the allocator is an operator on it, *)
(* for each holds sp_mutex from start to end.  Memory is counted in units  *)
(* of the device's alignment.  chunks is the map of the code, from the     *)
(* address of a chunk to the chunk; the links prev and next are adjacency, *)
(* the bins, which are searched from the smallest size upwards, are the    *)
(* choice of the best fit, and the top chunk is the one highest up.  Uses  *)
(* on other streams (record_stream, off by default) are left out.          *)
(***************************************************************************)
EXTENDS Integers, FiniteSets, FiniteSetsExt

CONSTANTS
  PoolSize,      \* max_pool_size
  SmallUnits,    \* units of the corner for small allocations (6 * 1024)
  TightFit,      \* DEFRAGMENT_TH: a fuller chunk is not split, in percent (90)
  MaxPadding     \* kMaxInternalFragmentation

ASSUME PoolAssumption ==
  /\ {PoolSize, SmallUnits, TightFit, MaxPadding} \subseteq Nat \ {0}
  /\ 2 * SmallUnits < PoolSize

Null      == 0               \* unit 0 is the header
SmallBase == 1               \* where pool_create finds room for the corner
SmallEnd  == SmallBase + SmallUnits

----------------------------------------------------------------------------
(* Chunks. *)

Chunk(n, used) == [size |-> n, used |-> used]

After(chunks, a)   == a + chunks[a].size
IsFree(chunks, a)  == a \in DOMAIN chunks /\ ~chunks[a].used
Mark(chunks, a, u) == [chunks EXCEPT ![a] = Chunk(chunks[a].size, u)]

Top(chunks) == CHOOSE a \in DOMAIN chunks : \A b \in DOMAIN chunks : b <= a

Fits(chunks, n) == {a \in DOMAIN chunks : IsFree(chunks, a) /\ chunks[a].size >= n}

\* FindChunkPtr: the smallest chunk that is large enough, then the lowest.
FindChunk(chunks, n) ==
  CHOOSE a \in Fits(chunks, n) : \A b \in Fits(chunks, n) :
    \/ chunks[a].size < chunks[b].size
    \/ chunks[a].size = chunks[b].size /\ a <= b

\* Whether a chunk is cut to n units or handed out with padding; while memory
\* is defragmented it is always cut.
WorthSplitting(size, n, exact) ==
  /\ size > n
  /\ size >= 2 * n \/ size - n >= MaxPadding \/ 100 * n < TightFit * size \/ exact

\* try_splitting_chunks: the first n units stay, the rest is a new free chunk.
Split(chunks, a, n) ==
  [b \in DOMAIN chunks \cup {a + n} |->
     CASE b = a     -> Chunk(n, FALSE)
       [] b = a + n -> Chunk(chunks[a].size - n, FALSE)
       [] OTHER     -> chunks[b]]

\* reuse_chunks.
Take(chunks, a, n, exact) ==
  Mark(IF WorthSplitting(chunks[a].size, n, exact) THEN Split(chunks, a, n) ELSE chunks,
       a, TRUE)

\* merge: the chunk after a disappears into it.
Merge(chunks, a) ==
  LET c2 == After(chunks, a) IN
  [b \in DOMAIN chunks \ {c2} |->
     IF b = a THEN Chunk(chunks[a].size + chunks[c2].size, FALSE) ELSE chunks[b]]

MergeNext(chunks, a) ==
  IF IsFree(chunks, After(chunks, a)) THEN Merge(chunks, a) ELSE chunks

FreeBefore(chunks, a) == {b \in DOMAIN chunks : ~chunks[b].used /\ After(chunks, b) = a}

MergePrev(chunks, a) ==
  IF FreeBefore(chunks, a) = {} THEN chunks
  ELSE Merge(chunks, CHOOSE b \in FreeBefore(chunks, a) : TRUE)

\* Fault: a freed chunk is merged with the chunk behind it only.
MergeNextOnly(chunks, a) == MergeNext(Mark(chunks, a, FALSE), a)

\* A chunk is given back: try_to_merge with the next and the previous chunk.
Coalesce(chunks, a) == MergePrev(MergeNext(Mark(chunks, a, FALSE), a), a)

----------------------------------------------------------------------------
(* The methods of the allocator. *)

\* pool_create: one free chunk, from which the corner is taken.  It is
\* counted twice in bytes_in_use, by alloc_chunk and by pool_create.
PoolCreate ==
  [chunks |-> Take([a \in {SmallBase} |-> Chunk(PoolSize - 1, FALSE)],
                   SmallBase, SmallUnits, FALSE),
   small  |-> {},          \* map_: the units of the corner that are occupied
   high   |-> FALSE,       \* high_memory_allocated_
   exact  |-> FALSE,       \* defragmenter_state_started_
   bytes  |-> 1 + 2 * SmallUnits]   \* bytes_in_use

FreeSmallUnits(pool) == (SmallBase .. SmallEnd - 1) \ pool.small

\* SmallAllocs serves less than two units, on the default stream.
IsSmall(pool, n, stream) == stream = 0 /\ n < 2 /\ FreeSmallUnits(pool) /= {}

\* pool_alloc_chunk: the pool afterwards and the address, or Null.
PoolAlloc(pool, n, stream) ==
  LET a == FindChunk(pool.chunks, n)
      taken == Take(pool.chunks, a, n, pool.exact) IN
  IF IsSmall(pool, n, stream)
    THEN LET u == Min(FreeSmallUnits(pool)) IN
         [pool |-> [pool EXCEPT !.small = @ \cup {u}], ptr |-> u]
  ELSE IF Fits(pool.chunks, n) = {}
    THEN [pool |-> pool, ptr |-> Null]
  ELSE [pool |-> [pool EXCEPT !.chunks = taken, !.bytes = @ + taken[a].size],
        ptr |-> a]

\* Whether pool_free_chunk finds the address: its assertions.
IsAllocated(pool, ptr) ==
  \/ ptr \in pool.small
  \/ ptr \in DOMAIN pool.chunks /\ pool.chunks[ptr].used

\* pool_free_chunk and delete_chunk.  high_memory_allocated_ is reset if the
\* chunk is at the top and has not been merged into the one before it.
PoolFree(pool, ptr) ==
  LET freed == Coalesce(pool.chunks, ptr) IN
  IF ptr \in pool.small THEN [pool EXCEPT !.small = @ \ {ptr}]
  ELSE IF ~IsAllocated(pool, ptr) THEN pool
  ELSE [pool EXCEPT !.chunks = freed,
                    !.bytes = @ - pool.chunks[ptr].size,
                    !.high = @ /\ Top(freed) /= ptr]

AllocatedSize(pool, ptr) == IF ptr \in pool.small THEN 1 ELSE pool.chunks[ptr].size

\* extend_high_memory_allocation: a workspace of n units at the top, in the
\* place of one of `current` units.  When the room does not suffice the top
\* chunk is left marked as used.
ExtendHighMemory(pool, n, current) ==
  LET top    == Top(pool.chunks)
      chunks == IF pool.high THEN Coalesce(pool.chunks, top) ELSE pool.chunks
      tail   == Top(chunks)
      left   == chunks[tail].size - n
      cut    == IF left > 0 THEN Split(chunks, tail, left) ELSE chunks
      fails  == [pool |-> pool, ptr |-> Null] IN
  IF n > PoolSize THEN fails
  ELSE IF ~pool.high /\ pool.chunks[top].used THEN fails
  ELSE IF pool.high /\ pool.chunks[top].used /\ n <= pool.chunks[top].size
    THEN [pool |-> pool, ptr |-> top]
  ELSE IF left < 0
    THEN [pool |-> [pool EXCEPT !.chunks = Mark(chunks, tail, TRUE)], ptr |-> Null]
  ELSE [pool |-> [pool EXCEPT !.chunks = Mark(cut, tail + left, TRUE),
                              !.high = TRUE,
                              !.bytes = @ + n - current],
        ptr |-> tail + left]

\* is_memory_available; bytes_in_use is unsigned, below zero it is very large.
IsMemoryAvailable(pool, n) == n + pool.bytes \in 0 .. PoolSize

----------------------------------------------------------------------------
(* What holds of every pool. *)

\* The chunks cover the pool from end to end and do not overlap.
Tiles(chunks) ==
  /\ DOMAIN chunks \subseteq 1 .. PoolSize - 1
  /\ 1 \in DOMAIN chunks
  /\ \A a \in DOMAIN chunks :
       /\ chunks[a].size \in Nat \ {0} /\ chunks[a].used \in BOOLEAN
       /\ After(chunks, a) = PoolSize \/ After(chunks, a) \in DOMAIN chunks
  /\ \A a, b \in DOMAIN chunks : a < b => After(chunks, a) <= b

\* No two free chunks are neighbours: what is free is there in one piece.
Coalesced(chunks) ==
  \A a \in DOMAIN chunks : IsFree(chunks, a) => ~IsFree(chunks, After(chunks, a))
=============================================================================
