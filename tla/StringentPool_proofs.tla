------------------------ MODULE StringentPool_proofs ------------------------
(***************************************************************************)
(* Proofs about StringentPool, for pools, corners and requests of any size *)
(* and both ways of splitting: whatever is allocated, freed or extended,   *)
(* the chunks cover the pool without gap or overlap, and no two free ones  *)
(* are neighbours.                                                         *)
(***************************************************************************)
EXTENDS StringentPool, WellFoundedInduction, TLAPS

\* Chunks that cover the pool and are merged where they are free.
Sound(chunks) == Tiles(chunks) /\ Coalesced(chunks)

\* Chunks with the one at an address taken, and given back.
Used(chunks, a)  == Mark(chunks, a, TRUE)
Freed(chunks, a) == Mark(chunks, a, FALSE)

\* The sizes of the pool are positive.
LEMMA Sizes == PoolSize \in Nat \ {0} /\ SmallUnits \in Nat \ {0} /\ 2 * SmallUnits < PoolSize
BY PoolAssumption

USE Sizes

\* A set of natural numbers has a smallest element.
LEMMA Smallest ==
  ASSUME NEW T, T \subseteq Nat, T # {}
  PROVE  \E x \in T : \A y \in T : ~(y < x)
<1>1. PICK x \in T : \A y \in T : <<y, x>> \notin OpToRel(<, Nat)
  BY NatLessThanWellFounded, WFMin
<1> QED
  BY <1>1 DEF OpToRel

\* A set of addresses has a largest element.
LEMMA Largest ==
  ASSUME NEW T \in SUBSET (0 .. PoolSize), T # {}
  PROVE  \E x \in T : \A y \in T : y <= x
<1> DEFINE D == {d \in Nat : PoolSize - d \in T}
<1>1. D \subseteq Nat /\ D # {}
  <2>1. PICK y \in T : TRUE
    OBVIOUS
  <2>2. PoolSize - y \in Nat /\ PoolSize - (PoolSize - y) = y
    OBVIOUS
  <2> QED
    BY <2>1, <2>2
<1>3. PICK d \in D : \A y \in D : ~(y < d)
  <2> HIDE DEF D
  <2> QED
    BY <1>1, Smallest
<1>4. ASSUME NEW y \in T PROVE y <= PoolSize - d
  <2>1. PoolSize - y \in Nat /\ PoolSize - (PoolSize - y) = y
    OBVIOUS
  <2>2. PoolSize - y \in D
    BY <2>1
  <2> QED
    BY <2>1, <2>2, <1>3
<1> QED
  BY <1>4

-----------------------------------------------------------------------------
(* Tilings. *)

\* A chunk ends within the pool.
LEMMA AfterBounds ==
  ASSUME NEW c, Tiles(c), NEW a \in DOMAIN c
  PROVE  /\ a \in 1 .. PoolSize - 1 /\ c[a].size \in Nat \ {0}
         /\ After(c, a) \in Nat /\ a < After(c, a) /\ After(c, a) <= PoolSize
BY DEF Tiles, After

\* There is a top chunk, and it ends where the pool does.
LEMMA TopChunk ==
  ASSUME NEW c, Tiles(c)
  PROVE  /\ Top(c) \in DOMAIN c /\ After(c, Top(c)) = PoolSize
         /\ \A b \in DOMAIN c : b <= Top(c)
<1>1. DOMAIN c \in SUBSET (0 .. PoolSize) /\ DOMAIN c # {}
  BY DEF Tiles
<1>2. \E x \in DOMAIN c : \A y \in DOMAIN c : y <= x
  BY <1>1, Largest
<1>3. Top(c) \in DOMAIN c /\ \A b \in DOMAIN c : b <= Top(c)
  BY <1>2 DEF Top
<1>4. After(c, Top(c)) \notin DOMAIN c
  BY <1>3, AfterBounds DEF Tiles
<1> QED
  BY <1>3, <1>4 DEF Tiles

\* ... and it is the only one that does.
LEMMA EndsPool ==
  ASSUME NEW c, Tiles(c), NEW x \in DOMAIN c, After(c, x) >= PoolSize
  PROVE  x = Top(c)
<1>1. Top(c) \in DOMAIN c /\ x <= Top(c)
  BY TopChunk
<1>2. x \in Nat /\ Top(c) \in Nat /\ Top(c) < PoolSize /\ After(c, x) \in Nat
  BY <1>1, AfterBounds
<1>3. x < Top(c) => After(c, x) <= Top(c)
  BY <1>1 DEF Tiles
<1> QED
  BY <1>1, <1>2, <1>3

\* Marking a chunk moves no chunk.
LEMMA MarkUsedTiles ==
  ASSUME NEW c, Tiles(c), NEW a \in DOMAIN c, NEW m, m = Used(c, a)
  PROVE  /\ Tiles(m) /\ DOMAIN m = DOMAIN c
         /\ \A b \in DOMAIN c : /\ m[b].size = c[b].size /\ After(m, b) = After(c, b)
                                /\ b # a => m[b] = c[b]
         /\ m[a].used
BY DEF Tiles, Used, Freed, Mark, Chunk, After

\* The same for a chunk marked as free.
LEMMA MarkFreeTiles ==
  ASSUME NEW c, Tiles(c), NEW a \in DOMAIN c, NEW m, m = Freed(c, a)
  PROVE  /\ Tiles(m) /\ DOMAIN m = DOMAIN c
         /\ \A b \in DOMAIN c : /\ m[b].size = c[b].size /\ After(m, b) = After(c, b)
                                /\ b # a => m[b] = c[b]
         /\ ~m[a].used
BY DEF Tiles, Used, Freed, Mark, Chunk, After

\* try_splitting_chunks: both pieces are chunks, the others are not touched.
LEMMA SplitTiles ==
  ASSUME NEW c, Tiles(c), NEW a \in DOMAIN c, NEW n \in Nat \ {0}, n < c[a].size,
         NEW s, s = Split(c, a, n)
  PROVE  /\ Tiles(s) /\ a + n \notin DOMAIN c
         /\ \A z : z \in DOMAIN s <=> z \in DOMAIN c \/ z = a + n
         /\ After(s, a) = a + n /\ After(s, a + n) = After(c, a)
         /\ \A b \in DOMAIN c \ {a} : s[b] = c[b] /\ After(s, b) = After(c, b)
         /\ ~s[a].used /\ ~s[a + n].used /\ s[a].size = n
<1>1. a + n \notin DOMAIN c /\ a + n \in 1 .. PoolSize - 1 /\ a + n < After(c, a)
  BY AfterBounds DEF Tiles, After
<1>2. \A z : z \in DOMAIN s <=> z \in DOMAIN c \/ z = a + n
  BY DEF Split
<1>3. s[a] = Chunk(n, FALSE) /\ s[a + n] = Chunk(c[a].size - n, FALSE)
  BY <1>1 DEF Split
<1>4. \A b \in DOMAIN c \ {a} : s[b] = c[b]
  BY <1>1 DEF Split
<1>5. After(s, a) = a + n /\ After(s, a + n) = After(c, a)
  BY <1>3, AfterBounds DEF After, Chunk
<1>6. \A b \in DOMAIN c \ {a} : After(s, b) = After(c, b)
  BY <1>4 DEF After
<1>7. \A b \in DOMAIN s :
        /\ s[b].size \in Nat \ {0} /\ s[b].used \in BOOLEAN
        /\ After(s, b) = PoolSize \/ After(s, b) \in DOMAIN s
  <2>1. s[a].size \in Nat \ {0} /\ s[a + n].size \in Nat \ {0}
    BY <1>3, AfterBounds DEF Chunk
  <2>2. s[a].used = FALSE /\ s[a + n].used = FALSE
    BY <1>3 DEF Chunk
  <2> QED
    BY <2>1, <2>2, <1>2, <1>4, <1>5, <1>6 DEF Tiles
<1>8. \A x, y \in DOMAIN s : x < y => After(s, x) <= y
  <2> SUFFICES ASSUME NEW x \in DOMAIN s, NEW y \in DOMAIN s, x < y
               PROVE  After(s, x) <= y
    OBVIOUS
  <2>1. CASE x = a
    BY <2>1, <1>1, <1>2, <1>5, AfterBounds DEF Tiles
  <2>2. CASE x = a + n
    BY <2>2, <1>1, <1>2, <1>5, AfterBounds DEF Tiles
  <2>3. CASE x \in DOMAIN c \ {a} /\ y = a + n
    BY <2>3, <1>1, <1>6, AfterBounds DEF Tiles
  <2>4. CASE x \in DOMAIN c \ {a} /\ y \in DOMAIN c
    BY <2>4, <1>6 DEF Tiles
  <2> QED
    BY <2>1, <2>2, <2>3, <2>4, <1>2
<1> QED
  BY <1>1, <1>2, <1>3, <1>4, <1>5, <1>6, <1>7, <1>8 DEF Tiles, Chunk

\* merge: one chunk takes the place of two.
LEMMA MergeTiles ==
  ASSUME NEW c, Tiles(c), NEW a \in DOMAIN c,
         NEW e, e = After(c, a), e \in DOMAIN c, NEW m, m = Merge(c, a)
  PROVE  /\ Tiles(m) /\ a \in DOMAIN m
         /\ \A z : z \in DOMAIN m <=> z \in DOMAIN c /\ z # e
         /\ After(m, a) = After(c, e)
         /\ \A b \in DOMAIN c \ {a, e} : m[b] = c[b] /\ After(m, b) = After(c, b)
         /\ ~m[a].used
<1>1. /\ a # e /\ a \in DOMAIN m /\ e > a /\ e > 1
      /\ \A z : z \in DOMAIN m <=> z \in DOMAIN c /\ z # e
  BY AfterBounds DEF Merge
<1>2. m[a] = Chunk(c[a].size + c[e].size, FALSE)
  BY <1>1 DEF Merge
<1>3. \A b \in DOMAIN c \ {a, e} : m[b] = c[b]
  BY DEF Merge
<1>4. After(m, a) = After(c, e)
  BY <1>2, AfterBounds DEF After, Chunk
<1>5. \A b \in DOMAIN c \ {a, e} : After(m, b) = After(c, b) /\ After(c, b) # e
  <2> TAKE b \in DOMAIN c \ {a, e}
  <2>1. After(m, b) = After(c, b)
    BY <1>3 DEF After
  <2>2. CASE b < a
    BY <2>1, <2>2, <1>1, AfterBounds DEF Tiles
  <2>3. CASE a < b
    <3>1. e <= b
      BY <2>3 DEF Tiles
    <3> QED
      BY <3>1, <2>1, AfterBounds
  <2> QED
    BY <2>2, <2>3, AfterBounds
<1>6. \A b \in DOMAIN m :
        /\ m[b].size \in Nat \ {0} /\ m[b].used \in BOOLEAN
        /\ After(m, b) = PoolSize \/ After(m, b) \in DOMAIN m
  <2> TAKE b \in DOMAIN m
  <2>1. CASE b = a
    <3>1. m[a].size \in Nat \ {0} /\ m[a].used \in BOOLEAN
      BY <1>2, AfterBounds DEF Chunk
    <3>2. After(c, e) # e
      BY AfterBounds
    <3> QED
      BY <2>1, <3>1, <3>2, <1>1, <1>4 DEF Tiles
  <2>2. CASE b # a
    BY <2>2, <1>1, <1>3, <1>5 DEF Tiles
  <2> QED
    BY <2>1, <2>2
<1>7. \A x, y \in DOMAIN m : x < y => After(m, x) <= y
  <2> SUFFICES ASSUME NEW x \in DOMAIN m, NEW y \in DOMAIN m, x < y
               PROVE  After(m, x) <= y
    OBVIOUS
  <2>1. CASE x = a
    <3>1. e <= y /\ e # y
      BY <2>1, <1>1 DEF Tiles
    <3> QED
      BY <2>1, <3>1, <1>1, <1>4, AfterBounds DEF Tiles
  <2>2. CASE x # a
    BY <2>2, <1>1, <1>5 DEF Tiles
  <2> QED
    BY <2>1, <2>2
<1> QED
  BY <1>1, <1>2, <1>3, <1>4, <1>5, <1>6, <1>7 DEF Tiles, Chunk

-----------------------------------------------------------------------------
(* Free neighbours. *)

\* Both pieces of a free chunk are free; using one of them leaves no free
\* neighbours.
LEMMA SplitSound ==
  ASSUME NEW c, Sound(c), NEW a \in DOMAIN c, ~c[a].used,
         NEW n \in Nat \ {0}, n < c[a].size, NEW x \in {a, a + n},
         NEW s, s = Split(c, a, n), NEW m, m = Used(s, x)
  PROVE  Sound(m)
<1>1. /\ Tiles(s) /\ a + n \notin DOMAIN c
      /\ \A z : z \in DOMAIN s <=> z \in DOMAIN c \/ z = a + n
      /\ After(s, a) = a + n /\ After(s, a + n) = After(c, a)
      /\ \A b \in DOMAIN c \ {a} : s[b] = c[b] /\ After(s, b) = After(c, b)
  BY SplitTiles DEF Sound
<1>2. /\ Tiles(m) /\ DOMAIN m = DOMAIN s /\ m[x].used
      /\ \A b \in DOMAIN s : After(m, b) = After(s, b) /\ (b # x => m[b] = s[b])
  BY <1>1, MarkUsedTiles
<1>3. ASSUME NEW b \in DOMAIN m, ~m[b].used, After(m, b) \in DOMAIN m,
             ~m[After(m, b)].used
      PROVE  FALSE
  <2>1. b # x /\ After(s, b) # x /\ After(m, b) = After(s, b)
    BY <1>2, <1>3
  <2>2. CASE b \in DOMAIN c \ {a}
    <3>1. After(c, b) = After(s, b) /\ After(c, b) \in DOMAIN c
      BY <2>2, <2>1, <1>1, <1>2, <1>3, AfterBounds DEF Sound, Tiles
    <3>2. ~c[b].used
      BY <2>1, <2>2, <1>1, <1>2, <1>3
    <3>3. ~c[After(c, b)].used
      BY <3>1, <2>1, <1>1, <1>2, <1>3
    <3> QED
      BY <3>1, <3>2, <3>3, <2>2 DEF Sound, Coalesced, IsFree
  <2>3. CASE b = a
    BY <2>1, <2>3, <1>1
  <2>4. CASE b = a + n
    <3>1. After(c, a) \in DOMAIN c /\ After(c, a) # a /\ After(c, a) # x
      BY <2>4, <2>1, <1>1, <1>2, <1>3, AfterBounds DEF Sound
    <3>2. ~c[After(c, a)].used
      BY <3>1, <2>4, <2>1, <1>1, <1>2, <1>3
    <3> QED
      BY <3>1, <3>2 DEF Sound, Coalesced, IsFree
  <2> QED
    BY <2>2, <2>3, <2>4, <1>1, <1>2
<1> QED
  BY <1>2, <1>3 DEF Sound, Coalesced, IsFree

\* A chunk that is marked as used leaves no free neighbours.
LEMMA MarkUsedSound ==
  ASSUME NEW c, Sound(c), NEW a \in DOMAIN c, NEW m, m = Used(c, a)
  PROVE  Sound(m)
<1>1. Tiles(c)
  BY DEF Sound
<1>2. /\ Tiles(m) /\ DOMAIN m = DOMAIN c /\ m[a].used
      /\ \A b \in DOMAIN c : After(m, b) = After(c, b) /\ (b # a => m[b] = c[b])
  BY <1>1, MarkUsedTiles
<1> QED
  BY <1>2 DEF Sound, Coalesced, IsFree

\* reuse_chunks: the chunk is handed out, no other one is touched.
LEMMA TakeSound ==
  ASSUME NEW c, Sound(c), NEW a \in DOMAIN c, ~c[a].used,
         NEW n \in Nat \ {0}, n <= c[a].size, NEW exact,
         NEW t, t = Take(c, a, n, exact)
  PROVE  /\ Sound(t) /\ a \in DOMAIN t /\ t[a].used /\ t[a].size >= n
         /\ c[a].size >= 2 * n => t[a].size = n
         /\ DOMAIN c \subseteq DOMAIN t
         /\ \A b \in DOMAIN c \ {a} : t[b] = c[b]
         /\ \A b \in DOMAIN t \ DOMAIN c : ~t[b].used
<1>0. Tiles(c)
  BY DEF Sound
<1>1. CASE WorthSplitting(c[a].size, n, exact)
  <2>1. n < c[a].size
    BY <1>1, <1>0, AfterBounds DEF WorthSplitting
  <2>2. PICK s : s = Split(c, a, n)
    OBVIOUS
  <2>3. t = Used(s, a)
    BY <1>1, <2>2 DEF Take, Used, Mark, Chunk
  <2>4. Sound(t)
    BY <2>1, <2>2, <2>3, SplitSound
  <2>5. /\ Tiles(s)
        /\ \A z : z \in DOMAIN s <=> z \in DOMAIN c \/ z = a + n
        /\ a + n \notin DOMAIN c
        /\ \A b \in DOMAIN c \ {a} : s[b] = c[b]
        /\ ~s[a + n].used /\ s[a].size = n
    BY <2>1, <2>2, <1>0, SplitTiles
  <2>6. /\ DOMAIN t = DOMAIN s /\ t[a].used /\ t[a].size = n
        /\ \A b \in DOMAIN s \ {a} : t[b] = s[b]
    BY <2>3, <2>5, MarkUsedTiles
  <2>7. a + n # a
    BY <1>0, AfterBounds
  <2> QED
    BY <2>4, <2>5, <2>6, <2>7
<1>2. CASE ~WorthSplitting(c[a].size, n, exact)
  <2>0. ~(c[a].size >= 2 * n)
    BY <1>2, <1>0, AfterBounds DEF WorthSplitting
  <2>1. t = Used(c, a)
    BY <1>2 DEF Take, Used, Mark, Chunk
  <2>2. Sound(t)
    BY <2>1, MarkUsedSound
  <2>3. /\ DOMAIN t = DOMAIN c /\ t[a].used /\ t[a].size = c[a].size
        /\ \A b \in DOMAIN c \ {a} : t[b] = c[b]
    BY <2>1, <1>0, MarkUsedTiles
  <2> QED
    BY <2>0, <2>2, <2>3
<1> QED
  BY <1>1, <1>2

\* try_to_merge, first half: with the next chunk.  Free neighbours are left
\* before the chunk only.
LEMMA MergeNextSound ==
  ASSUME NEW c, Sound(c), NEW a \in DOMAIN c,
         NEW m, m = Freed(c, a), NEW n, n = MergeNext(m, a)
  PROVE  /\ Tiles(n) /\ a \in DOMAIN n /\ ~n[a].used /\ After(n, a) >= After(c, a)
         /\ DOMAIN n \subseteq DOMAIN c
         /\ \A b \in DOMAIN c \ {a} : c[b].used => b \in DOMAIN n
         /\ \A b \in DOMAIN n \ {a} : n[b] = c[b] /\ After(n, b) = After(c, b)
         /\ \A b \in DOMAIN n : ~n[b].used /\ IsFree(n, After(n, b)) => After(n, b) = a
<1>0. Tiles(c) /\ Coalesced(c)
  BY DEF Sound
<1>e. PICK e : e = After(m, a)
  OBVIOUS
<1>1. /\ Tiles(m) /\ DOMAIN m = DOMAIN c /\ ~m[a].used /\ e = After(c, a)
      /\ \A b \in DOMAIN c : After(m, b) = After(c, b) /\ (b # a => m[b] = c[b])
  BY <1>0, <1>e, MarkFreeTiles
<1>2. \A b \in DOMAIN m : ~m[b].used /\ IsFree(m, After(m, b)) => b = a \/ After(m, b) = a
  BY <1>0, <1>1 DEF Coalesced, IsFree
<1>3. CASE ~IsFree(m, e)
  <2>1. n = m
    BY <1>3, <1>e DEF MergeNext
  <2>2. After(c, a) \in Nat
    BY <1>0, AfterBounds
  <2> QED
    BY <2>1, <2>2, <1>1, <1>2, <1>3
<1>4. CASE IsFree(m, e)
  <2>1. n = Merge(m, a) /\ e \in DOMAIN m /\ ~m[e].used
    BY <1>4, <1>e DEF MergeNext, IsFree
  <2>2. /\ Tiles(n) /\ a \in DOMAIN n /\ ~n[a].used
        /\ \A z : z \in DOMAIN n <=> z \in DOMAIN m /\ z # e
        /\ After(n, a) = After(m, e)
        /\ \A b \in DOMAIN m \ {a, e} : n[b] = m[b] /\ After(n, b) = After(m, b)
    BY <2>1, <1>1, <1>e, MergeTiles
  <2>3. a < e /\ e < After(m, e) /\ a \in Nat /\ e \in Nat /\ After(m, e) \in Nat
    BY <2>1, <1>1, <1>e, AfterBounds
  <2>4. ASSUME NEW b \in DOMAIN n, ~n[b].used, IsFree(n, After(n, b)), After(n, b) # a
        PROVE  FALSE
    <3>1. After(n, b) \in DOMAIN m \ {a, e} /\ ~m[After(n, b)].used
      BY <2>2, <2>4 DEF IsFree
    <3>2. CASE b = a
      <4>1. ~m[e].used /\ IsFree(m, After(m, e))
        BY <3>1, <3>2, <2>1, <2>2 DEF IsFree
      <4> QED
        BY <4>1, <2>1, <2>3, <1>2
    <3>3. CASE b # a
      <4>1. b \in DOMAIN m /\ ~m[b].used /\ After(m, b) = After(n, b)
        BY <3>3, <2>2, <2>4
      <4> QED
        BY <4>1, <3>1, <3>3, <1>2, <2>4 DEF IsFree
    <3> QED
      BY <3>2, <3>3
  <2>5. \A b \in DOMAIN c \ {a} : c[b].used => b \in DOMAIN n
    BY <2>1, <2>2, <2>3, <1>1
  <2>6. \A b \in DOMAIN n \ {a} : n[b] = c[b] /\ After(n, b) = After(c, b)
    BY <2>2, <1>1
  <2>7. After(n, a) >= After(c, a)
    BY <2>2, <2>3, <1>1, <1>e
  <2> QED
    BY <2>2, <2>4, <2>5, <2>6, <2>7, <1>1
<1> QED
  BY <1>3, <1>4

\* try_to_merge: a chunk is given back.  The free chunk it is part of then
\* reaches at least as far, and used chunks are not touched.
LEMMA CoalesceSound ==
  ASSUME NEW c, Sound(c), NEW a \in DOMAIN c, NEW r, r = Coalesce(c, a)
  PROVE  /\ Sound(r)
         /\ \E x \in DOMAIN r : ~r[x].used /\ After(r, x) >= After(c, a)
         /\ \A b \in DOMAIN r : r[b].used => b # a /\ b \in DOMAIN c /\ r[b] = c[b]
         /\ \A b \in DOMAIN c \ {a} : c[b].used => b \in DOMAIN r /\ r[b] = c[b]
<1>m. PICK m : m = Freed(c, a)
  OBVIOUS
<1>n. PICK n : n = MergeNext(m, a)
  OBVIOUS
<1>1. /\ Tiles(n) /\ a \in DOMAIN n /\ ~n[a].used /\ After(n, a) >= After(c, a)
      /\ DOMAIN n \subseteq DOMAIN c
      /\ \A b \in DOMAIN c \ {a} : c[b].used => b \in DOMAIN n
      /\ \A b \in DOMAIN n \ {a} : n[b] = c[b] /\ After(n, b) = After(c, b)
      /\ \A b \in DOMAIN n : ~n[b].used /\ IsFree(n, After(n, b)) => After(n, b) = a
  BY <1>m, <1>n, MergeNextSound
<1>2. r = MergePrev(n, a)
  BY <1>m, <1>n DEF Coalesce, Freed
<1>3. CASE FreeBefore(n, a) = {}
  <2>1. r = n
    BY <1>2, <1>3 DEF MergePrev
  <2>2. Sound(n)
    BY <1>1, <1>3 DEF Sound, Coalesced, FreeBefore, IsFree
  <2> QED
    BY <2>1, <2>2, <1>1, <1>2
<1>4. CASE FreeBefore(n, a) # {}
  <2>1. PICK p \in FreeBefore(n, a) : r = Merge(n, p)
    BY <1>2, <1>4 DEF MergePrev
  <2>2. p \in DOMAIN n /\ ~n[p].used /\ After(n, p) = a
    BY <2>1 DEF FreeBefore
  <2>3. /\ Tiles(r) /\ p \in DOMAIN r /\ ~r[p].used
        /\ \A z : z \in DOMAIN r <=> z \in DOMAIN n /\ z # a
        /\ After(r, p) = After(n, a)
        /\ \A b \in DOMAIN n \ {p, a} : r[b] = n[b] /\ After(r, b) = After(n, b)
    BY <2>1, <2>2, <1>1, MergeTiles
  <2>4. p < a /\ a < After(n, a) /\ p \in Nat /\ a \in Nat /\ After(n, a) \in Nat
    BY <2>2, <1>1, AfterBounds
  <2>5. ASSUME NEW b \in DOMAIN r, ~r[b].used, IsFree(r, After(r, b))
        PROVE  FALSE
    <3>1. After(r, b) \in DOMAIN n \ {a} /\ ~n[After(r, b)].used
      BY <2>2, <2>3, <2>5 DEF IsFree
    <3>2. CASE b = p
      <4>1. IsFree(n, After(n, a))
        BY <3>1, <3>2, <2>3 DEF IsFree
      <4> QED
        BY <4>1, <2>4, <1>1
    <3>3. CASE b # p
      <4>1. b \in DOMAIN n /\ ~n[b].used /\ After(n, b) = After(r, b)
        BY <3>3, <2>3, <2>5
      <4> QED
        BY <4>1, <3>1, <1>1 DEF IsFree
    <3> QED
      BY <3>2, <3>3
  <2>6. \A b \in DOMAIN r : r[b].used => b # a /\ b \in DOMAIN c /\ r[b] = c[b]
    BY <2>3, <1>1
  <2>7. \A b \in DOMAIN c \ {a} : c[b].used => b \in DOMAIN r /\ r[b] = c[b]
    BY <2>2, <2>3, <1>1
  <2>8. Sound(r)
    BY <2>3, <2>5 DEF Sound, Coalesced, IsFree
  <2>9. After(r, p) >= After(c, a)
    BY <2>3, <1>1
  <2> QED
    BY <2>3, <2>6, <2>7, <2>8, <2>9
<1> QED
  BY <1>3, <1>4

-----------------------------------------------------------------------------
(* The methods of the allocator. *)

\* A pool: its chunks are sound, and the corner is one of them, allocated.
IsPool(p) ==
  /\ p = [chunks |-> p.chunks, small |-> p.small, high |-> p.high,
          exact |-> p.exact, bytes |-> p.bytes]
  /\ Sound(p.chunks)
  /\ SmallBase \in DOMAIN p.chunks
  /\ p.chunks[SmallBase].used /\ p.chunks[SmallBase].size = SmallUnits
  /\ p.small \subseteq SmallBase .. SmallEnd - 1

\* The addresses that were handed out: units of the corner, and chunks.
GivenChunks(c) == {a \in DOMAIN c : a # SmallBase /\ c[a].used}

\* The smallest chunk that fits is there if there is one that fits.
LEMMA FindChunkFits ==
  ASSUME NEW c, Tiles(c), NEW n, Fits(c, n) # {}
  PROVE  FindChunk(c, n) \in Fits(c, n)
<1> DEFINE F == Fits(c, n)
           S == {s \in Nat : \E a \in F : c[a].size = s}
<1>1. F \subseteq DOMAIN c /\ F \subseteq Nat /\ \A a \in F : c[a].size \in Nat
  BY DEF Fits, Tiles
<1>2. S \subseteq Nat /\ S # {}
  BY <1>1
<1>3. PICK s \in S : \A y \in S : ~(y < s)
  <2> HIDE DEF S
  <2> QED
    BY <1>2, Smallest
<1>4. ASSUME NEW a \in F PROVE ~(c[a].size < s)
  <2>1. c[a].size \in S
    BY <1>1
  <2> QED
    BY <2>1, <1>3
<1> DEFINE L == {a \in F : c[a].size = s}
<1>5. L \subseteq Nat /\ L # {}
  BY <1>1, <1>3
<1>6. PICK a \in L : \A b \in L : ~(b < a)
  <2> HIDE DEF L
  <2> QED
    BY <1>5, Smallest
<1>7. a \in F /\ a \in Nat /\ c[a].size = s /\ s \in Nat
  BY <1>1, <1>6
<1>8. ASSUME NEW b \in F
      PROVE  c[a].size < c[b].size \/ (c[a].size = c[b].size /\ a <= b)
  <2>1. b \in Nat /\ c[b].size \in Nat /\ ~(c[b].size < s)
    BY <1>1, <1>4
  <2>2. CASE c[b].size = s
    BY <2>1, <2>2, <1>6, <1>7
  <2>3. CASE c[b].size # s
    BY <2>1, <2>3, <1>7
  <2> QED
    BY <2>2, <2>3
<1> QED
  BY <1>7, <1>8 DEF FindChunk

\* pool_create: the pool starts with the corner allocated and the rest free.
THEOREM PoolCreateSound == IsPool(PoolCreate)
<1>1. PICK c : c = [a \in {SmallBase} |-> [size |-> PoolSize - 1, used |-> FALSE]]
  OBVIOUS
<1>2. PICK exact : exact = FALSE
  OBVIOUS
<1>3. PICK t : t = Take(c, SmallBase, SmallUnits, exact)
  OBVIOUS
<1>4. Sound(c) /\ SmallBase \in DOMAIN c /\ ~c[SmallBase].used /\ c[SmallBase].size >= 2 * SmallUnits
  <2>1. /\ 1 \in DOMAIN c /\ \A a \in DOMAIN c : a = 1
        /\ c[1].size = PoolSize - 1 /\ c[1].used = FALSE /\ PoolSize - 1 \in Nat \ {0}
    BY <1>1 DEF SmallBase
  <2>2. After(c, 1) = PoolSize
    BY <2>1 DEF After
  <2>3. Tiles(c)
    <3>1. \A a \in DOMAIN c :
            /\ a = 1 /\ c[a].size \in Nat \ {0} /\ c[a].used \in BOOLEAN
            /\ After(c, a) = PoolSize
      BY <2>1, <2>2
    <3>2. DOMAIN c \subseteq 1 .. PoolSize - 1
      BY <2>1
    <3>3. \A a, z \in DOMAIN c : ~(a < z)
      BY <3>1
    <3> QED
      BY <2>1, <3>1, <3>2, <3>3 DEF Tiles
  <2>4. Coalesced(c)
    BY <2>1, <2>2 DEF Coalesced, IsFree
  <2> QED
    BY <2>1, <2>3, <2>4 DEF Sound, SmallBase
<1>5. /\ Sound(t) /\ SmallBase \in DOMAIN t /\ t[SmallBase].used /\ t[SmallBase].size = SmallUnits
  <2>1. SmallUnits <= c[SmallBase].size
    BY <1>1 DEF SmallBase
  <2> QED
    BY <1>3, <1>4, <2>1, TakeSound
<1>6. PoolCreate = [chunks |-> t, small |-> {}, high |-> FALSE, exact |-> FALSE,
                    bytes |-> 1 + 2 * SmallUnits]
  BY <1>1, <1>2, <1>3, Zenon DEF PoolCreate, Chunk
<1> QED
  BY <1>5, <1>6 DEF IsPool

\* The chunks that were handed out lie behind the corner.
LEMMA GivenBehindCorner ==
  ASSUME NEW p, IsPool(p)
  PROVE  /\ After(p.chunks, SmallBase) = SmallEnd /\ SmallEnd < PoolSize
         /\ \A a \in GivenChunks(p.chunks) : a \in Nat /\ a >= SmallEnd
         /\ Top(p.chunks) # SmallBase
<1>1. Tiles(p.chunks) /\ SmallBase \in DOMAIN p.chunks /\ p.chunks[SmallBase].size = SmallUnits
  BY DEF IsPool, Sound
<1>2. After(p.chunks, SmallBase) = SmallEnd /\ SmallEnd < PoolSize
  BY <1>1 DEF After, SmallEnd, SmallBase
<1>3. ASSUME NEW a \in GivenChunks(p.chunks)
      PROVE  a \in Nat /\ a >= SmallEnd
  <2>1. a \in DOMAIN p.chunks /\ a # SmallBase
    BY DEF GivenChunks
  <2>2. a \in Nat /\ SmallBase < a
    BY <1>1, <2>1, AfterBounds DEF SmallBase
  <2> QED
    BY <1>1, <1>2, <2>1, <2>2 DEF Tiles
<1>4. Top(p.chunks) # SmallBase
  BY <1>1, <1>2, TopChunk
<1> QED
  BY <1>2, <1>3, <1>4

\* n units were handed out: in the corner, or a chunk that is large enough, and
\* what was handed out before stays as it is.
HandedOut(p, n, r) ==
  \/ /\ n = 1 /\ r.ptr \in (SmallBase .. SmallEnd - 1) \ p.small
     /\ r.pool.small = p.small \cup {r.ptr} /\ r.pool.chunks = p.chunks
  \/ /\ r.ptr \notin GivenChunks(p.chunks) /\ r.pool.chunks[r.ptr].size >= n
     /\ \A x : x \in GivenChunks(r.pool.chunks)
              <=> x \in GivenChunks(p.chunks) \/ x = r.ptr
     /\ \A x \in GivenChunks(p.chunks) : r.pool.chunks[x] = p.chunks[x]
     /\ r.pool.small = p.small

\* pool_alloc_chunk: what is handed out was nobody's and is large enough, and
\* what was handed out before stays as it is.
THEOREM PoolAllocSound ==
  ASSUME NEW p, IsPool(p), NEW n \in Nat \ {0}, NEW stream,
         NEW r, r = PoolAlloc(p, n, stream)
  PROVE  IsPool(r.pool) /\ ((r.ptr = Null /\ r.pool = p) \/ HandedOut(p, n, r))
<1>0. /\ p = [chunks |-> p.chunks, small |-> p.small, high |-> p.high,
              exact |-> p.exact, bytes |-> p.bytes]
      /\ Sound(p.chunks) /\ Tiles(p.chunks)
      /\ SmallBase \in DOMAIN p.chunks /\ p.chunks[SmallBase].used
      /\ p.chunks[SmallBase].size = SmallUnits
      /\ p.small \subseteq SmallBase .. SmallEnd - 1
  BY DEF IsPool, Sound
<1>1. CASE IsSmall(p, n, stream)
  <2>1. PICK u : u = Min(FreeSmallUnits(p))
    OBVIOUS
  <2>2. r = [pool |-> [p EXCEPT !.small = @ \cup {u}], ptr |-> u]
    BY <1>1, <2>1 DEF PoolAlloc
  <2>3. FreeSmallUnits(p) \subseteq Nat /\ FreeSmallUnits(p) # {} /\ n = 1
    BY <1>1 DEF IsSmall, FreeSmallUnits, SmallBase, SmallEnd
  <2>4. PICK x \in FreeSmallUnits(p) : \A y \in FreeSmallUnits(p) : ~(y < x)
    BY <2>3, Smallest
  <2>5. \A y \in FreeSmallUnits(p) : x <= y
    BY <2>3, <2>4
  <2>6. u \in FreeSmallUnits(p)
    BY <2>1, <2>5 DEF Min
  <2>7. u \in (SmallBase .. SmallEnd - 1) \ p.small
    BY <2>6 DEF FreeSmallUnits
  <2>8. /\ r.ptr = u
        /\ r.pool = [chunks |-> p.chunks, small |-> p.small \cup {u}, high |-> p.high,
                      exact |-> p.exact, bytes |-> p.bytes]
    <3>1. PICK c, sm, h, e, b :
            p = [chunks |-> c, small |-> sm, high |-> h, exact |-> e, bytes |-> b]
      BY <1>0
    <3>2. PICK v : v = p.small \cup {u}
      OBVIOUS
    <3>3. r = [pool |-> [p EXCEPT !.small = v], ptr |-> u]
      BY <2>2, <3>1, <3>2
    <3>4. r = [pool |-> [chunks |-> c, small |-> v, high |-> h, exact |-> e, bytes |-> b],
               ptr |-> u]
      BY <3>1, <3>3
    <3> QED
      BY <3>1, <3>2, <3>4
  <2>9. IsPool(r.pool)
    BY <1>0, <2>7, <2>8 DEF IsPool
  <2> QED
    BY <2>3, <2>7, <2>8, <2>9 DEF HandedOut
<1>2. CASE ~IsSmall(p, n, stream) /\ Fits(p.chunks, n) = {}
  <2>1. r = [pool |-> p, ptr |-> Null]
    BY <1>2 DEF PoolAlloc
  <2> QED
    BY <1>0, <2>1 DEF IsPool
<1>3. CASE ~IsSmall(p, n, stream) /\ Fits(p.chunks, n) # {}
  <2>1. PICK a : a = FindChunk(p.chunks, n)
    OBVIOUS
  <2>2. PICK t : t = Take(p.chunks, a, n, p.exact)
    OBVIOUS
  <2>3. r = [pool |-> [p EXCEPT !.chunks = t, !.bytes = @ + t[a].size], ptr |-> a]
    BY <1>3, <2>1, <2>2, Zenon DEF PoolAlloc
  <2>4. a \in DOMAIN p.chunks /\ ~p.chunks[a].used /\ p.chunks[a].size >= n
    BY <1>0, <1>3, <2>1, FindChunkFits DEF Fits, IsFree
  <2>5. n <= p.chunks[a].size
    BY <1>0, <2>4, AfterBounds
  <2>6. /\ Sound(t) /\ a \in DOMAIN t /\ t[a].used /\ t[a].size >= n
        /\ DOMAIN p.chunks \subseteq DOMAIN t
        /\ \A b \in DOMAIN p.chunks \ {a} : t[b] = p.chunks[b]
        /\ \A b \in DOMAIN t \ DOMAIN p.chunks : ~t[b].used
    BY <1>0, <2>2, <2>4, <2>5, TakeSound
  <2>7. /\ r.ptr = a
        /\ r.pool = [chunks |-> t, small |-> p.small, high |-> p.high,
                      exact |-> p.exact, bytes |-> p.bytes + t[a].size]
    <3>1. PICK c, sm, h, e, b :
            p = [chunks |-> c, small |-> sm, high |-> h, exact |-> e, bytes |-> b]
      BY <1>0
    <3>2. PICK v : v = p.bytes + t[a].size
      OBVIOUS
    <3>3. PICK w : w = [p EXCEPT !.chunks = t, !.bytes = v]
      OBVIOUS
    <3>4. w = [chunks |-> t, small |-> sm, high |-> h, exact |-> e, bytes |-> v]
      BY <3>1, <3>3
    <3>5. r = [pool |-> w, ptr |-> a]
      BY <2>3, <3>1, <3>2, <3>3
    <3> QED
      BY <3>1, <3>2, <3>4, <3>5
  <2>8. a # SmallBase /\ t[SmallBase] = p.chunks[SmallBase]
    BY <1>0, <2>4, <2>6
  <2>9. IsPool(r.pool)
    BY <1>0, <2>6, <2>7, <2>8 DEF IsPool
  <2>10. a \notin GivenChunks(p.chunks)
    BY <2>4 DEF GivenChunks
  <2>11. \A x : x \in GivenChunks(t) <=> x \in GivenChunks(p.chunks) \/ x = a
    BY <2>4, <2>6, <2>8 DEF GivenChunks
  <2>12. \A x \in GivenChunks(p.chunks) : t[x] = p.chunks[x]
    BY <2>6, <2>10 DEF GivenChunks
  <2> QED
    BY <2>6, <2>7, <2>9, <2>10, <2>11, <2>12 DEF HandedOut
<1> QED
  BY <1>1, <1>2, <1>3

\* pool_free_chunk: an address that was handed out is given back, and nothing
\* else changes hands.
THEOREM PoolFreeSound ==
  ASSUME NEW p, IsPool(p), NEW a, a \in p.small \/ a \in GivenChunks(p.chunks),
         NEW q, q = PoolFree(p, a)
  PROVE  /\ IsPool(q)
         /\ q.small = p.small \ {a}
         /\ \A x : x \in GivenChunks(q.chunks) <=> x \in GivenChunks(p.chunks) /\ x # a
         /\ \A x \in GivenChunks(q.chunks) : q.chunks[x] = p.chunks[x]
<1>0. /\ p = [chunks |-> p.chunks, small |-> p.small, high |-> p.high,
              exact |-> p.exact, bytes |-> p.bytes]
      /\ Sound(p.chunks) /\ Tiles(p.chunks)
      /\ SmallBase \in DOMAIN p.chunks /\ p.chunks[SmallBase].used
      /\ p.chunks[SmallBase].size = SmallUnits
      /\ p.small \subseteq SmallBase .. SmallEnd - 1
  BY DEF IsPool, Sound
<1>1. PICK c, sm, h, e, b :
        p = [chunks |-> c, small |-> sm, high |-> h, exact |-> e, bytes |-> b]
  BY <1>0
<1>2. CASE a \in p.small
  <2>1. q = [chunks |-> c, small |-> sm \ {a}, high |-> h, exact |-> e, bytes |-> b]
    BY <1>1, <1>2 DEF PoolFree
  <2>2. a \notin GivenChunks(p.chunks)
    <3>1. a \in SmallBase .. SmallEnd - 1
      BY <1>0, <1>2
    <3> QED
      BY <3>1, GivenBehindCorner DEF SmallBase, SmallEnd
  <2> QED
    BY <1>0, <1>1, <2>1, <2>2 DEF IsPool
<1>3. CASE a \notin p.small
  <2>1. a \in DOMAIN c /\ a # SmallBase /\ c[a].used
    BY <1>1, <1>3 DEF GivenChunks
  <2>2. PICK r : r = Coalesce(c, a)
    OBVIOUS
  <2>3. PICK h2, b2 : q = [p EXCEPT !.chunks = r, !.bytes = b2, !.high = h2]
    BY <1>1, <1>3, <2>1, <2>2, Zenon DEF PoolFree, IsAllocated
  <2>4. q = [chunks |-> r, small |-> sm, high |-> h2, exact |-> e, bytes |-> b2]
    BY <1>1, <2>3
  <2>5. /\ Sound(r)
        /\ \A x \in DOMAIN r : r[x].used => x # a /\ x \in DOMAIN c /\ r[x] = c[x]
        /\ \A x \in DOMAIN c \ {a} : c[x].used => x \in DOMAIN r /\ r[x] = c[x]
    BY <1>0, <1>1, <2>1, <2>2, CoalesceSound
  <2>6. SmallBase \in DOMAIN r /\ r[SmallBase] = c[SmallBase]
    BY <1>0, <1>1, <2>1, <2>5
  <2>7. IsPool(q)
    BY <1>0, <1>1, <2>4, <2>5, <2>6 DEF IsPool
  <2>8. \A x : x \in GivenChunks(r) <=> x \in GivenChunks(c) /\ x # a
    BY <2>5 DEF GivenChunks
  <2>9. \A x \in GivenChunks(r) : r[x] = c[x]
    BY <2>5 DEF GivenChunks
  <2>10. q.small = p.small \ {a}
    BY <1>1, <1>3, <2>4
  <2> QED
    BY <1>1, <2>4, <2>7, <2>8, <2>9, <2>10
<1> QED
  BY <1>2, <1>3

\* extend_high_memory_allocation: the workspace is the top chunk and large
\* enough; no other chunk that was handed out is touched.
THEOREM ExtendHighMemorySound ==
  ASSUME NEW p, IsPool(p), NEW n \in Nat \ {0}, NEW current,
         NEW r, r = ExtendHighMemory(p, n, current)
  PROVE  /\ IsPool(r.pool)
         /\ r.ptr # Null => /\ r.ptr = Top(r.pool.chunks) /\ r.pool.chunks[r.ptr].used
                            /\ r.pool.chunks[r.ptr].size >= n
         /\ \A x \in GivenChunks(p.chunks) \ {Top(p.chunks)} :
              x \in GivenChunks(r.pool.chunks) /\ r.pool.chunks[x] = p.chunks[x] /\ x # r.ptr
<1>0. /\ p = [chunks |-> p.chunks, small |-> p.small, high |-> p.high,
              exact |-> p.exact, bytes |-> p.bytes]
      /\ Sound(p.chunks) /\ Tiles(p.chunks)
      /\ SmallBase \in DOMAIN p.chunks /\ p.chunks[SmallBase].used
      /\ p.chunks[SmallBase].size = SmallUnits
      /\ p.small \subseteq SmallBase .. SmallEnd - 1
  BY DEF IsPool, Sound
<1>1. PICK c, sm, h, e, b :
        p = [chunks |-> c, small |-> sm, high |-> h, exact |-> e, bytes |-> b]
  BY <1>0
<1>2. PICK top : top = Top(c)
  OBVIOUS
<1>3. /\ top \in DOMAIN c /\ top # SmallBase /\ After(c, top) = PoolSize /\ top > 0
      /\ top \in Nat
  BY <1>0, <1>1, <1>2, TopChunk, GivenBehindCorner, AfterBounds
<1>4. \A x \in GivenChunks(c) : x \in Nat /\ x > 0
  BY <1>0, <1>1, AfterBounds DEF GivenChunks
\* The chunks once the workspace in use, if there is one, is given back.
<1>5. PICK f : f = IF h THEN Coalesce(c, top) ELSE c
  OBVIOUS
<1>6. PICK tail : tail = Top(f)
  OBVIOUS
<1>7. PICK left : left = f[tail].size - n
  OBVIOUS
<1>8. CASE r = [pool |-> p, ptr |-> Null]
  BY <1>0, <1>1, <1>2, <1>4, <1>8 DEF Null
<1>9. CASE h /\ c[top].used /\ n <= c[top].size /\ r = [pool |-> p, ptr |-> top]
  <2>1. c[top].size >= n
    BY <1>0, <1>1, <1>3, <1>9, AfterBounds
  <2>2. r.pool = p /\ r.ptr = top
    BY <1>9
  <2>3. r.pool.chunks = c /\ r.pool.chunks[top].used /\ r.pool.chunks[top].size >= n
    BY <1>1, <1>9, <2>1, <2>2
  <2> QED
    BY <1>1, <1>2, <2>2, <2>3
<1>10. ASSUME h \/ ~c[top].used
       PROVE  /\ Sound(f) /\ tail \in DOMAIN f /\ ~f[tail].used /\ After(f, tail) = PoolSize
              /\ \A x \in DOMAIN f : x <= tail
              /\ \A x \in DOMAIN c \ {top} : c[x].used => x \in DOMAIN f /\ f[x] = c[x]
  <2>1. CASE h
    <3>1. f = Coalesce(c, top)
      BY <1>5, <2>1
    <3>2. /\ Sound(f)
          /\ \E x \in DOMAIN f : ~f[x].used /\ After(f, x) >= PoolSize
          /\ \A x \in DOMAIN c \ {top} : c[x].used => x \in DOMAIN f /\ f[x] = c[x]
      BY <3>1, <1>0, <1>1, <1>3, CoalesceSound
    <3>3. Tiles(f)
      BY <3>2 DEF Sound
    <3>4. tail \in DOMAIN f /\ After(f, tail) = PoolSize /\ \A x \in DOMAIN f : x <= tail
      BY <3>3, <1>6, TopChunk
    <3>5. PICK x \in DOMAIN f : ~f[x].used /\ After(f, x) >= PoolSize
      BY <3>2
    <3>6. x = tail
      BY <3>3, <3>5, <1>6, EndsPool
    <3> QED
      BY <3>2, <3>4, <3>5, <3>6
  <2>2. CASE ~h
    BY <2>2, <1>0, <1>1, <1>2, <1>5, <1>6, <1>10, TopChunk
  <2> QED
    BY <2>1, <2>2
<1>11. ASSUME h \/ ~c[top].used
       PROVE  /\ Tiles(f) /\ SmallBase \in DOMAIN f /\ f[SmallBase] = c[SmallBase]
              /\ tail # SmallBase /\ tail \in Nat /\ tail > 0
              /\ left \in Int /\ f[tail].size \in Nat /\ tail + f[tail].size = PoolSize
              /\ \A x \in GivenChunks(c) \ {top} :
                   x \in DOMAIN f /\ x # tail /\ x \in Nat /\ f[x] = c[x] /\ f[x].used
                   /\ x # SmallBase
  <2>1. Tiles(f)
    BY <1>10, <1>11 DEF Sound
  <2>2. SmallBase \in DOMAIN f /\ f[SmallBase] = c[SmallBase] /\ tail # SmallBase
    BY <1>0, <1>1, <1>3, <1>10, <1>11
  <2>3. tail \in Nat /\ tail > 0 /\ f[tail].size \in Nat
    BY <1>10, <1>11, <2>1, AfterBounds
  <2>4. tail + f[tail].size = PoolSize
    BY <1>10, <1>11 DEF After
  <2>5. \A x \in GivenChunks(c) \ {top} :
          x \in DOMAIN f /\ x # tail /\ x \in Nat /\ f[x] = c[x] /\ f[x].used /\ x # SmallBase
    BY <1>4, <1>10, <1>11 DEF GivenChunks
  <2> QED
    BY <1>7, <2>1, <2>2, <2>3, <2>4, <2>5
\* What becomes of the pool when the chunk x is allocated in the end.
<1>12. ASSUME NEW g, NEW x, NEW y, NEW hi, NEW by, h \/ ~c[top].used,
              Sound(g), x \in DOMAIN g, g[x].used, x \in Nat, x >= tail,
              After(g, x) = PoolSize, y = 0 \/ (y = x /\ g[x].size >= n),
              \A z \in DOMAIN f \ {tail} : z \in DOMAIN g /\ g[z] = f[z],
              r = [pool |-> [chunks |-> g, small |-> sm, high |-> hi, exact |-> e,
                             bytes |-> by],
                   ptr |-> y]
       PROVE  /\ IsPool(r.pool)
              /\ r.ptr # Null => /\ r.ptr = Top(r.pool.chunks) /\ r.pool.chunks[r.ptr].used
                                 /\ r.pool.chunks[r.ptr].size >= n
              /\ \A z \in GivenChunks(p.chunks) \ {Top(p.chunks)} :
                   z \in GivenChunks(r.pool.chunks) /\ r.pool.chunks[z] = p.chunks[z]
                   /\ z # r.ptr
  <2>1. x = Top(g)
    BY <1>12, EndsPool DEF Sound
  <2>2. SmallBase \in DOMAIN g /\ g[SmallBase] = c[SmallBase]
    BY <1>11, <1>12
  <2>3. IsPool(r.pool)
    BY <1>0, <1>1, <1>12, <2>2 DEF IsPool
  <2>4. ASSUME NEW z \in GivenChunks(c) \ {top}
        PROVE  z \in GivenChunks(g) /\ g[z] = c[z] /\ z # x /\ z # 0
    <3>1. z \in DOMAIN f /\ z # tail /\ f[z] = c[z] /\ f[z].used /\ z # SmallBase /\ z \in Nat
      BY <1>11, <1>12
    <3>2. z \in DOMAIN g /\ g[z] = c[z] /\ g[z].used
      BY <3>1, <1>12
    <3>3. z < tail
      BY <3>1, <1>10, <1>11, <1>12
    <3> QED
      BY <3>1, <3>2, <3>3, <1>4, <1>11, <1>12 DEF GivenChunks
  <2>5. r.pool.chunks = g /\ r.ptr = y
    BY <1>12
  <2> QED
    BY <1>1, <1>2, <1>12, <2>1, <2>3, <2>4, <2>5 DEF Null
<1>13. CASE /\ h \/ ~c[top].used
            /\ left < 0
            /\ r = [pool |-> [p EXCEPT !.chunks = Used(f, tail)], ptr |-> Null]
  <2>1. PICK g : g = Used(f, tail)
    OBVIOUS
  <2>2. Sound(g)
    BY <1>10, <1>13, <2>1, MarkUsedSound
  <2>3. /\ DOMAIN g = DOMAIN f /\ After(g, tail) = After(f, tail) /\ g[tail].used
        /\ \A z \in DOMAIN f \ {tail} : g[z] = f[z]
    BY <1>10, <1>11, <1>13, <2>1, MarkUsedTiles
  <2>4. r = [pool |-> [chunks |-> g, small |-> sm, high |-> h, exact |-> e, bytes |-> b],
             ptr |-> 0]
    BY <1>1, <1>13, <2>1 DEF Null
  <2> QED
    BY <1>10, <1>11, <1>12, <1>13, <2>2, <2>3, <2>4
<1>14. ASSUME h \/ ~c[top].used, NEW hi, NEW by, left = 0,
              r = [pool |-> [p EXCEPT !.chunks = Used(f, tail + left), !.high = hi,
                                      !.bytes = by],
                   ptr |-> tail + left]
       PROVE  /\ IsPool(r.pool)
              /\ r.ptr # Null => /\ r.ptr = Top(r.pool.chunks) /\ r.pool.chunks[r.ptr].used
                                 /\ r.pool.chunks[r.ptr].size >= n
              /\ \A z \in GivenChunks(p.chunks) \ {Top(p.chunks)} :
                   z \in GivenChunks(r.pool.chunks) /\ r.pool.chunks[z] = p.chunks[z]
                   /\ z # r.ptr
  <2>0. tail + left = tail
    BY <1>11, <1>14
  <2>1. PICK g : g = Used(f, tail)
    OBVIOUS
  <2>2. Sound(g)
    BY <1>10, <1>14, <2>1, MarkUsedSound
  <2>3. /\ DOMAIN g = DOMAIN f /\ After(g, tail) = After(f, tail) /\ g[tail].used
        /\ g[tail].size = f[tail].size
        /\ \A z \in DOMAIN f \ {tail} : g[z] = f[z]
    BY <1>10, <1>11, <1>14, <2>1, MarkUsedTiles
  <2>4. r = [pool |-> [chunks |-> g, small |-> sm, high |-> hi, exact |-> e, bytes |-> by],
             ptr |-> tail]
    <3>1. PICK w : w = [p EXCEPT !.chunks = g, !.high = hi, !.bytes = by]
      OBVIOUS
    <3>2. w = [chunks |-> g, small |-> sm, high |-> hi, exact |-> e, bytes |-> by]
      BY <1>1, <3>1
    <3>3. r = [pool |-> w, ptr |-> tail]
      BY <1>14, <2>0, <2>1, <3>1
    <3> QED
      BY <3>2, <3>3
  <2>5. g[tail].size >= n
    BY <2>3, <1>7, <1>11, <1>14
  <2> QED
    BY <1>10, <1>11, <1>12, <1>14, <2>2, <2>3, <2>4, <2>5
<1>15. ASSUME h \/ ~c[top].used, NEW hi, NEW by, left > 0,
              r = [pool |-> [p EXCEPT !.chunks = Used(Split(f, tail, left), tail + left),
                                      !.high = hi, !.bytes = by],
                   ptr |-> tail + left]
       PROVE  /\ IsPool(r.pool)
              /\ r.ptr # Null => /\ r.ptr = Top(r.pool.chunks) /\ r.pool.chunks[r.ptr].used
                                 /\ r.pool.chunks[r.ptr].size >= n
              /\ \A z \in GivenChunks(p.chunks) \ {Top(p.chunks)} :
                   z \in GivenChunks(r.pool.chunks) /\ r.pool.chunks[z] = p.chunks[z]
                   /\ z # r.ptr
  <2>0. left \in Nat \ {0} /\ left < f[tail].size
    BY <1>7, <1>11, <1>15
  <2>1. PICK s : s = Split(f, tail, left)
    OBVIOUS
  <2>2. PICK x : x = tail + left
    OBVIOUS
  <2>3. PICK g : g = Used(s, x)
    OBVIOUS
  <2>4. Sound(g)
    <3>1. x \in {tail, tail + left}
      BY <2>2
    <3> QED
      BY <1>10, <1>15, <2>0, <2>1, <2>3, <3>1, SplitSound
  <2>5. /\ Tiles(s) /\ x \notin DOMAIN f
        /\ \A z : z \in DOMAIN s <=> z \in DOMAIN f \/ z = x
        /\ After(s, x) = After(f, tail)
        /\ \A z \in DOMAIN f \ {tail} : s[z] = f[z]
    BY <1>10, <1>11, <1>15, <2>0, <2>1, <2>2, SplitTiles
  <2>6. /\ DOMAIN g = DOMAIN s /\ After(g, x) = After(s, x) /\ g[x].used
        /\ \A z \in DOMAIN s \ {x} : g[z] = s[z]
    BY <2>3, <2>5, MarkUsedTiles
  <2>7. r = [pool |-> [chunks |-> g, small |-> sm, high |-> hi, exact |-> e, bytes |-> by],
             ptr |-> x]
    <3>1. PICK w : w = [p EXCEPT !.chunks = g, !.high = hi, !.bytes = by]
      OBVIOUS
    <3>2. w = [chunks |-> g, small |-> sm, high |-> hi, exact |-> e, bytes |-> by]
      BY <1>1, <3>1
    <3>3. r = [pool |-> w, ptr |-> x]
      BY <1>15, <2>1, <2>2, <2>3, <3>1
    <3> QED
      BY <3>2, <3>3
  <2>8. g[x].size >= n /\ x \in Nat /\ x >= tail
    <3>1. After(g, x) = PoolSize
      BY <1>10, <1>15, <2>5, <2>6
    <3>2. g[x].size \in Nat
      BY <2>4, <2>5, <2>6, AfterBounds DEF Sound
    <3>3. x + g[x].size = PoolSize
      BY <3>1 DEF After
    <3> QED
      BY <3>2, <3>3, <2>0, <2>2, <1>7, <1>11, <1>15
  <2>9. \A z \in DOMAIN f \ {tail} : z \in DOMAIN g /\ g[z] = f[z]
    BY <2>5, <2>6
  <2> QED
    BY <1>10, <1>12, <1>15, <2>4, <2>5, <2>6, <2>7, <2>8, <2>9
<1>16. \/ r = [pool |-> p, ptr |-> Null]
       \/ h /\ c[top].used /\ n <= c[top].size /\ r = [pool |-> p, ptr |-> top]
       \/ /\ h \/ ~c[top].used
          /\ left < 0
          /\ r = [pool |-> [p EXCEPT !.chunks = Used(f, tail)], ptr |-> Null]
       \/ /\ h \/ ~c[top].used
          /\ ~(left < 0)
          /\ \E hi, by :
               r = [pool |-> [p EXCEPT
                       !.chunks = Used(IF left > 0 THEN Split(f, tail, left) ELSE f, tail + left),
                       !.high = hi, !.bytes = by],
                    ptr |-> tail + left]
  <2>1. p.chunks = c /\ (p.high <=> h) /\ p.bytes = b
    BY <1>1
  <2> QED
    BY <1>2, <1>5, <1>6, <1>7, <2>1, ZenonT(60) DEF ExtendHighMemory, Used
<1>17. CASE /\ h \/ ~c[top].used
            /\ ~(left < 0)
            /\ \E hi, by :
                 r = [pool |-> [p EXCEPT
                         !.chunks = Used(IF left > 0 THEN Split(f, tail, left) ELSE f, tail + left),
                         !.high = hi, !.bytes = by],
                      ptr |-> tail + left]
  <2>1. PICK hi, by :
          r = [pool |-> [p EXCEPT
                  !.chunks = Used(IF left > 0 THEN Split(f, tail, left) ELSE f, tail + left),
                  !.high = hi, !.bytes = by],
               ptr |-> tail + left]
    BY <1>17
  <2>2. CASE left > 0
    <3>1. r = [pool |-> [p EXCEPT !.chunks = Used(Split(f, tail, left), tail + left),
                                  !.high = hi, !.bytes = by],
               ptr |-> tail + left]
      BY <2>1, <2>2, Zenon
    <3> QED
      BY <3>1, <2>2, <1>15, <1>17
  <2>3. CASE ~(left > 0)
    <3>1. r = [pool |-> [p EXCEPT !.chunks = Used(f, tail + left),
                                  !.high = hi, !.bytes = by],
               ptr |-> tail + left]
      BY <2>1, <2>3, Zenon
    <3>2. left = 0
      BY <2>3, <1>11, <1>17
    <3> QED
      BY <3>1, <3>2, <1>14, <1>17
  <2> QED
    BY <2>2, <2>3
<1> QED
  BY <1>8, <1>9, <1>13, <1>16, <1>17, Zenon
=============================================================================
