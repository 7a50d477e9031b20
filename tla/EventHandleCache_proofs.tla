------------------------ MODULE EventHandleCache_proofs ------------------------
(***************************************************************************)
(* Proofs about EventHandleCache, for any threads, handles and limit:      *)
(* every variable keeps its type, the recipe counter among them never      *)
(* falls below zero, and no handle is ever in two hands.                   *)
(***************************************************************************)
EXTENDS EventHandleCache, FiniteSetTheorems, TLAPS

\* The control points of a launch.
Labels == {"idle", "map", "launch", "push", "get", "wait", "have"}

\* TypeOK, but for the lower bound of the recipe counter.
Types ==
  /\ freeHandles \subseteq Handles
  /\ eventsCount \in Nat
  /\ sleeping \subseteq {t \in Threads : pc[t] = "wait"}
  /\ mut \in Threads \cup {Null}
  /\ recipes \in Int
  /\ pc \in [Threads -> Labels]
  /\ handle \in [Threads -> Handles \cup {Null}]
  /\ part \in [Threads -> Handles \cup {Null}]
  /\ pending \in Seq(Event) /\ aside \in Seq(Event)
  /\ gcEv \in Event \cup {Null}
  /\ unmapped \in BOOLEAN
  /\ launches \in 0 .. MaxLaunches

\* What a launch and the GC thread hold at each control point.
ControlOK ==
  /\ unmapped => gcEv # Null
  /\ \A t \in Threads :
       /\ handle[t] # Null <=> pc[t] = "have"
       /\ part[t] # Null => pc[t] \in {"launch", "push"}
       /\ pc[t] = "push" => part[t] # Null
       /\ mut = t => pc[t] \in {"get", "wait", "have"}
  /\ \A i \in 1 .. Len(aside) : aside[i].partial

\* Handles in the hands of launches are different.
LaunchesDistinct ==
  \A t, u \in Threads :
    /\ handle[t] # Null => (t # u => handle[t] # handle[u]) /\ handle[t] # part[u]
    /\ part[t] # Null /\ t # u => part[t] # part[u]

\* The handles of queued events are different.
QueuesDistinct ==
  /\ \A i, j \in 1 .. Len(pending) : i # j => pending[i].h # pending[j].h
  /\ \A i, j \in 1 .. Len(aside) : i # j => aside[i].h # aside[j].h
  /\ \A i \in 1 .. Len(pending), j \in 1 .. Len(aside) : pending[i].h # aside[j].h
  /\ gcEv # Null =>
       /\ \A i \in 1 .. Len(pending) : pending[i].h # gcEv.h
       /\ \A i \in 1 .. Len(aside) : aside[i].h # gcEv.h

\* h is the handle of an event that was queued and is not complete yet.
Queued(h) ==
  \/ \E i \in 1 .. Len(pending) : pending[i].h = h
  \/ \E i \in 1 .. Len(aside) : aside[i].h = h
  \/ gcEv # Null /\ gcEv.h = h

\* h is in the hands of a launch.
Taken(h) == \E t \in Threads : handle[t] = h \/ part[t] = h

HandsDistinct ==
  /\ LaunchesDistinct
  /\ QueuesDistinct
  /\ \A h \in Handles : Taken(h) => ~Queued(h)
  /\ \A h \in freeHandles : ~Taken(h) /\ ~Queued(h)

\* Threads with a handle of either kind.
WithHandle == {t \in Threads : handle[t] # Null}
WithPart   == {t \in Threads : part[t] # Null}

\* 1 while the GC thread has an event in its hands.
InGc == IF gcEv = Null THEN 0 ELSE 1

\* The slots that hold a handle.
Holders == Cardinality(WithHandle) + Cardinality(WithPart)
             + Len(pending) + Len(aside) + InGc

\* The handles created are those in some hand and the free ones.
HandlesCounted ==
  /\ IsFiniteSet(InUse) /\ Cardinality(InUse) = Holders
  /\ eventsCount = Holders + Cardinality(freeHandles)
  /\ eventsCount <= NumEventsMax

\* Threads that have launched their recipe and not registered its producer.
Launched ==
  {t \in Threads : \/ pc[t] = "push"
                   \/ pc[t] \in {"get", "wait", "have"} /\ mut # t}

\* The handles of the producer events that are not complete.
Producers ==
  {h \in Handles : \/ \E i \in 1 .. Len(pending) : pending[i].h = h /\ ~pending[i].partial
                   \/ gcEv # Null /\ gcEv.h = h /\ ~gcEv.partial}

\* The recipes active are those launched whose producer event is not complete.
RecipesCounted == recipes = Cardinality(Launched) + Cardinality(Producers)

Inv == Types /\ ControlOK /\ HandsDistinct /\ HandlesCounted /\ RecipesCounted

-----------------------------------------------------------------------------
(* Finite sets, described by their members. *)

\* A set with one element more.
LEMMA AddOne ==
  ASSUME NEW S, IsFiniteSet(S), NEW T, NEW x, x \notin S,
         \A z : z \in T <=> z \in S \/ z = x
  PROVE  IsFiniteSet(T) /\ Cardinality(T) = Cardinality(S) + 1 /\ Cardinality(S) \in Nat
<1>1. T = S \cup {x}
  OBVIOUS
<1> QED
  BY <1>1, FS_AddElement, FS_CardinalityType

\* A set with one element less.
LEMMA RemoveOne ==
  ASSUME NEW S, IsFiniteSet(S), NEW T, NEW x \in S,
         \A z : z \in T <=> z \in S /\ z # x
  PROVE  IsFiniteSet(T) /\ Cardinality(T) = Cardinality(S) - 1 /\ Cardinality(S) \in Nat
<1>1. T = S \ {x}
  OBVIOUS
<1> QED
  BY <1>1, FS_RemoveElement, FS_CardinalityType

\* The same set.
LEMMA SameSet ==
  ASSUME NEW S, IsFiniteSet(S), NEW T, \A z : z \in T <=> z \in S
  PROVE  T = S /\ IsFiniteSet(T) /\ Cardinality(T) = Cardinality(S) /\ Cardinality(S) \in Nat
<1>1. T = S
  OBVIOUS
<1> QED
  BY <1>1, FS_CardinalityType

\* Null is none of the values a slot may hold.
LEMMA NullFresh ==
  /\ Null \notin Threads /\ Null \notin Handles /\ Null \notin Event
  /\ IsFiniteSet(Threads) /\ IsFiniteSet(Handles)
  /\ NumEventsMax \in Nat /\ Cardinality(Handles) >= NumEventsMax /\ MaxLaunches \in Nat
BY HandleAssumption

-----------------------------------------------------------------------------
(* Where handles are. *)

\* A handle in use is in the hands of a launch or queued.
LEMMA InUseMembers == Types => \A h : h \in InUse <=> h \in Handles /\ (Taken(h) \/ Queued(h))
<1> SUFFICES ASSUME Types, NEW h
             PROVE  h \in InUse <=> h \in Handles /\ (Taken(h) \/ Queued(h))
  OBVIOUS
<1> USE NullFresh
<1>1. h \in Held \ {Null} <=> h \in Handles /\ Taken(h)
  BY DEF Types, Held, Taken
<1>2. /\ \A i \in 1 .. Len(pending) : pending[i] \in Event /\ pending[i].h \in Handles
      /\ \A i \in 1 .. Len(aside) : aside[i] \in Event /\ aside[i].h \in Handles
      /\ gcEv # Null => gcEv \in Event /\ gcEv.h \in Handles
  <2>1. \A e \in Event : e.h \in Handles
    BY DEF Event
  <2>2. pending \in Seq(Event) /\ aside \in Seq(Event) /\ gcEv \in Event \cup {Null}
    BY DEF Types
  <2> QED
    BY <2>1, <2>2
<1>3. h \in {e.h : e \in EventsInFlight} <=> h \in Handles /\ Queued(h)
  BY <1>2 DEF EventsInFlight, Queued
<1> QED
  BY <1>1, <1>3 DEF InUse

\* The same after a step.
LEMMA InUseMembersNext ==
  ASSUME Types'
  PROVE  \A h : h \in InUse' <=> h \in Handles /\ (Taken(h)' \/ Queued(h)')
<1>1. (Types => \A h : h \in InUse <=> h \in Handles /\ (Taken(h) \/ Queued(h)))'
  BY InUseMembers, PTL
<1> QED
  BY <1>1

\* synEventCreate has a handle that does not exist yet.
LEMMA FreshHandle ==
  ASSUME HandlesCounted, freeHandles = {}, eventsCount < NumEventsMax
  PROVE  \E h \in Handles : h \notin InUse
<1> USE NullFresh
<1>1. SUFFICES ASSUME Handles \subseteq InUse PROVE FALSE
  OBVIOUS
<1>2. Cardinality(Handles) <= Cardinality(InUse)
  BY <1>1, FS_Subset DEF HandlesCounted
<1>3. Cardinality(InUse) = eventsCount
  BY FS_EmptySet, FS_CardinalityType DEF HandlesCounted
<1>4. Cardinality(Handles) \in Nat /\ eventsCount \in Nat
  BY <1>3, FS_CardinalityType DEF HandlesCounted
<1> QED
  BY <1>2, <1>3, <1>4

\* Thread t has taken handle h, a free one or a new one.
Took(t, h) ==
  /\ h \in Handles /\ ~Taken(h) /\ ~Queued(h)
  /\ pc[t] \in {"get", "wait"} /\ t \notin sleeping
  /\ handle' = [handle EXCEPT ![t] = h]
  /\ pc' = [pc EXCEPT ![t] = "have"]
  /\ \/ /\ h \in freeHandles /\ freeHandles' = freeHandles \ {h}
        /\ eventsCount' = eventsCount
     \/ /\ freeHandles = {} /\ freeHandles' = {}
        /\ eventsCount < NumEventsMax /\ eventsCount' = eventsCount + 1
  /\ UNCHANGED <<sleeping, mut, recipes, part, launches, pending, aside, gcEv, unmapped>>

\* Every way to take a handle.
LEMMA TakeStep ==
  ASSUME Inv, NEW t \in Threads,
         GetFree(t) \/ CreateHandle(t) \/ (Wake(t) /\ sleeping' = sleeping)
  PROVE  \E h : Took(t, h)
<1>1. CASE GetFree(t)
  BY <1>1 DEF Inv, Types, HandsDistinct, GetFree, TakeHandle, Goto, Took, gcVars
<1>2. CASE CreateHandle(t)
  <2>1. freeHandles = {} /\ eventsCount < NumEventsMax
    BY <1>2 DEF CreateHandle
  <2>2. \E h \in Handles : h \notin InUse
    BY <2>1, FreshHandle DEF Inv
  <2>3. PICK h : h = CHOOSE x \in Handles : x \notin InUse
    OBVIOUS
  <2>4. h \in Handles /\ h \notin InUse
    BY <2>2, <2>3
  <2>5. ~Taken(h) /\ ~Queued(h)
    BY <2>4, InUseMembers DEF Inv
  <2>6. handle' = [handle EXCEPT ![t] = h]
    BY <1>2, <2>3 DEF CreateHandle
  <2>7. t \notin sleeping
    BY <1>2 DEF CreateHandle, Inv, Types
  <2> QED
    BY <1>2, <2>1, <2>4, <2>5, <2>6, <2>7 DEF CreateHandle, Goto, Took, gcVars
<1>3. CASE Wake(t) /\ sleeping' = sleeping
  BY <1>3 DEF Inv, Types, HandsDistinct, Wake, TakeHandle, Goto, Took, gcVars
<1> QED
  BY <1>1, <1>2, <1>3

\* No event and no handle has moved.
HandsSame == UNCHANGED <<freeHandles, eventsCount, handle, part, pending, aside, gcEv>>

\* The steps that move a handle, and the others.
LEMMA StepCases ==
  ASSUME Inv, [Next]_vars
  PROVE  \/ \E t \in Threads, h \in Handles : Took(t, h)
         \/ \E t \in Threads : FinishMap(t) \/ PushPartial(t) \/ AddProducer(t)
         \/ GcTake \/ GcComplete
         \/ HandsSame
<1>1. ASSUME NEW t \in Threads, GetFree(t) \/ CreateHandle(t) \/ (Wake(t) /\ sleeping' = sleeping)
      PROVE  \E h \in Handles : Took(t, h)
  BY <1>1, TakeStep DEF Took
<1>2. ASSUME NEW t \in Threads, Wake(t), sleeping' # sleeping
      PROVE  HandsSame
  BY <1>2 DEF Wake, HandsSame, gcVars
<1>3. ASSUME NEW t \in Threads,
             \/ OutOfResources(t) \/ WaitForHandle(t) \/ SpuriousWakeup(t)
             \/ BeginLaunch(t) \/ LockForMap(t) \/ Launch(t)
      PROVE  HandsSame
  BY <1>3 DEF OutOfResources, WaitForHandle, SpuriousWakeup, BeginLaunch, LockForMap, Launch,
              HandsSame, gcVars, cacheVars, launchVars
<1>4. ASSUME GcUnmap \/ UNCHANGED vars
      PROVE  HandsSame
  BY <1>4 DEF GcUnmap, vars, HandsSame, gcVars, cacheVars, launchVars
<1>5. ASSUME NEW t \in Threads, BeginLaunch(t) \/ Continue(t) \/ SpuriousWakeup(t)
      PROVE  \/ \E h \in Handles : Took(t, h)
             \/ FinishMap(t) \/ PushPartial(t) \/ AddProducer(t)
             \/ HandsSame
  <2>1. CASE Wake(t)
    BY <2>1, <1>1, <1>2
  <2>2. CASE GetFree(t) \/ CreateHandle(t)
    BY <2>2, <1>1
  <2>3. CASE \/ OutOfResources(t) \/ WaitForHandle(t) \/ SpuriousWakeup(t)
             \/ BeginLaunch(t) \/ LockForMap(t) \/ Launch(t)
    BY <2>3, <1>3
  <2> QED
    BY <1>5, <2>1, <2>2, <2>3 DEF Continue
<1>6. CASE \E t \in Threads : BeginLaunch(t) \/ Continue(t) \/ SpuriousWakeup(t)
  BY <1>6, <1>5
<1>7. CASE GcStep \/ UNCHANGED vars
  BY <1>7, <1>4 DEF GcStep
<1> QED
  BY <1>6, <1>7 DEF Next

-----------------------------------------------------------------------------
(* Types and control points. *)

\* Every step keeps the types.
LEMMA TypesStep ==
  ASSUME Inv, [Next]_vars
  PROVE  Types'
<1> USE NullFresh DEF Labels
<1>0. Types /\ ControlOK
  BY DEF Inv
<1>1. ASSUME NEW t \in Threads, NEW h \in Handles, Took(t, h)
      PROVE  Types'
  BY <1>0, <1>1 DEF Types, Took
<1>2. ASSUME NEW t \in Threads,
             \/ GetFree(t) \/ CreateHandle(t) \/ (Wake(t) /\ sleeping' = sleeping)
      PROVE  Types'
  BY <1>1, <1>2, TakeStep DEF Took
<1>3. ASSUME NEW t \in Threads, Wake(t), sleeping' # sleeping
      PROVE  Types'
  BY <1>0, <1>3 DEF Types, Wake, gcVars
<1>4. ASSUME NEW t \in Threads, OutOfResources(t) \/ WaitForHandle(t) \/ SpuriousWakeup(t)
      PROVE  Types'
  BY <1>0, <1>4 DEF Types, OutOfResources, WaitForHandle, SpuriousWakeup, Goto,
                    gcVars, cacheVars, launchVars
<1>5. ASSUME NEW t \in Threads, BeginLaunch(t) \/ LockForMap(t) \/ Launch(t)
      PROVE  Types'
  BY <1>0, <1>5 DEF Types, BeginLaunch, LockForMap, Launch, Goto, gcVars, cacheVars
<1>6. ASSUME NEW t \in Threads, FinishMap(t)
      PROVE  Types'
  BY <1>0, <1>6 DEF Types, FinishMap, Goto, gcVars, cacheVars
<1>7. ASSUME NEW t \in Threads, PushPartial(t)
      PROVE  Types'
  <2>1. part[t] \in Handles
    BY <1>0, <1>7 DEF Types, ControlOK, PushPartial
  <2>2. [h |-> part[t], partial |-> TRUE] \in Event
    BY <2>1 DEF Event
  <2> QED
    BY <1>0, <1>7, <2>2 DEF Types, PushPartial, Goto, cacheVars
<1>8. ASSUME NEW t \in Threads, AddProducer(t)
      PROVE  Types'
  <2>1. handle[t] \in Handles
    BY <1>0, <1>8 DEF Types, ControlOK, AddProducer
  <2>2. [h |-> handle[t], partial |-> FALSE] \in Event
    BY <2>1 DEF Event
  <2> QED
    BY <1>0, <1>8, <2>2 DEF Types, AddProducer, Goto, cacheVars
<1>9. ASSUME GcTake
      PROVE  Types'
  <2>1. Head(pending) \in Event /\ Tail(pending) \in Seq(Event)
    BY <1>0, <1>9 DEF Types, GcTake
  <2>2. pending' \in Seq(Event) /\ aside' \in Seq(Event) /\ gcEv' \in Event \cup {Null}
    <3>1. /\ pending' = Tail(pending)
          /\ \/ aside' = Append(aside, Head(pending)) /\ gcEv' = gcEv
             \/ aside' = aside /\ gcEv' = Head(pending)
      BY <1>9 DEF GcTake
    <3>2. aside \in Seq(Event) /\ gcEv \in Event \cup {Null}
      BY <1>0 DEF Types
    <3>3. PICK e : e = Head(pending)
      OBVIOUS
    <3>4. Append(aside, e) \in Seq(Event) /\ e \in Event
      BY <2>1, <3>2, <3>3
    <3> QED
      BY <2>1, <3>1, <3>2, <3>3, <3>4
  <2> QED
    BY <1>0, <1>9, <2>2 DEF Types, GcTake, cacheVars, launchVars
<1>10. ASSUME GcComplete
       PROVE  Types'
  <2>1. gcEv \in Event
    BY <1>0, <1>10 DEF Types, ControlOK, GcComplete
  <2>2. gcEv.h \in Handles
    BY <2>1 DEF Event
  <2>3. gcEv' \in Event \cup {Null} /\ aside' \in Seq(Event)
    BY <1>0, <1>10 DEF Types, GcComplete, NextEvent
  <2>4. sleeping' \subseteq sleeping
    BY <1>10 DEF GcComplete
  <2>5. recipes' \in Int
    BY <1>0, <1>10 DEF Types, GcComplete
  <2> QED
    BY <1>0, <1>10, <2>2, <2>3, <2>4, <2>5 DEF Types, GcComplete, launchVars
<1>11. ASSUME GcUnmap \/ UNCHANGED vars
       PROVE  Types'
  BY <1>0, <1>11 DEF Types, GcUnmap, vars, gcVars, cacheVars, launchVars
<1>12. ASSUME NEW t \in Threads, Continue(t)
       PROVE  Types'
  <2>1. CASE Wake(t)
    BY <2>1, <1>2, <1>3
  <2> QED
    BY <1>12, <2>1, <1>2, <1>4, <1>5, <1>6, <1>7, <1>8 DEF Continue
<1> QED
  BY <1>4, <1>5, <1>9, <1>10, <1>11, <1>12 DEF Next, GcStep

\* Every step keeps what is held at each control point.
LEMMA ControlStep ==
  ASSUME Inv, [Next]_vars, Types'
  PROVE  ControlOK'
<1> USE NullFresh DEF Labels
<1>0. Types /\ ControlOK
  BY DEF Inv
<1>1. ASSUME NEW t \in Threads, NEW h \in Handles, Took(t, h)
      PROVE  ControlOK'
  BY <1>0, <1>1 DEF Types, ControlOK, Took
<1>2. ASSUME NEW t \in Threads,
             \/ GetFree(t) \/ CreateHandle(t) \/ (Wake(t) /\ sleeping' = sleeping)
      PROVE  ControlOK'
  BY <1>1, <1>2, TakeStep DEF Took
<1>3. ASSUME NEW t \in Threads, Wake(t), sleeping' # sleeping
      PROVE  ControlOK'
  BY <1>0, <1>3 DEF ControlOK, Wake, gcVars
<1>4. ASSUME NEW t \in Threads, OutOfResources(t) \/ WaitForHandle(t) \/ SpuriousWakeup(t)
      PROVE  ControlOK'
  BY <1>0, <1>4 DEF Types, ControlOK, OutOfResources, WaitForHandle, SpuriousWakeup, Goto,
                    gcVars, cacheVars, launchVars
<1>5. ASSUME NEW t \in Threads, BeginLaunch(t) \/ LockForMap(t) \/ Launch(t)
      PROVE  ControlOK'
  BY <1>0, <1>5 DEF Types, ControlOK, BeginLaunch, LockForMap, Launch, Goto, gcVars
<1>6. ASSUME NEW t \in Threads, FinishMap(t)
      PROVE  ControlOK'
  BY <1>0, <1>6 DEF Types, ControlOK, FinishMap, Goto, gcVars
<1>7. ASSUME NEW t \in Threads, PushPartial(t) \/ AddProducer(t)
      PROVE  ControlOK'
  BY <1>0, <1>7 DEF Types, ControlOK, PushPartial, AddProducer, Goto
<1>8. ASSUME GcTake
      PROVE  ControlOK'
  <2>1. \A i \in 1 .. Len(aside') : aside'[i].partial
    <3>1. CASE Head(pending).partial
      <4>1. aside' = Append(aside, Head(pending)) /\ aside \in Seq(Event)
        BY <1>0, <1>8, <3>1 DEF Types, GcTake
      <4> QED
        BY <1>0, <3>1, <4>1 DEF ControlOK
    <3>2. CASE ~Head(pending).partial
      BY <1>0, <1>8, <3>2 DEF ControlOK, GcTake
    <3> QED
      BY <3>1, <3>2
  <2> QED
    BY <1>0, <1>8, <2>1 DEF ControlOK, GcTake, launchVars
<1>9. ASSUME GcComplete
      PROVE  ControlOK'
  <2>1. \A i \in 1 .. Len(aside') : aside'[i].partial
    BY <1>0, <1>9 DEF Types, ControlOK, GcComplete
  <2> QED
    BY <1>0, <1>9, <2>1 DEF ControlOK, GcComplete, launchVars
<1>10. ASSUME GcUnmap \/ UNCHANGED vars
       PROVE  ControlOK'
  BY <1>0, <1>10 DEF ControlOK, GcUnmap, vars, gcVars, launchVars
<1>11. ASSUME NEW t \in Threads, Continue(t)
       PROVE  ControlOK'
  <2>1. CASE Wake(t)
    BY <2>1, <1>2, <1>3
  <2> QED
    BY <1>11, <2>1, <1>2, <1>4, <1>5, <1>6, <1>7 DEF Continue
<1> QED
  BY <1>4, <1>5, <1>8, <1>9, <1>10, <1>11 DEF Next, GcStep

-----------------------------------------------------------------------------
(* How a step changes the handles taken and queued. *)

\* The members of a queue that has grown.
LEMMA AppendMembers ==
  ASSUME NEW q \in Seq(Event), NEW e \in Event, NEW r, r = Append(q, e)
  PROVE  /\ Len(q) \in Nat /\ Len(r) = Len(q) + 1 /\ r[Len(q) + 1] = e
         /\ \A i \in 1 .. Len(q) : r[i] = q[i]
OBVIOUS

\* The members of a queue that has lost its first.
LEMMA TailMembers ==
  ASSUME NEW q \in Seq(Event), q # <<>>, NEW r, r = Tail(q)
  PROVE  /\ Len(q) \in Nat \ {0} /\ Len(r) = Len(q) - 1 /\ Head(q) = q[1]
         /\ \A i \in 1 .. Len(r) : r[i] = q[i + 1] /\ i + 1 \in 2 .. Len(q)
         /\ \A j \in 2 .. Len(q) : j - 1 \in 1 .. Len(r) /\ r[j - 1] = q[j]
         /\ q[1] \in Event
OBVIOUS

\* A handle that was taken is in one more hand.
LEMMA TookEffect ==
  ASSUME Inv, NEW t \in Threads, NEW h \in Handles, Took(t, h)
  PROVE  \A x \in Handles : /\ Taken(x)' <=> Taken(x) \/ x = h
                            /\ Queued(x)' <=> Queued(x)
<1>1. handle[t] = Null
  BY DEF Inv, ControlOK, Took
<1>2. \A u \in Threads : handle'[u] = IF u = t THEN h ELSE handle[u]
  BY DEF Took, Inv, Types
<1> QED
  BY <1>1, <1>2, NullFresh DEF Took, Taken, Queued

\* The handle of a partial event changes hands within the launch.
LEMMA FinishMapEffect ==
  ASSUME Inv, NEW t \in Threads, FinishMap(t)
  PROVE  \A x \in Handles : /\ Taken(x)' <=> Taken(x)
                            /\ Queued(x)' <=> Queued(x)
<1>1. part[t] = Null /\ handle[t] # Null
  BY DEF Inv, ControlOK, FinishMap
<1>2. \A u \in Threads : /\ handle'[u] = IF u = t THEN Null ELSE handle[u]
                         /\ part'[u] = IF u = t THEN handle[t] ELSE part[u]
  BY DEF FinishMap, Inv, Types
<1> QED
  BY <1>1, <1>2, NullFresh DEF FinishMap, Taken, Queued, gcVars

\* Thread t has queued its event e: the partial one or the producer.
QueuedBy(t, e) ==
  /\ e \in Event
  /\ pending' = Append(pending, e)
  /\ UNCHANGED <<freeHandles, eventsCount, aside, gcEv, mut, recipes>>
  /\ \/ /\ pc[t] = "push" /\ pc' = [pc EXCEPT ![t] = "get"]
        /\ e.h = part[t] /\ e.partial /\ part[t] # Null
        /\ part' = [part EXCEPT ![t] = Null] /\ handle' = handle
     \/ /\ pc[t] = "have" /\ mut = Null /\ pc' = [pc EXCEPT ![t] = "idle"]
        /\ e.h = handle[t] /\ ~e.partial /\ handle[t] # Null
        /\ handle' = [handle EXCEPT ![t] = Null] /\ part' = part

\* Both ways to queue an event.
LEMMA QueueStep ==
  ASSUME Inv, NEW t \in Threads, PushPartial(t) \/ AddProducer(t)
  PROVE  \E e : QueuedBy(t, e)
<1>1. CASE PushPartial(t)
  <2>1. PICK e : e = [h |-> part[t], partial |-> TRUE]
    OBVIOUS
  <2>2. part[t] # Null /\ part[t] \in Handles
    BY <1>1 DEF Inv, Types, ControlOK, PushPartial
  <2>3. e \in Event /\ e.h = part[t] /\ e.partial
    BY <2>1, <2>2 DEF Event
  <2>4. pending' = Append(pending, e)
    BY <1>1, <2>1, Zenon DEF PushPartial
  <2> QED
    BY <1>1, <2>2, <2>3, <2>4 DEF PushPartial, QueuedBy, Goto, cacheVars
<1>2. CASE AddProducer(t)
  <2>1. PICK e : e = [h |-> handle[t], partial |-> FALSE]
    OBVIOUS
  <2>2. handle[t] # Null /\ handle[t] \in Handles
    BY <1>2 DEF Inv, Types, ControlOK, AddProducer
  <2>3. e \in Event /\ e.h = handle[t] /\ ~e.partial
    BY <2>1, <2>2 DEF Event
  <2>4. pending' = Append(pending, e)
    BY <1>2, <2>1, Zenon DEF AddProducer
  <2> QED
    BY <1>2, <2>2, <2>3, <2>4 DEF AddProducer, QueuedBy, Goto, cacheVars
<1> QED
  BY <1>1, <1>2

\* The handle of a queued event leaves the hands of the launch.
LEMMA QueueEffect ==
  ASSUME Inv, NEW t \in Threads, NEW e, QueuedBy(t, e)
  PROVE  /\ e.h \in Handles /\ Taken(e.h) /\ ~Queued(e.h)
         /\ \A x \in Handles : /\ Taken(x)' <=> Taken(x) /\ x # e.h
                               /\ Queued(x)' <=> Queued(x) \/ x = e.h
<1>1. e \in Event /\ pending \in Seq(Event) /\ pending' = Append(pending, e)
  BY DEF QueuedBy, Inv, Types
<1>2. PICK h : h = e.h
  OBVIOUS
<1>3. h \in Handles /\ Taken(h) /\ ~Queued(h)
  <2>1. h \in Handles /\ Taken(h)
    BY <1>1, <1>2 DEF QueuedBy, Taken, Event
  <2> QED
    BY <2>1 DEF Inv, HandsDistinct
<1>4. ASSUME NEW x \in Handles
      PROVE  Taken(x)' <=> Taken(x) /\ x # h
  <2>1. LaunchesDistinct /\ Types
    BY DEF Inv, HandsDistinct
  <2>2. CASE pc[t] = "push"
    <3>1. /\ h = part[t] /\ part[t] # Null /\ handle' = handle
          /\ \A u \in Threads : part'[u] = IF u = t THEN Null ELSE part[u]
      BY <1>2, <2>1, <2>2 DEF QueuedBy, Types
    <3> QED
      BY <2>1, <3>1, NullFresh DEF LaunchesDistinct, Taken
  <2>3. CASE pc[t] # "push"
    <3>1. /\ h = handle[t] /\ handle[t] # Null /\ part' = part
          /\ \A u \in Threads : handle'[u] = IF u = t THEN Null ELSE handle[u]
      BY <1>2, <2>1, <2>3 DEF QueuedBy, Types
    <3> QED
      BY <2>1, <3>1, NullFresh DEF LaunchesDistinct, Taken
  <2> QED
    BY <2>2, <2>3
<1>5. ASSUME NEW x \in Handles
      PROVE  Queued(x)' <=> Queued(x) \/ x = h
  <2>1. /\ Len(pending) \in Nat /\ Len(pending') = Len(pending) + 1
        /\ pending'[Len(pending) + 1] = e
        /\ \A i \in 1 .. Len(pending) : pending'[i] = pending[i]
    BY <1>1, AppendMembers
  <2>2. aside' = aside /\ gcEv' = gcEv
    BY DEF QueuedBy
  <2>3. (\E i \in 1 .. Len(pending') : pending'[i].h = x)
          <=> (\E i \in 1 .. Len(pending) : pending[i].h = x) \/ x = h
    BY <1>2, <2>1
  <2> QED
    BY <2>2, <2>3 DEF Queued
<1> QED
  BY <1>2, <1>3, <1>4, <1>5

\* The GC thread takes an event: its handle stays queued.
LEMMA GcTakeEffect ==
  ASSUME Inv, GcTake
  PROVE  /\ \A x \in Handles : (Taken(x)' <=> Taken(x)) /\ (Queued(x)' <=> Queued(x))
         /\ QueuesDistinct'
<1>1. /\ pending \in Seq(Event) /\ aside \in Seq(Event) /\ QueuesDistinct /\ gcEv = Null
      /\ pending # <<>> /\ pending' = Tail(pending)
  BY DEF Inv, Types, HandsDistinct, GcTake
<1>2. PICK e : e = Head(pending)
  OBVIOUS
<1>3. /\ Len(pending) \in Nat \ {0} /\ Len(pending') = Len(pending) - 1 /\ e = pending[1]
      /\ \A i \in 1 .. Len(pending') : /\ pending'[i] = pending[i + 1]
                                       /\ i + 1 \in 2 .. Len(pending)
      /\ \A j \in 2 .. Len(pending) : j - 1 \in 1 .. Len(pending') /\ pending'[j - 1] = pending[j]
      /\ e \in Event
  BY <1>1, <1>2, TailMembers
<1>4. handle' = handle /\ part' = part
  BY DEF GcTake, launchVars
<1>5. /\ \A i \in 1 .. Len(pending') : pending'[i].h # e.h
      /\ \A i, j \in 1 .. Len(pending') : i # j => pending'[i].h # pending'[j].h
      /\ \A i \in 1 .. Len(aside) : aside[i].h # e.h
      /\ \A i \in 1 .. Len(pending'), j \in 1 .. Len(aside) : pending'[i].h # aside[j].h
  <2>1. 1 \in 1 .. Len(pending) /\ \A i \in 2 .. Len(pending) : i \in 1 .. Len(pending) /\ i # 1
    BY <1>3
  <2>2. \A i, j \in 1 .. Len(pending') : i # j => i + 1 # j + 1
    BY <1>3
  <2> QED
    BY <1>1, <1>3, <2>1, <2>2 DEF QueuesDistinct
<1>6. ASSUME NEW x
      PROVE  (\E i \in 1 .. Len(pending) : pending[i].h = x)
               <=> (\E i \in 1 .. Len(pending') : pending'[i].h = x) \/ e.h = x
  <2>1. \A i \in 1 .. Len(pending) : i = 1 \/ i \in 2 .. Len(pending)
    BY <1>3
  <2>2. 1 \in 1 .. Len(pending) /\ \A i \in 2 .. Len(pending) : i \in 1 .. Len(pending)
    BY <1>3
  <2> QED
    BY <1>3, <2>1, <2>2
<1>7. CASE e.partial
  <2>1. aside' = Append(aside, e) /\ gcEv' = Null
    BY <1>1, <1>2, <1>7 DEF GcTake
  <2>2. /\ Len(aside) \in Nat /\ Len(aside') = Len(aside) + 1 /\ aside'[Len(aside) + 1] = e
        /\ \A i \in 1 .. Len(aside) : aside'[i] = aside[i]
    BY <1>1, <1>3, <2>1, AppendMembers
  <2>3. ASSUME NEW x
        PROVE  (\E i \in 1 .. Len(aside') : aside'[i].h = x)
                 <=> (\E i \in 1 .. Len(aside) : aside[i].h = x) \/ e.h = x
    BY <2>2
  <2>4. \A i \in 1 .. Len(aside') : i \in 1 .. Len(aside) \/ i = Len(aside) + 1
    BY <2>2
  <2>5. QueuesDistinct'
    BY <1>1, <1>5, <2>1, <2>2, <2>4 DEF QueuesDistinct
  <2> QED
    BY <1>1, <1>4, <1>6, <2>1, <2>3, <2>5 DEF Queued, Taken
<1>8. CASE ~e.partial
  <2>1. aside' = aside /\ gcEv' = e /\ e # Null
    BY <1>2, <1>3, <1>8, NullFresh DEF GcTake
  <2>2. QueuesDistinct'
    BY <1>1, <1>5, <2>1 DEF QueuesDistinct
  <2> QED
    BY <1>1, <1>4, <1>6, <2>1, <2>2 DEF Queued, Taken
<1> QED
  BY <1>7, <1>8

\* An event is complete: its handle is not queued any more.
LEMMA GcCompleteEffect ==
  ASSUME Inv, GcComplete
  PROVE  /\ gcEv # Null /\ gcEv.h \in Handles /\ Queued(gcEv.h)
         /\ \A x \in Handles : /\ Taken(x)' <=> Taken(x)
                               /\ Queued(x)' <=> Queued(x) /\ x # gcEv.h
         /\ QueuesDistinct'
<1>1. /\ pending \in Seq(Event) /\ aside \in Seq(Event) /\ QueuesDistinct
      /\ gcEv # Null /\ gcEv \in Event /\ pending' = pending
  BY DEF Inv, Types, ControlOK, HandsDistinct, GcComplete
<1>2. handle' = handle /\ part' = part
  BY DEF GcComplete, launchVars
<1>3. gcEv.h \in Handles /\ Queued(gcEv.h)
  BY <1>1 DEF Queued, Event
<1>4. CASE aside = <<>>
  <2>1. aside' = aside /\ gcEv' = Null
    BY <1>4 DEF GcComplete, NextEvent
  <2>2. QueuesDistinct'
    BY <1>1, <2>1 DEF QueuesDistinct
  <2>3. Len(aside) = 0
    BY <1>4
  <2> QED
    BY <1>1, <1>2, <1>3, <2>1, <2>2, <2>3 DEF Queued, Taken, QueuesDistinct
<1>5. CASE aside # <<>>
  <2>1. PICK e : e = Head(aside)
    OBVIOUS
  <2>2. aside' = Tail(aside) /\ gcEv' = e
    BY <1>5, <2>1 DEF GcComplete, NextEvent
  <2>3. /\ Len(aside) \in Nat \ {0} /\ Len(aside') = Len(aside) - 1 /\ e = aside[1]
        /\ \A i \in 1 .. Len(aside') : aside'[i] = aside[i + 1] /\ i + 1 \in 2 .. Len(aside)
        /\ \A j \in 2 .. Len(aside) : j - 1 \in 1 .. Len(aside') /\ aside'[j - 1] = aside[j]
        /\ e \in Event /\ e # Null
    BY <1>1, <1>5, <2>1, <2>2, TailMembers, NullFresh
  <2>4. 1 \in 1 .. Len(aside) /\ \A i \in 2 .. Len(aside) : i \in 1 .. Len(aside) /\ i # 1
    BY <2>3
  <2>5. \A i, j \in 1 .. Len(aside') : i # j => i + 1 # j + 1
    BY <2>3
  <2>6. QueuesDistinct'
    BY <1>1, <2>2, <2>3, <2>4, <2>5 DEF QueuesDistinct
  <2>7. ASSUME NEW x
        PROVE  (\E i \in 1 .. Len(aside) : aside[i].h = x)
                 <=> (\E i \in 1 .. Len(aside') : aside'[i].h = x) \/ e.h = x
    <3>1. \A i \in 1 .. Len(aside) : i = 1 \/ i \in 2 .. Len(aside)
      BY <2>3
    <3>2. ASSUME NEW i \in 1 .. Len(aside), aside[i].h = x
          PROVE  (\E j \in 1 .. Len(aside') : aside'[j].h = x) \/ e.h = x
      <4>1. CASE i = 1
        BY <2>3, <3>2, <4>1
      <4>2. CASE i \in 2 .. Len(aside)
        BY <2>3, <3>2, <4>2
      <4> QED
        BY <3>1, <4>1, <4>2
    <3>3. ASSUME NEW j \in 1 .. Len(aside'), aside'[j].h = x
          PROVE  \E i \in 1 .. Len(aside) : aside[i].h = x
      <4>1. j + 1 \in 1 .. Len(aside) /\ aside[j + 1].h = x
        BY <2>3, <2>4, <3>3
      <4> QED
        BY <4>1
    <3>4. e.h = x => \E i \in 1 .. Len(aside) : aside[i].h = x
      BY <2>3, <2>4
    <3> QED
      BY <3>2, <3>3, <3>4
  <2>8. /\ \A i \in 1 .. Len(pending) : pending[i].h # gcEv.h
        /\ \A i \in 1 .. Len(aside) : aside[i].h # gcEv.h
    BY <1>1 DEF QueuesDistinct
  <2>9. ASSUME NEW x \in Handles
        PROVE  Queued(x)' <=> Queued(x) /\ x # gcEv.h
    <3>1. Queued(x)' <=> \/ \E i \in 1 .. Len(pending) : pending[i].h = x
                         \/ \E i \in 1 .. Len(aside) : aside[i].h = x
      BY <1>1, <2>2, <2>3, <2>7 DEF Queued
    <3> QED
      BY <1>1, <2>8, <3>1 DEF Queued
  <2> QED
    BY <1>1, <1>2, <1>3, <2>6, <2>9 DEF Taken
<1> QED
  BY <1>4, <1>5

-----------------------------------------------------------------------------
(* No handle is in two hands. *)

\* Every step keeps the handles of launches, queues and cache apart.
LEMMA DistinctStep ==
  ASSUME Inv, [Next]_vars, Types'
  PROVE  HandsDistinct'
<1> USE NullFresh
<1>0. /\ Types /\ ControlOK /\ LaunchesDistinct /\ QueuesDistinct
      /\ \A x \in Handles : Taken(x) => ~Queued(x)
      /\ \A x \in freeHandles : x \in Handles /\ ~Taken(x) /\ ~Queued(x)
  BY DEF Inv, HandsDistinct, Types
<1>1. ASSUME NEW t \in Threads, NEW h \in Handles, Took(t, h)
      PROVE  HandsDistinct'
  <2>1. \A x \in Handles : (Taken(x)' <=> Taken(x) \/ x = h) /\ (Queued(x)' <=> Queued(x))
    BY <1>1, TookEffect
  <2>2. \A u \in Threads : handle'[u] = IF u = t THEN h ELSE handle[u]
    BY <1>0, <1>1 DEF Took, Types
  <2>3. LaunchesDistinct'
    BY <1>0, <1>1, <2>2 DEF LaunchesDistinct, Took, Taken
  <2>4. QueuesDistinct'
    BY <1>0, <1>1 DEF QueuesDistinct, Took
  <2>5. \A x \in freeHandles' : x \in freeHandles /\ x # h
    BY <1>1 DEF Took
  <2>6. ~Queued(h)
    BY <1>1 DEF Took
  <2> QED
    BY <1>0, <2>1, <2>3, <2>4, <2>5, <2>6 DEF HandsDistinct
<1>2. ASSUME NEW t \in Threads, FinishMap(t)
      PROVE  HandsDistinct'
  <2>1. \A x \in Handles : (Taken(x)' <=> Taken(x)) /\ (Queued(x)' <=> Queued(x))
    BY <1>2, FinishMapEffect
  <2>2. /\ \A u \in Threads : /\ handle'[u] = IF u = t THEN Null ELSE handle[u]
                              /\ part'[u] = IF u = t THEN handle[t] ELSE part[u]
        /\ handle[t] # Null /\ freeHandles' = freeHandles
    BY <1>0, <1>2 DEF FinishMap, Types, ControlOK, cacheVars
  <2>3. LaunchesDistinct'
    BY <1>0, <2>2 DEF LaunchesDistinct
  <2>4. QueuesDistinct'
    BY <1>0, <1>2 DEF QueuesDistinct, FinishMap, gcVars
  <2> QED
    BY <1>0, <2>1, <2>2, <2>3, <2>4 DEF HandsDistinct
<1>3. ASSUME NEW t \in Threads, NEW e, QueuedBy(t, e)
      PROVE  HandsDistinct'
  <2>1. /\ e.h \in Handles /\ Taken(e.h) /\ ~Queued(e.h)
        /\ \A x \in Handles : /\ Taken(x)' <=> Taken(x) /\ x # e.h
                              /\ Queued(x)' <=> Queued(x) \/ x = e.h
    BY <1>3, QueueEffect
  <2>2. /\ freeHandles' = freeHandles /\ aside' = aside /\ gcEv' = gcEv
        /\ \A u \in Threads : /\ handle'[u] \in {Null, handle[u]}
                              /\ part'[u] \in {Null, part[u]}
    BY <1>0, <1>3 DEF QueuedBy, Types
  <2>3. LaunchesDistinct'
    BY <1>0, <2>2 DEF LaunchesDistinct
  <2>4. QueuesDistinct'
    <3>1. e \in Event /\ pending \in Seq(Event) /\ pending' = Append(pending, e)
      BY <1>0, <1>3 DEF QueuedBy, Types
    <3>2. /\ Len(pending) \in Nat /\ Len(pending') = Len(pending) + 1
          /\ pending'[Len(pending) + 1] = e
          /\ \A i \in 1 .. Len(pending) : pending'[i] = pending[i]
      BY <3>1, AppendMembers
    <3>3. \A i \in 1 .. Len(pending') : i \in 1 .. Len(pending) \/ i = Len(pending) + 1
      BY <3>2
    <3>4. /\ \A i \in 1 .. Len(pending) : pending[i].h # e.h
          /\ \A i \in 1 .. Len(aside) : aside[i].h # e.h
          /\ gcEv # Null => gcEv.h # e.h
      BY <2>1 DEF Queued
    <3>5. \A i, j \in 1 .. Len(pending') : i # j => pending'[i].h # pending'[j].h
      BY <1>0, <3>2, <3>3, <3>4 DEF QueuesDistinct
    <3>6. \A i \in 1 .. Len(pending'), j \in 1 .. Len(aside') : pending'[i].h # aside'[j].h
      BY <1>0, <2>2, <3>2, <3>3, <3>4 DEF QueuesDistinct
    <3>7. gcEv # Null => \A i \in 1 .. Len(pending') : pending'[i].h # gcEv.h
      BY <1>0, <3>2, <3>3, <3>4 DEF QueuesDistinct
    <3> QED
      BY <1>0, <2>2, <3>5, <3>6, <3>7 DEF QueuesDistinct
  <2> QED
    BY <1>0, <2>1, <2>2, <2>3, <2>4 DEF HandsDistinct
<1>4. ASSUME GcTake
      PROVE  HandsDistinct'
  <2>1. /\ \A x \in Handles : (Taken(x)' <=> Taken(x)) /\ (Queued(x)' <=> Queued(x))
        /\ QueuesDistinct'
    BY <1>4, GcTakeEffect
  <2>2. freeHandles' = freeHandles /\ handle' = handle /\ part' = part
    BY <1>4 DEF GcTake, cacheVars, launchVars
  <2> QED
    BY <1>0, <2>1, <2>2 DEF HandsDistinct, LaunchesDistinct
<1>5. ASSUME GcComplete
      PROVE  HandsDistinct'
  <2>1. /\ gcEv.h \in Handles /\ Queued(gcEv.h)
        /\ \A x \in Handles : /\ Taken(x)' <=> Taken(x)
                              /\ Queued(x)' <=> Queued(x) /\ x # gcEv.h
        /\ QueuesDistinct'
    BY <1>5, GcCompleteEffect
  <2>2. /\ handle' = handle /\ part' = part
        /\ \A x \in freeHandles' : x \in freeHandles \/ x = gcEv.h
    BY <1>5 DEF GcComplete, launchVars
  <2> QED
    BY <1>0, <2>1, <2>2 DEF HandsDistinct, LaunchesDistinct
<1>6. ASSUME HandsSame
      PROVE  HandsDistinct'
  BY <1>0, <1>6 DEF HandsSame, HandsDistinct, LaunchesDistinct, QueuesDistinct, Taken, Queued
<1> QED
  BY <1>1, <1>2, <1>3, <1>4, <1>5, <1>6, StepCases, QueueStep

-----------------------------------------------------------------------------
(* The handles created are counted. *)

\* Threads with handles are finitely many.
LEMMA WithFinite ==
  /\ IsFiniteSet(WithHandle) /\ IsFiniteSet(WithPart)
  /\ Cardinality(WithHandle) \in Nat /\ Cardinality(WithPart) \in Nat
<1>1. WithHandle \in SUBSET Threads /\ WithPart \in SUBSET Threads
  BY DEF WithHandle, WithPart
<1> QED
  BY <1>1, NullFresh, FS_Subset, FS_CardinalityType

\* Every step counts the handles in use and the free ones.
LEMMA HandlesStep ==
  ASSUME Inv, [Next]_vars, Types', HandsDistinct'
  PROVE  HandlesCounted'
<1> USE NullFresh
<1>0. /\ Types /\ ControlOK /\ HandlesCounted
      /\ \A h : h \in InUse <=> h \in Handles /\ (Taken(h) \/ Queued(h))
      /\ \A h : h \in InUse' <=> h \in Handles /\ (Taken(h)' \/ Queued(h)')
      /\ IsFiniteSet(InUse) /\ IsFiniteSet(freeHandles) /\ IsFiniteSet(freeHandles')
      /\ Len(pending) \in Nat /\ Len(aside) \in Nat
      /\ Cardinality(InUse) \in Nat /\ Cardinality(freeHandles) \in Nat
  <2>1. freeHandles \in SUBSET Handles /\ freeHandles' \in SUBSET Handles
    BY DEF Inv, Types
  <2>2. IsFiniteSet(freeHandles) /\ IsFiniteSet(freeHandles')
    BY <2>1, FS_Subset
  <2>3. Len(pending) \in Nat /\ Len(aside) \in Nat
    BY DEF Inv, Types
  <2>4. IsFiniteSet(InUse) /\ Cardinality(InUse) \in Nat /\ Cardinality(freeHandles) \in Nat
    BY <2>2, FS_CardinalityType DEF Inv, HandlesCounted
  <2> QED
    BY <2>2, <2>3, <2>4, InUseMembers, InUseMembersNext DEF Inv
<1>1. /\ IsFiniteSet(WithHandle) /\ IsFiniteSet(WithPart)
      /\ Cardinality(WithHandle) \in Nat /\ Cardinality(WithPart) \in Nat
  BY WithFinite
<1>8. /\ Holders = Cardinality(WithHandle) + Cardinality(WithPart)
                     + Len(pending) + Len(aside) + InGc
      /\ Holders' = Cardinality(WithHandle') + Cardinality(WithPart')
                      + Len(pending') + Len(aside') + InGc'
      /\ InGc = (IF gcEv = Null THEN 0 ELSE 1) /\ InGc' = (IF gcEv' = Null THEN 0 ELSE 1)
  BY DEF Holders, InGc
<1>10. PICK wh \in Nat, wp \in Nat, np \in Nat, na \in Nat, ng \in Nat :
         /\ wh = Cardinality(WithHandle) /\ wp = Cardinality(WithPart)
         /\ np = Len(pending) /\ na = Len(aside) /\ ng = InGc
  <2>1. InGc \in Nat
    BY <1>8
  <2> QED
    BY <1>0, <1>1, <2>1
<1>11. Holders = wh + wp + np + na + ng
  BY <1>8, <1>10
<1>9. Holders \in Nat /\ Cardinality(InUse) = Holders /\ eventsCount \in Nat
      /\ eventsCount = Holders + Cardinality(freeHandles) /\ eventsCount <= NumEventsMax
  <2>1. Holders \in Nat
    BY <1>11
  <2>2. /\ Cardinality(InUse) = Holders /\ eventsCount <= NumEventsMax
        /\ eventsCount = Holders + Cardinality(freeHandles) /\ Cardinality(freeHandles) \in Nat
    BY <1>0 DEF HandlesCounted
  <2> QED
    BY <2>1, <2>2
<1>2. ASSUME NEW t \in Threads, NEW h \in Handles, Took(t, h)
      PROVE  HandlesCounted'
  <2>1. \A x \in Handles : (Taken(x)' <=> Taken(x) \/ x = h) /\ (Queued(x)' <=> Queued(x))
    BY <1>2, TookEffect
  <2>2. h \notin InUse /\ \A x : x \in InUse' <=> x \in InUse \/ x = h
    BY <1>0, <1>2, <2>1 DEF Took
  <2>3. IsFiniteSet(InUse') /\ Cardinality(InUse') = Cardinality(InUse) + 1
    BY <1>0, <2>2, AddOne
  <2>4. t \notin WithHandle /\ \A x : x \in WithHandle' <=> x \in WithHandle \/ x = t
    BY <1>0, <1>2 DEF Took, Types, ControlOK, WithHandle
  <2>5. Cardinality(WithHandle') = Cardinality(WithHandle) + 1
    BY <1>1, <2>4, AddOne
  <2>6. WithPart' = WithPart /\ pending' = pending /\ aside' = aside /\ gcEv' = gcEv
    BY <1>2 DEF Took, WithPart
  <2>7. Holders' = Holders + 1 /\ Holders \in Nat
    <3>1. Holders' = (wh + 1) + wp + np + na + ng
      BY <1>8, <1>10, <2>5, <2>6
    <3> QED
      BY <1>11, <3>1
  <2>8. CASE h \in freeHandles /\ freeHandles' = freeHandles \ {h} /\ eventsCount' = eventsCount
    <3>1. Cardinality(freeHandles') = Cardinality(freeHandles) - 1
      BY <1>0, <2>8, RemoveOne
    <3> QED
      BY <1>0, <2>3, <2>7, <2>8, <3>1 DEF HandlesCounted
  <2>9. CASE /\ freeHandles = {} /\ freeHandles' = {}
             /\ eventsCount < NumEventsMax /\ eventsCount' = eventsCount + 1
    <3>1. freeHandles' = freeHandles /\ Cardinality(freeHandles) \in Nat
      BY <1>0, <2>9
    <3>2. eventsCount' = Holders' + Cardinality(freeHandles')
      BY <1>9, <2>7, <2>9, <3>1
    <3>3. eventsCount' <= NumEventsMax
      BY <1>9, <2>9
    <3> QED
      BY <1>9, <2>3, <2>7, <3>2, <3>3 DEF HandlesCounted
  <2> QED
    BY <1>2, <2>8, <2>9 DEF Took
<1>3. ASSUME NEW t \in Threads, FinishMap(t)
      PROVE  HandlesCounted'
  <2>1. \A x \in Handles : (Taken(x)' <=> Taken(x)) /\ (Queued(x)' <=> Queued(x))
    BY <1>3, FinishMapEffect
  <2>2. \A x : x \in InUse' <=> x \in InUse
    BY <1>0, <2>1
  <2>3. IsFiniteSet(InUse') /\ Cardinality(InUse') = Cardinality(InUse)
    BY <1>0, <2>2, SameSet
  <2>4. /\ t \in WithHandle /\ \A x : x \in WithHandle' <=> x \in WithHandle /\ x # t
        /\ t \notin WithPart /\ \A x : x \in WithPart' <=> x \in WithPart \/ x = t
    <3>1. t \in WithHandle /\ \A x : x \in WithHandle' <=> x \in WithHandle /\ x # t
      BY <1>0, <1>3 DEF FinishMap, Types, ControlOK, WithHandle
    <3>2. t \notin WithPart /\ \A x : x \in WithPart' <=> x \in WithPart \/ x = t
      <4>1. handle[t] # Null /\ part[t] = Null
        BY <1>0, <1>3 DEF FinishMap, ControlOK
      <4>2. part' = [part EXCEPT ![t] = handle[t]] /\ part \in [Threads -> Handles \cup {Null}]
        BY <1>0, <1>3 DEF FinishMap, Types
      <4> QED
        BY <4>1, <4>2 DEF WithPart
    <3> QED
      BY <3>1, <3>2
  <2>5. /\ Cardinality(WithHandle') = Cardinality(WithHandle) - 1
        /\ Cardinality(WithPart') = Cardinality(WithPart) + 1
    BY <1>1, <2>4, AddOne, RemoveOne
  <2>6. /\ pending' = pending /\ aside' = aside /\ gcEv' = gcEv
        /\ freeHandles' = freeHandles /\ eventsCount' = eventsCount
    BY <1>3 DEF FinishMap, cacheVars, gcVars
  <2>7. Holders' = Holders
    <3>1. Holders' = (wh - 1) + (wp + 1) + np + na + ng
      BY <1>8, <1>10, <2>5, <2>6
    <3> QED
      BY <1>11, <3>1
  <2> QED
    BY <1>0, <2>3, <2>6, <2>7 DEF HandlesCounted
<1>4. ASSUME NEW t \in Threads, NEW e, QueuedBy(t, e)
      PROVE  HandlesCounted'
  <2>1. /\ e.h \in Handles /\ Taken(e.h) /\ ~Queued(e.h)
        /\ \A x \in Handles : /\ Taken(x)' <=> Taken(x) /\ x # e.h
                              /\ Queued(x)' <=> Queued(x) \/ x = e.h
    BY <1>4, QueueEffect
  <2>2. \A x : x \in InUse' <=> x \in InUse
    BY <1>0, <2>1
  <2>3. IsFiniteSet(InUse') /\ Cardinality(InUse') = Cardinality(InUse)
    BY <1>0, <2>2, SameSet
  <2>4. e \in Event /\ pending \in Seq(Event) /\ pending' = Append(pending, e)
    BY <1>0, <1>4 DEF QueuedBy, Types
  <2>5. Len(pending') = Len(pending) + 1
    BY <2>4, AppendMembers
  <2>6. /\ aside' = aside /\ gcEv' = gcEv
        /\ freeHandles' = freeHandles /\ eventsCount' = eventsCount
    BY <1>4 DEF QueuedBy
  <2>7. CASE part[t] # Null /\ part' = [part EXCEPT ![t] = Null] /\ handle' = handle
    <3>1. /\ t \in WithPart /\ \A x : x \in WithPart' <=> x \in WithPart /\ x # t
          /\ WithHandle' = WithHandle
      BY <1>0, <2>7 DEF Types, WithHandle, WithPart
    <3>2. Cardinality(WithPart') = Cardinality(WithPart) - 1
      BY <1>1, <3>1, RemoveOne
    <3>3. /\ Len(pending') = Len(pending) + 1 /\ Len(aside') = Len(aside) /\ InGc' = InGc
          /\ Len(pending) \in Nat /\ Len(aside) \in Nat /\ InGc \in Nat
      BY <1>0, <1>8, <2>5, <2>6
    <3>4. Holders' = Holders
      <4>1. Holders' = wh + (wp - 1) + (np + 1) + na + ng
        BY <1>8, <1>10, <3>1, <3>2, <3>3
      <4> QED
        BY <1>11, <4>1
    <3> QED
      BY <1>0, <2>3, <2>6, <3>4 DEF HandlesCounted
  <2>8. CASE handle[t] # Null /\ handle' = [handle EXCEPT ![t] = Null] /\ part' = part
    <3>1. /\ t \in WithHandle /\ \A x : x \in WithHandle' <=> x \in WithHandle /\ x # t
          /\ WithPart' = WithPart
      BY <1>0, <2>8 DEF Types, WithHandle, WithPart
    <3>2. Cardinality(WithHandle') = Cardinality(WithHandle) - 1
      BY <1>1, <3>1, RemoveOne
    <3>3. /\ Len(pending') = Len(pending) + 1 /\ Len(aside') = Len(aside) /\ InGc' = InGc
          /\ Len(pending) \in Nat /\ Len(aside) \in Nat /\ InGc \in Nat
      BY <1>0, <1>8, <2>5, <2>6
    <3>4. Holders' = Holders
      <4>1. Holders' = (wh - 1) + wp + (np + 1) + na + ng
        BY <1>8, <1>10, <3>1, <3>2, <3>3
      <4> QED
        BY <1>11, <4>1
    <3> QED
      BY <1>0, <2>3, <2>6, <3>4 DEF HandlesCounted
  <2> QED
    BY <1>4, <2>7, <2>8 DEF QueuedBy
<1>5. ASSUME GcTake
      PROVE  HandlesCounted'
  <2>1. \A x \in Handles : (Taken(x)' <=> Taken(x)) /\ (Queued(x)' <=> Queued(x))
    BY <1>5, GcTakeEffect
  <2>2. \A x : x \in InUse' <=> x \in InUse
    BY <1>0, <2>1
  <2>3. IsFiniteSet(InUse') /\ Cardinality(InUse') = Cardinality(InUse)
    BY <1>0, <2>2, SameSet
  <2>4. /\ pending \in Seq(Event) /\ aside \in Seq(Event) /\ pending # <<>>
        /\ pending' = Tail(pending) /\ gcEv = Null
        /\ freeHandles' = freeHandles /\ eventsCount' = eventsCount
        /\ handle' = handle /\ part' = part
    BY <1>0, <1>5 DEF GcTake, Types, cacheVars, launchVars
  <2>5. Len(pending') = Len(pending) - 1 /\ Head(pending) \in Event
    BY <2>4, TailMembers
  <2>6. \/ Len(aside') = Len(aside) + 1 /\ gcEv' = Null
        \/ aside' = aside /\ gcEv' # Null
    <3>1. CASE Head(pending).partial
      <4>1. aside' = Append(aside, Head(pending)) /\ gcEv' = Null
        BY <1>5, <2>4, <3>1 DEF GcTake
      <4> QED
        BY <2>4, <2>5, <4>1, AppendMembers
    <3>2. CASE ~Head(pending).partial
      BY <1>5, <2>5, <3>2 DEF GcTake
    <3> QED
      BY <3>1, <3>2
  <2>7. WithHandle' = WithHandle /\ WithPart' = WithPart
    BY <2>4 DEF WithHandle, WithPart
  <2>8. /\ Len(pending') = Len(pending) - 1 /\ Len(aside') + InGc' = Len(aside) + InGc + 1
        /\ Len(pending) \in Nat /\ Len(aside) \in Nat /\ Len(aside') \in Nat
        /\ InGc \in Nat /\ InGc' \in Nat
    BY <1>0, <1>8, <2>4, <2>5, <2>6
  <2>9. Holders' = Holders
    <3>1. /\ Cardinality(WithHandle') = Cardinality(WithHandle)
          /\ Cardinality(WithPart') = Cardinality(WithPart)
      BY <2>7
    <3>2. /\ Holders = Cardinality(WithHandle) + Cardinality(WithPart)
                          + Len(pending) + Len(aside) + InGc
          /\ Holders' = Cardinality(WithHandle) + Cardinality(WithPart)
                           + Len(pending') + Len(aside') + InGc'
      BY <1>8, <3>1
    <3>3. PICK h \in Nat, n \in Nat : h = Cardinality(WithHandle) /\ n = Cardinality(WithPart)
      BY <1>1
    <3>4. PICK p \in Nat, a \in Nat, g \in Nat : p = Len(pending) /\ a = Len(aside) /\ g = InGc
      BY <2>8
    <3>5. PICK b \in Nat, k \in Nat : b = Len(aside') /\ k = InGc'
      BY <2>8
    <3>6. Holders = h + n + p + a + g /\ Holders' = h + n + (p - 1) + b + k /\ b + k = a + g + 1
      BY <2>8, <3>2, <3>3, <3>4, <3>5
    <3> QED
      BY <3>6
  <2> QED
    BY <1>0, <2>3, <2>4, <2>9 DEF HandlesCounted
<1>6. ASSUME GcComplete
      PROVE  HandlesCounted'
  <2>1. /\ gcEv # Null /\ gcEv.h \in Handles /\ Queued(gcEv.h)
        /\ \A x \in Handles : /\ Taken(x)' <=> Taken(x)
                              /\ Queued(x)' <=> Queued(x) /\ x # gcEv.h
    BY <1>6, GcCompleteEffect
  <2>2. ~Taken(gcEv.h) /\ gcEv.h \notin freeHandles
    BY <2>1 DEF Inv, HandsDistinct
  <2>3. gcEv.h \in InUse /\ \A x : x \in InUse' <=> x \in InUse /\ x # gcEv.h
    BY <1>0, <2>1, <2>2
  <2>4. IsFiniteSet(InUse') /\ Cardinality(InUse') = Cardinality(InUse) - 1
    BY <1>0, <2>3, RemoveOne
  <2>5. \A x : x \in freeHandles' <=> x \in freeHandles \/ x = gcEv.h
    BY <1>6 DEF GcComplete
  <2>6. Cardinality(freeHandles') = Cardinality(freeHandles) + 1
    BY <1>0, <2>2, <2>5, AddOne
  <2>7. /\ eventsCount' = eventsCount /\ pending' = pending
        /\ WithHandle' = WithHandle /\ WithPart' = WithPart
    BY <1>6 DEF GcComplete, launchVars, WithHandle, WithPart
  <2>8. \/ aside' = aside /\ gcEv' = Null
        \/ Len(aside') = Len(aside) - 1 /\ gcEv' # Null
    <3>1. CASE aside = <<>>
      BY <1>6, <3>1 DEF GcComplete, NextEvent
    <3>2. CASE aside # <<>>
      <4>1. aside' = Tail(aside) /\ gcEv' = Head(aside) /\ aside \in Seq(Event)
        BY <1>0, <1>6, <3>2 DEF GcComplete, NextEvent, Types
      <4> QED
        BY <3>2, <4>1, TailMembers
    <3> QED
      BY <3>1, <3>2
  <2>9. Holders' = Holders - 1 /\ Holders \in Nat
    <3>1. ng = 1
      BY <1>8, <1>10, <2>1
    <3>2. CASE aside' = aside /\ gcEv' = Null
      <4>1. Holders' = wh + wp + np + na + 0
        BY <1>8, <1>10, <2>7, <3>2
      <4> QED
        BY <1>11, <3>1, <4>1
    <3>3. CASE Len(aside') = Len(aside) - 1 /\ gcEv' # Null
      <4>1. Holders' = wh + wp + np + (na - 1) + 1
        BY <1>8, <1>10, <2>7, <3>3
      <4> QED
        BY <1>11, <3>1, <4>1
    <3> QED
      BY <2>8, <3>2, <3>3
  <2> QED
    BY <1>0, <2>4, <2>6, <2>7, <2>9 DEF HandlesCounted
<1>7. ASSUME HandsSame
      PROVE  HandlesCounted'
  <2>1. InUse' = InUse /\ Holders' = Holders
    BY <1>7 DEF HandsSame, InUse, Held, EventsInFlight, Holders, InGc,
                   WithHandle, WithPart
  <2> QED
    BY <1>0, <1>7, <2>1 DEF HandsSame, HandlesCounted
<1> QED
  BY <1>2, <1>3, <1>4, <1>5, <1>6, <1>7, StepCases, QueueStep

-----------------------------------------------------------------------------
(* The recipe counter. *)

\* A step that launches no recipe and completes none.
LEMMA RecipesSame ==
  ASSUME RecipesCounted, Launched' = Launched, Producers' = Producers, recipes' = recipes
  PROVE  RecipesCounted'
BY DEF RecipesCounted

\* Without a move of an event the producers stay.
LEMMA ProducersSame ==
  ASSUME pending' = pending, gcEv' = gcEv
  PROVE  Producers' = Producers
BY DEF Producers

\* Threads and producers are finitely many.
LEMMA LaunchedFinite ==
  /\ IsFiniteSet(Launched) /\ IsFiniteSet(Producers)
  /\ Cardinality(Launched) \in Nat /\ Cardinality(Producers) \in Nat
<1>1. Launched \in SUBSET Threads /\ Producers \in SUBSET Handles
  BY DEF Launched, Producers
<1> QED
  BY <1>1, NullFresh, FS_Subset, FS_CardinalityType

\* Every step counts the recipes.
LEMMA RecipesStep ==
  ASSUME Inv, [Next]_vars, Types'
  PROVE  RecipesCounted'
<1> USE NullFresh
<1>0. Types /\ ControlOK /\ RecipesCounted /\ QueuesDistinct
  BY DEF Inv, HandsDistinct
<1>1. /\ IsFiniteSet(Launched) /\ IsFiniteSet(Producers)
      /\ Cardinality(Launched) \in Nat /\ Cardinality(Producers) \in Nat
      /\ recipes = Cardinality(Launched) + Cardinality(Producers)
  BY <1>0, LaunchedFinite DEF RecipesCounted
<1>2. ASSUME NEW t \in Threads, NEW h \in Handles, Took(t, h)
      PROVE  RecipesCounted'
  <2>1. Launched' = Launched
    BY <1>0, <1>2 DEF Took, Types, Launched
  <2> QED
    BY <1>0, <1>2, <2>1, RecipesSame, ProducersSame DEF Took
<1>3. ASSUME NEW t \in Threads, Wake(t), sleeping' # sleeping
      PROVE  RecipesCounted'
  <2>1. Launched' = Launched
    BY <1>3 DEF Wake, Launched
  <2> QED
    BY <1>0, <1>3, <2>1, RecipesSame, ProducersSame DEF Wake, gcVars
<1>4. ASSUME NEW t \in Threads, OutOfResources(t)
      PROVE  RecipesCounted'
  <2>1. CASE mut = t
    <3>1. \A u \in Threads : pc'[u] = IF u = t THEN "idle" ELSE pc[u]
      BY <1>0, <1>4 DEF OutOfResources, Goto, Types
    <3>2. mut' = Null /\ recipes' = recipes /\ pc[t] = "get"
      BY <1>4, <2>1 DEF OutOfResources
    <3>3. Launched' = Launched
      BY <2>1, <3>1, <3>2 DEF Launched
    <3> QED
      BY <1>0, <1>4, <3>2, <3>3, RecipesSame, ProducersSame DEF OutOfResources, gcVars
  <2>2. CASE mut # t
    <3>1. \A u \in Threads : pc'[u] = IF u = t THEN "idle" ELSE pc[u]
      BY <1>0, <1>4 DEF OutOfResources, Goto, Types
    <3>2. mut' = mut /\ recipes' = recipes - 1 /\ pc[t] = "get"
      BY <1>4, <2>2 DEF OutOfResources
    <3>3. t \in Launched /\ \A u : u \in Launched' <=> u \in Launched /\ u # t
      BY <2>2, <3>1, <3>2 DEF Launched
    <3>4. Cardinality(Launched') = Cardinality(Launched) - 1
      BY <1>1, <3>3, RemoveOne
    <3>5. Producers' = Producers
      BY <1>4, ProducersSame DEF OutOfResources, gcVars
    <3> QED
      BY <1>1, <3>2, <3>4, <3>5 DEF RecipesCounted
  <2> QED
    BY <2>1, <2>2
<1>5. ASSUME NEW t \in Threads,
             \/ WaitForHandle(t) \/ SpuriousWakeup(t) \/ BeginLaunch(t)
      PROVE  RecipesCounted'
  <2>1. Launched' = Launched
    BY <1>0, <1>5 DEF WaitForHandle, SpuriousWakeup, BeginLaunch, Goto, Types, Launched, launchVars
  <2> QED
    BY <1>0, <1>5, <2>1, RecipesSame, ProducersSame
    DEF WaitForHandle, SpuriousWakeup, BeginLaunch, gcVars
<1>6. ASSUME NEW t \in Threads, LockForMap(t) \/ FinishMap(t)
      PROVE  RecipesCounted'
  <2>1. Launched' = Launched /\ recipes' = recipes /\ UNCHANGED gcVars
    <3>1. CASE LockForMap(t)
      <4>1. /\ \A u \in Threads : pc'[u] = IF u = t THEN "get" ELSE pc[u]
            /\ mut = Null /\ mut' = t /\ pc[t] = "map"
        BY <1>0, <3>1 DEF LockForMap, Goto, Types
      <4>2. Launched' = Launched
        BY <4>1 DEF Launched
      <4> QED
        BY <3>1, <4>2 DEF LockForMap
    <3>2. CASE FinishMap(t)
      <4>1. /\ \A u \in Threads : pc'[u] = IF u = t THEN "launch" ELSE pc[u]
            /\ mut = t /\ mut' = Null /\ pc[t] = "have"
        BY <1>0, <3>2 DEF FinishMap, Goto, Types
      <4>2. Launched' = Launched
        BY <4>1 DEF Launched
      <4> QED
        BY <3>2, <4>2 DEF FinishMap
    <3> QED
      BY <1>6, <3>1, <3>2
  <2> QED
    BY <1>0, <2>1, RecipesSame, ProducersSame DEF gcVars
<1>7. ASSUME NEW t \in Threads, Launch(t)
      PROVE  RecipesCounted'
  <2>1. /\ \A u \in Threads : pc'[u] = IF u = t THEN (IF part[t] = Null THEN "get" ELSE "push")
                                                ELSE pc[u]
        /\ mut' = mut /\ recipes' = recipes + 1 /\ pc[t] = "launch"
    BY <1>0, <1>7 DEF Launch, Goto, Types
  <2>2. mut # t
    BY <1>0, <2>1 DEF ControlOK
  <2>3. t \notin Launched /\ \A u : u \in Launched' <=> u \in Launched \/ u = t
    BY <2>1, <2>2 DEF Launched
  <2>4. Cardinality(Launched') = Cardinality(Launched) + 1
    BY <1>1, <2>3, AddOne
  <2>5. Producers' = Producers
    BY <1>7, ProducersSame DEF Launch, gcVars
  <2> QED
    BY <1>1, <2>1, <2>4, <2>5 DEF RecipesCounted
<1>8. ASSUME NEW t \in Threads, NEW e, QueuedBy(t, e)
      PROVE  RecipesCounted'
  <2>1. /\ e \in Event /\ pending \in Seq(Event) /\ pending' = Append(pending, e)
        /\ gcEv' = gcEv /\ mut' = mut /\ recipes' = recipes
    BY <1>0, <1>8 DEF QueuedBy, Types
  <2>2. /\ Len(pending) \in Nat /\ Len(pending') = Len(pending) + 1
        /\ pending'[Len(pending) + 1] = e
        /\ \A i \in 1 .. Len(pending) : pending'[i] = pending[i]
    BY <2>1, AppendMembers
  <2>3. e.h \in Handles /\ ~Queued(e.h)
    BY <1>8, QueueEffect
  <2>4. \A x : (\E i \in 1 .. Len(pending') : pending'[i].h = x /\ ~pending'[i].partial)
                 <=> \/ \E i \in 1 .. Len(pending) : pending[i].h = x /\ ~pending[i].partial
                     \/ e.h = x /\ ~e.partial
    BY <2>2
  <2>5. CASE pc[t] = "push"
    <3>1. /\ \A u \in Threads : pc'[u] = IF u = t THEN "get" ELSE pc[u]
          /\ e.partial /\ mut # t
      BY <1>0, <1>8, <2>5 DEF QueuedBy, ControlOK, Types
    <3>2. Launched' = Launched
      BY <2>1, <2>5, <3>1 DEF Launched
    <3>3. Producers' = Producers
      BY <2>1, <2>4, <3>1 DEF Producers
    <3> QED
      BY <1>0, <2>1, <3>2, <3>3, RecipesSame
  <2>6. CASE pc[t] # "push"
    <3>1. /\ \A u \in Threads : pc'[u] = IF u = t THEN "idle" ELSE pc[u]
          /\ ~e.partial /\ mut = Null /\ pc[t] = "have"
      BY <1>0, <1>8, <2>6 DEF QueuedBy, Types
    <3>2. t \in Launched /\ \A u : u \in Launched' <=> u \in Launched /\ u # t
      BY <2>1, <3>1 DEF Launched
    <3>3. e.h \notin Producers
      BY <2>3 DEF Queued, Producers
    <3>4. \A x : x \in Producers' <=> x \in Producers \/ x = e.h
      BY <2>1, <2>3, <2>4, <3>1 DEF Producers
    <3>5. /\ Cardinality(Launched') = Cardinality(Launched) - 1
          /\ Cardinality(Producers') = Cardinality(Producers) + 1
      BY <1>1, <3>2, <3>3, <3>4, AddOne, RemoveOne
    <3> QED
      BY <1>1, <2>1, <3>5 DEF RecipesCounted
  <2> QED
    BY <2>5, <2>6
<1>9. ASSUME GcTake
      PROVE  RecipesCounted'
  <2>1. /\ pending \in Seq(Event) /\ pending # <<>> /\ pending' = Tail(pending)
        /\ gcEv = Null /\ recipes' = recipes /\ pc' = pc /\ mut' = mut
    BY <1>0, <1>9 DEF GcTake, Types, launchVars
  <2>2. PICK e : e = Head(pending)
    OBVIOUS
  <2>3. /\ Len(pending) \in Nat \ {0} /\ Len(pending') = Len(pending) - 1 /\ e = pending[1]
        /\ \A i \in 1 .. Len(pending') : /\ pending'[i] = pending[i + 1]
                                         /\ i + 1 \in 2 .. Len(pending)
        /\ \A j \in 2 .. Len(pending) : /\ j - 1 \in 1 .. Len(pending')
                                        /\ pending'[j - 1] = pending[j]
        /\ e \in Event
    BY <2>1, <2>2, TailMembers
  <2>4. /\ 1 \in 1 .. Len(pending) /\ \A i \in 2 .. Len(pending) : i \in 1 .. Len(pending)
        /\ \A i \in 1 .. Len(pending) : i = 1 \/ i \in 2 .. Len(pending)
    BY <2>3
  <2>5. \A x : (\E i \in 1 .. Len(pending) : pending[i].h = x /\ ~pending[i].partial)
                 <=> \/ \E i \in 1 .. Len(pending') : pending'[i].h = x /\ ~pending'[i].partial
                     \/ e.h = x /\ ~e.partial
    BY <2>3, <2>4
  <2>6. (e.partial /\ gcEv' = Null) \/ (~e.partial /\ gcEv' = e /\ e # Null)
    BY <1>9, <2>1, <2>2, <2>3 DEF GcTake
  <2>7. Producers' = Producers
    <3>1. \A x : x \in Producers <=> x \in Handles /\ \E i \in 1 .. Len(pending) :
                                                        pending[i].h = x /\ ~pending[i].partial
      BY <2>1 DEF Producers
    <3>2. \A x : x \in Producers' <=>
            /\ x \in Handles
            /\ \/ \E i \in 1 .. Len(pending') : pending'[i].h = x /\ ~pending'[i].partial
               \/ e.h = x /\ ~e.partial
      BY <2>6 DEF Producers
    <3> QED
      BY <2>5, <3>1, <3>2
  <2>8. Launched' = Launched
    BY <2>1 DEF Launched
  <2> QED
    BY <1>0, <2>1, <2>7, <2>8, RecipesSame
<1>10. ASSUME GcComplete
       PROVE  RecipesCounted'
  <2>1. /\ gcEv # Null /\ gcEv \in Event /\ gcEv.h \in Handles /\ pending' = pending
        /\ recipes' = (IF gcEv.partial THEN recipes ELSE recipes - 1)
        /\ pc' = pc /\ mut' = mut
    BY <1>0, <1>10 DEF GcComplete, Types, ControlOK, launchVars, Event
  <2>2. Launched' = Launched
    BY <2>1 DEF Launched
  <2>3. gcEv' # Null => gcEv'.partial
    <3>1. CASE aside = <<>>
      BY <1>10, <3>1 DEF GcComplete, NextEvent
    <3>2. CASE aside # <<>>
      <4>1. gcEv' = Head(aside) /\ aside \in Seq(Event)
        BY <1>0, <1>10, <3>2 DEF GcComplete, NextEvent, Types
      <4>2. Head(aside) = aside[1] /\ 1 \in 1 .. Len(aside)
        BY <3>2, <4>1, TailMembers
      <4> QED
        BY <1>0, <4>1, <4>2 DEF ControlOK
    <3> QED
      BY <3>1, <3>2
  <2>4. \A i \in 1 .. Len(pending) : pending[i].h # gcEv.h
    BY <1>0, <2>1 DEF QueuesDistinct
  <2>5. \A x : x \in Producers' <=> x \in Handles /\ \E i \in 1 .. Len(pending) :
                                                       pending[i].h = x /\ ~pending[i].partial
    BY <2>1, <2>3 DEF Producers
  <2>6. CASE gcEv.partial
    <3>1. Producers' = Producers
      BY <2>5, <2>6 DEF Producers
    <3> QED
      BY <1>0, <2>1, <2>2, <2>6, <3>1, RecipesSame
  <2>7. CASE ~gcEv.partial
    <3>1. gcEv.h \in Producers /\ \A x : x \in Producers' <=> x \in Producers /\ x # gcEv.h
      BY <2>1, <2>4, <2>5, <2>7 DEF Producers
    <3>2. Cardinality(Producers') = Cardinality(Producers) - 1
      BY <1>1, <3>1, RemoveOne
    <3> QED
      BY <1>1, <2>1, <2>2, <2>7, <3>2 DEF RecipesCounted
  <2> QED
    BY <2>6, <2>7
<1>11. ASSUME GcUnmap \/ UNCHANGED vars
       PROVE  RecipesCounted'
  <2>1. Launched' = Launched /\ recipes' = recipes /\ pending' = pending /\ gcEv' = gcEv
    BY <1>11 DEF GcUnmap, Launched, vars, launchVars, gcVars
  <2> QED
    BY <1>0, <2>1, RecipesSame, ProducersSame
<1>12. ASSUME NEW t \in Threads, BeginLaunch(t) \/ Continue(t) \/ SpuriousWakeup(t)
       PROVE  RecipesCounted'
  <2>1. CASE GetFree(t) \/ CreateHandle(t) \/ (Wake(t) /\ sleeping' = sleeping)
    <3>1. PICK h : Took(t, h)
      BY <2>1, TakeStep
    <3> QED
      BY <1>2, <3>1 DEF Took
  <2>2. CASE Wake(t) /\ sleeping' # sleeping
    BY <1>3, <2>2
  <2>3. CASE PushPartial(t) \/ AddProducer(t)
    BY <1>8, <2>3, QueueStep
  <2>4. CASE \/ OutOfResources(t) \/ WaitForHandle(t) \/ SpuriousWakeup(t) \/ BeginLaunch(t)
             \/ LockForMap(t) \/ FinishMap(t) \/ Launch(t)
    BY <1>4, <1>5, <1>6, <1>7, <2>4
  <2> QED
    BY <1>12, <2>1, <2>2, <2>3, <2>4 DEF Continue
<1> QED
  BY <1>9, <1>10, <1>11, <1>12 DEF Next, GcStep

-----------------------------------------------------------------------------
(* The theorems. *)

\* At the start there are no handles and no recipes.
LEMMA InvInit == Init => Inv
<1> SUFFICES ASSUME Init PROVE Inv
  OBVIOUS
<1> USE NullFresh DEF Labels
<1>1. Types
  <2>1. /\ pending \in Seq(Event) /\ aside \in Seq(Event) /\ launches \in 0 .. MaxLaunches
        /\ gcEv \in Event \cup {Null} /\ mut \in Threads \cup {Null}
    BY DEF Init
  <2>2. /\ pc \in [Threads -> Labels] /\ handle \in [Threads -> Handles \cup {Null}]
        /\ part \in [Threads -> Handles \cup {Null}]
    BY DEF Init
  <2>3. /\ freeHandles \subseteq Handles /\ eventsCount \in Nat /\ sleeping = {}
        /\ recipes \in Int
    <3>1. freeHandles = {} /\ eventsCount = 0 /\ sleeping = {} /\ recipes = 0
      BY DEF Init
    <3> QED
      BY <3>1
  <2>4. unmapped \in BOOLEAN
    BY DEF Init
  <2> QED
    BY <2>1, <2>2, <2>3, <2>4 DEF Types
<1>2. ControlOK
  BY DEF Init, ControlOK
<1>3. /\ \A x \in Handles : ~Taken(x) /\ ~Queued(x)
      /\ freeHandles = {} /\ pending = <<>> /\ aside = <<>> /\ gcEv = Null
  BY DEF Init, Taken, Queued
<1>4. HandsDistinct
  BY <1>3 DEF Init, HandsDistinct, LaunchesDistinct, QueuesDistinct
<1>5. HandlesCounted
  <2>1. InUse = {}
    BY <1>1, <1>3, InUseMembers
  <2>2. WithHandle = {} /\ WithPart = {}
    BY DEF Init, WithHandle, WithPart
  <2>3. Holders = 0
    BY <1>3, <2>2, FS_EmptySet DEF Holders, InGc
  <2> QED
    BY <1>3, <2>1, <2>3, FS_EmptySet DEF Init, HandlesCounted
<1>6. RecipesCounted
  <2>1. Launched = {} /\ Producers = {}
    BY <1>3 DEF Init, Launched, Producers
  <2> QED
    BY <2>1, FS_EmptySet DEF Init, RecipesCounted
<1> QED
  BY <1>1, <1>2, <1>4, <1>5, <1>6 DEF Inv

\* Every step keeps the invariant.
LEMMA InvStep == Inv /\ [Next]_vars => Inv'
<1> SUFFICES ASSUME Inv, [Next]_vars PROVE Inv'
  OBVIOUS
<1>1. Types'
  BY TypesStep
<1>2. ControlOK' /\ HandsDistinct' /\ RecipesCounted'
  BY <1>1, ControlStep, DistinctStep, RecipesStep
<1>3. HandlesCounted'
  BY <1>1, <1>2, HandlesStep
<1> QED
  BY <1>1, <1>2, <1>3 DEF Inv

\* The invariant on which the theorems rest.
LEMMA Invariant == Spec => []Inv
BY InvInit, InvStep, PTL DEF Spec

\* Every variable keeps its type: in particular the recipe counter, which
\* get_free_handle compares with the number worth waiting for, never falls
\* below zero, since each launch gives its recipe back exactly once.
THEOREM TypeCorrect == Spec => []TypeOK
<1>1. Inv => TypeOK
  <2> SUFFICES ASSUME Inv PROVE TypeOK
    OBVIOUS
  <2>1. recipes \in Nat
    BY LaunchedFinite DEF Inv, RecipesCounted
  <2> QED
    BY <2>1 DEF Inv, Types, TypeOK, Labels
<1> QED
  BY <1>1, Invariant, PTL

\* No handle of get_free_handle and release_handle is ever in two hands, none
\* is lost, and their number respects NUM_EVENTS_MAX.
THEOREM HandlesNeverShared == Spec => []HandlesExclusive
<1>1. Inv => HandlesExclusive
  <2> SUFFICES ASSUME Inv PROVE HandlesExclusive
    OBVIOUS
  <2>1. InUse \cap freeHandles = {}
    BY InUseMembers DEF Inv, HandsDistinct
  <2>2. Holders = Cardinality({t \in Threads : handle[t] # Null})
                    + Cardinality({t \in Threads : part[t] # Null})
                    + Len(pending) + Len(aside) + (IF gcEv = Null THEN 0 ELSE 1)
    BY DEF Holders, InGc, WithHandle, WithPart
  <2> QED
    BY <2>1, <2>2 DEF Inv, HandlesCounted, HandlesExclusive
<1> QED
  BY <1>1, Invariant, PTL
=============================================================================
