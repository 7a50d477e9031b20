--------------------------- MODULE EventHandleCache ---------------------------
(***************************************************************************)
(* The pool of Synapse event handles (event_handle_cache.cpp) and those    *)
(* who take from it and give back to it: recipe launches, which take a     *)
(* handle in map_event_to_tensor under the manager's mut_ and one more in  *)
(* add_producer without it, and the GC thread, which needs mut_ to unmap   *)
(* an event before event::complete releases its handle.                    *)
(*                                                                         *)
(* One stream, its GC thread and the cache of ordinary events.  Which      *)
(* handle is taken does not matter, so free_handles_ is a set; addresses,  *)
(* commands and the device are in StreamEventManager.                      *)
(***************************************************************************)
EXTENDS Naturals, Sequences, FiniteSets

CONSTANTS
  Threads,        \* host threads that launch recipes
  Handles,        \* handles synEventCreate may return
  NumEventsMax,   \* NUM_EVENTS_MAX
  MaxLaunches,    \* bound on the recipes launched
  Null

Event == [h : Handles, partial : BOOLEAN]

ASSUME HandleAssumption ==
  /\ Null \notin Threads \cup Handles \cup Event
  /\ IsFiniteSet(Threads)
  /\ NumEventsMax \in Nat
  /\ IsFiniteSet(Handles) /\ Cardinality(Handles) >= NumEventsMax
  /\ MaxLaunches \in Nat

NUM_RECIPE_COUNT_TO_WAIT_FOR_FREE_EVENT == 1

VARIABLES
  freeHandles,   \* free_handles_
  eventsCount,   \* events_count_
  sleeping,      \* the threads asleep in cond_var_.wait
  mut,           \* the thread that keeps mut_ while it takes a handle
  recipes,       \* the active recipe counter
  pc, handle,    \* control point of a launch and the handle it has taken
  part,          \* the handle of its partial event, not queued yet
  pending,       \* pending_cleanups_: handles with a flag for partial events
  aside,         \* partial events the GC thread has put aside
  gcEv,          \* the event in the hands of the GC thread
  unmapped,      \* TRUE once it is unmapped
  launches       \* the launches begun so far

cacheVars  == <<freeHandles, eventsCount, sleeping>>
launchVars == <<mut, pc, handle, part, launches>>
gcVars     == <<pending, aside, gcEv, unmapped>>
vars       == <<cacheVars, launchVars, gcVars, recipes>>

Init ==
  /\ freeHandles = {} /\ eventsCount = 0 /\ sleeping = {}
  /\ mut = Null
  /\ recipes = 0
  /\ pc = [t \in Threads |-> "idle"]
  /\ handle = [t \in Threads |-> Null]
  /\ part = [t \in Threads |-> Null]
  /\ pending = <<>> /\ aside = <<>>
  /\ gcEv = Null
  /\ unmapped = FALSE
  /\ launches = 0

-----------------------------------------------------------------------------
(* get_free_handle, under the cache's mutex_.                              *)

Goto(t, label) == pc' = [pc EXCEPT ![t] = label]

Held == {handle[t] : t \in Threads} \cup {part[t] : t \in Threads}

EventsInFlight ==
  {pending[i] : i \in 1 .. Len(pending)} \cup {aside[i] : i \in 1 .. Len(aside)}
    \cup ({gcEv} \ {Null})

InUse == (Held \ {Null}) \cup {e.h : e \in EventsInFlight}

\* Fault: the handle stays in the cache.
PeekHandle(t) ==
  \E h \in freeHandles :
    /\ handle' = [handle EXCEPT ![t] = h]
    /\ UNCHANGED freeHandles

TakeHandle(t) ==
  \E h \in freeHandles :
    /\ handle' = [handle EXCEPT ![t] = h]
    /\ freeHandles' = freeHandles \ {h}

GetFree(t) ==
  /\ pc[t] = "get"
  /\ TakeHandle(t)
  /\ Goto(t, "have")
  /\ UNCHANGED <<eventsCount, sleeping, mut, part, launches, gcVars, recipes>>

\* synEventCreate (external) returns a handle that does not exist yet.
CreateHandle(t) ==
  /\ pc[t] = "get"
  /\ freeHandles = {}
  /\ eventsCount < NumEventsMax
  /\ LET h == CHOOSE h \in Handles : h \notin InUse
     IN  handle' = [handle EXCEPT ![t] = h]
  /\ eventsCount' = eventsCount + 1
  /\ Goto(t, "have")
  /\ UNCHANGED <<freeHandles, sleeping, mut, part, launches, gcVars, recipes>>

Exhausted == freeHandles = {} /\ eventsCount >= NumEventsMax

\* The assertion fails and the exception ends the launch: lock_guard releases
\* mut_; when the recipe was launched already, the destroyed callback gives
\* its count back.
OutOfResources(t) ==
  /\ pc[t] = "get"
  /\ Exhausted
  /\ recipes <= NUM_RECIPE_COUNT_TO_WAIT_FOR_FREE_EVENT
  /\ Goto(t, "idle")
  /\ IF mut = t THEN mut' = Null /\ UNCHANGED recipes
                ELSE recipes' = recipes - 1 /\ UNCHANGED mut
  /\ UNCHANGED <<cacheVars, handle, part, launches, gcVars>>

WaitForHandle(t) ==
  /\ pc[t] = "get"
  /\ Exhausted
  /\ recipes > NUM_RECIPE_COUNT_TO_WAIT_FOR_FREE_EVENT
  /\ Goto(t, "wait")
  /\ sleeping' = sleeping \cup {t}
  /\ UNCHANGED <<freeHandles, eventsCount, mut, handle, part, launches,
                 gcVars, recipes>>

\* Awake, the thread takes a handle or goes back to sleep.
Wake(t) ==
  /\ pc[t] = "wait"
  /\ t \notin sleeping
  /\ \/ /\ TakeHandle(t)
        /\ Goto(t, "have")
        /\ UNCHANGED sleeping
     \/ /\ freeHandles = {}
        /\ sleeping' = sleeping \cup {t}
        /\ UNCHANGED <<freeHandles, handle, pc>>
  /\ UNCHANGED <<eventsCount, mut, part, launches, gcVars, recipes>>

SpuriousWakeup(t) ==
  /\ t \in sleeping
  /\ sleeping' = sleeping \ {t}
  /\ UNCHANGED <<freeHandles, eventsCount, launchVars, gcVars, recipes>>

-----------------------------------------------------------------------------
(* A recipe launch, with an external tensor or without.                    *)

BeginLaunch(t) ==
  /\ pc[t] = "idle"
  /\ launches < MaxLaunches
  /\ launches' = launches + 1
  /\ Goto(t, "map") \/ Goto(t, "launch")
  /\ UNCHANGED <<cacheVars, mut, handle, part, gcVars, recipes>>

\* map_event_to_tensor takes mut_ and constructs the event under it.
LockForMap(t) ==
  /\ pc[t] = "map"
  /\ mut = Null
  /\ mut' = t
  /\ Goto(t, "get")
  /\ UNCHANGED <<cacheVars, handle, part, launches, gcVars, recipes>>

FinishMap(t) ==
  /\ pc[t] = "have"
  /\ mut = t
  /\ mut' = Null
  /\ part' = [part EXCEPT ![t] = handle[t]]
  /\ handle' = [handle EXCEPT ![t] = Null]
  /\ Goto(t, "launch")
  /\ UNCHANGED <<cacheVars, launches, gcVars, recipes>>

\* graph::launch, then recipe_counter.increase.
Launch(t) ==
  /\ pc[t] = "launch"
  /\ recipes' = recipes + 1
  /\ Goto(t, IF part[t] = Null THEN "get" ELSE "push")
  /\ UNCHANGED <<cacheVars, mut, handle, part, launches, gcVars>>

\* add_producer(stream, event) queues the partial event.
PushPartial(t) ==
  /\ pc[t] = "push"
  /\ pending' = Append(pending, [h |-> part[t], partial |-> TRUE])
  /\ part' = [part EXCEPT ![t] = Null]
  /\ Goto(t, "get")
  /\ UNCHANGED <<cacheVars, mut, handle, launches, aside, gcEv, unmapped,
                 recipes>>

\* add_producer(ids, stream, callback): the event, constructed without mut_,
\* is mapped under it and then queued.
AddProducer(t) ==
  /\ pc[t] = "have"
  /\ mut = Null
  /\ pending' = Append(pending, [h |-> handle[t], partial |-> FALSE])
  /\ handle' = [handle EXCEPT ![t] = Null]
  /\ Goto(t, "idle")
  /\ UNCHANGED <<cacheVars, mut, part, launches, aside, gcEv, unmapped,
                 recipes>>

-----------------------------------------------------------------------------
(* The GC thread.                                                          *)

GcTake ==
  /\ gcEv = Null
  /\ pending # <<>>
  /\ pending' = Tail(pending)
  /\ IF Head(pending).partial
     THEN aside' = Append(aside, Head(pending)) /\ UNCHANGED gcEv
     ELSE gcEv' = Head(pending) /\ UNCHANGED aside
  /\ UNCHANGED <<cacheVars, launchVars, unmapped, recipes>>

\* synchronize_event unmaps the event under mut_.
GcUnmap ==
  /\ gcEv # Null
  /\ ~unmapped
  /\ mut = Null
  /\ unmapped' = TRUE
  /\ UNCHANGED <<cacheVars, launchVars, pending, aside, gcEv, recipes>>

NextEvent == IF aside = <<>> THEN Null ELSE Head(aside)

\* Fault: the handle comes back and nobody is notified.
CompleteQuietly ==
  /\ unmapped
  /\ unmapped' = FALSE
  /\ recipes' = IF gcEv.partial THEN recipes ELSE recipes - 1
  /\ freeHandles' = freeHandles \cup {gcEv.h}
  /\ gcEv' = NextEvent
  /\ aside' = IF aside = <<>> THEN aside ELSE Tail(aside)
  /\ UNCHANGED <<eventsCount, sleeping, launchVars, pending>>

\* Fault: the callback of a partial event gives a recipe back as well.
CompleteCountsPartial ==
  /\ unmapped
  /\ unmapped' = FALSE
  /\ recipes' = recipes - 1
  /\ freeHandles' = freeHandles \cup {gcEv.h}
  /\ gcEv' = NextEvent
  /\ aside' = IF aside = <<>> THEN aside ELSE Tail(aside)
  /\ UNCHANGED <<eventsCount, sleeping, launchVars, pending>>

\* event::complete: the callback of a producer event ends its recipe, then
\* release_handle notifies one waiter.
GcComplete ==
  /\ unmapped
  /\ unmapped' = FALSE
  /\ recipes' = IF gcEv.partial THEN recipes ELSE recipes - 1
  /\ freeHandles' = freeHandles \cup {gcEv.h}
  /\ IF sleeping = {} THEN UNCHANGED sleeping
                      ELSE \E t \in sleeping : sleeping' = sleeping \ {t}
  /\ gcEv' = NextEvent
  /\ aside' = IF aside = <<>> THEN aside ELSE Tail(aside)
  /\ UNCHANGED <<eventsCount, launchVars, pending>>

-----------------------------------------------------------------------------

GcStep == GcTake \/ GcUnmap \/ GcComplete

Continue(t) ==
  \/ GetFree(t) \/ CreateHandle(t) \/ OutOfResources(t) \/ WaitForHandle(t)
  \/ Wake(t)
  \/ LockForMap(t) \/ FinishMap(t) \/ Launch(t) \/ PushPartial(t)
  \/ AddProducer(t)

Next ==
  \/ \E t \in Threads : BeginLaunch(t) \/ Continue(t) \/ SpuriousWakeup(t)
  \/ GcStep

Fairness == WF_vars(GcStep) /\ \A t \in Threads : WF_vars(Continue(t))

Spec == Init /\ [][Next]_vars /\ Fairness

-----------------------------------------------------------------------------
(* Properties *)

\* The type of every variable; the recipe counter never goes below zero.
TypeOK ==
  /\ freeHandles \subseteq Handles
  /\ eventsCount \in Nat
  /\ sleeping \subseteq {t \in Threads : pc[t] = "wait"}
  /\ mut \in Threads \cup {Null}
  /\ recipes \in Nat
  /\ pc \in [Threads -> {"idle", "map", "launch", "push", "get", "wait", "have"}]
  /\ handle \in [Threads -> Handles \cup {Null}]
  /\ part \in [Threads -> Handles \cup {Null}]
  /\ pending \in Seq(Event) /\ aside \in Seq(Event)
  /\ gcEv \in Event \cup {Null}
  /\ unmapped \in BOOLEAN
  /\ launches \in 0 .. MaxLaunches

\* No handle is in two hands: the handles created are the free ones and those
\* of the events in flight, each once, however takers, waiters woken without
\* need and releases interleave; and their number respects NUM_EVENTS_MAX.
HandlesExclusive ==
  LET holders == Cardinality({t \in Threads : handle[t] # Null})
                   + Cardinality({t \in Threads : part[t] # Null})
                   + Len(pending) + Len(aside) + (IF gcEv = Null THEN 0 ELSE 1)
  IN  /\ InUse \cap freeHandles = {}
      /\ Cardinality(InUse) = holders
      /\ eventsCount = holders + Cardinality(freeHandles)
      /\ eventsCount <= NumEventsMax

Waiting(t) == pc[t] = "wait"

\* What a waiter cannot outlast: a thread that waits with mut_ in its hands,
\* which keeps the GC thread from releasing anything, and partial events that
\* hold every handle, with no producer event behind which to complete them.
Starved ==
  \/ \E t \in Threads : Waiting(t) /\ mut = t
  \/ NumEventsMax = Cardinality(({part[t] : t \in Threads} \ {Null})
                                 \cup {e.h : e \in {f \in EventsInFlight : f.partial}})

\* Short of that, a thread that waits for a handle gets one: no notification
\* is lost to a thread that takes the handle before the one notified, or that
\* finds no handle when it wakes up.
ServedUnlessStarved ==
  []~Starved => \A t \in Threads : Waiting(t) ~> ~Waiting(t)

\* Every thread that waits for a handle gets one ("we need to wait until an
\* event is returned to the cache").
WaitersServed == \A t \in Threads : Waiting(t) ~> ~Waiting(t)
=============================================================================
