------------------------- MODULE StreamEventManager -------------------------
(***************************************************************************)
(* How the bridge orders device work: the stream event manager (SEM), the  *)
(* events it maps to device addresses, the per-stream queue of pending     *)
(* events with its garbage-collector thread, and the host threads that     *)
(* issue operations (backend/synapse_helpers/stream_event_manager.cpp,     *)
(* event.cpp, stream.cpp, device.cpp).                                     *)
(*                                                                         *)
(* An operation of the bridge waits for the addresses it uses, starts work *)
(* on a stream and registers an event as the producer of the addresses it  *)
(* binds.  The GC thread of the stream synchronizes each event with the    *)
(* device, unmaps it and completes it (callback, handle, waiters).         *)
(*                                                                         *)
(* Each action is one critical section (or one unlocked access) of the     *)
(* code, so that everything another thread can do between two of them is   *)
(* an interleaving here.  Event ids (events_by_str_) are left out: every   *)
(* caller passes the empty id, so that map stays empty.                    *)
(***************************************************************************)
EXTENDS Naturals, Sequences, FiniteSets

CONSTANTS
  Streams,     \* Synapse streams (stream objects of the device)
  Threads,     \* host threads that issue operations
  Addrs,       \* device_ptr values used as keys of events_by_addr_
  Events,      \* event objects; bounds how many are ever created
  Ops,         \* operations the threads may issue (see OpType)
  MaxWork,     \* bound on the pieces of work launched
  Calls,       \* the kinds of calls each thread makes
  MaxCmds,     \* bound on the commands of a stream when a call begins
  MayFail,     \* TRUE when graph::launch may throw
  Null

\* An operation: the stream it runs on, the addresses it waits for, reads,
\* writes and registers a producer for, and the external tensor (one signalled
\* from inside the recipe) it maps a partial event to, if any.
OpType == [s : Streams, wait : SUBSET Addrs, rd : SUBSET Addrs,
           wr : SUBSET Addrs, reg : SUBSET Addrs, ext : Addrs \cup {Null}]

CallKinds ==
  {"op", "wait_until_done", "get_wait_event", "record_and_wait", "flush"}

ASSUME ConstantAssumption ==
  /\ Null \notin Streams \cup Threads \cup Addrs \cup Events
  /\ Ops \subseteq OpType
  /\ Calls \in [Threads -> SUBSET CallKinds]
  /\ MaxWork \in Nat
  /\ MaxCmds \in Nat
  /\ MayFail \in BOOLEAN

VARIABLES
  \* stream_event_manager and event objects
  byAddr,    \* events_by_addr_: the event mapped to an address
  home,      \* event::stream_recorded_; Null until the object is constructed
  ptrs,      \* event::device_ptrs_
  partial,   \* event::is_partial_
  done,      \* event::done_
  \* stream objects and their GC threads
  pending,   \* stream::pending_cleanups_; Null is the empty shared_event
  gc,        \* control point of gc_thread_proc
  gcEv,      \* the event being synchronized
  partials,  \* gc_thread_proc's local queue of partial events
  syncMut,   \* the stream whose GC thread holds sync_mut_
  \* host threads
  pc, cur, tgt, todo, part, ev, wk, goal,
  \* the device, external to the code
  cmds,      \* commands enqueued on a stream and not executed yet
  launched,  \* the operations launched so far; work is named by its index
  executed,  \* the work the device has executed (0 stands for no work)
  recorded,  \* events with a synEventRecord or mapped to a launched recipe
  fired,     \* events the device has signalled
  work,      \* history: the work an event stands for
  fatal      \* who hit a PT_SYNHELPER_FATAL: "gc" or "host"

semVars  == <<byAddr, home, ptrs, partial, done>>
gcVars   == <<pending, gc, gcEv, partials, syncMut>>
hostVars == <<pc, cur, tgt, todo, part, ev, wk, goal>>
devVars  == <<cmds, launched, executed, recorded, fired, work>>
vars     == <<semVars, gcVars, hostVars, devVars, fatal>>

Works    == 0 .. MaxWork
Cmds     == ({"work"} \X Works) \cup ({"record", "wait"} \X Events)
EvOrNull == Events \cup {Null}

Init ==
  /\ byAddr = [a \in Addrs |-> Null]
  /\ home = [e \in Events |-> Null]
  /\ ptrs = [e \in Events |-> {}]
  /\ partial = [e \in Events |-> FALSE]
  /\ done = [e \in Events |-> FALSE]
  /\ pending = [s \in Streams |-> <<Null>>]
  /\ gc = [s \in Streams |-> "pop"]
  /\ gcEv = [s \in Streams |-> Null]
  /\ partials = [s \in Streams |-> <<>>]
  /\ syncMut = Null
  /\ pc = [t \in Threads |-> "idle"]
  /\ cur = [t \in Threads |-> Null]
  /\ tgt = [t \in Threads |-> Null]
  /\ todo = [t \in Threads |-> {}]
  /\ part = [t \in Threads |-> Null]
  /\ ev = [t \in Threads |-> Null]
  /\ wk = [t \in Threads |-> 0]
  /\ goal = [t \in Threads |-> {}]
  /\ cmds = [s \in Streams |-> <<>>]
  /\ launched = <<>>
  /\ executed = {0}
  /\ recorded = {}
  /\ fired = {}
  /\ work = [e \in Events |-> 0]
  /\ fatal = {}

-----------------------------------------------------------------------------
(* Helpers.                                                                *)
(*                                                                         *)
(* Here and below, a definition whose comment starts with "Fault:" is a    *)
(* plausible mistake in the definition after it.  No specification uses    *)
(* one: put in its place, it makes the property PROJECT.json names fail.   *)

Goto(t, label) == pc' = [pc EXCEPT ![t] = label]

\* The call of thread t returns, or leaves with an exception.
Return(t) ==
  /\ Goto(t, "idle")
  /\ cur' = [cur EXCEPT ![t] = Null]
  /\ tgt' = [tgt EXCEPT ![t] = Null]
  /\ todo' = [todo EXCEPT ![t] = {}]
  /\ part' = [part EXCEPT ![t] = Null]
  /\ ev' = [ev EXCEPT ![t] = Null]
  /\ wk' = [wk EXCEPT ![t] = 0]
  /\ goal' = [goal EXCEPT ![t] = {}]

\* The map after e takes over the addresses A.
MapTo(A, e) == [a \in Addrs |-> IF a \in A THEN e ELSE byAddr[a]]

\* Fault: the displaced events keep the addresses.
KeepDisplaced(A, e) == [ptrs EXCEPT ![e] = A]

\* The device_ptrs_ of the events e displaces (remove_device_ptr).
Displace(A, e) ==
  [f \in Events |-> IF f = e THEN A
                    ELSE ptrs[f] \ {a \in A : byAddr[a] = f}]

\* The object the next construction uses: any unused one would do.
NextEvent == CHOOSE e \in Events : home[e] = Null

\* The constructor of event, on stream s, for the addresses A.
NewEvent(e, s, A, isPartial, w) ==
  /\ home[e] = Null
  /\ e = NextEvent
  /\ home' = [home EXCEPT ![e] = s]
  /\ partial' = [partial EXCEPT ![e] = isPartial]
  /\ byAddr' = MapTo(A, e)
  /\ ptrs' = Displace(A, e)
  /\ work' = [work EXCEPT ![e] = w]

\* event::stream_wait_event, under the event's mutex.  Waiting for an event
\* that was never recorded returns at once (synStreamWaitEvent, external).
StreamWait(e, s) ==
  cmds' = IF ~done[e] /\ home[e] # s /\ e \in recorded
          THEN [cmds EXCEPT ![s] = Append(@, <<"wait", e>>)]
          ELSE cmds

\* The bounds: a thread begins a call only if the work and the event objects
\* that the calls in progress may still need are left after it.
RoomFor(works, events) ==
  LET unlaunched == {t \in Threads : pc[t] \in {"wait", "mapped"}}
      unmapped   == {t \in Threads : pc[t] = "wait" /\ cur[t].ext # Null}
      unadded    == {t \in Threads : pc[t] \in {"wait", "mapped", "check",
                                                "find", "push", "launched"}}
      fresh      == {e \in Events : home[e] = Null}
  IN  /\ Len(launched) + Cardinality(unlaunched) + works <= MaxWork
      /\ Cardinality(unmapped) + Cardinality(unadded) + events
           <= Cardinality(fresh)

-----------------------------------------------------------------------------
(* Host threads: one operation = waits; launch; register the producer.     *)

BeginOp(t, o) ==
  /\ "op" \in Calls[t]
  /\ pc[t] = "idle"
  /\ RoomFor(1, IF o.ext = Null THEN 1 ELSE 2)
  /\ Len(cmds[o.s]) < MaxCmds
  /\ Goto(t, "wait")
  /\ cur' = [cur EXCEPT ![t] = o]
  /\ todo' = [todo EXCEPT ![t] = o.wait]
  /\ UNCHANGED <<semVars, gcVars, devVars, fatal, tgt, part, ev, wk, goal>>

\* enqueue_wait_event for one of the addresses (add_wait_events_on_stream).
EnqueueWait(t, a) ==
  /\ pc[t] = "wait"
  /\ a \in todo[t] \cap Addrs
  /\ todo' = [todo EXCEPT ![t] = @ \ {a}]
  /\ IF byAddr[a] = Null THEN UNCHANGED cmds
                         ELSE StreamWait(byAddr[a], cur[t].s)
  /\ UNCHANGED <<semVars, gcVars, fatal, pc, cur, tgt, part, ev, wk, goal,
                 launched, executed, recorded, fired, work>>

\* map_event_to_tensor: a partial event takes over the external address.
MapEventToTensor(t, e) ==
  /\ pc[t] = "wait"
  /\ todo[t] = {}
  /\ cur[t].ext # Null
  /\ Goto(t, "mapped")
  /\ NewEvent(e, cur[t].s, {cur[t].ext}, TRUE, 0)
  /\ part' = [part EXCEPT ![t] = e]
  /\ UNCHANGED <<gcVars, fatal, done, cur, tgt, todo, ev, wk, goal,
                 cmds, launched, executed, recorded, fired>>

ReadyToLaunch(t) ==
  \/ pc[t] = "wait" /\ todo[t] = {} /\ cur[t].ext = Null
  \/ pc[t] = "mapped"

\* synLaunch or synMemCopyAsync: work w is enqueued; a partial event mapped
\* for this launch will be signalled by it.
Launch(t) ==
  LET w == Len(launched) + 1 IN
  /\ ReadyToLaunch(t)
  /\ w <= MaxWork
  /\ launched' = Append(launched, cur[t])
  /\ cmds' = [cmds EXCEPT ![cur[t].s] = Append(@, <<"work", w>>)]
  /\ wk' = [wk EXCEPT ![t] = w]
  /\ IF part[t] = Null
     THEN Goto(t, "launched") /\ UNCHANGED <<work, recorded>>
     ELSE /\ Goto(t, "check")
          /\ work' = [work EXCEPT ![part[t]] = w]
          /\ recorded' = recorded \cup {part[t]}
  /\ UNCHANGED <<semVars, gcVars, fatal, cur, tgt, todo, part, ev, goal,
                 executed, fired>>

\* graph::launch throws: the exception leaves RecipeLauncher::Launch, and a
\* partial event that was mapped for the launch stays mapped.
LaunchFails(t) ==
  /\ MayFail
  /\ ReadyToLaunch(t)
  /\ Return(t)
  /\ UNCHANGED <<semVars, gcVars, devVars, fatal>>

\* add_producer(stream, event), which takes no lock: it reads device_ptrs_ ...
ReadPartialPtrs(t) ==
  /\ pc[t] = "check"
  /\ todo' = [todo EXCEPT ![t] = ptrs[part[t]]]
  /\ Goto(t, "find")
  /\ UNCHANGED <<semVars, gcVars, devVars, fatal, cur, tgt, part, ev, wk,
                 goal>>

\* ... and looks every address up; a mismatch is a FATAL in the caller.
FindPartialPtrs(t) ==
  /\ pc[t] = "find"
  /\ IF \A a \in todo[t] : byAddr[a] = part[t]
     THEN /\ Goto(t, "push")
          /\ todo' = [todo EXCEPT ![t] = {}]
          /\ UNCHANGED <<fatal, cur, tgt, part, ev, wk, goal>>
     ELSE /\ Return(t)
          /\ fatal' = fatal \cup {"host"}
  /\ UNCHANGED <<semVars, gcVars, devVars>>

\* register_pending_event(event, false).
PushPartial(t) ==
  /\ pc[t] = "push"
  /\ pending' = [pending EXCEPT ![cur[t].s] = Append(@, part[t])]
  /\ part' = [part EXCEPT ![t] = Null]
  /\ Goto(t, "launched")
  /\ UNCHANGED <<semVars, devVars, fatal, gc, gcEv, partials, syncMut,
                 cur, tgt, todo, ev, wk, goal>>

\* add_producer(ids, stream, event): the map is updated under mut_ ...
AddProducer(t, e) ==
  /\ pc[t] = "launched"
  /\ Goto(t, "register")
  /\ NewEvent(e, cur[t].s, cur[t].reg \ {cur[t].ext}, FALSE, wk[t])
  /\ ev' = [ev EXCEPT ![t] = e]
  /\ UNCHANGED <<gcVars, fatal, done, cur, tgt, todo, part, wk, goal,
                 cmds, launched, executed, recorded, fired>>

\* Fault: the event is recorded and never queued.
RecordOnly(e, s) ==
  /\ cmds' = [cmds EXCEPT ![s] = Append(@, <<"record", e>>)]
  /\ recorded' = recorded \cup {e}
  /\ UNCHANGED pending

\* register_pending_event: record and push, under the stream's mutex.
RecordAndPush(e, s) ==
  /\ cmds' = [cmds EXCEPT ![s] = Append(@, <<"record", e>>)]
  /\ recorded' = recorded \cup {e}
  /\ pending' = [pending EXCEPT ![s] = Append(@, e)]

\* ... and only after mut_ is released is the event recorded and queued.
RegisterPending(t) ==
  /\ pc[t] = "register"
  /\ RecordAndPush(ev[t], cur[t].s)
  /\ Return(t)
  /\ UNCHANGED <<semVars, fatal, gc, gcEv, partials, syncMut,
                 launched, executed, fired, work>>

-----------------------------------------------------------------------------
(* Host threads: the other calls into the manager.                         *)

\* wait_until_done(address): look the event up, then wait for it unlocked.
LookupForWait(t, a) ==
  /\ "wait_until_done" \in Calls[t]
  /\ pc[t] = "idle"
  /\ byAddr[a] # Null
  /\ ev' = [ev EXCEPT ![t] = byAddr[a]]
  /\ Goto(t, "await")
  /\ UNCHANGED <<semVars, gcVars, devVars, fatal, cur, tgt, todo, part, wk,
                 goal>>

AwaitDone(t) ==
  /\ pc[t] = "await"
  /\ done[ev[t]]
  /\ Return(t)
  /\ UNCHANGED <<semVars, gcVars, devVars, fatal>>

\* get_wait_event: the caller makes stream s wait for the event later.
GetWaitEvent(t, a, s) ==
  /\ "get_wait_event" \in Calls[t]
  /\ pc[t] = "idle"
  /\ byAddr[a] # Null
  /\ Len(cmds[s]) < MaxCmds
  /\ ev' = [ev EXCEPT ![t] = byAddr[a]]
  /\ tgt' = [tgt EXCEPT ![t] = s]
  /\ Goto(t, "got")
  /\ UNCHANGED <<semVars, gcVars, devVars, fatal, cur, todo, part, wk, goal>>

\* record_and_wait_for_event: an event without addresses is registered on
\* stream r, then stream s is made to wait for it.
RecordAndWait(t, e, r, s) ==
  /\ "record_and_wait" \in Calls[t]
  /\ pc[t] = "idle"
  /\ RoomFor(0, 1)
  /\ NewEvent(e, r, {}, FALSE, 0)
  /\ RecordAndPush(e, r)
  /\ ev' = [ev EXCEPT ![t] = e]
  /\ tgt' = [tgt EXCEPT ![t] = s]
  /\ Goto(t, "got")
  /\ UNCHANGED <<fatal, done, gc, gcEv, partials, syncMut,
                 cur, todo, part, wk, goal, launched, executed, fired>>

StreamWaitGot(t) ==
  /\ pc[t] = "got"
  /\ StreamWait(ev[t], tgt[t])
  /\ Return(t)
  /\ UNCHANGED <<semVars, gcVars, fatal,
                 launched, executed, recorded, fired, work>>

\* The real events that are in the queue of a stream.
Queued(s) ==
  {e \in Events : ~partial[e] /\ \E i \in 1 .. Len(pending[s]) :
                                    pending[s][i] = e}

\* flush_stream_events: stream::flush on every stream, each of which may run
\* into its timeout, then is_flushed until it says so.  goal remembers what
\* was queued when a flush that has not timed out began.
BeginFlush(t) ==
  /\ "flush" \in Calls[t]
  /\ pc[t] = "idle"
  /\ todo' = [todo EXCEPT ![t] = Streams]
  /\ goal' = [goal EXCEPT ![t] = UNION {Queued(s) : s \in Streams}]
  /\ Goto(t, "flush")
  /\ UNCHANGED <<semVars, gcVars, devVars, fatal, cur, tgt, part, ev, wk>>

\* Fault: stream::flush does not wait for the queue to drain.
FlushAtOnce(t, s) ==
  /\ pc[t] = "flush"
  /\ s \in todo[t] \cap Streams
  /\ todo' = [todo EXCEPT ![t] = @ \ {s}]
  /\ UNCHANGED <<semVars, gcVars, devVars, fatal, pc, cur, tgt, part, ev, wk,
                 goal>>

FlushStream(t, s) ==
  /\ pc[t] = "flush"
  /\ s \in todo[t] \cap Streams
  /\ pending[s] = <<>>
  /\ todo' = [todo EXCEPT ![t] = @ \ {s}]
  /\ UNCHANGED <<semVars, gcVars, devVars, fatal, pc, cur, tgt, part, ev, wk,
                 goal>>

FlushTimesOut(t, s) ==
  /\ pc[t] = "flush"
  /\ s \in todo[t] \cap Streams
  /\ pending[s] # <<>>
  /\ todo' = [todo EXCEPT ![t] = @ \ {s}]
  /\ goal' = [goal EXCEPT ![t] = {}]
  /\ UNCHANGED <<semVars, gcVars, devVars, fatal, pc, cur, tgt, part, ev, wk>>

\* is_flushed returns TRUE; while it returns FALSE the thread polls.
IsFlushed(t) ==
  /\ pc[t] = "flush"
  /\ todo[t] = {}
  /\ syncMut = Null
  /\ \A a \in Addrs : byAddr[a] = Null
  /\ Return(t)
  /\ UNCHANGED <<semVars, gcVars, devVars, fatal>>

\* Fault: the empty event goes to the front of the queue.
DestroyAtFront ==
  /\ \A t \in Threads : pc[t] = "idle"
  /\ pc' = [t \in Threads |-> "exit"]
  /\ pending' = [s \in Streams |-> <<Null>> \o pending[s]]
  /\ UNCHANGED <<semVars, devVars, fatal, gc, gcEv, partials, syncMut,
                 cur, tgt, todo, part, ev, wk, goal>>

\* The destructors of the streams, once no thread uses them: the empty event
\* is queued and the GC thread is joined (it ends in GcTake).
DestroyStreams ==
  /\ \A t \in Threads : pc[t] = "idle"
  /\ pc' = [t \in Threads |-> "exit"]
  /\ pending' = [s \in Streams |-> Append(pending[s], Null)]
  /\ UNCHANGED <<semVars, devVars, fatal, gc, gcEv, partials, syncMut,
                 cur, tgt, todo, part, ev, wk, goal>>

-----------------------------------------------------------------------------
(* The GC thread of a stream: gc_thread_proc and synchronize_event.        *)

\* The entry handled last leaves the queue only now.
GcPop(s) ==
  /\ gc[s] = "pop"
  /\ pending' = [pending EXCEPT ![s] = Tail(@)]
  /\ gc' = [gc EXCEPT ![s] = "take"]
  /\ UNCHANGED <<semVars, hostVars, devVars, fatal, gcEv, partials, syncMut>>

\* Fault: a partial event is synchronized when it comes up, not put aside.
TakeAtOnce(s) ==
  /\ gc[s] = "take"
  /\ pending[s] # <<>>
  /\ IF Head(pending[s]) = Null
     THEN gc' = [gc EXCEPT ![s] = "exit"] /\ UNCHANGED gcEv
     ELSE /\ gcEv' = [gcEv EXCEPT ![s] = Head(pending[s])]
          /\ gc' = [gc EXCEPT ![s] = "sync"]
  /\ UNCHANGED <<semVars, hostVars, devVars, fatal, pending, partials, syncMut>>

\* Fault: the empty event is put aside like a partial one.
TakeEmptyAside(s) ==
  /\ gc[s] = "take"
  /\ pending[s] # <<>>
  /\ partials' = [partials EXCEPT ![s] = Append(@, Head(pending[s]))]
  /\ gc' = [gc EXCEPT ![s] = "pop"]
  /\ UNCHANGED <<semVars, hostVars, devVars, fatal, pending, gcEv, syncMut>>

\* The front entry: the empty event ends the thread, a partial event is put
\* aside, a real one is synchronized.
GcTake(s) ==
  /\ gc[s] = "take"
  /\ pending[s] # <<>>
  /\ LET e == Head(pending[s]) IN
     IF e = Null
     THEN gc' = [gc EXCEPT ![s] = "exit"] /\ UNCHANGED <<gcEv, partials>>
     ELSE IF partial[e]
     THEN /\ partials' = [partials EXCEPT ![s] = Append(@, e)]
          /\ gc' = [gc EXCEPT ![s] = "pop"]
          /\ UNCHANGED gcEv
     ELSE /\ gcEv' = [gcEv EXCEPT ![s] = e]
          /\ gc' = [gc EXCEPT ![s] = "sync"]
          /\ UNCHANGED partials
  /\ UNCHANGED <<semVars, hostVars, devVars, fatal, pending, syncMut>>

\* A FATAL in a GC thread is an exception nobody catches.
GcFatal(s) ==
  /\ gc' = [gc EXCEPT ![s] = "exit"]
  /\ fatal' = fatal \cup {"gc"}

\* event::synchronize: a partial event does not wait for the device.
GcSynchronize(s) ==
  /\ gc[s] = "sync"
  /\ IF done[gcEv[s]]
     THEN GcFatal(s)
     ELSE /\ partial[gcEv[s]] \/ gcEv[s] \in fired
          /\ gc' = [gc EXCEPT ![s] = "unmap"]
          /\ UNCHANGED fatal
  /\ UNCHANGED <<semVars, hostVars, devVars, pending, gcEv, partials, syncMut>>

\* Fault: the addresses are checked and stay in events_by_addr_.
CheckOnly(s) ==
  /\ gc[s] = "unmap"
  /\ syncMut = Null
  /\ IF \A a \in ptrs[gcEv[s]] : byAddr[a] = gcEv[s]
     THEN /\ syncMut' = s
          /\ gc' = [gc EXCEPT ![s] = "complete"]
          /\ UNCHANGED fatal
     ELSE GcFatal(s) /\ UNCHANGED syncMut
  /\ UNCHANGED <<hostVars, devVars, semVars, pending, gcEv, partials>>

\* sync_mut_ is taken; every address of the event must still map to it.
GcUnmap(s) ==
  /\ gc[s] = "unmap"
  /\ syncMut = Null
  /\ LET A == ptrs[gcEv[s]] IN
     IF \A a \in A : byAddr[a] = gcEv[s]
     THEN /\ byAddr' = MapTo(A, Null)
          /\ syncMut' = s
          /\ gc' = [gc EXCEPT ![s] = "complete"]
          /\ UNCHANGED fatal
     ELSE GcFatal(s) /\ UNCHANGED <<byAddr, syncMut>>
  /\ UNCHANGED <<hostVars, devVars, home, ptrs, partial, done,
                 pending, gcEv, partials>>

\* Fault: the partial events put aside are not drained.
CompleteOne(s) ==
  /\ gc[s] = "complete"
  /\ syncMut' = Null
  /\ done' = [done EXCEPT ![gcEv[s]] = TRUE]
  /\ gc' = [gc EXCEPT ![s] = "pop"]
  /\ gcEv' = [gcEv EXCEPT ![s] = Null]
  /\ UNCHANGED <<hostVars, devVars, byAddr, home, ptrs, partial, pending,
                 partials, fatal>>

\* event::complete: callback, handle, waiters; then sync_mut_ is released and
\* the next partial event, if any, is synchronized.
GcComplete(s) ==
  /\ gc[s] = "complete"
  /\ syncMut' = Null
  /\ IF done[gcEv[s]]
     THEN GcFatal(s) /\ UNCHANGED <<done, gcEv, partials>>
     ELSE /\ done' = [done EXCEPT ![gcEv[s]] = TRUE]
          /\ IF partials[s] = <<>>
             THEN /\ gc' = [gc EXCEPT ![s] = "pop"]
                  /\ gcEv' = [gcEv EXCEPT ![s] = Null]
                  /\ UNCHANGED partials
             ELSE /\ gc' = [gc EXCEPT ![s] = "sync"]
                  /\ gcEv' = [gcEv EXCEPT ![s] = Head(partials[s])]
                  /\ partials' = [partials EXCEPT ![s] = Tail(@)]
          /\ UNCHANGED fatal
  /\ UNCHANGED <<hostVars, devVars, byAddr, home, ptrs, partial, pending>>

-----------------------------------------------------------------------------
(* The device executes the commands of a stream in order (external).       *)

\* The recipe at the head of the stream signals an external tensor before it
\* ends.
DeviceSignal(s, e) ==
  /\ cmds[s] # <<>>
  /\ Head(cmds[s]) = <<"work", work[e]>>
  /\ partial[e]
  /\ fired' = fired \cup {e}
  /\ UNCHANGED <<semVars, gcVars, hostVars, fatal, cmds, launched, executed,
                 recorded, work>>

DeviceStep(s) ==
  /\ cmds[s] # <<>>
  /\ cmds' = [cmds EXCEPT ![s] = Tail(@)]
  /\ LET c == Head(cmds[s]) IN
     \/ /\ c[1] = "work"
        /\ executed' = executed \cup {c[2]}
        /\ fired' = fired \cup {e \in Events : partial[e] /\ work[e] = c[2]}
     \/ /\ c[1] = "record"
        /\ fired' = fired \cup {c[2]}
        /\ UNCHANGED executed
     \/ /\ c[1] = "wait"
        /\ c[2] \in fired
        /\ UNCHANGED <<executed, fired>>
  /\ UNCHANGED <<semVars, gcVars, hostVars, fatal, launched, recorded, work>>

-----------------------------------------------------------------------------

GcStep(s) ==
  \/ GcPop(s) \/ GcTake(s) \/ GcSynchronize(s) \/ GcUnmap(s) \/ GcComplete(s)

\* The steps of a thread that has a call in progress.
Continue(t) ==
  \/ \E a \in Addrs : EnqueueWait(t, a)
  \/ \E e \in Events : MapEventToTensor(t, e) \/ AddProducer(t, e)
  \/ Launch(t)
  \/ ReadPartialPtrs(t) \/ FindPartialPtrs(t) \/ PushPartial(t)
  \/ RegisterPending(t)
  \/ AwaitDone(t)
  \/ StreamWaitGot(t)
  \/ \E s \in Streams : FlushStream(t, s) \/ FlushTimesOut(t, s)
  \/ IsFlushed(t)

Begin(t) ==
  \/ \E o \in Ops : BeginOp(t, o)
  \/ LaunchFails(t)
  \/ \E a \in Addrs : LookupForWait(t, a)
  \/ \E a \in Addrs, s \in Streams : GetWaitEvent(t, a, s)
  \/ \E e \in Events, r \in Streams, s \in Streams : RecordAndWait(t, e, r, s)
  \/ BeginFlush(t)

\* Every GC thread has been joined.
Joined ==
  /\ \A s \in Streams : gc[s] = "exit"
  /\ UNCHANGED vars

Next ==
  \/ \E t \in Threads : Continue(t) \/ Begin(t)
  \/ \E s \in Streams : GcStep(s) \/ DeviceStep(s)
  \/ \E s \in Streams, e \in Events : DeviceSignal(s, e)
  \/ DestroyStreams
  \/ Joined

\* The host scheduler runs every thread, and the device makes progress.
Fairness ==
  /\ \A t \in Threads : WF_vars(Continue(t))
  /\ \A s \in Streams : WF_vars(GcStep(s)) /\ WF_vars(DeviceStep(s))

Spec == Init /\ [][Next]_vars

FairSpec == Spec /\ Fairness

-----------------------------------------------------------------------------
(* Properties *)

PCs == {"idle", "wait", "mapped", "launched", "check", "find", "push",
        "register", "await", "got", "flush", "exit"}

GCs == {"pop", "take", "sync", "unmap", "complete", "exit"}

\* The type of every variable.
TypeOK ==
  /\ byAddr \in [Addrs -> EvOrNull]
  /\ home \in [Events -> Streams \cup {Null}]
  /\ ptrs \in [Events -> SUBSET Addrs]
  /\ partial \in [Events -> BOOLEAN]
  /\ done \in [Events -> BOOLEAN]
  /\ pending \in [Streams -> Seq(EvOrNull)]
  /\ gc \in [Streams -> GCs]
  /\ gcEv \in [Streams -> EvOrNull]
  /\ partials \in [Streams -> Seq(Events)]
  /\ syncMut \in Streams \cup {Null}
  /\ pc \in [Threads -> PCs]
  /\ cur \in [Threads -> Ops \cup {Null}]
  /\ tgt \in [Threads -> Streams \cup {Null}]
  /\ todo \in [Threads -> SUBSET (Addrs \cup Streams)]
  /\ part \in [Threads -> EvOrNull]
  /\ ev \in [Threads -> EvOrNull]
  /\ wk \in [Threads -> Works]
  /\ goal \in [Threads -> SUBSET Events]
  /\ cmds \in [Streams -> Seq(Cmds)]
  /\ launched \in Seq(Ops)
  /\ Len(launched) <= MaxWork
  /\ executed \in SUBSET Works
  /\ recorded \in SUBSET Events
  /\ fired \in SUBSET Events
  /\ work \in [Events -> Works]
  /\ fatal \in SUBSET {"gc", "host"}

\* No GC thread ever reaches one of the FATALs of synchronize_event,
\* synchronize or complete, whatever the host threads displace and whenever
\* they do it: such an exception would terminate the process.
NoGcFatal == "gc" \notin fatal

\* add_producer(stream, event) never finds the partial event it registers
\* displaced from its address (the FATALs "Cannot find event registed for
\* address" and "Event does not match for address").
NoHostFatal == "host" \notin fatal

\* An event is completed - its callback frees tensors, wait_until_done
\* returns - only after the device has executed the work it stands for.
\* A partial event, which is never synchronized with the device itself, relies
\* on being queued before a real event that is recorded later.
DoneAfterExecuted == \A e \in Events : done[e] => work[e] \in executed

\* A stream whose GC thread has been joined has completed every event that
\* was registered on it: ~stream loses no callback and leaves no waiter.
NoEventLostAtExit ==
  \A s \in Streams :
    gc[s] = "exit" =>
      /\ \A e \in Events :
           home[e] = s /\ e \in recorded /\ ~partial[e] => done[e]
      /\ fatal = {} /\ ~MayFail => partials[s] = <<>>

\* flush_stream_events, when no stream::flush timed out, returns only after
\* every event queued before the call is complete, callback included.
FlushCompletes ==
  [][\A t \in Threads :
       pc[t] = "flush" /\ pc'[t] = "idle" => \A e \in goal[t] : done[e]]_vars

\* Every event that is created is completed some day.
EventuallyDone == \A e \in Events : home[e] # Null ~> done[e]

\* Every wait_until_done returns.
WaitReturns == \A t \in Threads : pc[t] = "await" ~> pc[t] # "await"

-----------------------------------------------------------------------------
(* The invariant behind NoGcFatal: where an event can be.                  *)

\* What a thread or a GC thread holds at each control point.
ControlOK ==
  /\ \A t \in Threads :
       /\ pc[t] \in {"wait", "mapped", "launched", "check", "find", "push",
                     "register"} => cur[t] \in Ops
       /\ IF pc[t] \in {"mapped", "check", "find", "push"}
          THEN part[t] \in Events ELSE part[t] = Null
       /\ pc[t] \in {"register", "await", "got"} => ev[t] \in Events
       /\ pc[t] = "got" => tgt[t] \in Streams
  /\ \A s \in Streams :
       /\ gc[s] \in {"sync", "unmap", "complete"} => gcEv[s] \in Events
       /\ gc[s] \in {"pop", "sync", "unmap", "complete"} =>
            pending[s] # <<>>

\* The GC thread of e's stream has unmapped e and not completed it yet.
Unmapped(e) == gc[home[e]] = "complete" /\ gcEv[home[e]] = e

Live(e) == home[e] # Null /\ ~done[e] /\ ~Unmapped(e)

\* events_by_addr_ and the device_ptrs_ of the events agree: an address maps
\* to an event exactly when the event, not yet unmapped, holds the address.
MapMatchesPtrs ==
  /\ \A a \in Addrs : byAddr[a] # Null =>
       Live(byAddr[a]) /\ a \in ptrs[byAddr[a]]
  /\ \A e \in Events : Live(e) => \A a \in ptrs[e] : byAddr[a] = e

\* The entries of the queue of s the GC thread has not looked at.
Unseen(s) ==
  {i \in 1 .. Len(pending[s]) : i > 1 \/ gc[s] = "take"}

QueueHomeOK(s) ==
  \A i \in 1 .. Len(pending[s]) :
    pending[s][i] # Null => home[pending[s][i]] = s

UnseenOK(s) ==
  \A i \in Unseen(s) : pending[s][i] # Null =>
    /\ ~done[pending[s][i]]
    /\ pending[s][i] # gcEv[s]
    /\ \A k \in 1 .. Len(partials[s]) : partials[s][k] # pending[s][i]
    /\ \A j \in Unseen(s) : pending[s][j] = pending[s][i] => i = j

PartialsOK(s) ==
  \A k \in 1 .. Len(partials[s]) :
    /\ home[partials[s][k]] = s
    /\ ~done[partials[s][k]]
    /\ partials[s][k] # gcEv[s]
    /\ \A m \in 1 .. Len(partials[s]) :
         partials[s][m] = partials[s][k] => m = k

InHandOK(s) ==
  gcEv[s] # Null =>
    /\ gc[s] \in {"sync", "unmap", "complete"}
    /\ home[gcEv[s]] = s
    /\ ~done[gcEv[s]]

\* Every event still to be synchronized is in one place of its own stream: an
\* unseen entry of the queue, the partial events put aside, or the hands of
\* the GC thread; and it is not done.
QueuesOK ==
  \A s \in Streams :
    QueueHomeOK(s) /\ UnseenOK(s) /\ PartialsOK(s) /\ InHandOK(s)

\* Event e was created by thread t and has not been queued by it.
Held(t, e) ==
  \/ pc[t] = "register" /\ ev[t] = e
  \/ pc[t] \in {"mapped", "check", "find", "push"} /\ part[t] = e

Nowhere(e) ==
  \A s \in Streams :
    /\ \A i \in 1 .. Len(pending[s]) : pending[s][i] # e
    /\ \A k \in 1 .. Len(partials[s]) : partials[s][k] # e
    /\ gcEv[s] # e

\* An event in the hands of the thread that created it is in no queue, and
\* in the hands of that thread only.
HeldOK ==
  \A t \in Threads, e \in Events :
    Held(t, e) =>
      /\ home[e] = cur[t].s
      /\ ~done[e]
      /\ Nowhere(e)
      /\ \A u \in Threads : Held(u, e) => u = t

FreshOK == \A e \in Events : home[e] = Null => ~done[e]

\* The device pointers of the live events partition what events_by_addr_
\* maps, and no event is in two hands: what synchronize_event asserts.
EventInv == MapMatchesPtrs /\ QueuesOK /\ HeldOK /\ FreshOK /\ NoGcFatal
=============================================================================
