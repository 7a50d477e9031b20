---------------------- MODULE StreamEventManager_proofs ----------------------
(***************************************************************************)
(* Proofs about StreamEventManager, for any numbers of streams, threads,   *)
(* addresses and events: the type invariant, and that no GC thread ever    *)
(* reaches a FATAL, from the invariant EventInv that says where an event   *)
(* can be.                                                                 *)
(***************************************************************************)
EXTENDS StreamEventManager, TLAPS

TypeInv == TypeOK /\ ControlOK

\* Appending to one of a family of queues.
LEMMA AppendAt ==
  ASSUME NEW S, NEW T, NEW f \in [S -> Seq(T)], NEW s \in S, NEW x \in T
  PROVE  /\ [f EXCEPT ![s] = Append(@, x)] \in [S -> Seq(T)]
         /\ [f EXCEPT ![s] = Append(@, x)][s] # <<>>
OBVIOUS

\* Removing the front of one of a family of queues.
LEMMA TailAt ==
  ASSUME NEW S, NEW T, NEW f \in [S -> Seq(T)], NEW s \in S, f[s] # <<>>
  PROVE  /\ [f EXCEPT ![s] = Tail(@)] \in [S -> Seq(T)]
         /\ Head(f[s]) \in T
OBVIOUS

\* A queue is not empty after an entry is appended.
LEMMA AppendNonEmpty ==
  ASSUME NEW T, NEW q \in Seq(T), NEW x \in T
  PROVE  Append(q, x) \in Seq(T) /\ Append(q, x) # <<>>
BY SMTT(30)

\* register_pending_event keeps the queues well formed.
LEMMA PushPending ==
  ASSUME pending \in [Streams -> Seq(EvOrNull)], NEW q \in Streams,
         NEW x \in EvOrNull, pending' = [pending EXCEPT ![q] = Append(@, x)]
  PROVE  /\ pending' \in [Streams -> Seq(EvOrNull)]
         /\ \A s \in Streams : pending[s] # <<>> => pending'[s] # <<>>
BY DEF EvOrNull

\* Enqueueing a command keeps the command queues well formed.
LEMMA PushCmd ==
  ASSUME cmds \in [Streams -> Seq(Cmds)], NEW q \in Streams,
         NEW x \in Cmds, cmds' = [cmds EXCEPT ![q] = Append(@, x)]
  PROVE  cmds' \in [Streams -> Seq(Cmds)]
OBVIOUS

USE ConstantAssumption DEF OpType, EvOrNull, PCs, GCs, Works

LEMMA TypeInvInit == Init => TypeInv
BY DEF Init, TypeInv, TypeOK, ControlOK

LEMMA TypeInvStep == TypeInv /\ [Next]_vars => TypeInv'
<1> SUFFICES ASSUME TypeInv, [Next]_vars PROVE TypeInv'
  OBVIOUS
<1> USE DEF TypeInv, TypeOK, ControlOK, semVars, gcVars, hostVars, devVars
<1>1. ASSUME NEW t \in Threads, NEW o \in Ops, BeginOp(t, o)
     PROVE  TypeInv'
  BY <1>1 DEF BeginOp, Goto
<1>2. ASSUME NEW t \in Threads, NEW a \in Addrs, EnqueueWait(t, a)
     PROVE  TypeInv'
  <2>1. byAddr[a] # Null => cmds' \in [Streams -> Seq(Cmds)]
    <3>1. byAddr[a] # Null => <<"wait", byAddr[a]>> \in Cmds
      BY <1>2 DEF EnqueueWait, Cmds
    <3>2. cur[t].s \in Streams
      BY <1>2 DEF EnqueueWait
    <3>3. QED
      BY <1>2, <3>1, <3>2, PushCmd DEF EnqueueWait, StreamWait
  <2>2. cmds' \in [Streams -> Seq(Cmds)]
    BY <1>2, <2>1 DEF EnqueueWait
  <2>3. QED
    BY <1>2, <2>2 DEF EnqueueWait
<1>3. ASSUME NEW t \in Threads, NEW e \in Events, MapEventToTensor(t, e)
     PROVE  TypeInv'
  <2>1. /\ byAddr' \in [Addrs -> EvOrNull] /\ ptrs' \in [Events -> SUBSET Addrs]
        /\ home' \in [Events -> Streams \cup {Null}]
        /\ partial' \in [Events -> BOOLEAN] /\ work' \in [Events -> Works]
    BY <1>3 DEF MapEventToTensor, NewEvent, MapTo, Displace
  <2>2. TypeOK'
    BY <1>3, <2>1 DEF MapEventToTensor, Goto
  <2>3. ControlOK'
    BY <1>3 DEF MapEventToTensor, Goto
  <2>4. QED
    BY <2>2, <2>3
<1>4. ASSUME NEW t \in Threads, Launch(t)
     PROVE  TypeInv'
  <2> DEFINE w == Len(launched) + 1
  <2>1. /\ w \in Works /\ cur[t] \in Ops /\ cur[t].s \in Streams
        /\ <<"work", w>> \in Cmds
    BY <1>4 DEF Launch, ReadyToLaunch, Cmds
  <2>2. cmds' \in [Streams -> Seq(Cmds)]
    BY <1>4, <2>1, AppendAt DEF Launch
  <2>3. launched' \in Seq(Ops) /\ Len(launched') <= MaxWork
    BY <1>4, <2>1 DEF Launch
  <2>4. wk' \in [Threads -> Works] /\ pc' \in [Threads -> PCs]
    BY <1>4, <2>1 DEF Launch, Goto
  <2>5. recorded' \in SUBSET Events /\ work' \in [Events -> Works]
    BY <1>4, <2>1 DEF Launch
  <2>6. TypeOK'
    BY <1>4, <2>2, <2>3, <2>4, <2>5 DEF Launch
  <2>7. ControlOK'
    BY <1>4, <2>1 DEF Launch, ReadyToLaunch, Goto
  <2>8. QED
    BY <2>6, <2>7
<1>5. ASSUME NEW t \in Threads, LaunchFails(t)
     PROVE  TypeInv'
  BY <1>5 DEF LaunchFails, ReadyToLaunch, Return, Goto
<1>6. ASSUME NEW t \in Threads, ReadPartialPtrs(t)
     PROVE  TypeInv'
  BY <1>6 DEF ReadPartialPtrs, Goto
<1>7. ASSUME NEW t \in Threads, FindPartialPtrs(t)
     PROVE  TypeInv'
  <2>1. CASE \A a \in todo[t] : byAddr[a] = part[t]
    <3>1. /\ pc' = [pc EXCEPT ![t] = "push"] /\ pc[t] = "find"
          /\ todo' = [todo EXCEPT ![t] = {}]
          /\ UNCHANGED <<semVars, gcVars, devVars, fatal, cur, tgt, part, ev,
                         wk, goal>>
      BY <1>7, <2>1 DEF FindPartialPtrs, Goto
    <3>2. QED
      BY <3>1
  <2>2. CASE ~ \A a \in todo[t] : byAddr[a] = part[t]
    <3>1. /\ Return(t) /\ UNCHANGED <<semVars, gcVars, devVars>>
          /\ fatal' = fatal \cup {"host"}
      BY <1>7, <2>2 DEF FindPartialPtrs
    <3>2. fatal' \in SUBSET {"gc", "host"}
      BY <3>1
    <3>3. TypeOK'
      BY <3>1, <3>2 DEF Return, Goto
    <3>4. ControlOK'
      BY <3>1 DEF Return, Goto
    <3>5. QED
      BY <3>3, <3>4
  <2>3. QED
    BY <2>1, <2>2
<1>8. ASSUME NEW t \in Threads, PushPartial(t)
     PROVE  TypeInv'
  <2>1. cur[t].s \in Streams /\ part[t] \in EvOrNull
    BY <1>8 DEF PushPartial
  <2>2. /\ pending' \in [Streams -> Seq(EvOrNull)]
        /\ \A s \in Streams : pending[s] # <<>> => pending'[s] # <<>>
    BY <1>8, <2>1, PushPending DEF PushPartial
  <2>3. TypeOK'
    BY <1>8, <2>2 DEF PushPartial, Goto
  <2>4. ControlOK'
    BY <1>8, <2>2 DEF PushPartial, Goto
  <2>5. QED
    BY <2>3, <2>4
<1>9. ASSUME NEW t \in Threads, NEW e \in Events, AddProducer(t, e)
     PROVE  TypeInv'
  BY <1>9 DEF AddProducer, NewEvent, MapTo, Displace, Goto
<1>10. ASSUME NEW t \in Threads, RegisterPending(t)
     PROVE  TypeInv'
  <2>1. /\ cur[t].s \in Streams /\ ev[t] \in Events
        /\ <<"record", ev[t]>> \in Cmds
    BY <1>10 DEF RegisterPending, Cmds
  <2>2. /\ pending' \in [Streams -> Seq(EvOrNull)]
        /\ \A s \in Streams : pending[s] # <<>> => pending'[s] # <<>>
    BY <1>10, <2>1, PushPending DEF RegisterPending, RecordAndPush
  <2>3. cmds' \in [Streams -> Seq(Cmds)]
    BY <1>10, <2>1, PushCmd DEF RegisterPending, RecordAndPush
  <2>4. recorded' \in SUBSET Events
    BY <1>10, <2>1 DEF RegisterPending, RecordAndPush
  <2>5. TypeOK'
    BY <1>10, <2>2, <2>3, <2>4, SMTT(30) DEF RegisterPending, Return, Goto
  <2>6. ControlOK'
    BY <1>10, <2>2 DEF RegisterPending, Return, Goto
  <2>7. QED
    BY <2>5, <2>6
<1>11. ASSUME NEW t \in Threads, NEW a \in Addrs, LookupForWait(t, a)
     PROVE  TypeInv'
  BY <1>11 DEF LookupForWait, Goto
<1>12. ASSUME NEW t \in Threads, AwaitDone(t)
     PROVE  TypeInv'
  BY <1>12 DEF AwaitDone, Return, Goto
<1>13. ASSUME NEW t \in Threads, NEW a \in Addrs, NEW s \in Streams, GetWaitEvent(t, a, s)
     PROVE  TypeInv'
  BY <1>13, SMTT(30) DEF GetWaitEvent, Goto
<1>14. ASSUME NEW t \in Threads, NEW e \in Events, NEW r \in Streams,
                  NEW s \in Streams, RecordAndWait(t, e, r, s)
     PROVE  TypeInv'
  <2>1. <<"record", e>> \in Cmds
    BY DEF Cmds
  <2>2. /\ pending' \in [Streams -> Seq(EvOrNull)]
        /\ \A q \in Streams : pending[q] # <<>> => pending'[q] # <<>>
    BY <1>14, PushPending DEF RecordAndWait, RecordAndPush
  <2>3. cmds' \in [Streams -> Seq(Cmds)]
    BY <1>14, <2>1, PushCmd DEF RecordAndWait, RecordAndPush
  <2>4. /\ byAddr' \in [Addrs -> EvOrNull] /\ ptrs' \in [Events -> SUBSET Addrs]
        /\ home' \in [Events -> Streams \cup {Null}]
        /\ partial' \in [Events -> BOOLEAN] /\ work' \in [Events -> Works]
    BY <1>14 DEF RecordAndWait, NewEvent, MapTo, Displace
  <2>5. recorded' \in SUBSET Events
    BY <1>14 DEF RecordAndWait, RecordAndPush
  <2>6. TypeOK'
    BY <1>14, <2>2, <2>3, <2>4, <2>5 DEF RecordAndWait, Goto
  <2>7. ControlOK'
    BY <1>14, <2>2 DEF RecordAndWait, Goto
  <2>8. QED
    BY <2>6, <2>7
<1>15. ASSUME NEW t \in Threads, StreamWaitGot(t)
     PROVE  TypeInv'
  <2>1. ev[t] # Null => cmds' \in [Streams -> Seq(Cmds)]
    <3>1. ev[t] # Null => <<"wait", ev[t]>> \in Cmds
      BY <1>15 DEF StreamWaitGot, Cmds
    <3>2. tgt[t] \in Streams
      BY <1>15 DEF StreamWaitGot
    <3>3. QED
      BY <1>15, <3>1, <3>2, PushCmd DEF StreamWaitGot, StreamWait
  <2>2. cmds' \in [Streams -> Seq(Cmds)]
    BY <1>15, <2>1 DEF StreamWaitGot
  <2>3. TypeOK'
    BY <1>15, <2>2, SMTT(30) DEF StreamWaitGot, Return, Goto
  <2>4. ControlOK'
    BY <1>15 DEF StreamWaitGot, Return, Goto
  <2>5. QED
    BY <2>3, <2>4
<1>16. ASSUME NEW t \in Threads, BeginFlush(t)
     PROVE  TypeInv'
  BY <1>16 DEF BeginFlush, Goto, Queued
<1>17. ASSUME NEW t \in Threads, NEW s \in Streams, FlushStream(t, s)
     PROVE  TypeInv'
  BY <1>17 DEF FlushStream
<1>18. ASSUME NEW t \in Threads, NEW s \in Streams, FlushTimesOut(t, s)
     PROVE  TypeInv'
  BY <1>18 DEF FlushTimesOut
<1>19. ASSUME NEW t \in Threads, IsFlushed(t)
     PROVE  TypeInv'
  BY <1>19 DEF IsFlushed, Return, Goto
<1>20. ASSUME DestroyStreams
     PROVE  TypeInv'
  <2>1. \A s \in Streams : /\ Append(pending[s], Null) \in Seq(EvOrNull)
                            /\ Append(pending[s], Null) # <<>>
    <3> SUFFICES ASSUME NEW s \in Streams
                 PROVE  /\ Append(pending[s], Null) \in Seq(EvOrNull)
                        /\ Append(pending[s], Null) # <<>>
      OBVIOUS
    <3>1. pending[s] \in Seq(EvOrNull) /\ Null \in EvOrNull
      OBVIOUS
    <3>2. QED
      BY <3>1, AppendNonEmpty
  <2>2. /\ pending' \in [Streams -> Seq(EvOrNull)]
        /\ \A s \in Streams : pending'[s] # <<>>
    BY <1>20, <2>1 DEF DestroyStreams
  <2>3. TypeOK'
    BY <1>20, <2>2 DEF DestroyStreams
  <2>4. ControlOK'
    BY <1>20, <2>2 DEF DestroyStreams
  <2>5. QED
    BY <2>3, <2>4
<1>21. ASSUME NEW s \in Streams, GcPop(s)
     PROVE  TypeInv'
  BY <1>21 DEF GcPop
<1>22. ASSUME NEW s \in Streams, GcTake(s)
     PROVE  TypeInv'
  <2> DEFINE e == Head(pending[s])
  <2>0. /\ gc[s] = "take" /\ pending[s] # <<>>
        /\ UNCHANGED <<semVars, hostVars, devVars, fatal, pending, syncMut>>
    BY <1>22 DEF GcTake
  <2>1. e \in EvOrNull
    BY <2>0, TailAt
  <2>2. CASE e = Null
    <3>1. gc' = [gc EXCEPT ![s] = "exit"] /\ UNCHANGED <<gcEv, partials>>
      BY <1>22, <2>2 DEF GcTake
    <3>2. QED
      BY <2>0, <3>1
  <2>3. CASE e # Null /\ partial[e]
    <3>1. /\ partials' = [partials EXCEPT ![s] = Append(@, e)]
          /\ gc' = [gc EXCEPT ![s] = "pop"] /\ gcEv' = gcEv
      BY <1>22, <2>3, Zenon DEF GcTake
    <3>2. partials' \in [Streams -> Seq(Events)]
      BY <2>1, <2>3, <3>1, AppendAt
    <3>3. QED
      BY <2>0, <3>1, <3>2
  <2>4. CASE e # Null /\ ~partial[e]
    <3>1. /\ gcEv' = [gcEv EXCEPT ![s] = e]
          /\ gc' = [gc EXCEPT ![s] = "sync"] /\ partials' = partials
      BY <1>22, <2>4, Zenon DEF GcTake
    <3>2. QED
      BY <2>0, <2>1, <2>4, <3>1
  <2>5. QED
    BY <2>2, <2>3, <2>4
<1>23. ASSUME NEW s \in Streams, GcSynchronize(s)
     PROVE  TypeInv'
  <2>1. /\ gc[s] = "sync"
        /\ UNCHANGED <<semVars, hostVars, devVars, pending, gcEv, partials,
                       syncMut>>
        /\ \/ gc' = [gc EXCEPT ![s] = "exit"] /\ fatal' = fatal \cup {"gc"}
           \/ gc' = [gc EXCEPT ![s] = "unmap"] /\ fatal' = fatal
    BY <1>23, Zenon DEF GcSynchronize, GcFatal
  <2>2. fatal' \in SUBSET {"gc", "host"}
    BY <2>1
  <2>3. TypeOK'
    <3>1. CASE gc' = [gc EXCEPT ![s] = "exit"]
      BY <2>1, <2>2, <3>1, SMTT(30)
    <3>2. CASE gc' = [gc EXCEPT ![s] = "unmap"]
      BY <2>1, <2>2, <3>2, SMTT(30)
    <3>3. QED
      BY <2>1, <3>1, <3>2, Zenon
  <2>4. ControlOK'
    BY <2>1
  <2>5. QED
    BY <2>3, <2>4
<1>24. ASSUME NEW s \in Streams, GcUnmap(s)
     PROVE  TypeInv'
  <2>1. byAddr' \in [Addrs -> EvOrNull] /\ syncMut' \in Streams \cup {Null}
    BY <1>24 DEF GcUnmap, MapTo
  <2>2. gc' \in [Streams -> GCs] /\ fatal' \in SUBSET {"gc", "host"}
    <3>1. \/ gc' = [gc EXCEPT ![s] = "exit"] /\ fatal' = fatal \cup {"gc"}
          \/ gc' = [gc EXCEPT ![s] = "complete"] /\ fatal' = fatal
      BY <1>24, Zenon DEF GcUnmap, GcFatal
    <3>2. QED
      BY <3>1
  <2>3. TypeOK'
    BY <1>24, <2>1, <2>2 DEF GcUnmap
  <2>4. ControlOK'
    BY <1>24 DEF GcUnmap, GcFatal
  <2>5. QED
    BY <2>3, <2>4
<1>25. ASSUME NEW s \in Streams, GcComplete(s)
     PROVE  TypeInv'
  <2>0. /\ gc[s] = "complete" /\ syncMut' = Null
        /\ UNCHANGED <<hostVars, devVars, byAddr, home, ptrs, partial, pending>>
    BY <1>25 DEF GcComplete
  <2>1. CASE done[gcEv[s]]
    <3>1. /\ gc' = [gc EXCEPT ![s] = "exit"] /\ fatal' = fatal \cup {"gc"}
          /\ UNCHANGED <<done, gcEv, partials>>
      BY <1>25, <2>1 DEF GcComplete, GcFatal
    <3>2. fatal' \in SUBSET {"gc", "host"}
      BY <3>1
    <3>3. QED
      BY <2>0, <3>1, <3>2
  <2>2. CASE ~done[gcEv[s]] /\ partials[s] = <<>>
    <3>1. /\ gc' = [gc EXCEPT ![s] = "pop"] /\ UNCHANGED <<partials, fatal>>
          /\ gcEv' = [gcEv EXCEPT ![s] = Null]
          /\ done' = [done EXCEPT ![gcEv[s]] = TRUE]
      BY <1>25, <2>2 DEF GcComplete
    <3>2. QED
      BY <2>0, <3>1
  <2>3. CASE ~done[gcEv[s]] /\ partials[s] # <<>>
    <3>1. /\ gc' = [gc EXCEPT ![s] = "sync"] /\ UNCHANGED fatal
          /\ gcEv' = [gcEv EXCEPT ![s] = Head(partials[s])]
          /\ partials' = [partials EXCEPT ![s] = Tail(@)]
          /\ done' = [done EXCEPT ![gcEv[s]] = TRUE]
      BY <1>25, <2>3 DEF GcComplete
    <3>2. /\ Head(partials[s]) \in Events
          /\ partials' \in [Streams -> Seq(Events)]
      BY <2>3, <3>1, TailAt
    <3>3. gcEv' \in [Streams -> EvOrNull]
      BY <3>1, <3>2
    <3>4. QED
      BY <2>0, <3>1, <3>2, <3>3
  <2>4. QED
    BY <2>1, <2>2, <2>3
<1>26. ASSUME NEW s \in Streams, DeviceStep(s)
     PROVE  TypeInv'
  <2> DEFINE c == Head(cmds[s])
  <2>1. c \in Cmds /\ cmds' \in [Streams -> Seq(Cmds)]
    BY <1>26, TailAt DEF DeviceStep
  <2>2. /\ c[1] = "work" => c[2] \in Works
        /\ c[1] = "record" => c[2] \in Events
    BY <2>1 DEF Cmds
  <2>3. executed' \in SUBSET Works /\ fired' \in SUBSET Events
    BY <1>26, <2>2 DEF DeviceStep
  <2>4. QED
    BY <1>26, <2>1, <2>3 DEF DeviceStep
<1>27. ASSUME NEW s \in Streams, NEW e \in Events, DeviceSignal(s, e)
     PROVE  TypeInv'
  BY <1>27 DEF DeviceSignal
<1>28. ASSUME UNCHANGED vars PROVE TypeInv'
  BY <1>28 DEF vars
<1>29. QED
  BY <1>1, <1>2, <1>3, <1>4, <1>5, <1>6, <1>7, <1>8, <1>9, <1>10, <1>11, <1>12, <1>13, <1>14, <1>15, <1>16, <1>17, <1>18, <1>19, <1>20, <1>21, <1>22, <1>23, <1>24, <1>25, <1>26, <1>27, <1>28
  DEF Next, Continue, Begin, GcStep, Joined

\* Every variable keeps its type, and every control point its operands.
THEOREM TypeCorrect == Spec => []TypeOK
<1>1. Spec => []TypeInv
  BY TypeInvInit, TypeInvStep, PTL DEF Spec
<1>2. TypeInv => TypeOK
  BY DEF TypeInv
<1>3. QED
  BY <1>1, <1>2, PTL

-----------------------------------------------------------------------------
(* EventInv is inductive.                                                  *)

LEMMA EventInvInit == Init => EventInv
BY DEF Init, EventInv, MapMatchesPtrs, Live, Unmapped, QueuesOK, QueueHomeOK,
       UnseenOK, Unseen, PartialsOK, InHandOK, HeldOK, Held, FreshOK, NoGcFatal

\* A step that leaves the events and the queues alone, and after which no
\* thread holds an event it did not hold before, preserves the invariant.
LEMMA FrameStep ==
  ASSUME TypeInv, EventInv, UNCHANGED <<semVars, pending, gc, gcEv, partials>>,
         "gc" \notin fatal',
         \A t \in Threads, e \in Events :
           Held(t, e)' => Held(t, e) /\ cur'[t] = cur[t]
  PROVE  EventInv'
<1>1. MapMatchesPtrs'
  BY DEF EventInv, MapMatchesPtrs, Live, Unmapped, semVars
<1>2. QueuesOK'
  BY DEF EventInv, QueuesOK, QueueHomeOK, UnseenOK, Unseen, PartialsOK,
         InHandOK, semVars
<1>3. HeldOK'
  <2> SUFFICES ASSUME NEW t \in Threads, NEW e \in Events, Held(t, e)'
               PROVE  /\ home'[e] = cur'[t].s
                      /\ ~done'[e]
                      /\ Nowhere(e)'
                      /\ \A u \in Threads : Held(u, e)' => u = t
    BY DEF HeldOK
  <2>1. Held(t, e) /\ cur'[t] = cur[t]
    OBVIOUS
  <2>2. /\ home[e] = cur[t].s /\ ~done[e] /\ Nowhere(e)
        /\ \A u \in Threads : Held(u, e) => u = t
    BY <2>1 DEF EventInv, HeldOK
  <2>3. Nowhere(e)'
    BY <2>2 DEF Nowhere
  <2>4. QED
    BY <2>1, <2>2, <2>3 DEF semVars
<1>4. FreshOK'
  BY DEF EventInv, FreshOK, semVars
<1>5. QED
  BY <1>1, <1>2, <1>3, <1>4 DEF EventInv, NoGcFatal

\* The step constructs event e on stream s.
Created(e, s) ==
  \E A \in SUBSET Addrs, b \in BOOLEAN, w \in Works : NewEvent(e, s, A, b, w)

\* The construction of an event on stream s: it takes its addresses over from
\* the events that held them.
LEMMA NewEventStep ==
  ASSUME TypeInv, EventInv, NEW e \in Events, NEW s \in Streams,
         Created(e, s), UNCHANGED <<done, gc, gcEv>>
  PROVE  /\ MapMatchesPtrs'
         /\ FreshOK'
         /\ home[e] = Null /\ home'[e] = s /\ ~done[e]
         /\ \A f \in Events : f # e => home'[f] = home[f]
         /\ Nowhere(e)
         /\ \A t \in Threads : ~Held(t, e)
<1> USE DEF TypeInv, TypeOK
<1>0. PICK A \in SUBSET Addrs, b \in BOOLEAN, w \in Works :
             NewEvent(e, s, A, b, w)
  BY Zenon DEF Created
<1>1. /\ home[e] = Null /\ home' = [home EXCEPT ![e] = s]
      /\ byAddr' = MapTo(A, e) /\ ptrs' = Displace(A, e)
  BY <1>0 DEF NewEvent
<1>2. ~done[e]
  BY <1>1 DEF EventInv, FreshOK
<1>3. FreshOK'
  BY <1>1 DEF EventInv, FreshOK
<1>4. \A q \in Streams : gcEv[q] # e
  <2> SUFFICES ASSUME NEW q \in Streams, gcEv[q] = e PROVE FALSE
    OBVIOUS
  <2>1. home[gcEv[q]] = q
    BY DEF EventInv, QueuesOK, InHandOK
  <2>2. QED
    BY <1>1, <2>1
<1>5. Nowhere(e)
  <2> SUFFICES ASSUME NEW q \in Streams
               PROVE  /\ \A i \in 1 .. Len(pending[q]) : pending[q][i] # e
                      /\ \A k \in 1 .. Len(partials[q]) : partials[q][k] # e
    BY <1>4 DEF Nowhere
  <2>1. /\ \A i \in 1 .. Len(pending[q]) :
             pending[q][i] # Null => home[pending[q][i]] = q
        /\ \A k \in 1 .. Len(partials[q]) : home[partials[q][k]] = q
    BY DEF EventInv, QueuesOK, QueueHomeOK, PartialsOK
  <2>2. QED
    BY <1>1, <2>1
<1>6. \A t \in Threads : ~Held(t, e)
  BY <1>1 DEF EventInv, HeldOK, ControlOK, Held
<1>7. \A f \in Events : f # e => (Live(f)' <=> Live(f))
  BY <1>1 DEF Live, Unmapped
<1>8. Live(e)'
  BY <1>1, <1>2, <1>4 DEF Live, Unmapped
<1>9. \A a \in Addrs : byAddr[a] # e
  BY <1>1 DEF EventInv, MapMatchesPtrs, Live
<1>10. MapMatchesPtrs'
  <2>1. ASSUME NEW a \in Addrs, byAddr'[a] # Null
        PROVE  Live(byAddr[a])' /\ a \in ptrs'[byAddr'[a]]
    <3>1. CASE a \in A
      <4>1. byAddr'[a] = e /\ a \in ptrs'[e]
        BY <1>1, <3>1 DEF MapTo, Displace
      <4>2. QED
        BY <1>8, <4>1
    <3>2. CASE a \notin A
      <4>1. byAddr'[a] = byAddr[a]
        BY <1>1, <3>2 DEF MapTo
      <4>2. Live(byAddr[a]) /\ a \in ptrs[byAddr[a]] /\ byAddr[a] # e
        BY <2>1, <4>1, <1>9 DEF EventInv, MapMatchesPtrs
      <4>3. a \in ptrs'[byAddr[a]]
        BY <1>1, <2>1, <3>2, <4>1, <4>2 DEF Displace
      <4>4. QED
        BY <1>7, <2>1, <4>1, <4>2, <4>3
    <3>3. QED
      BY <3>1, <3>2
  <2>2. ASSUME NEW f \in Events, Live(f)', NEW a \in ptrs'[f]
        PROVE  byAddr'[a] = f
    <3>1. CASE f = e
      BY <1>1, <2>2, <3>1 DEF MapTo, Displace
    <3>2. CASE f # e
      <4>1. a \in ptrs[f] /\ ~(a \in A /\ byAddr[a] = f)
        BY <1>1, <2>2, <3>2 DEF Displace
      <4>2. byAddr[a] = f
        BY <1>7, <2>2, <3>2, <4>1 DEF EventInv, MapMatchesPtrs
      <4>3. QED
        BY <1>1, <4>1, <4>2 DEF MapTo
    <3>3. QED
      BY <3>1, <3>2
  <2>3. QED
    BY <2>1, <2>2 DEF MapMatchesPtrs
<1>11. QED
  BY <1>1, <1>2, <1>3, <1>5, <1>6, <1>10

\* Events that are in a queue keep their place when others are created.
LEMMA QueuesFrame ==
  ASSUME TypeInv, EventInv, UNCHANGED <<done, pending, gc, gcEv, partials>>,
         \A f \in Events : home[f] # Null => home'[f] = home[f]
  PROVE  QueuesOK'
<1> USE DEF TypeInv, TypeOK
<1> SUFFICES ASSUME NEW s \in Streams
             PROVE  (QueueHomeOK(s) /\ UnseenOK(s) /\ PartialsOK(s)
                       /\ InHandOK(s))'
  BY DEF QueuesOK
<1>0. QueueHomeOK(s) /\ UnseenOK(s) /\ PartialsOK(s) /\ InHandOK(s)
  BY DEF EventInv, QueuesOK
<1>1. QueueHomeOK(s)'
  <2>1. \A i \in 1 .. Len(pending[s]) : pending[s][i] \in EvOrNull
    OBVIOUS
  <2>2. QED
    BY <1>0, <2>1 DEF QueueHomeOK
<1>2. UnseenOK(s)'
  BY <1>0 DEF UnseenOK, Unseen
<1>3. PartialsOK(s)'
  <2>1. \A k \in 1 .. Len(partials[s]) : partials[s][k] \in Events
    OBVIOUS
  <2>2. QED
    BY <1>0, <2>1 DEF PartialsOK
<1>4. InHandOK(s)'
  BY <1>0 DEF InHandOK
<1>5. QED
  BY <1>1, <1>2, <1>3, <1>4

\* An event that is in no queue is appended to the queue of its stream s.
LEMMA QueuesPush ==
  ASSUME TypeInv, EventInv, NEW e \in Events, NEW s \in Streams,
         home'[e] = s, ~done[e], Nowhere(e),
         pending' = [pending EXCEPT ![s] = Append(@, e)],
         UNCHANGED <<done, gc, gcEv, partials>>,
         \A f \in Events : home[f] # Null => home'[f] = home[f]
  PROVE  QueuesOK'
<1> USE DEF TypeInv, TypeOK
<1> SUFFICES ASSUME NEW q \in Streams
             PROVE  (QueueHomeOK(q) /\ UnseenOK(q) /\ PartialsOK(q)
                       /\ InHandOK(q))'
  BY DEF QueuesOK
<1>0. QueueHomeOK(q) /\ UnseenOK(q) /\ PartialsOK(q) /\ InHandOK(q)
  BY DEF EventInv, QueuesOK
<1>1. /\ \A k \in 1 .. Len(partials[q]) : partials[q][k] \in Events
      /\ \A i \in 1 .. Len(pending[q]) : pending[q][i] \in EvOrNull
  OBVIOUS
<1>2. PartialsOK(q)'
  BY <1>0, <1>1 DEF PartialsOK
<1>3. InHandOK(q)'
  BY <1>0 DEF InHandOK
<1>4. CASE q # s
  <2>1. pending'[q] = pending[q]
    BY <1>4
  <2>2. QueueHomeOK(q)'
    BY <1>0, <1>1, <2>1 DEF QueueHomeOK
  <2>3. UnseenOK(q)'
    BY <1>0, <2>1 DEF UnseenOK, Unseen
  <2>4. QED
    BY <1>2, <1>3, <2>2, <2>3
<1>5. CASE q = s
  <2> DEFINE n == Len(pending[q])
  <2>1. /\ n \in Nat /\ Len(pending'[q]) = n + 1 /\ pending'[q][n + 1] = e
        /\ \A i \in 1 .. n : pending'[q][i] = pending[q][i]
    BY <1>5
  <2>2. /\ \A i \in 1 .. n : pending[q][i] # e
        /\ \A k \in 1 .. Len(partials[q]) : partials[q][k] # e
        /\ gcEv[q] # e
    BY DEF Nowhere
  <2>3. QueueHomeOK(q)'
    BY <1>0, <1>1, <1>5, <2>1 DEF QueueHomeOK
  <2>4. \A j \in Unseen(q)' :
          /\ j \in 1 .. n + 1
          /\ j # n + 1 => /\ j \in Unseen(q) /\ j \in 1 .. n
                          /\ pending'[q][j] = pending[q][j]
    BY <2>1 DEF Unseen
  <2>5. UnseenOK(q)'
    <3> SUFFICES ASSUME NEW i \in Unseen(q)', pending'[q][i] # Null
                 PROVE  /\ ~done[pending'[q][i]]
                        /\ pending'[q][i] # gcEv[q]
                        /\ \A k \in 1 .. Len(partials[q]) :
                             partials[q][k] # pending'[q][i]
                        /\ \A j \in Unseen(q)' :
                             pending'[q][j] = pending'[q][i] => i = j
      BY DEF UnseenOK
    <3>1. CASE i = n + 1
      BY <2>1, <2>2, <2>4, <3>1
    <3>2. CASE i # n + 1
      <4>1. /\ i \in Unseen(q) /\ pending'[q][i] = pending[q][i]
            /\ pending[q][i] # e
        BY <2>2, <2>4, <3>2
      <4>2. /\ ~done[pending[q][i]] /\ pending[q][i] # gcEv[q]
            /\ \A k \in 1 .. Len(partials[q]) : partials[q][k] # pending[q][i]
            /\ \A j \in Unseen(q) : pending[q][j] = pending[q][i] => i = j
        BY <1>0, <4>1 DEF UnseenOK
      <4>3. QED
        BY <2>1, <2>4, <4>1, <4>2
    <3>3. QED
      BY <3>1, <3>2
  <2>6. QED
    BY <1>2, <1>3, <2>3, <2>5
<1>6. QED
  BY <1>4, <1>5

\* The events in the hands of threads stay there, except e, while e is put in
\* a queue: they are still in no queue.
LEMMA HeldPush ==
  ASSUME TypeInv, EventInv, NEW e \in Events, NEW s \in Streams,
         pending' = [pending EXCEPT ![s] = Append(@, e)],
         UNCHANGED <<done, gcEv, partials>>,
         \A f \in Events : f # e => home'[f] = home[f],
         \A u \in Threads, f \in Events :
           Held(u, f)' => Held(u, f) /\ f # e /\ cur'[u] = cur[u]
  PROVE  HeldOK'
<1> SUFFICES ASSUME NEW u \in Threads, NEW f \in Events, Held(u, f)'
             PROVE  /\ home'[f] = cur'[u].s
                    /\ ~done'[f]
                    /\ Nowhere(f)'
                    /\ \A v \in Threads : Held(v, f)' => v = u
  BY DEF HeldOK
<1>1. Held(u, f) /\ f # e /\ cur'[u] = cur[u]
  OBVIOUS
<1>2. /\ home[f] = cur[u].s /\ ~done[f] /\ Nowhere(f)
      /\ \A v \in Threads : Held(v, f) => v = u
  BY <1>1 DEF EventInv, HeldOK
<1>3. Nowhere(f)'
  <2> SUFFICES ASSUME NEW q \in Streams, NEW i \in 1 .. Len(pending'[q])
               PROVE  pending'[q][i] # f
    BY <1>2 DEF Nowhere
  <2>1. pending[q] \in Seq(EvOrNull)
    BY DEF TypeInv, TypeOK
  <2>2. \A j \in 1 .. Len(pending[q]) : pending[q][j] # f
    BY <1>2 DEF Nowhere
  <2>3. CASE q = s
    <3>1. pending'[q] = Append(pending[q], e)
      BY <2>3 DEF TypeInv, TypeOK
    <3>2. /\ i = Len(pending[q]) + 1 => pending'[q][i] = e
          /\ i # Len(pending[q]) + 1 =>
               i \in 1 .. Len(pending[q]) /\ pending'[q][i] = pending[q][i]
      BY <2>1, <3>1
    <3>3. QED
      BY <1>1, <2>2, <3>2
  <2>4. CASE q # s
    BY <2>2, <2>4 DEF TypeInv, TypeOK
  <2>5. QED
    BY <2>3, <2>4
<1>4. QED
  BY <1>1, <1>2, <1>3

\* A thread creates an event and keeps it in its hands.
LEMMA CreateStep ==
  ASSUME TypeInv, EventInv, NEW t \in Threads, NEW e \in Events,
         cur[t].s \in Streams,
         Created(e, cur[t].s),
         UNCHANGED <<done, pending, gc, gcEv, partials, cur, fatal>>,
         \A u \in Threads, f \in Events :
           Held(u, f)' => Held(u, f) \/ (u = t /\ f = e)
  PROVE  EventInv'
<1>1. /\ MapMatchesPtrs' /\ FreshOK'
      /\ home[e] = Null /\ home'[e] = cur[t].s /\ ~done[e]
      /\ \A f \in Events : f # e => home'[f] = home[f]
      /\ Nowhere(e)
      /\ \A u \in Threads : ~Held(u, e)
  BY NewEventStep
<1>2. QueuesOK'
  BY <1>1, QueuesFrame
<1>3. HeldOK'
  <2> SUFFICES ASSUME NEW u \in Threads, NEW f \in Events, Held(u, f)'
               PROVE  /\ home'[f] = cur'[u].s
                      /\ ~done'[f]
                      /\ Nowhere(f)'
                      /\ \A v \in Threads : Held(v, f)' => v = u
    BY DEF HeldOK
  <2>1. \A g \in Events : Nowhere(g) => Nowhere(g)'
    BY DEF Nowhere
  <2>2. CASE f = e
    BY <1>1, <2>1, <2>2
  <2>3. CASE f # e
    <3>1. Held(u, f)
      BY <2>3
    <3>2. /\ home[f] = cur[u].s /\ ~done[f] /\ Nowhere(f)
          /\ \A v \in Threads : Held(v, f) => v = u
      BY <3>1 DEF EventInv, HeldOK
    <3>3. QED
      BY <1>1, <2>1, <2>3, <3>2
  <2>4. QED
    BY <2>2, <2>3
<1>4. QED
  BY <1>1, <1>2, <1>3 DEF EventInv, NoGcFatal

\* A thread queues the event it has in its hands.
LEMMA PushStep ==
  ASSUME TypeInv, EventInv, NEW t \in Threads, NEW e \in Events,
         Held(t, e), cur[t].s \in Streams,
         pending' = [pending EXCEPT ![cur[t].s] = Append(@, e)],
         UNCHANGED <<semVars, gc, gcEv, partials, fatal>>,
         \A u \in Threads, f \in Events :
           Held(u, f)' => Held(u, f) /\ u # t /\ cur'[u] = cur[u]
  PROVE  EventInv'
<1>1. /\ home[e] = cur[t].s /\ ~done[e] /\ Nowhere(e)
      /\ \A u \in Threads : Held(u, e) => u = t
  BY DEF EventInv, HeldOK
<1>2. QueuesOK'
  BY <1>1, QueuesPush DEF semVars
<1>3. \A u \in Threads, f \in Events : Held(u, f)' => f # e
  BY <1>1
<1>4. HeldOK'
  BY <1>3, HeldPush DEF semVars
<1>5. MapMatchesPtrs' /\ FreshOK'
  BY DEF EventInv, MapMatchesPtrs, Live, Unmapped, FreshOK, semVars
<1>6. QED
  BY <1>2, <1>4, <1>5 DEF EventInv, NoGcFatal

-----------------------------------------------------------------------------
(* The steps of the GC threads.                                            *)

\* Nothing of stream q changes when the GC thread of another stream s works.
LEMMA OtherQueues ==
  ASSUME TypeInv, EventInv, NEW s \in Streams, NEW q \in Streams, q # s,
         pending'[q] = pending[q], gc'[q] = gc[q], gcEv'[q] = gcEv[q],
         partials'[q] = partials[q], home' = home,
         \A f \in Events : home[f] # s => done'[f] = done[f]
  PROVE  (QueueHomeOK(q) /\ UnseenOK(q) /\ PartialsOK(q) /\ InHandOK(q))'
<1>0. QueueHomeOK(q) /\ UnseenOK(q) /\ PartialsOK(q) /\ InHandOK(q)
  BY DEF EventInv, QueuesOK
<1>1. /\ \A k \in 1 .. Len(partials[q]) : partials[q][k] \in Events
      /\ \A i \in 1 .. Len(pending[q]) : pending[q][i] \in EvOrNull
      /\ gcEv[q] \in EvOrNull
  BY DEF TypeInv, TypeOK
<1>2. QueueHomeOK(q)'
  BY <1>0 DEF QueueHomeOK
<1>3. UnseenOK(q)'
  BY <1>0, <1>1 DEF QueueHomeOK, UnseenOK, Unseen
<1>4. PartialsOK(q)'
  BY <1>0, <1>1 DEF PartialsOK
<1>5. InHandOK(q)'
  BY <1>0, <1>1 DEF InHandOK
<1>6. QED
  BY <1>2, <1>3, <1>4, <1>5

\* A GC thread only moves events that are in its queues, so it does not
\* disturb the ones in the hands of host threads.
LEMMA HeldGc ==
  ASSUME TypeInv, EventInv, UNCHANGED <<home, hostVars>>,
         \A f \in Events : Nowhere(f) => Nowhere(f)' /\ done'[f] = done[f]
  PROVE  HeldOK'
<1> SUFFICES ASSUME NEW u \in Threads, NEW f \in Events, Held(u, f)'
             PROVE  /\ home'[f] = cur'[u].s
                    /\ ~done'[f]
                    /\ Nowhere(f)'
                    /\ \A v \in Threads : Held(v, f)' => v = u
  BY DEF HeldOK
<1>1. \A v \in Threads : Held(v, f)' <=> Held(v, f)
  BY DEF Held, hostVars
<1>2. /\ home[f] = cur[u].s /\ ~done[f] /\ Nowhere(f)
      /\ \A v \in Threads : Held(v, f) => v = u
  BY <1>1 DEF EventInv, HeldOK
<1>3. QED
  BY <1>1, <1>2 DEF hostVars

LEMMA GcPopStep ==
  ASSUME TypeInv, EventInv, NEW s \in Streams, GcPop(s)
  PROVE  EventInv'
<1> USE DEF TypeInv, TypeOK
<1>0. /\ gc[s] = "pop" /\ pending' = [pending EXCEPT ![s] = Tail(@)]
      /\ gc' = [gc EXCEPT ![s] = "take"]
      /\ UNCHANGED <<semVars, hostVars, fatal, gcEv, partials>>
  BY DEF GcPop
<1> DEFINE n == Len(pending[s])
<1>1. /\ pending[s] # <<>> /\ n \in Nat /\ Len(pending'[s]) = n - 1
      /\ \A i \in 1 .. n - 1 : pending'[s][i] = pending[s][i + 1]
  <2>1. pending[s] # <<>> /\ pending[s] \in Seq(EvOrNull)
    BY <1>0 DEF ControlOK
  <2>2. pending'[s] = Tail(pending[s])
    BY <1>0
  <2>3. QED
    BY <2>1, <2>2
<1>2. MapMatchesPtrs' /\ FreshOK'
  BY <1>0 DEF EventInv, MapMatchesPtrs, Live, Unmapped, FreshOK, semVars
<1>3. \A f \in Events : Nowhere(f) => Nowhere(f)'
  <2> SUFFICES ASSUME NEW f \in Events, Nowhere(f), NEW q \in Streams,
                      NEW i \in 1 .. Len(pending'[q])
               PROVE  pending'[q][i] # f
    BY <1>0 DEF Nowhere
  <2>1. CASE q = s
    <3>1. i \in 1 .. n - 1 /\ i + 1 \in 1 .. n
      BY <1>1, <2>1, SMTT(30)
    <3>2. pending'[s][i] = pending[s][i + 1]
      BY <1>1, <3>1
    <3>3. QED
      BY <2>1, <3>1, <3>2 DEF Nowhere
  <2>2. CASE q # s
    BY <1>0, <2>2 DEF Nowhere
  <2>3. QED
    BY <2>1, <2>2
<1>4. HeldOK'
  BY <1>0, <1>3, HeldGc DEF semVars
<1>5. ASSUME NEW q \in Streams, q # s
      PROVE (QueueHomeOK(q) /\ UnseenOK(q) /\ PartialsOK(q) /\ InHandOK(q))'
  BY <1>0, <1>5, OtherQueues DEF semVars
<1>6. QueueHomeOK(s) /\ UnseenOK(s) /\ PartialsOK(s) /\ InHandOK(s)
  BY DEF EventInv, QueuesOK
<1>7. (QueueHomeOK(s) /\ PartialsOK(s) /\ InHandOK(s))'
  <2>1. QueueHomeOK(s)'
    BY <1>0, <1>1, <1>6 DEF QueueHomeOK, semVars
  <2>2. PartialsOK(s)'
    BY <1>0, <1>6 DEF PartialsOK, semVars
  <2>3. InHandOK(s)'
    BY <1>0, <1>6 DEF InHandOK, semVars
  <2>4. QED
    BY <2>1, <2>2, <2>3
<1>8. UnseenOK(s)'
  <2>1. \A i \in Unseen(s)' : /\ i \in 1 .. n - 1 /\ i + 1 \in Unseen(s)
                               /\ pending'[s][i] = pending[s][i + 1]
    BY <1>1, SMTT(30) DEF Unseen
  <2>2. \A i, j \in Unseen(s)' : i + 1 = j + 1 => i = j
    BY <2>1
  <2>3. QED
    BY <1>0, <1>6, <2>1, <2>2 DEF UnseenOK, semVars
<1>9. QueuesOK'
  BY <1>5, <1>7, <1>8 DEF QueuesOK
<1>10. QED
  BY <1>0, <1>2, <1>4, <1>9 DEF EventInv, NoGcFatal

LEMMA GcTakeStep ==
  ASSUME TypeInv, EventInv, NEW s \in Streams, GcTake(s)
  PROVE  EventInv'
<1> USE DEF TypeInv, TypeOK
<1> DEFINE e == Head(pending[s])
<1>0. /\ gc[s] = "take" /\ pending[s] # <<>>
      /\ UNCHANGED <<semVars, hostVars, fatal, pending>>
  BY DEF GcTake
<1>1. /\ pending[s] \in Seq(EvOrNull) /\ e \in EvOrNull
      /\ 1 \in 1 .. Len(pending[s]) /\ pending[s][1] = e
      /\ 1 \in Unseen(s)
  BY <1>0 DEF Unseen
<1>2. QueueHomeOK(s) /\ UnseenOK(s) /\ PartialsOK(s) /\ InHandOK(s)
  BY DEF EventInv, QueuesOK
<1>3. gcEv[s] = Null
  BY <1>0, <1>2 DEF InHandOK
<1>4. e # Null =>
        /\ home[e] = s /\ ~done[e] /\ ~Nowhere(e)
        /\ \A k \in 1 .. Len(partials[s]) : partials[s][k] # e
        /\ \A i \in Unseen(s) : pending[s][i] = e => i = 1
  BY <1>1, <1>2 DEF QueueHomeOK, UnseenOK, Nowhere
<1>5. /\ \E g \in {"exit", "pop", "sync"} : gc' = [gc EXCEPT ![s] = g]
      /\ \A q \in Streams : q # s => /\ gcEv'[q] = gcEv[q]
                                     /\ partials'[q] = partials[q]
  <2>1. CASE e = Null
    <3>1. gc' = [gc EXCEPT ![s] = "exit"] /\ UNCHANGED <<gcEv, partials>>
      BY <2>1 DEF GcTake
    <3>2. QED
      BY <3>1
  <2>2. CASE e # Null /\ partial[e]
    <3>1. /\ gc' = [gc EXCEPT ![s] = "pop"] /\ gcEv' = gcEv
          /\ partials' = [partials EXCEPT ![s] = Append(@, e)]
      BY <2>2, Zenon DEF GcTake
    <3>2. QED
      BY <3>1
  <2>3. CASE e # Null /\ ~partial[e]
    <3>1. /\ gc' = [gc EXCEPT ![s] = "sync"] /\ partials' = partials
          /\ gcEv' = [gcEv EXCEPT ![s] = e]
      BY <2>3, Zenon DEF GcTake
    <3>2. QED
      BY <3>1
  <2>4. QED
    BY <2>1, <2>2, <2>3
<1>6. gc'[s] \in {"exit", "pop", "sync"}
      /\ \A q \in Streams : q # s => gc'[q] = gc[q]
  BY <1>5
<1>7. \A f \in Events : Live(f)' <=> Live(f)
  <2> SUFFICES ASSUME NEW f \in Events PROVE Live(f)' <=> Live(f)
    OBVIOUS
  <2>1. /\ home'[f] = home[f] /\ (home[f] \in Streams \/ home[f] = Null)
        /\ done'[f] = done[f]
    BY <1>0 DEF semVars
  <2>2. CASE home[f] = s
    BY <1>0, <1>6, <2>1, <2>2 DEF Live, Unmapped
  <2>3. CASE home[f] \in Streams /\ home[f] # s
    BY <1>5, <1>6, <2>1, <2>3 DEF Live, Unmapped
  <2>4. CASE home[f] = Null
    BY <2>1, <2>4 DEF Live
  <2>5. QED
    BY <2>1, <2>2, <2>3, <2>4
<1>8. MapMatchesPtrs' /\ FreshOK'
  BY <1>0, <1>7 DEF EventInv, MapMatchesPtrs, FreshOK, semVars
<1>9. ASSUME NEW q \in Streams, q # s
      PROVE (QueueHomeOK(q) /\ UnseenOK(q) /\ PartialsOK(q) /\ InHandOK(q))'
  BY <1>0, <1>5, <1>6, <1>9, OtherQueues DEF semVars
<1>10. QueueHomeOK(s)'
  BY <1>0, <1>2 DEF QueueHomeOK, semVars
<1>11. Unseen(s)' = Unseen(s) \ {1}
  BY <1>0, <1>1, <1>6 DEF Unseen
<1>12. /\ (UnseenOK(s) /\ PartialsOK(s) /\ InHandOK(s))'
       /\ \A f \in Events : Nowhere(f) => Nowhere(f)'
  <2>1. CASE e = Null
    <3>1. UNCHANGED <<gcEv, partials>>
      BY <2>1 DEF GcTake
    <3>2. UnseenOK(s)'
      BY <1>0, <1>2, <1>11, <3>1 DEF UnseenOK, semVars
    <3>3. PartialsOK(s)' /\ InHandOK(s)'
      BY <1>0, <1>2, <1>3, <3>1 DEF PartialsOK, InHandOK, semVars
    <3>4. \A f \in Events : Nowhere(f) => Nowhere(f)'
      BY <1>0, <3>1 DEF Nowhere
    <3>5. QED
      BY <3>2, <3>3, <3>4
  <2>2. CASE e # Null /\ partial[e]
    <3> DEFINE n == Len(partials[s])
    <3>1. /\ gcEv' = gcEv
          /\ partials' = [partials EXCEPT ![s] = Append(@, e)]
      BY <2>2, Zenon DEF GcTake
    <3>2. /\ n \in Nat /\ Len(partials'[s]) = n + 1
          /\ partials'[s][n + 1] = e
          /\ \A k \in 1 .. n : partials'[s][k] = partials[s][k]
      BY <1>1, <2>2, <3>1
    <3>3. UnseenOK(s)'
      BY <1>0, <1>1, <1>2, <1>4, <1>11, <2>2, <3>1, <3>2 DEF UnseenOK, semVars
    <3>4. InHandOK(s)'
      BY <1>3, <3>1 DEF InHandOK
    <3>5. PartialsOK(s)'
      BY <1>0, <1>2, <1>3, <1>4, <2>2, <3>1, <3>2 DEF PartialsOK, semVars
    <3>6. ASSUME NEW f \in Events, Nowhere(f) PROVE Nowhere(f)'
      <4>1. f # e
        BY <1>4, <2>2, <3>6
      <4>2. ASSUME NEW k \in 1 .. Len(partials'[s])
            PROVE  partials'[s][k] # f
        <5>1. k = n + 1 \/ k \in 1 .. n
          BY <3>2
        <5>2. \A m \in 1 .. n : partials[s][m] # f
          BY <3>6 DEF Nowhere
        <5>3. QED
          BY <3>2, <4>1, <5>1, <5>2
      <4>3. ASSUME NEW q \in Streams, NEW k \in 1 .. Len(partials'[q])
            PROVE  partials'[q][k] # f
        <5>1. CASE q = s
          BY <4>2, <5>1
        <5>2. CASE q # s
          <6>1. partials'[q] = partials[q]
            BY <1>5, <5>2
          <6>2. QED
            BY <3>6, <6>1 DEF Nowhere
        <5>3. QED
          BY <5>1, <5>2
      <4>4. QED
        BY <1>0, <3>1, <3>6, <4>3 DEF Nowhere
    <3>7. QED
      BY <3>3, <3>4, <3>5, <3>6
  <2>3. CASE e # Null /\ ~partial[e]
    <3>1. /\ gc' = [gc EXCEPT ![s] = "sync"] /\ partials' = partials
          /\ gcEv' = [gcEv EXCEPT ![s] = e]
      BY <2>3, Zenon DEF GcTake
    <3>2. UnseenOK(s)'
      BY <1>0, <1>2, <1>4, <1>11, <2>3, <3>1 DEF UnseenOK, semVars
    <3>3. PartialsOK(s)'
      BY <1>0, <1>2, <1>4, <2>3, <3>1, SMTT(30) DEF PartialsOK, semVars
    <3>4. InHandOK(s)'
      BY <1>0, <1>4, <2>3, <3>1 DEF InHandOK, semVars
    <3>5. ASSUME NEW f \in Events, Nowhere(f) PROVE Nowhere(f)'
      <4>1. f # e
        BY <1>4, <2>3, <3>5
      <4>2. QED
        BY <1>0, <3>1, <3>5, <4>1 DEF Nowhere
    <3>6. QED
      BY <3>2, <3>3, <3>4, <3>5
  <2>4. QED
    BY <2>1, <2>2, <2>3
<1>13. HeldOK'
  BY <1>0, <1>12, HeldGc DEF semVars
<1>14. QueuesOK'
  BY <1>9, <1>10, <1>12 DEF QueuesOK
<1>15. QED
  BY <1>0, <1>8, <1>13, <1>14 DEF EventInv, NoGcFatal

LEMMA GcSynchronizeStep ==
  ASSUME TypeInv, EventInv, NEW s \in Streams, GcSynchronize(s)
  PROVE  EventInv'
<1> USE DEF TypeInv, TypeOK
<1>1. gcEv[s] \in Events /\ InHandOK(s) /\ gc[s] = "sync"
  BY DEF GcSynchronize, ControlOK, EventInv, QueuesOK
<1>2. ~done[gcEv[s]]
  BY <1>1 DEF InHandOK
<1>3. /\ gc' = [gc EXCEPT ![s] = "unmap"]
      /\ UNCHANGED <<semVars, hostVars, pending, gcEv, partials, fatal>>
  BY <1>2 DEF GcSynchronize
<1>4. MapMatchesPtrs' /\ FreshOK'
  BY <1>1, <1>3 DEF EventInv, MapMatchesPtrs, Live, Unmapped, FreshOK, semVars
<1>5. ASSUME NEW q \in Streams
      PROVE (QueueHomeOK(q) /\ UnseenOK(q) /\ PartialsOK(q) /\ InHandOK(q))'
  <2>1. QueueHomeOK(q) /\ UnseenOK(q) /\ PartialsOK(q) /\ InHandOK(q)
    BY DEF EventInv, QueuesOK
  <2>2. Unseen(q)' = Unseen(q)
    BY <1>1, <1>3 DEF Unseen
  <2>3. UnseenOK(q)' /\ QueueHomeOK(q)'
    BY <1>3, <2>1, <2>2 DEF UnseenOK, QueueHomeOK, semVars
  <2>4. PartialsOK(q)' /\ InHandOK(q)'
    BY <1>1, <1>3, <2>1 DEF PartialsOK, InHandOK, semVars
  <2>5. QED
    BY <2>3, <2>4
<1>6. HeldOK'
  <2>1. \A f \in Events : Nowhere(f) => Nowhere(f)'
    BY <1>3 DEF Nowhere
  <2>2. QED
    BY <1>3, <2>1, HeldGc DEF semVars
<1>7. QED
  BY <1>3, <1>4, <1>5, <1>6 DEF EventInv, QueuesOK, NoGcFatal

\* Every address of the event in the hands of the GC thread still maps to it,
\* whoever displaced it from others, so synchronize_event's checks hold.
LEMMA GcUnmapStep ==
  ASSUME TypeInv, EventInv, NEW s \in Streams, GcUnmap(s)
  PROVE  EventInv'
<1> USE DEF TypeInv, TypeOK
<1> DEFINE e == gcEv[s]
<1>1. e \in Events /\ InHandOK(s) /\ gc[s] = "unmap"
  BY DEF GcUnmap, ControlOK, EventInv, QueuesOK
<1>2. ~done[e] /\ home[e] = s /\ Live(e)
  BY <1>1 DEF InHandOK, Live, Unmapped
<1>3. \A a \in ptrs[e] : byAddr[a] = e
  BY <1>1, <1>2 DEF EventInv, MapMatchesPtrs
<1>4. /\ byAddr' = MapTo(ptrs[e], Null) /\ gc' = [gc EXCEPT ![s] = "complete"]
      /\ UNCHANGED <<hostVars, home, ptrs, partial, done, pending, gcEv,
                     partials, fatal>>
  BY <1>3 DEF GcUnmap
<1>5. \A f \in Events : Live(f)' <=> (Live(f) /\ f # e)
  <2> SUFFICES ASSUME NEW f \in Events PROVE Live(f)' <=> (Live(f) /\ f # e)
    OBVIOUS
  <2>1. CASE home[f] = s
    BY <1>1, <1>2, <1>4, <2>1 DEF Live, Unmapped
  <2>2. CASE home[f] # s
    BY <1>2, <1>4, <2>2 DEF Live, Unmapped
  <2>3. QED
    BY <2>1, <2>2
<1>6. MapMatchesPtrs'
  <2>1. ASSUME NEW a \in Addrs, byAddr'[a] # Null
        PROVE  Live(byAddr[a])' /\ a \in ptrs'[byAddr'[a]]
    <3>1. byAddr'[a] = byAddr[a] /\ a \notin ptrs[e]
      BY <1>4, <2>1 DEF MapTo
    <3>2. Live(byAddr[a]) /\ a \in ptrs[byAddr[a]] /\ byAddr[a] \in Events
      BY <2>1, <3>1 DEF EventInv, MapMatchesPtrs
    <3>3. QED
      BY <1>4, <1>5, <3>1, <3>2
  <2>2. ASSUME NEW f \in Events, Live(f)', NEW a \in ptrs'[f]
        PROVE  byAddr'[a] = f
    <3>1. Live(f) /\ f # e /\ a \in ptrs[f] /\ a \in Addrs
      BY <1>4, <1>5, <2>2
    <3>2. byAddr[a] = f
      BY <3>1 DEF EventInv, MapMatchesPtrs
    <3>3. a \notin ptrs[e]
      BY <1>3, <3>1, <3>2
    <3>4. QED
      BY <1>4, <3>1, <3>2, <3>3 DEF MapTo
  <2>3. QED
    BY <2>1, <2>2 DEF MapMatchesPtrs
<1>7. ASSUME NEW q \in Streams
      PROVE (QueueHomeOK(q) /\ UnseenOK(q) /\ PartialsOK(q) /\ InHandOK(q))'
  <2>1. QueueHomeOK(q) /\ UnseenOK(q) /\ PartialsOK(q) /\ InHandOK(q)
    BY DEF EventInv, QueuesOK
  <2>2. Unseen(q)' = Unseen(q)
    BY <1>1, <1>4 DEF Unseen
  <2>3. UnseenOK(q)' /\ QueueHomeOK(q)'
    BY <1>4, <2>1, <2>2 DEF UnseenOK, QueueHomeOK
  <2>4. PartialsOK(q)' /\ InHandOK(q)'
    BY <1>1, <1>4, <2>1 DEF PartialsOK, InHandOK
  <2>5. QED
    BY <2>3, <2>4
<1>8. HeldOK'
  <2>1. \A f \in Events : Nowhere(f) => Nowhere(f)'
    BY <1>4 DEF Nowhere
  <2>2. QED
    BY <1>4, <2>1, HeldGc
<1>9. QED
  BY <1>4, <1>6, <1>7, <1>8 DEF EventInv, QueuesOK, FreshOK, NoGcFatal

LEMMA GcCompleteStep ==
  ASSUME TypeInv, EventInv, NEW s \in Streams, GcComplete(s)
  PROVE  EventInv'
<1> USE DEF TypeInv, TypeOK
<1> DEFINE e == gcEv[s]
<1>1. e \in Events /\ gc[s] = "complete"
  BY DEF GcComplete, ControlOK
<1>2. QueueHomeOK(s) /\ UnseenOK(s) /\ PartialsOK(s) /\ InHandOK(s)
  BY DEF EventInv, QueuesOK
<1>3. ~done[e] /\ home[e] = s
  BY <1>1, <1>2 DEF InHandOK
<1>4. /\ done' = [done EXCEPT ![e] = TRUE]
      /\ UNCHANGED <<hostVars, byAddr, home, ptrs, partial, pending, fatal>>
  BY <1>3 DEF GcComplete
<1> DEFINE p == partials[s]
<1>5. p \in Seq(Events)
  OBVIOUS
<1>6. /\ gc'[s] \in {"pop", "sync"}
      /\ \A q \in Streams : q # s => /\ gc'[q] = gc[q] /\ gcEv'[q] = gcEv[q]
                                     /\ partials'[q] = partials[q]
      /\ (UnseenOK(s) /\ PartialsOK(s) /\ InHandOK(s))'
      /\ \A f \in Events : Nowhere(f) => Nowhere(f)'
  <2>1. CASE p = <<>>
    <3>1. /\ gc' = [gc EXCEPT ![s] = "pop"] /\ partials' = partials
          /\ gcEv' = [gcEv EXCEPT ![s] = Null]
      BY <1>3, <2>1 DEF GcComplete
    <3>2. gc'[s] = "pop" /\ gcEv'[s] = Null
      BY <3>1
    <3>3. \A q \in Streams : q # s => gc'[q] = gc[q] /\ gcEv'[q] = gcEv[q]
      BY <3>1
    <3>4. Unseen(s)' = Unseen(s)
      BY <1>1, <1>4, <3>2 DEF Unseen
    <3>5. UnseenOK(s)'
      BY <1>2, <1>4, <3>1, <3>2, <3>4 DEF UnseenOK
    <3>6. PartialsOK(s)'
      BY <2>1, <3>1 DEF PartialsOK
    <3>7. InHandOK(s)'
      BY <3>2 DEF InHandOK
    <3>8. \A f \in Events : Nowhere(f) => Nowhere(f)'
      BY <1>4, <3>1 DEF Nowhere
    <3>9. QED
      BY <3>1, <3>2, <3>3, <3>5, <3>6, <3>7, <3>8
  <2>2. CASE p # <<>>
    <3>1. /\ gc' = [gc EXCEPT ![s] = "sync"]
          /\ gcEv' = [gcEv EXCEPT ![s] = Head(p)]
          /\ partials' = [partials EXCEPT ![s] = Tail(@)]
      BY <1>3, <2>2 DEF GcComplete
    <3>2. /\ gc'[s] = "sync" /\ gcEv'[s] = Head(p) /\ partials'[s] = Tail(p)
          /\ \A q \in Streams : q # s => /\ gc'[q] = gc[q]
                                         /\ gcEv'[q] = gcEv[q]
                                         /\ partials'[q] = partials[q]
      BY <3>1
    <3>3. /\ 1 \in 1 .. Len(p) /\ p[1] = Head(p) /\ Head(p) \in Events
          /\ Len(Tail(p)) = Len(p) - 1 /\ Len(p) \in Nat
          /\ \A k \in 1 .. Len(p) - 1 : Tail(p)[k] = p[k + 1]
      BY <1>5, <2>2
    <3>4. \A k \in 1 .. Len(Tail(p)) :
            k + 1 \in 1 .. Len(p) /\ k + 1 # 1 /\ Tail(p)[k] = p[k + 1]
      BY <3>3, SMTT(30)
    <3>5. Unseen(s)' = Unseen(s)
      BY <1>1, <1>4, <3>2 DEF Unseen
    <3>6. UnseenOK(s)'
      <4> SUFFICES ASSUME NEW i \in Unseen(s), pending[s][i] # Null
                   PROVE  /\ ~done'[pending[s][i]]
                          /\ pending[s][i] # Head(p)
                          /\ \A k \in 1 .. Len(Tail(p)) :
                               Tail(p)[k] # pending[s][i]
                          /\ \A j \in Unseen(s) :
                               pending[s][j] = pending[s][i] => i = j
        BY <1>4, <3>2, <3>5 DEF UnseenOK
      <4>1. /\ ~done[pending[s][i]] /\ pending[s][i] # e
            /\ \A k \in 1 .. Len(p) : p[k] # pending[s][i]
            /\ \A j \in Unseen(s) : pending[s][j] = pending[s][i] => i = j
        BY <1>2 DEF UnseenOK
      <4>2. pending[s][i] \in Events
        BY DEF Unseen
      <4>3. ~done'[pending[s][i]]
        BY <1>4, <4>1, <4>2
      <4>4. QED
        BY <3>3, <3>4, <4>1, <4>3
    <3>7. \A k \in 1 .. Len(p) :
            /\ p[k] \in Events /\ home[p[k]] = s /\ ~done'[p[k]] /\ p[k] # e
            /\ \A m \in 1 .. Len(p) : p[m] = p[k] => m = k
      <4>1. \A k \in 1 .. Len(p) :
              /\ home[p[k]] = s /\ ~done[p[k]] /\ p[k] # e
              /\ \A m \in 1 .. Len(p) : p[m] = p[k] => m = k
        BY <1>2 DEF PartialsOK
      <4>2. \A k \in 1 .. Len(p) : p[k] \in Events
        BY <1>5
      <4>3. \A k \in 1 .. Len(p) : ~done'[p[k]]
        BY <1>4, <4>1, <4>2
      <4>4. QED
        BY <4>1, <4>2, <4>3
    <3>8. PartialsOK(s)'
      <4>1. \A k \in 1 .. Len(Tail(p)) :
              /\ home[Tail(p)[k]] = s /\ ~done'[Tail(p)[k]]
              /\ Tail(p)[k] # Head(p)
        <5> SUFFICES ASSUME NEW k \in 1 .. Len(Tail(p))
                     PROVE  /\ home[Tail(p)[k]] = s /\ ~done'[Tail(p)[k]]
                            /\ Tail(p)[k] # Head(p)
          OBVIOUS
        <5>1. k + 1 \in 1 .. Len(p) /\ k + 1 # 1 /\ Tail(p)[k] = p[k + 1]
          BY <3>4
        <5>2. p[k + 1] # p[1]
          BY <3>3, <3>7, <5>1
        <5>3. QED
          BY <3>3, <3>7, <5>1, <5>2
      <4>2. \A k, m \in 1 .. Len(Tail(p)) : Tail(p)[m] = Tail(p)[k] => m = k
        BY <3>4, <3>7, SMTT(30)
      <4>3. QED
        BY <1>4, <3>2, <4>1, <4>2 DEF PartialsOK
    <3>9. InHandOK(s)'
      <4>1. home[p[1]] = s /\ ~done'[p[1]]
        <5> HIDE DEF p
        <5>1. 1 \in 1 .. Len(p)
          BY <3>3
        <5>2. QED
          BY <3>7, <5>1
      <4>2. QED
        BY <1>4, <3>2, <3>3, <4>1 DEF InHandOK
    <3>10. ASSUME NEW f \in Events, Nowhere(f) PROVE Nowhere(f)'
      <4>1. \A k \in 1 .. Len(p) : p[k] # f
        BY <3>10 DEF Nowhere
      <4>2. Head(p) # f /\ \A k \in 1 .. Len(Tail(p)) : Tail(p)[k] # f
        BY <3>3, <3>4, <4>1
      <4>3. \A q \in Streams :
              /\ \A k \in 1 .. Len(partials'[q]) : partials'[q][k] # f
              /\ gcEv'[q] # f
        <5> SUFFICES ASSUME NEW q \in Streams
                     PROVE  /\ \A k \in 1 .. Len(partials'[q]) :
                                  partials'[q][k] # f
                            /\ gcEv'[q] # f
          OBVIOUS
        <5>1. CASE q = s
          BY <3>2, <4>2, <5>1
        <5>2. CASE q # s
          BY <3>2, <3>10, <5>2, SMTT(30) DEF Nowhere
        <5>3. QED
          BY <5>1, <5>2
      <4>4. QED
        BY <1>4, <3>10, <4>3 DEF Nowhere
    <3>11. QED
      BY <3>2, <3>6, <3>8, <3>9, <3>10
  <2>3. QED
    BY <2>1, <2>2
<1>7. \A f \in Events : Live(f)' <=> Live(f)
  <2> SUFFICES ASSUME NEW f \in Events PROVE Live(f)' <=> Live(f)
    OBVIOUS
  <2>1. CASE f = e
    BY <1>1, <1>3, <1>4, <2>1 DEF Live, Unmapped
  <2>2. CASE f # e
    <3>1. done'[f] = done[f] /\ home'[f] = home[f]
      BY <1>4, <2>2
    <3>2. CASE home[f] = s
      BY <1>6, <2>2, <3>1, <3>2 DEF Live, Unmapped
    <3>3. CASE home[f] = Null
      BY <3>1, <3>3 DEF Live
    <3>4. CASE home[f] \in Streams /\ home[f] # s
      BY <1>6, <3>1, <3>4 DEF Live, Unmapped
    <3>5. QED
      BY <3>2, <3>3, <3>4
  <2>3. QED
    BY <2>1, <2>2
<1>8. MapMatchesPtrs'
  BY <1>4, <1>7 DEF EventInv, MapMatchesPtrs
<1>9. FreshOK'
  BY <1>3, <1>4 DEF EventInv, FreshOK
<1>10. ASSUME NEW q \in Streams, q # s
       PROVE (QueueHomeOK(q) /\ UnseenOK(q) /\ PartialsOK(q) /\ InHandOK(q))'
  <2>1. \A f \in Events : home[f] # s => done'[f] = done[f]
    BY <1>3, <1>4
  <2>2. pending'[q] = pending[q] /\ home' = home
    BY <1>4
  <2>3. QED
    BY <1>6, <1>10, <2>1, <2>2, OtherQueues
<1>11. QueueHomeOK(s)'
  BY <1>2, <1>4 DEF QueueHomeOK
<1>12. QueuesOK'
  BY <1>6, <1>10, <1>11 DEF QueuesOK
<1>13. HeldOK'
  <2>1. ~Nowhere(e)
    BY DEF Nowhere
  <2>2. \A f \in Events : Nowhere(f) => done'[f] = done[f]
    BY <1>4, <2>1
  <2>3. QED
    BY <1>4, <1>6, <2>2, HeldGc
<1>14. QED
  BY <1>4, <1>8, <1>9, <1>12, <1>13 DEF EventInv, NoGcFatal

\* ~stream queues the empty event on every stream.
LEMMA DestroyStreamsStep ==
  ASSUME TypeInv, EventInv, DestroyStreams
  PROVE  EventInv'
<1> USE DEF TypeInv, TypeOK
<1>1. /\ pc' = [t \in Threads |-> "exit"]
      /\ pending' = [s \in Streams |-> Append(pending[s], Null)]
      /\ UNCHANGED <<semVars, fatal, gc, gcEv, partials>>
  BY DEF DestroyStreams
<1>2. MapMatchesPtrs' /\ FreshOK'
  BY <1>1 DEF EventInv, MapMatchesPtrs, Live, Unmapped, FreshOK, semVars
<1>3. HeldOK'
  BY <1>1 DEF HeldOK, Held
<1>4. ASSUME NEW q \in Streams
      PROVE (QueueHomeOK(q) /\ UnseenOK(q) /\ PartialsOK(q) /\ InHandOK(q))'
  <2> DEFINE n == Len(pending[q])
  <2>1. QueueHomeOK(q) /\ UnseenOK(q) /\ PartialsOK(q) /\ InHandOK(q)
    BY DEF EventInv, QueuesOK
  <2>2. /\ n \in Nat /\ Len(pending'[q]) = n + 1
        /\ pending'[q][n + 1] = Null
        /\ \A i \in 1 .. n : pending'[q][i] = pending[q][i]
    <3>1. pending'[q] = Append(pending[q], Null) /\ pending[q] \in Seq(EvOrNull)
      BY <1>1
    <3>2. QED
      BY <3>1
  <2>3. \A j \in Unseen(q)' :
          pending'[q][j] # Null =>
            j \in Unseen(q) /\ pending'[q][j] = pending[q][j]
    BY <1>1, <2>2 DEF Unseen
  <2>4. UnseenOK(q)'
    <3> SUFFICES ASSUME NEW i \in Unseen(q)', pending'[q][i] # Null
                 PROVE  /\ ~done[pending'[q][i]]
                        /\ pending'[q][i] # gcEv[q]
                        /\ \A k \in 1 .. Len(partials[q]) :
                             partials[q][k] # pending'[q][i]
                        /\ \A j \in Unseen(q)' :
                             pending'[q][j] = pending'[q][i] => i = j
      BY <1>1 DEF UnseenOK, semVars
    <3>1. QED
      BY <2>1, <2>3 DEF UnseenOK
  <2>5. QueueHomeOK(q)'
    <3> SUFFICES ASSUME NEW i \in 1 .. n + 1, pending'[q][i] # Null
                 PROVE  home[pending'[q][i]] = q
      BY <1>1, <2>2 DEF QueueHomeOK, semVars
    <3>1. i \in 1 .. n /\ pending'[q][i] = pending[q][i]
      BY <2>2
    <3>2. QED
      BY <2>1, <3>1 DEF QueueHomeOK
  <2>6. PartialsOK(q)' /\ InHandOK(q)'
    BY <1>1, <2>1 DEF PartialsOK, InHandOK, semVars
  <2>7. QED
    BY <2>4, <2>5, <2>6
<1>5. QED
  BY <1>1, <1>2, <1>3, <1>4 DEF EventInv, QueuesOK, NoGcFatal

-----------------------------------------------------------------------------
(* Every step.                                                             *)

\* record_and_wait_for_event creates an event and queues it at once.
LEMMA RecordAndWaitStep ==
  ASSUME TypeInv, EventInv, NEW t \in Threads, NEW e \in Events,
         NEW r \in Streams, NEW s \in Streams, RecordAndWait(t, e, r, s)
  PROVE  EventInv'
<1>1. /\ pc[t] = "idle" /\ pc' = [pc EXCEPT ![t] = "got"]
      /\ ev' = [ev EXCEPT ![t] = e]
      /\ NewEvent(e, r, {}, FALSE, 0)
      /\ pending' = [pending EXCEPT ![r] = Append(@, e)]
      /\ UNCHANGED <<done, gc, gcEv, partials, fatal, cur, part>>
  BY DEF RecordAndWait, RecordAndPush, Goto
<1>2. Created(e, r)
  <2>1. {} \in SUBSET Addrs /\ FALSE \in BOOLEAN /\ 0 \in Works
    OBVIOUS
  <2>2. QED
    BY <1>1, <2>1, Zenon DEF Created
<1>3. /\ MapMatchesPtrs' /\ FreshOK'
      /\ home[e] = Null /\ home'[e] = r /\ ~done[e]
      /\ \A f \in Events : f # e => home'[f] = home[f]
      /\ Nowhere(e)
      /\ \A u \in Threads : ~Held(u, e)
  BY <1>1, <1>2, NewEventStep
<1>4. QueuesOK'
  BY <1>1, <1>3, QueuesPush
<1>5. \A u \in Threads, f \in Events :
        Held(u, f)' => Held(u, f) /\ f # e /\ cur'[u] = cur[u]
  BY <1>1, <1>3 DEF Held, TypeInv, TypeOK
<1>6. HeldOK'
  BY <1>1, <1>3, <1>5, HeldPush
<1>7. QED
  BY <1>1, <1>3, <1>4, <1>6 DEF EventInv, NoGcFatal

LEMMA EventInvStep == TypeInv /\ EventInv /\ [Next]_vars => EventInv'
<1> SUFFICES ASSUME TypeInv, EventInv, [Next]_vars PROVE EventInv'
  OBVIOUS
<1> USE DEF semVars, gcVars, hostVars, devVars
<1>0. "gc" \notin fatal
  BY DEF EventInv, NoGcFatal
<1>1. ASSUME NEW t \in Threads, NEW o \in Ops, BeginOp(t, o)
     PROVE  EventInv'
  <2>1. /\ UNCHANGED <<semVars, pending, gc, gcEv, partials>>
        /\ "gc" \notin fatal'
    BY <1>0, <1>1 DEF BeginOp, Goto
  <2>2. \A u \in Threads, f \in Events :
          Held(u, f)' => Held(u, f) /\ cur'[u] = cur[u]
    BY <1>1 DEF BeginOp, Goto, Held, TypeInv, TypeOK
  <2>3. QED
    BY <2>1, <2>2, FrameStep
<1>2. ASSUME NEW t \in Threads, NEW a \in Addrs, EnqueueWait(t, a)
     PROVE  EventInv'
  <2>1. /\ UNCHANGED <<semVars, pending, gc, gcEv, partials>>
        /\ "gc" \notin fatal'
    BY <1>0, <1>2 DEF EnqueueWait
  <2>2. \A u \in Threads, f \in Events :
          Held(u, f)' => Held(u, f) /\ cur'[u] = cur[u]
    BY <1>2 DEF EnqueueWait, Held, TypeInv, TypeOK
  <2>3. QED
    BY <2>1, <2>2, FrameStep
<1>3. ASSUME NEW t \in Threads, Launch(t)
     PROVE  EventInv'
  <2>1. /\ UNCHANGED <<semVars, pending, gc, gcEv, partials>>
        /\ "gc" \notin fatal'
    BY <1>0, <1>3 DEF Launch, ReadyToLaunch, Goto
  <2>2. \A u \in Threads, f \in Events :
          Held(u, f)' => Held(u, f) /\ cur'[u] = cur[u]
    BY <1>3 DEF Launch, ReadyToLaunch, Goto, Held, TypeInv, TypeOK, ControlOK
  <2>3. QED
    BY <2>1, <2>2, FrameStep
<1>4. ASSUME NEW t \in Threads, LaunchFails(t)
     PROVE  EventInv'
  <2>1. /\ UNCHANGED <<semVars, pending, gc, gcEv, partials>>
        /\ "gc" \notin fatal'
    BY <1>0, <1>4 DEF LaunchFails, Return, Goto
  <2>2. \A u \in Threads, f \in Events :
          Held(u, f)' => Held(u, f) /\ cur'[u] = cur[u]
    BY <1>4 DEF LaunchFails, Return, Goto, Held, TypeInv, TypeOK
  <2>3. QED
    BY <2>1, <2>2, FrameStep
<1>5. ASSUME NEW t \in Threads, ReadPartialPtrs(t)
     PROVE  EventInv'
  <2>1. /\ UNCHANGED <<semVars, pending, gc, gcEv, partials>>
        /\ "gc" \notin fatal'
    BY <1>0, <1>5 DEF ReadPartialPtrs, Goto
  <2>2. \A u \in Threads, f \in Events :
          Held(u, f)' => Held(u, f) /\ cur'[u] = cur[u]
    BY <1>5 DEF ReadPartialPtrs, Goto, Held, TypeInv, TypeOK
  <2>3. QED
    BY <2>1, <2>2, FrameStep
<1>6. ASSUME NEW t \in Threads, FindPartialPtrs(t)
     PROVE  EventInv'
  <2>1. /\ UNCHANGED <<semVars, pending, gc, gcEv, partials>>
        /\ "gc" \notin fatal'
    BY <1>0, <1>6 DEF FindPartialPtrs, Return, Goto
  <2>2. \A u \in Threads, f \in Events :
          Held(u, f)' => Held(u, f) /\ cur'[u] = cur[u]
    BY <1>6, SMTT(30) DEF FindPartialPtrs, Return, Goto, Held, TypeInv, TypeOK
  <2>3. QED
    BY <2>1, <2>2, FrameStep
<1>7. ASSUME NEW t \in Threads, NEW a \in Addrs, LookupForWait(t, a)
     PROVE  EventInv'
  <2>1. /\ UNCHANGED <<semVars, pending, gc, gcEv, partials>>
        /\ "gc" \notin fatal'
    BY <1>0, <1>7 DEF LookupForWait, Goto
  <2>2. \A u \in Threads, f \in Events :
          Held(u, f)' => Held(u, f) /\ cur'[u] = cur[u]
    BY <1>7 DEF LookupForWait, Goto, Held, TypeInv, TypeOK
  <2>3. QED
    BY <2>1, <2>2, FrameStep
<1>8. ASSUME NEW t \in Threads, AwaitDone(t)
     PROVE  EventInv'
  <2>1. /\ UNCHANGED <<semVars, pending, gc, gcEv, partials>>
        /\ "gc" \notin fatal'
    BY <1>0, <1>8 DEF AwaitDone, Return, Goto
  <2>2. \A u \in Threads, f \in Events :
          Held(u, f)' => Held(u, f) /\ cur'[u] = cur[u]
    BY <1>8 DEF AwaitDone, Return, Goto, Held, TypeInv, TypeOK
  <2>3. QED
    BY <2>1, <2>2, FrameStep
<1>9. ASSUME NEW t \in Threads, NEW a \in Addrs, NEW s \in Streams,
             GetWaitEvent(t, a, s)
     PROVE  EventInv'
  <2>1. /\ UNCHANGED <<semVars, pending, gc, gcEv, partials>>
        /\ "gc" \notin fatal'
    BY <1>0, <1>9 DEF GetWaitEvent, Goto
  <2>2. \A u \in Threads, f \in Events :
          Held(u, f)' => Held(u, f) /\ cur'[u] = cur[u]
    BY <1>9 DEF GetWaitEvent, Goto, Held, TypeInv, TypeOK
  <2>3. QED
    BY <2>1, <2>2, FrameStep
<1>10. ASSUME NEW t \in Threads, StreamWaitGot(t)
     PROVE  EventInv'
  <2>1. /\ UNCHANGED <<semVars, pending, gc, gcEv, partials>>
        /\ "gc" \notin fatal'
    BY <1>0, <1>10 DEF StreamWaitGot, Return, Goto
  <2>2. \A u \in Threads, f \in Events :
          Held(u, f)' => Held(u, f) /\ cur'[u] = cur[u]
    BY <1>10 DEF StreamWaitGot, Return, Goto, Held, TypeInv, TypeOK
  <2>3. QED
    BY <2>1, <2>2, FrameStep
<1>11. ASSUME NEW t \in Threads, BeginFlush(t)
     PROVE  EventInv'
  <2>1. /\ UNCHANGED <<semVars, pending, gc, gcEv, partials>>
        /\ "gc" \notin fatal'
    BY <1>0, <1>11 DEF BeginFlush, Goto
  <2>2. \A u \in Threads, f \in Events :
          Held(u, f)' => Held(u, f) /\ cur'[u] = cur[u]
    BY <1>11 DEF BeginFlush, Goto, Held, TypeInv, TypeOK
  <2>3. QED
    BY <2>1, <2>2, FrameStep
<1>12. ASSUME NEW t \in Threads, NEW s \in Streams, FlushStream(t, s)
     PROVE  EventInv'
  <2>1. /\ UNCHANGED <<semVars, pending, gc, gcEv, partials>>
        /\ "gc" \notin fatal'
    BY <1>0, <1>12 DEF FlushStream
  <2>2. \A u \in Threads, f \in Events :
          Held(u, f)' => Held(u, f) /\ cur'[u] = cur[u]
    BY <1>12 DEF FlushStream, Held, TypeInv, TypeOK
  <2>3. QED
    BY <2>1, <2>2, FrameStep
<1>13. ASSUME NEW t \in Threads, NEW s \in Streams, FlushTimesOut(t, s)
     PROVE  EventInv'
  <2>1. /\ UNCHANGED <<semVars, pending, gc, gcEv, partials>>
        /\ "gc" \notin fatal'
    BY <1>0, <1>13 DEF FlushTimesOut
  <2>2. \A u \in Threads, f \in Events :
          Held(u, f)' => Held(u, f) /\ cur'[u] = cur[u]
    BY <1>13 DEF FlushTimesOut, Held, TypeInv, TypeOK
  <2>3. QED
    BY <2>1, <2>2, FrameStep
<1>14. ASSUME NEW t \in Threads, IsFlushed(t)
     PROVE  EventInv'
  <2>1. /\ UNCHANGED <<semVars, pending, gc, gcEv, partials>>
        /\ "gc" \notin fatal'
    BY <1>0, <1>14 DEF IsFlushed, Return, Goto
  <2>2. \A u \in Threads, f \in Events :
          Held(u, f)' => Held(u, f) /\ cur'[u] = cur[u]
    BY <1>14 DEF IsFlushed, Return, Goto, Held, TypeInv, TypeOK
  <2>3. QED
    BY <2>1, <2>2, FrameStep
<1>15. ASSUME NEW s \in Streams, DeviceStep(s)
     PROVE  EventInv'
  <2>1. /\ UNCHANGED <<semVars, pending, gc, gcEv, partials>>
        /\ "gc" \notin fatal'
    BY <1>0, <1>15 DEF DeviceStep
  <2>2. \A u \in Threads, f \in Events :
          Held(u, f)' => Held(u, f) /\ cur'[u] = cur[u]
    BY <1>15 DEF DeviceStep, Held, TypeInv, TypeOK
  <2>3. QED
    BY <2>1, <2>2, FrameStep
<1>16. ASSUME NEW s \in Streams, NEW e \in Events, DeviceSignal(s, e)
     PROVE  EventInv'
  <2>1. /\ UNCHANGED <<semVars, pending, gc, gcEv, partials>>
        /\ "gc" \notin fatal'
    BY <1>0, <1>16 DEF DeviceSignal
  <2>2. \A u \in Threads, f \in Events :
          Held(u, f)' => Held(u, f) /\ cur'[u] = cur[u]
    BY <1>16 DEF DeviceSignal, Held, TypeInv, TypeOK
  <2>3. QED
    BY <2>1, <2>2, FrameStep
<1>17. ASSUME UNCHANGED vars
     PROVE  EventInv'
  <2>1. /\ UNCHANGED <<semVars, pending, gc, gcEv, partials>>
        /\ "gc" \notin fatal'
    BY <1>0, <1>17 DEF vars
  <2>2. \A u \in Threads, f \in Events :
          Held(u, f)' => Held(u, f) /\ cur'[u] = cur[u]
    BY <1>17 DEF vars, Held, TypeInv, TypeOK
  <2>3. QED
    BY <2>1, <2>2, FrameStep
<1>18. ASSUME NEW t \in Threads, NEW e \in Events, MapEventToTensor(t, e)
     PROVE  EventInv'
  <2>1. /\ pc[t] = "wait" /\ cur[t].ext # Null
        /\ pc' = [pc EXCEPT ![t] = "mapped"] /\ part' = [part EXCEPT ![t] = e]
        /\ NewEvent(e, cur[t].s, {cur[t].ext}, TRUE, 0)
        /\ UNCHANGED <<done, pending, gc, gcEv, partials, cur, ev, fatal>>
    BY <1>18 DEF MapEventToTensor, Goto
  <2>2. /\ cur[t].s \in Streams /\ {cur[t].ext} \in SUBSET Addrs
        /\ TRUE \in BOOLEAN /\ 0 \in Works
    BY <2>1 DEF TypeInv, TypeOK, ControlOK
  <2>3. \A u \in Threads, f \in Events :
          Held(u, f)' => Held(u, f) \/ (u = t /\ f = e)
    BY <2>1 DEF Held, TypeInv, TypeOK
  <2>4. Created(e, cur[t].s)
    BY <2>1, <2>2, Zenon DEF Created
  <2>5. QED
    BY <2>1, <2>2, <2>3, <2>4, CreateStep
<1>19. ASSUME NEW t \in Threads, NEW e \in Events, AddProducer(t, e)
     PROVE  EventInv'
  <2>1. /\ pc[t] = "launched"
        /\ pc' = [pc EXCEPT ![t] = "register"] /\ ev' = [ev EXCEPT ![t] = e]
        /\ NewEvent(e, cur[t].s, cur[t].reg \ {cur[t].ext}, FALSE, wk[t])
        /\ UNCHANGED <<done, pending, gc, gcEv, partials, cur, part, fatal>>
    BY <1>19 DEF AddProducer, Goto
  <2>2. /\ cur[t].s \in Streams /\ cur[t].reg \ {cur[t].ext} \in SUBSET Addrs
        /\ FALSE \in BOOLEAN /\ wk[t] \in Works
    BY <2>1 DEF TypeInv, TypeOK, ControlOK
  <2>3. \A u \in Threads, f \in Events :
          Held(u, f)' => Held(u, f) \/ (u = t /\ f = e)
    BY <2>1 DEF Held, TypeInv, TypeOK
  <2>4. Created(e, cur[t].s)
    BY <2>1, <2>2, Zenon DEF Created
  <2>5. QED
    BY <2>1, <2>2, <2>3, <2>4, CreateStep
<1>20. ASSUME NEW t \in Threads, PushPartial(t)
     PROVE  EventInv'
  <2>1. /\ pc[t] = "push" /\ pc' = [pc EXCEPT ![t] = "launched"]
        /\ pending' = [pending EXCEPT ![cur[t].s] = Append(@, part[t])]
        /\ part' = [part EXCEPT ![t] = Null]
        /\ UNCHANGED <<semVars, gc, gcEv, partials, cur, ev, fatal>>
    BY <1>20 DEF PushPartial, Goto
  <2>2. cur[t].s \in Streams /\ part[t] \in Events /\ Held(t, part[t])
    BY <2>1 DEF TypeInv, TypeOK, ControlOK, Held
  <2>3. \A u \in Threads, f \in Events :
          Held(u, f)' => Held(u, f) /\ u # t /\ cur'[u] = cur[u]
    BY <2>1 DEF Held, TypeInv, TypeOK
  <2>4. QED
    BY <2>1, <2>2, <2>3, PushStep
<1>21. ASSUME NEW t \in Threads, RegisterPending(t)
     PROVE  EventInv'
  <2>1. /\ pc[t] = "register" /\ pc' = [pc EXCEPT ![t] = "idle"]
        /\ pending' = [pending EXCEPT ![cur[t].s] = Append(@, ev[t])]
        /\ cur' = [cur EXCEPT ![t] = Null]
        /\ part' = [part EXCEPT ![t] = Null]
        /\ ev' = [ev EXCEPT ![t] = Null]
        /\ UNCHANGED <<semVars, gc, gcEv, partials, fatal>>
    BY <1>21 DEF RegisterPending, RecordAndPush, Return, Goto
  <2>2. cur[t].s \in Streams /\ ev[t] \in Events /\ Held(t, ev[t])
    BY <2>1 DEF TypeInv, TypeOK, ControlOK, Held
  <2>3. \A u \in Threads, f \in Events :
          Held(u, f)' => Held(u, f) /\ u # t /\ cur'[u] = cur[u]
    BY <2>1 DEF Held, TypeInv, TypeOK
  <2>4. QED
    BY <2>1, <2>2, <2>3, PushStep
<1>22. QED
  BY <1>1, <1>2, <1>3, <1>4, <1>5, <1>6, <1>7, <1>8, <1>9, <1>10, <1>11,
     <1>12, <1>13, <1>14, <1>15, <1>16, <1>17, <1>18, <1>19, <1>20, <1>21,
     RecordAndWaitStep, DestroyStreamsStep, GcPopStep, GcTakeStep,
     GcSynchronizeStep, GcUnmapStep, GcCompleteStep
  DEF Next, Continue, Begin, GcStep, Joined

\* events_by_addr_ agrees with the device_ptrs_ of the live events, and every
\* event is in one place, whatever the threads, the GC threads and the device
\* interleave.
THEOREM EventInvariant == Spec => []EventInv
<1>1. Init => TypeInv /\ EventInv
  BY TypeInvInit, EventInvInit
<1>2. TypeInv /\ EventInv /\ [Next]_vars => (TypeInv /\ EventInv)'
  BY TypeInvStep, EventInvStep
<1>3. QED
  BY <1>1, <1>2, PTL DEF Spec

\* No GC thread ever reaches a FATAL of synchronize_event, synchronize or
\* complete.
THEOREM GcNeverFatal == Spec => []NoGcFatal
<1>1. EventInv => NoGcFatal
  BY DEF EventInv
<1>2. QED
  BY <1>1, EventInvariant, PTL
=============================================================================
