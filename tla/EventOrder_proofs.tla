------------------------- MODULE EventOrder_proofs -------------------------
(***************************************************************************)
(* An event is complete only after the device has done the work it stands  *)
(* for, a flush leaves no event queued before it, and joining the GC       *)
(* threads loses none: DoneAfterExecuted, FlushCompletes and               *)
(* NoEventLostAtExit of StreamEventManager, for any numbers of streams,    *)
(* threads, addresses and events.                                          *)
(*                                                                         *)
(* The argument follows the commands of a stream, which the device runs in *)
(* order: the work of an event is enqueued before the record of the event, *)
(* so the record is run only after the work.  A partial event has no       *)
(* record.  It is completed after a real event that is queued behind it,   *)
(* and the record of that one is enqueued after the work of the partial    *)
(* event (PartialsCovered).                                                *)
(***************************************************************************)
EXTENDS StreamEventManager_proofs

USE ConstantAssumption

-----------------------------------------------------------------------------
(* What the device has done: the order of the commands of a stream.        *)

\* Work w is executed before the n-th command of stream s.
Ahead(s, w, n) ==
  w \in executed \/ \E i \in 1 .. Len(cmds[s]) : i < n /\ cmds[s][i] = <<"work", w>>

\* Work w has been given to the device, on stream s.
Sent(s, w) == Ahead(s, w, Len(cmds[s]) + 1)

\* What an event stands for is given to the device before the event, and a
\* record follows it on its stream.
RecordsFollow ==
  \A s \in Streams : \A i \in 1 .. Len(cmds[s]) : \A e \in Events :
    cmds[s][i] = <<"record", e>> =>
      /\ home[e] = s /\ ~partial[e] /\ e \in recorded
      /\ Ahead(s, work[e], i)

DeviceOK ==
  /\ 0 \in executed
  /\ \A e \in Events : home[e] # Null => Sent(home[e], work[e])
  /\ \A t \in Threads :
       pc[t] \in {"launched", "check", "find", "push"} => Sent(cur[t].s, wk[t])
  /\ RecordsFollow
  /\ \A e \in fired : ~partial[e] => e \in recorded /\ work[e] \in executed

\* An event is recorded by the thread that created it, and not before it is
\* queued.
OwnersOK ==
  /\ \A e \in Events : home[e] = Null => ~partial[e] /\ e \notin recorded /\ e \notin fired
  /\ \A t \in Threads :
       /\ pc[t] = "register" => ~partial[ev[t]] /\ ev[t] \notin recorded
       /\ pc[t] \in {"mapped", "check", "find", "push"} => partial[part[t]]

-----------------------------------------------------------------------------
(* Partial events, which nobody waits for.                                 *)

InQueue(s, e) == \E j \in Unseen(s) : pending[s][j] = e

PutAside(s, e) == \E k \in 1 .. Len(partials[s]) : partials[s][k] = e

\* Partial event p is put aside, or will be, when real event r is synchronized.
Precedes(s, p, r) ==
  \/ \E i, j \in Unseen(s) : i < j /\ pending[s][i] = p /\ pending[s][j] = r
  \/ /\ PutAside(s, p)
     /\ InQueue(s, r) \/ gcEv[s] = r

\* Real event r is signalled only after the work of p is done.
SignalledAfter(s, p, r) ==
  /\ r \in fired => work[p] \in executed
  /\ \A i \in 1 .. Len(cmds[s]) :
       cmds[s][i] = <<"record", r>> => Ahead(s, work[p], i)

PartialsCovered ==
  \A s \in Streams : \A p, r \in Events :
    partial[p] /\ ~partial[r] /\ Precedes(s, p, r) => SignalledAfter(s, p, r)

GcOK ==
  \A s \in Streams :
    /\ \A k \in 1 .. Len(partials[s]) : partial[partials[s][k]]
    /\ gcEv[s] # Null =>
         IF partial[gcEv[s]]
         THEN /\ work[gcEv[s]] \in executed
              /\ \A k \in 1 .. Len(partials[s]) : work[partials[s][k]] \in executed
         ELSE gc[s] \in {"unmap", "complete"} => gcEv[s] \in fired

OrderInv == DeviceOK /\ OwnersOK /\ PartialsCovered /\ GcOK /\ DoneAfterExecuted

-----------------------------------------------------------------------------
(* Lemmas about the commands of the streams.                               *)

CmdsType == cmds \in [Streams -> Seq(Cmds)]

\* The device has not run, and commands, if any, have been added.
CmdsExtend ==
  /\ executed' = executed
  /\ \A s \in Streams :
       /\ Len(cmds[s]) <= Len(cmds'[s])
       /\ \A i \in 1 .. Len(cmds[s]) : cmds'[s][i] = cmds[s][i]

LEMMA AheadStays ==
  ASSUME CmdsType, CmdsType', CmdsExtend,
         NEW s \in Streams, NEW w, NEW n \in 1 .. Len(cmds[s]) + 1, Ahead(s, w, n)
  PROVE  Ahead(s, w, n)'
BY DEF CmdsType, CmdsExtend, Ahead

LEMMA SentStays ==
  ASSUME CmdsType, CmdsType', CmdsExtend, NEW s \in Streams, NEW w, Sent(s, w)
  PROVE  Sent(s, w)' /\ \A n \in Nat : n > Len(cmds[s]) => Ahead(s, w, n)'
<1>1. CASE w \in executed
  BY <1>1 DEF CmdsExtend, Ahead, Sent
<1>2. CASE w \notin executed
  <2>1. PICK i \in 1 .. Len(cmds[s]) : cmds[s][i] = <<"work", w>>
    BY <1>2 DEF Sent, Ahead
  <2>2. i \in 1 .. Len(cmds'[s]) /\ cmds'[s][i] = <<"work", w>>
    BY <2>1 DEF CmdsExtend, CmdsType
  <2>3. \A n \in Nat : n > Len(cmds[s]) => Ahead(s, w, n)'
    BY <2>2 DEF Ahead, CmdsType
  <2>4. Len(cmds'[s]) + 1 \in Nat /\ Len(cmds'[s]) + 1 > Len(cmds[s])
    BY DEF CmdsExtend, CmdsType
  <2>5. QED
    BY <2>3, <2>4 DEF Sent
<1>3. QED
  BY <1>1, <1>2

LEMMA Enqueued ==
  ASSUME CmdsType, NEW q \in Streams, NEW c \in Cmds,
         cmds' = [cmds EXCEPT ![q] = Append(@, c)], executed' = executed
  PROVE  /\ CmdsExtend
         /\ Len(cmds'[q]) = Len(cmds[q]) + 1
         /\ cmds'[q][Len(cmds[q]) + 1] = c
         /\ \A s \in Streams \ {q} : cmds'[s] = cmds[s]
         /\ \A s \in Streams : \A i \in 1 .. Len(cmds'[s]) :
              i \in 1 .. Len(cmds[s]) \/ (s = q /\ i = Len(cmds[q]) + 1)
BY DEF CmdsType, CmdsExtend

\* A command that is done leaves its stream.
LEMMA AheadStep ==
  ASSUME CmdsType, CmdsType', NEW q \in Streams, DeviceStep(q),
         NEW s \in Streams, NEW w, NEW n \in 1 .. Len(cmds[s]) + 1, Ahead(s, w, n)
  PROVE  IF s = q THEN n = 1 \/ Ahead(s, w, n - 1)' ELSE Ahead(s, w, n)'
<1>1. executed \subseteq executed'
  BY DEF DeviceStep
<1>2. CASE w \in executed
  BY <1>1, <1>2 DEF Ahead
<1>3. CASE w \notin executed
  <2>1. PICK i \in 1 .. Len(cmds[s]) : i < n /\ cmds[s][i] = <<"work", w>>
    BY <1>3 DEF Ahead
  <2>2. CASE s # q
    BY <2>1, <2>2 DEF Ahead, DeviceStep, CmdsType
  <2>3. CASE s = q /\ i = 1
    BY <2>1, <2>3 DEF Ahead, DeviceStep, CmdsType
  <2>4. CASE s = q /\ i # 1
    <3>1. /\ cmds'[s] = Tail(cmds[s]) /\ cmds[s] # <<>> /\ cmds[s] \in Seq(Cmds)
      BY <2>4 DEF DeviceStep, CmdsType
    <3>2. i - 1 \in 1 .. Len(cmds'[s]) /\ cmds'[s][i - 1] = cmds[s][i]
      BY <3>1, <2>1, <2>4
    <3>3. QED
      BY <3>2, <2>1, <2>4 DEF Ahead
  <2>5. QED
    BY <2>2, <2>3, <2>4
<1>4. QED
  BY <1>2, <1>3
-----------------------------------------------------------------------------
(* Steps of the host: what is in the streams stays there.                  *)

LEMMA Typed ==
  ASSUME TypeInv
  PROVE  /\ CmdsType
         /\ home \in [Events -> Streams \cup {Null}] /\ partial \in [Events -> BOOLEAN]
         /\ work \in [Events -> Works] /\ done \in [Events -> BOOLEAN]
         /\ recorded \subseteq Events /\ fired \subseteq Events
         /\ pending \in [Streams -> Seq(Events \cup {Null})]
         /\ gc \in [Streams -> GCs] /\ gcEv \in [Streams -> Events \cup {Null}]
         /\ partials \in [Streams -> Seq(Events)]
         /\ pc \in [Threads -> PCs] /\ ev \in [Threads -> Events \cup {Null}]
         /\ part \in [Threads -> Events \cup {Null}] /\ wk \in [Threads -> Works]
BY DEF TypeInv, TypeOK, CmdsType, EvOrNull

\* A thread that issues an operation knows its stream, and what it has in hand.
Issuing == {"wait", "mapped", "launched", "check", "find", "push", "register"}

LEMMA Controlled ==
  ASSUME TypeInv, NEW t \in Threads
  PROVE  /\ pc[t] \in Issuing => cur[t] \in Ops /\ cur[t].s \in Streams
         /\ pc[t] \in {"mapped", "check", "find", "push"} => part[t] \in Events
         /\ pc[t] \notin {"mapped", "check", "find", "push"} => part[t] = Null
         /\ pc[t] \in {"register", "await", "got"} => ev[t] \in Events
         /\ pc[t] = "got" => tgt[t] \in Streams
BY DEF TypeInv, ControlOK, Issuing, OpType

\* Threads that have launched.
Launched == {"launched", "check", "find", "push"}

\* What is new on the device, in a step of the host.
LEMMA DeviceFrame ==
  ASSUME TypeInv, TypeInv', CmdsExtend, DeviceOK, OwnersOK, UNCHANGED fired,
         recorded \subseteq recorded',
         \A e \in Events : home[e] # Null =>
           home'[e] = home[e] /\ partial'[e] = partial[e]
           /\ (partial[e] \/ work'[e] = work[e]),
         \A e \in Events :
           home'[e] # Null /\ (home[e] = Null \/ work'[e] # work[e])
             => Sent(home[e], work[e])',
         \A t \in Threads : pc'[t] \in Launched =>
           \/ pc[t] \in Launched /\ cur'[t] = cur[t] /\ wk'[t] = wk[t]
           \/ Sent(cur[t].s, wk[t])',
         \A s \in Streams : \A i \in 1 .. Len(cmds'[s]) : \A e \in Events :
           cmds'[s][i] = <<"record", e>> /\ i > Len(cmds[s]) =>
             /\ home'[e] = s /\ ~partial'[e] /\ e \in recorded'
             /\ Ahead(s, work[e], i)'
  PROVE  DeviceOK'
<1> USE Typed
<1>1. TypeInv' => CmdsType' /\ home' \in [Events -> Streams \cup {Null}]
                  /\ pc' \in [Threads -> PCs]
  BY DEF TypeInv, TypeOK, CmdsType
<1>2. 0 \in executed'
  BY DEF CmdsExtend, DeviceOK
<1>3. ASSUME NEW e \in Events, home'[e] # Null PROVE Sent(home[e], work[e])'
  <2>1. CASE home[e] # Null /\ work'[e] = work[e]
    <3>1. home'[e] = home[e] /\ home[e] \in Streams /\ Sent(home[e], work[e])
      BY <2>1 DEF DeviceOK
    <3>2. QED
      BY <3>1, <2>1, <1>1, SentStays DEF Sent
  <2>2. QED
    BY <2>1, <1>3
<1>4. ASSUME NEW t \in Threads, pc'[t] \in Launched PROVE Sent(cur[t].s, wk[t])'
  <2>1. CASE pc[t] \in Launched /\ cur'[t] = cur[t] /\ wk'[t] = wk[t]
    <3>1. cur[t].s \in Streams /\ Sent(cur[t].s, wk[t])
      BY <2>1, Controlled DEF DeviceOK, Launched, Issuing
    <3>2. QED
      BY <3>1, <2>1, <1>1, SentStays DEF Sent
  <2>2. QED
    BY <2>1, <1>4
<1>5. RecordsFollow'
  <2> SUFFICES ASSUME NEW s \in Streams, NEW i \in 1 .. Len(cmds'[s]), NEW e \in Events,
                      cmds'[s][i] = <<"record", e>>
               PROVE  /\ home'[e] = s /\ ~partial'[e] /\ e \in recorded'
                      /\ Ahead(s, work[e], i)'
    BY DEF RecordsFollow
  <2>1. CASE i \in 1 .. Len(cmds[s])
    <3>1. cmds[s][i] = <<"record", e>>
      BY <2>1 DEF CmdsExtend
    <3>2. home[e] = s /\ ~partial[e] /\ e \in recorded /\ Ahead(s, work[e], i)
      BY <2>1, <3>1 DEF DeviceOK, RecordsFollow
    <3>3. home'[e] = s /\ ~partial'[e] /\ work'[e] = work[e]
      BY <3>2
    <3>4. i \in 1 .. Len(cmds[s]) + 1
      BY <2>1 DEF CmdsType
    <3>5. PICK x : x = work[e]
      OBVIOUS
    <3>6. Ahead(s, x, i)
      BY <3>5, <3>2 DEF Ahead
    <3>7. Ahead(s, x, i)'
      BY <3>6, <3>4, <1>1, AheadStays
    <3>8. Ahead(s, work[e], i)'
      BY <3>5, <3>3, <3>7 DEF Ahead
    <3>9. QED
      BY <3>1, <3>2, <3>3, <3>8
  <2>2. CASE i \notin 1 .. Len(cmds[s])
    <3>1. Len(cmds[s]) \in Nat /\ Len(cmds'[s]) \in Nat
      BY <1>1 DEF CmdsType
    <3>2. i > Len(cmds[s])
      BY <3>1, <2>2
    <3>3. QED
      BY <3>2
  <2>3. QED
    BY <2>1, <2>2
<1>6. \A e \in fired' : ~partial'[e] => e \in recorded' /\ work'[e] \in executed'
  BY DEF DeviceOK, OwnersOK, CmdsExtend
<1>7. QED
  BY <1>2, <1>3, <1>4, <1>5, <1>6 DEF DeviceOK, Launched
-----------------------------------------------------------------------------
(* The queues of a stream.                                                 *)

\* What precedes another event, or is preceded, is in the queues of its stream.
LEMMA PrecedesAt ==
  ASSUME TypeInv, EventInv, NEW s \in Streams, NEW p \in Events, NEW r \in Events,
         Precedes(s, p, r)
  PROVE  home[p] = s /\ home[r] = s /\ ~Nowhere(p) /\ ~Nowhere(r)
<1>1. /\ \A i \in 1 .. Len(pending[s]) : pending[s][i] # Null => home[pending[s][i]] = s
      /\ \A k \in 1 .. Len(partials[s]) : home[partials[s][k]] = s
      /\ gcEv[s] # Null => home[gcEv[s]] = s
      /\ \A e \in Events : e # Null
  BY ConstantAssumption DEF EventInv, QueuesOK, QueueHomeOK, PartialsOK, InHandOK
<1>2. Unseen(s) \subseteq 1 .. Len(pending[s])
  BY DEF Unseen
<1>3. QED
  BY <1>1, <1>2 DEF Precedes, PutAside, InQueue, Nowhere

LEMMA SignalledStays ==
  ASSUME CmdsType, CmdsType', CmdsExtend, UNCHANGED fired,
         NEW s \in Streams, NEW p \in Events, NEW r \in Events, SignalledAfter(s, p, r),
         work'[p] = work[p],
         \A i \in 1 .. Len(cmds'[s]) : i > Len(cmds[s]) => cmds'[s][i] # <<"record", r>>
  PROVE  SignalledAfter(s, p, r)'
<1>1. r \in fired' => work'[p] \in executed'
  BY DEF SignalledAfter, CmdsExtend
<1>2. ASSUME NEW i \in 1 .. Len(cmds'[s]), cmds'[s][i] = <<"record", r>>
      PROVE  Ahead(s, work[p], i)'
  <2>1. Len(cmds[s]) \in Nat /\ Len(cmds'[s]) \in Nat
    BY DEF CmdsType
  <2>2. i \in 1 .. Len(cmds[s]) /\ i \in 1 .. Len(cmds[s]) + 1
    BY <1>2, <2>1
  <2>3. Ahead(s, work[p], i)
    BY <1>2, <2>2 DEF SignalledAfter, CmdsExtend
  <2>4. PICK x : x = work[p]
    OBVIOUS
  <2>5. Ahead(s, x, i)
    BY <2>3, <2>4 DEF Ahead
  <2>6. Ahead(s, x, i)'
    BY <2>2, <2>5, AheadStays
  <2>7. QED
    BY <2>4, <2>6 DEF Ahead
<1>3. QED
  BY <1>1, <1>2 DEF SignalledAfter

\* A real event that is recorded in this step has not been in a queue.
LEMMA CoverFrame ==
  ASSUME TypeInv, TypeInv', EventInv, CmdsExtend, UNCHANGED fired, PartialsCovered,
         \A e \in Events : home[e] # Null => partial'[e] = partial[e],
         \A e \in Events : ~Nowhere(e) => work'[e] = work[e],
         \A s \in Streams : \A i \in 1 .. Len(cmds'[s]) : \A e \in Events :
           cmds'[s][i] = <<"record", e>> /\ i > Len(cmds[s]) => Nowhere(e),
         \A s \in Streams : \A p, r \in Events :
           partial'[p] /\ ~partial'[r] /\ Precedes(s, p, r)' =>
             Precedes(s, p, r) \/ SignalledAfter(s, p, r)'
  PROVE  PartialsCovered'
<1> SUFFICES ASSUME NEW s \in Streams, NEW p \in Events, NEW r \in Events,
                    partial'[p], ~partial'[r], Precedes(s, p, r)
             PROVE  SignalledAfter(s, p, r)'
  BY DEF PartialsCovered
<1>1. home[p] = s /\ home[r] = s /\ ~Nowhere(p) /\ ~Nowhere(r) /\ s # Null
  BY PrecedesAt, ConstantAssumption
<1>2. SignalledAfter(s, p, r) /\ work'[p] = work[p]
  BY <1>1 DEF PartialsCovered
<1>3. CmdsType /\ CmdsType'
  BY DEF TypeInv, TypeOK, CmdsType
<1>4. \A i \in 1 .. Len(cmds'[s]) : i > Len(cmds[s]) => cmds'[s][i] # <<"record", r>>
  BY <1>1
<1>5. QED
  BY <1>2, <1>3, <1>4, SignalledStays
-----------------------------------------------------------------------------
(* Steps that queue, launch and create nothing.                            *)

\* Thread t goes on with its call, and may make a stream wait.
Control(t) ==
  /\ UNCHANGED <<home, partial, done, work, gcVars, executed, recorded, fired>>
  /\ \/ UNCHANGED cmds
     \/ \E q \in Streams, e \in Events :
          cmds' = [cmds EXCEPT ![q] = Append(@, <<"wait", e>>)]
  /\ \A u \in Threads \ {t} :
       /\ pc'[u] = pc[u] /\ cur'[u] = cur[u] /\ wk'[u] = wk[u]
       /\ ev'[u] = ev[u] /\ part'[u] = part[u]
       /\ goal'[u] = goal[u] /\ todo'[u] = todo[u]
  /\ pc[t] \notin {"launched", "register", "exit"}
  /\ pc'[t] \notin {"mapped", "launched", "register", "exit"}
  /\ pc'[t] \in Launched =>
       /\ pc[t] \in Launched
       /\ cur'[t] = cur[t] /\ wk'[t] = wk[t] /\ part'[t] = part[t]

LEMMA ControlSteps ==
  ASSUME TypeInv, NEW t \in Threads,
         \/ \E o \in Ops : BeginOp(t, o)
         \/ \E a \in Addrs : EnqueueWait(t, a) \/ LookupForWait(t, a)
         \/ LaunchFails(t) \/ ReadPartialPtrs(t) \/ FindPartialPtrs(t)
         \/ AwaitDone(t) \/ StreamWaitGot(t) \/ IsFlushed(t) \/ BeginFlush(t)
         \/ \E a \in Addrs, s \in Streams : GetWaitEvent(t, a, s)
         \/ \E s \in Streams : FlushStream(t, s) \/ FlushTimesOut(t, s)
  PROVE  Control(t)
<1> USE DEF Control, semVars, gcVars, hostVars, devVars, Goto, Return, Launched
<1>1. ASSUME NEW o \in Ops, BeginOp(t, o) PROVE Control(t)
  BY <1>1 DEF BeginOp, TypeInv, TypeOK
<1>2. ASSUME NEW a \in Addrs, EnqueueWait(t, a) PROVE Control(t)
  <2>1. cur[t].s \in Streams /\ (byAddr[a] = Null \/ byAddr[a] \in Events)
    BY <1>2, Controlled DEF EnqueueWait, Issuing, TypeInv, TypeOK, EvOrNull
  <2>2. \/ UNCHANGED cmds
        \/ \E q \in Streams, e \in Events :
             cmds' = [cmds EXCEPT ![q] = Append(@, <<"wait", e>>)]
    BY <1>2, <2>1 DEF EnqueueWait, StreamWait
  <2>3. QED
    BY <1>2, <2>2 DEF EnqueueWait, TypeInv, TypeOK
<1>3. ASSUME NEW a \in Addrs, LookupForWait(t, a) PROVE Control(t)
  BY <1>3 DEF LookupForWait, TypeInv, TypeOK
<1>4. CASE LaunchFails(t)
  BY <1>4 DEF LaunchFails, ReadyToLaunch, TypeInv, TypeOK
<1>5. CASE ReadPartialPtrs(t)
  BY <1>5 DEF ReadPartialPtrs, TypeInv, TypeOK
<1>6. CASE FindPartialPtrs(t)
  <2>1. CASE \A a \in todo[t] : byAddr[a] = part[t]
    BY <1>6, <2>1 DEF FindPartialPtrs, TypeInv, TypeOK
  <2>2. CASE ~ \A a \in todo[t] : byAddr[a] = part[t]
    BY <1>6, <2>2 DEF FindPartialPtrs, TypeInv, TypeOK
  <2>3. QED
    BY <2>1, <2>2
<1>7. CASE AwaitDone(t)
  BY <1>7 DEF AwaitDone, TypeInv, TypeOK
<1>8. CASE StreamWaitGot(t)
  <2>1. ev[t] \in Events /\ tgt[t] \in Streams
    BY <1>8, Controlled DEF StreamWaitGot
  <2>2. \/ UNCHANGED cmds
        \/ \E q \in Streams, e \in Events :
             cmds' = [cmds EXCEPT ![q] = Append(@, <<"wait", e>>)]
    BY <1>8, <2>1 DEF StreamWaitGot, StreamWait
  <2>3. QED
    BY <1>8, <2>2 DEF StreamWaitGot, TypeInv, TypeOK
<1>9. CASE IsFlushed(t)
  BY <1>9 DEF IsFlushed, TypeInv, TypeOK
<1>10. CASE BeginFlush(t)
  BY <1>10 DEF BeginFlush, TypeInv, TypeOK
<1>11. ASSUME NEW a \in Addrs, NEW s \in Streams, GetWaitEvent(t, a, s) PROVE Control(t)
  BY <1>11 DEF GetWaitEvent, TypeInv, TypeOK
<1>12. ASSUME NEW s \in Streams, FlushStream(t, s) \/ FlushTimesOut(t, s) PROVE Control(t)
  BY <1>12 DEF FlushStream, FlushTimesOut, TypeInv, TypeOK
<1>13. QED
  BY <1>1, <1>2, <1>3, <1>4, <1>5, <1>6, <1>7, <1>8, <1>9, <1>10, <1>11, <1>12

\* The streams after a command that records nothing.
LEMMA NothingRecorded ==
  ASSUME TypeInv, NEW t \in Threads, Control(t)
  PROVE  /\ CmdsExtend
         /\ \A s \in Streams : \A i \in 1 .. Len(cmds'[s]) : \A e \in Events :
              cmds'[s][i] = <<"record", e>> => ~ i > Len(cmds[s])
<1>1. CmdsType /\ executed' = executed
  BY DEF TypeInv, TypeOK, CmdsType, Control
<1>2. CASE UNCHANGED cmds
  BY <1>1, <1>2 DEF CmdsExtend, CmdsType
<1>3. ASSUME NEW q \in Streams, NEW x \in Events,
             cmds' = [cmds EXCEPT ![q] = Append(@, <<"wait", x>>)]
      PROVE  /\ CmdsExtend
             /\ \A s \in Streams : \A i \in 1 .. Len(cmds'[s]) : \A e \in Events :
                  cmds'[s][i] = <<"record", e>> => ~ i > Len(cmds[s])
  <2>1. <<"wait", x>> \in Cmds
    BY DEF Cmds
  <2>2. /\ CmdsExtend /\ cmds'[q][Len(cmds[q]) + 1] = <<"wait", x>>
        /\ \A s \in Streams : \A i \in 1 .. Len(cmds'[s]) :
              i \in 1 .. Len(cmds[s]) \/ (s = q /\ i = Len(cmds[q]) + 1)
    BY <1>1, <1>3, <2>1, Enqueued
  <2>3. \A e : <<"wait", x>> # <<"record", e>>
    OBVIOUS
  <2>4. \A s \in Streams : Len(cmds[s]) \in Nat
    BY <1>1 DEF CmdsType
  <2>5. QED
    BY <2>2, <2>3, <2>4
<1>4. QED
  BY <1>2, <1>3 DEF Control

LEMMA ControlStep ==
  ASSUME TypeInv, TypeInv', EventInv, OrderInv, NEW t \in Threads, Control(t)
  PROVE  OrderInv'
<1>1. /\ CmdsExtend /\ CmdsType
      /\ \A s \in Streams : \A i \in 1 .. Len(cmds'[s]) : \A e \in Events :
           cmds'[s][i] = <<"record", e>> => ~ i > Len(cmds[s])
  BY NothingRecorded, Typed
<1>2. UNCHANGED <<home, partial, done, work, pending, gc, gcEv, partials, executed, recorded, fired>>
  BY DEF Control, gcVars
<1>3. \A u \in Threads : pc'[u] \in Launched =>
        pc[u] \in Launched /\ cur'[u] = cur[u] /\ wk'[u] = wk[u]
  BY DEF Control
<1>4. DeviceOK'
  BY <1>1, <1>2, <1>3, DeviceFrame DEF OrderInv
<1>5. OwnersOK'
  BY <1>2 DEF OrderInv, OwnersOK, Control, Launched
<1>6. \A s \in Streams, p, r \in Events : Precedes(s, p, r)' = Precedes(s, p, r)
  BY <1>2 DEF Precedes, PutAside, InQueue, Unseen
<1>7. PartialsCovered'
  BY <1>1, <1>2, <1>6, CoverFrame DEF OrderInv
<1>8. GcOK' /\ DoneAfterExecuted'
  BY <1>2 DEF OrderInv, GcOK, DoneAfterExecuted
<1>9. QED
  BY <1>4, <1>5, <1>7, <1>8 DEF OrderInv
-----------------------------------------------------------------------------
(* Steps that create or queue an event.                                    *)

\* Event x is constructed on stream q.
Constructs(x, q, isPartial, w) ==
  /\ home[x] = Null /\ home' = [home EXCEPT ![x] = q]
  /\ partial' = [partial EXCEPT ![x] = isPartial]
  /\ work' = [work EXCEPT ![x] = w]
  /\ UNCHANGED done

\* An event that does not exist is nowhere.
LEMMA FreshNowhere ==
  ASSUME TypeInv, EventInv, OrderInv, NEW x \in Events, home[x] = Null
  PROVE  /\ Nowhere(x) /\ ~done[x] /\ ~partial[x] /\ x \notin recorded /\ x \notin fired
         /\ \A t \in Threads : ~Held(t, x)
<1>1. \A s \in Streams : s # Null
  BY ConstantAssumption
<1>2. \A t \in Threads : Held(t, x) => pc[t] \in Issuing
  BY DEF Held, Issuing
<1>3. \A t \in Threads : ~Held(t, x)
  BY <1>1, <1>2, Controlled DEF EventInv, HeldOK
<1>4. Nowhere(x)
  BY <1>1, ConstantAssumption
  DEF EventInv, QueuesOK, QueueHomeOK, PartialsOK, InHandOK, Nowhere
<1>5. QED
  BY <1>3, <1>4 DEF EventInv, FreshOK, OrderInv, OwnersOK

\* The events in the queues are the ones that were there.
LEMMA ConstructKeeps ==
  ASSUME TypeInv, TypeInv', EventInv, OrderInv, NEW x \in Events, NEW q \in Streams,
         NEW b \in BOOLEAN, NEW w \in Works, Constructs(x, q, b, w)
  PROVE  /\ \A e \in Events : home[e] # Null =>
              e # x /\ home'[e] = home[e] /\ partial'[e] = partial[e] /\ work'[e] = work[e]
         /\ \A e \in Events : ~Nowhere(e) =>
              e # x /\ home'[e] = home[e] /\ partial'[e] = partial[e] /\ work'[e] = work[e]
         /\ UNCHANGED <<gc, gcEv, partials, executed, fired>> => GcOK'
         /\ UNCHANGED executed => DoneAfterExecuted'
<1>1. Nowhere(x) /\ ~done[x]
  BY FreshNowhere DEF Constructs
<1>2. \A e \in Events \ {x} : home'[e] = home[e] /\ partial'[e] = partial[e] /\ work'[e] = work[e]
  BY Typed DEF Constructs
<1>3. ASSUME UNCHANGED <<gc, gcEv, partials, executed, fired>> PROVE GcOK'
  <2> SUFFICES ASSUME NEW s \in Streams
               PROVE  /\ \A k \in 1 .. Len(partials[s]) : partial'[partials[s][k]]
                      /\ gcEv[s] # Null =>
                           IF partial'[gcEv[s]]
                           THEN /\ work'[gcEv[s]] \in executed
                                /\ \A k \in 1 .. Len(partials[s]) :
                                     work'[partials[s][k]] \in executed
                           ELSE gc[s] \in {"unmap", "complete"} => gcEv[s] \in fired
    BY <1>3 DEF GcOK
  <2>1. /\ \A k \in 1 .. Len(partials[s]) : partials[s][k] \in Events \ {x}
        /\ gcEv[s] # Null => gcEv[s] \in Events \ {x}
    BY <1>1, Typed DEF Nowhere
  <2>2. QED
    BY <1>2, <2>1 DEF OrderInv, GcOK
<1>4. ASSUME UNCHANGED executed PROVE DoneAfterExecuted'
  BY <1>1, <1>2, <1>4 DEF OrderInv, DoneAfterExecuted, Constructs
<1>5. QED
  BY <1>1, <1>2, <1>3, <1>4 DEF Constructs

\* A queue with a new last entry, which may be the empty event.
LEMMA PrecedesAppend ==
  ASSUME TypeInv, TypeInv', NEW s \in Streams, NEW x \in Events \cup {Null},
         pending'[s] = Append(pending[s], x), UNCHANGED <<gc, gcEv, partials>>,
         NEW p \in Events, NEW r \in Events, Precedes(s, p, r)'
  PROVE  Precedes(s, p, r) \/ (r = x /\ (InQueue(s, p) \/ PutAside(s, p)))
<1>1. pending[s] \in Seq(Events \cup {Null}) /\ pending'[s] \in Seq(Events \cup {Null})
  BY Typed DEF TypeInv, TypeOK, EvOrNull
<1>2. /\ Len(pending'[s]) = Len(pending[s]) + 1
      /\ pending'[s][Len(pending[s]) + 1] = x
      /\ \A i \in 1 .. Len(pending[s]) : pending'[s][i] = pending[s][i]
  BY <1>1
<1>3. \A i \in Unseen(s)' : i \in Unseen(s) \/ i = Len(pending[s]) + 1
  BY <1>1, <1>2 DEF Unseen
<1>4. Unseen(s) \subseteq 1 .. Len(pending[s])
  BY DEF Unseen
<1>5. ASSUME NEW i \in Unseen(s)', NEW j \in Unseen(s)', i < j,
             pending'[s][i] = p, pending'[s][j] = r
      PROVE  Precedes(s, p, r) \/ (r = x /\ InQueue(s, p))
  <2>1. i \in Unseen(s)
    BY <1>1, <1>2, <1>3, <1>5 DEF Unseen
  <2>2. CASE j \in Unseen(s)
    BY <1>2, <1>4, <1>5, <2>1, <2>2 DEF Precedes
  <2>3. CASE j = Len(pending[s]) + 1
    BY <1>2, <1>4, <1>5, <2>1, <2>3 DEF InQueue
  <2>4. QED
    BY <1>3, <2>2, <2>3
<1>6. ASSUME PutAside(s, p)', InQueue(s, r)' \/ gcEv'[s] = r
      PROVE  Precedes(s, p, r) \/ (r = x /\ PutAside(s, p))
  <2>1. PutAside(s, p)
    BY <1>6 DEF PutAside
  <2>2. InQueue(s, r) \/ gcEv[s] = r \/ r = x
    BY <1>2, <1>3, <1>4, <1>6 DEF InQueue
  <2>3. QED
    BY <2>1, <2>2 DEF Precedes
<1>7. QED
  BY <1>5, <1>6 DEF Precedes

LEMMA PrecedesPush ==
  ASSUME TypeInv, TypeInv', NEW q \in Streams, NEW x \in Events,
         pending' = [pending EXCEPT ![q] = Append(@, x)], UNCHANGED <<gc, gcEv, partials>>,
         NEW s \in Streams, NEW p \in Events, NEW r \in Events, Precedes(s, p, r)'
  PROVE  \/ Precedes(s, p, r)
         \/ /\ s = q /\ r = x
            /\ InQueue(q, p) \/ PutAside(q, p)
<1>1. CASE s # q
  BY <1>1, Typed DEF Precedes, PutAside, InQueue, Unseen
<1>2. CASE s = q
  <2>1. pending'[s] = Append(pending[s], x)
    BY <1>2, Typed
  <2>2. QED
    BY <1>2, <2>1, PrecedesAppend
<1>3. QED
  BY <1>1, <1>2

\* The streams after event x is recorded and queued on stream q.
LEMMA Recording ==
  ASSUME CmdsType, CmdsType', NEW q \in Streams, NEW x \in Events,
         cmds' = [cmds EXCEPT ![q] = Append(@, <<"record", x>>)], executed' = executed
  PROVE  /\ CmdsExtend /\ cmds'[q][Len(cmds[q]) + 1] = <<"record", x>>
         /\ \A s \in Streams : \A i \in 1 .. Len(cmds'[s]) : i > Len(cmds[s]) =>
              s = q /\ i = Len(cmds[q]) + 1
<1>1. <<"record", x>> \in Cmds
  BY DEF Cmds
<1>2. /\ CmdsExtend
      /\ cmds'[q][Len(cmds[q]) + 1] = <<"record", x>>
      /\ \A s \in Streams : \A i \in 1 .. Len(cmds'[s]) :
           i \in 1 .. Len(cmds[s]) \/ (s = q /\ i = Len(cmds[q]) + 1)
  BY <1>1, Enqueued
<1>3. \A s \in Streams : Len(cmds[s]) \in Nat
  BY DEF CmdsType
<1>4. QED
  BY <1>2, <1>3

\* Real event x, which is new or has been constructed by the thread that records
\* it, is recorded and queued on its stream q.
Registers(x, q) ==
  /\ RecordAndPush(x, q)
  /\ Nowhere(x) /\ x \notin recorded /\ x \notin fired
  /\ home'[x] = q /\ ~partial'[x]
  /\ IF home[x] = Null THEN work'[x] = 0
                       ELSE home[x] = q /\ ~partial[x] /\ work'[x] = work[x]
  /\ \A e \in Events \ {x} :
       home'[e] = home[e] /\ partial'[e] = partial[e] /\ work'[e] = work[e]
  /\ UNCHANGED <<done, gc, gcEv, partials, executed, fired>>
  /\ \A t \in Threads : pc'[t] \in Launched =>
       pc[t] \in Launched /\ cur'[t] = cur[t] /\ wk'[t] = wk[t]

LEMMA PushReal ==
  ASSUME TypeInv, TypeInv', EventInv, OrderInv, NEW q \in Streams, NEW x \in Events,
         Registers(x, q)
  PROVE  DeviceOK' /\ PartialsCovered' /\ GcOK' /\ DoneAfterExecuted'
<1>a. PICK last \in Nat : last = Len(cmds[q]) + 1
  BY Typed DEF CmdsType
<1>b. /\ cmds' = [cmds EXCEPT ![q] = Append(@, <<"record", x>>)]
      /\ pending' = [pending EXCEPT ![q] = Append(@, x)]
      /\ recorded' = recorded \cup {x}
      /\ UNCHANGED <<gc, gcEv, partials, executed, fired>>
  BY DEF Registers, RecordAndPush
<1>c. partial \in [Events -> BOOLEAN] /\ partial' \in [Events -> BOOLEAN]
  BY DEF TypeInv, TypeOK
<1>d. /\ UNCHANGED fired
      /\ \A t \in Threads : pc'[t] \in Launched =>
           pc[t] \in Launched /\ cur'[t] = cur[t] /\ wk'[t] = wk[t]
  BY DEF Registers
<1>1. /\ CmdsExtend /\ CmdsType /\ CmdsType' /\ last > Len(cmds[q])
      /\ cmds'[q][last] = <<"record", x>>
  <2>1. CmdsType /\ CmdsType' /\ Len(cmds[q]) \in Nat
    <3>1. CmdsType
      BY Typed
    <3>2. CmdsType'
      BY DEF TypeInv, TypeOK, CmdsType
    <3>3. cmds[q] \in Seq(Cmds)
      BY <3>1 DEF CmdsType
    <3> QED
      BY <3>1, <3>2, <3>3
  <2>2. last > Len(cmds[q])
    BY <2>1, <1>a
  <2>3. CmdsExtend /\ cmds'[q][Len(cmds[q]) + 1] = <<"record", x>>
    BY <2>1, <1>b, Recording
  <2>4. QED
    BY <2>1, <2>2, <2>3, <1>a
<1>2. \A s \in Streams : \A i \in 1 .. Len(cmds'[s]) : i > Len(cmds[s]) => s = q /\ i = last
  BY <1>1, <1>a, <1>b, Recording
<1>3. \A s \in Streams : \A i \in 1 .. Len(cmds'[s]) : \A e \in Events :
        cmds'[s][i] = <<"record", e>> /\ i > Len(cmds[s]) => s = q /\ i = last /\ e = x
  BY <1>1, <1>2
<1>4. Sent(q, work[x])' /\ Ahead(q, work[x], last)'
  <2>1. CASE home[x] = Null
    <3>1. 0 \in executed'
      BY <1>b DEF OrderInv, DeviceOK
    <3>2. QED
      BY <2>1, <3>1 DEF Sent, Ahead, Registers
  <2>2. CASE home[x] # Null
    <3>1. Sent(q, work[x]) /\ work'[x] = work[x]
      BY <2>2 DEF OrderInv, DeviceOK, Registers
    <3>2. PICK y : y = work[x]
      OBVIOUS
    <3>3. Sent(q, y)' /\ Ahead(q, y, last)'
      <4>1. Sent(q, y)
        BY <3>1, <3>2 DEF Sent, Ahead
      <4>2. QED
        BY <4>1, <1>1, SentStays
    <3>4. QED
      BY <3>1, <3>2, <3>3 DEF Sent, Ahead
  <2>3. QED
    BY <2>1, <2>2
<1>5. DeviceOK'
  <2>1. recorded \subseteq recorded' /\ x \in recorded' /\ UNCHANGED fired
    BY DEF RecordAndPush, Registers
  <2>2. \A e \in Events :
          /\ home[e] # Null =>
               home'[e] = home[e] /\ partial'[e] = partial[e]
               /\ (partial[e] \/ work'[e] = work[e])
          /\ home'[e] # Null /\ (home[e] = Null \/ work'[e] # work[e]) => e = x
    BY <1>c DEF Registers
  <2>3. \A e \in Events :
           home'[e] # Null /\ (home[e] = Null \/ work'[e] # work[e])
             => Sent(home[e], work[e])'
    BY <2>2, <1>4 DEF Sent, Ahead, Registers
  <2>4. \A s \in Streams : \A i \in 1 .. Len(cmds'[s]) : \A e \in Events :
           cmds'[s][i] = <<"record", e>> /\ i > Len(cmds[s]) =>
             /\ home'[e] = s /\ ~partial'[e] /\ e \in recorded'
             /\ Ahead(s, work[e], i)'
    <3> SUFFICES ASSUME NEW s \in Streams, NEW i \in 1 .. Len(cmds'[s]), NEW e \in Events,
                        cmds'[s][i] = <<"record", e>>, i > Len(cmds[s])
                 PROVE  /\ home'[e] = s /\ ~partial'[e] /\ e \in recorded'
                        /\ Ahead(s, work[e], i)'
      OBVIOUS
    <3>1. s = q /\ i = last /\ e = x
      BY <1>3
    <3>2. home'[e] = s /\ ~partial'[e] /\ e \in recorded'
      BY <3>1, <2>1 DEF Registers
    <3>3. Ahead(s, work[e], i)'
      BY <3>1, <1>4 DEF Ahead
    <3>4. QED
      BY <3>2, <3>3
  <2>5. QED
    BY <1>1, <1>d, <2>1, <2>2, <2>3, <2>4, DeviceFrame DEF OrderInv
<1>6. \A e \in Events : ~Nowhere(e) => e # x
  BY DEF Registers
<1>7. PartialsCovered'
  <2>1. ASSUME NEW s \in Streams, NEW p \in Events, NEW r \in Events,
               partial'[p], ~partial'[r], Precedes(s, p, r)', ~Precedes(s, p, r)
        PROVE  SignalledAfter(s, p, r)'
    <3>1. /\ s = q /\ r = x
          /\ InQueue(q, p) \/ PutAside(q, p)
      <4>1. pending' = [pending EXCEPT ![q] = Append(@, x)] /\ UNCHANGED <<gc, gcEv, partials>>
        BY <1>b
      <4>2. \/ Precedes(s, p, r)
            \/ /\ s = q /\ r = x
               /\ InQueue(q, p) \/ PutAside(q, p)
        BY <2>1, <4>1, PrecedesPush
      <4>3. QED
        BY <2>1, <4>2
    <3>2. home[p] = q /\ p # x
      <4>1. p # Null
        BY ConstantAssumption
      <4>2. \A k \in Unseen(q) : k \in 1 .. Len(pending[q])
        BY DEF Unseen
      <4>3. QED
        BY <3>1, <2>1, <4>1, <4>2
        DEF EventInv, QueuesOK, QueueHomeOK, PartialsOK, PutAside, InQueue
    <3>3. q # Null
      BY ConstantAssumption
    <3>4. Sent(q, work[p]) /\ work'[p] = work[p]
      BY <3>2, <3>3 DEF OrderInv, DeviceOK, Registers
    <3>5. PICK y : y = work[p]
      OBVIOUS
    <3>6. Ahead(q, y, last)'
      <4>1. Sent(q, y)
        BY <3>4, <3>5 DEF Sent, Ahead
      <4>2. QED
        BY <4>1, <1>1, SentStays
    <3>7. Ahead(q, work[p], last)'
      BY <3>4, <3>5, <3>6 DEF Ahead
    <3>8. \A i \in 1 .. Len(cmds'[q]) : cmds'[q][i] = <<"record", x>> => i = last
      <4>1. \A i \in 1 .. Len(cmds[q]) : cmds[q][i] # <<"record", x>>
        BY DEF OrderInv, DeviceOK, RecordsFollow, Registers
      <4>2. \A i \in 1 .. Len(cmds'[q]) : i \in 1 .. Len(cmds[q]) \/ i > Len(cmds[q])
        BY <1>1 DEF CmdsType
      <4>3. QED
        BY <4>1, <4>2, <1>1, <1>2 DEF CmdsExtend
    <3>9. SignalledAfter(q, p, x)'
      BY <1>b, <3>7, <3>8 DEF SignalledAfter, Ahead, Registers
    <3>10. QED
      BY <3>1, <3>9 DEF SignalledAfter, Ahead
  <2>2. \A e \in Events : home[e] # Null => partial'[e] = partial[e]
    BY <1>c DEF Registers
  <2>3. \A e \in Events : ~Nowhere(e) => work'[e] = work[e]
    BY <1>6 DEF Registers
  <2>4. \A s \in Streams : \A i \in 1 .. Len(cmds'[s]) : \A e \in Events :
           cmds'[s][i] = <<"record", e>> /\ i > Len(cmds[s]) => Nowhere(e)
    BY <1>3 DEF Registers
  <2>5. QED
    BY <1>1, <1>d, <2>1, <2>2, <2>3, <2>4, CoverFrame DEF OrderInv
<1>8. GcOK'
  <2> SUFFICES ASSUME NEW s \in Streams
               PROVE  /\ \A k \in 1 .. Len(partials[s]) : partial'[partials[s][k]]
                      /\ gcEv[s] # Null =>
                           IF partial'[gcEv[s]]
                           THEN /\ work'[gcEv[s]] \in executed
                                /\ \A k \in 1 .. Len(partials[s]) :
                                     work'[partials[s][k]] \in executed
                           ELSE gc[s] \in {"unmap", "complete"} => gcEv[s] \in fired
    BY DEF GcOK, Registers
  <2>1. /\ \A k \in 1 .. Len(partials[s]) : partials[s][k] \in Events \ {x}
        /\ gcEv[s] # Null => gcEv[s] \in Events \ {x}
    BY Typed DEF Nowhere, Registers
  <2>2. QED
    BY <2>1 DEF OrderInv, GcOK, Registers
<1>9. DoneAfterExecuted'
  <2>1. work'[x] = work[x] \/ ~done[x]
    BY DEF EventInv, FreshOK, Registers
  <2>2. QED
    BY <2>1 DEF OrderInv, DoneAfterExecuted, Registers
<1>10. QED
  BY <1>5, <1>7, <1>8, <1>9
-----------------------------------------------------------------------------
(* The steps that create, launch and queue, one by one.                    *)

\* Thread t constructs event x for its operation.
Creates(t, x, isPartial, w) ==
  /\ Constructs(x, cur[t].s, isPartial, w)
  /\ UNCHANGED <<pending, gc, gcEv, partials, cmds, executed, recorded, fired>>
  /\ \A u \in Threads \ {t} :
       /\ pc'[u] = pc[u] /\ cur'[u] = cur[u] /\ wk'[u] = wk[u]
       /\ ev'[u] = ev[u] /\ part'[u] = part[u]
  /\ IF isPartial THEN pc'[t] = "mapped" /\ part'[t] = x
                  ELSE pc'[t] = "register" /\ ev'[t] = x

LEMMA CreatesOrder ==
  ASSUME TypeInv, TypeInv', EventInv, OrderInv, NEW t \in Threads, NEW x \in Events,
         NEW b \in BOOLEAN, NEW w \in Works, NEW q \in Streams, q = cur[t].s,
         Creates(t, x, b, w), w \in executed \/ Sent(q, w)
  PROVE  OrderInv'
<1>b. /\ Constructs(x, q, b, w)
      /\ UNCHANGED <<pending, gc, gcEv, partials, cmds, executed, recorded, fired>>
  BY DEF Creates
<1>c. UNCHANGED fired /\ UNCHANGED executed /\ UNCHANGED <<gc, gcEv, partials, executed, fired>>
  BY <1>b
<1>1. /\ CmdsExtend
      /\ \A s \in Streams : Len(cmds[s]) \in Nat /\ Len(cmds'[s]) = Len(cmds[s])
  BY <1>b, Typed DEF CmdsExtend, CmdsType
<1>2. /\ \A e \in Events : home[e] # Null =>
           e # x /\ home'[e] = home[e] /\ partial'[e] = partial[e] /\ work'[e] = work[e]
      /\ \A e \in Events : ~Nowhere(e) =>
           e # x /\ home'[e] = home[e] /\ partial'[e] = partial[e] /\ work'[e] = work[e]
      /\ GcOK' /\ DoneAfterExecuted'
  BY <1>b, <1>c, ConstructKeeps
<1>3. home'[x] = q /\ partial'[x] = b /\ work'[x] = w
  BY <1>b, Typed DEF Constructs
<1>4. \A e \in Events \ {x} : home'[e] = home[e] /\ partial'[e] = partial[e] /\ work'[e] = work[e]
  BY <1>b, Typed DEF Constructs
<1>5. DeviceOK'
  <2>1. \A s \in Streams : \A i \in 1 .. Len(cmds'[s]) : \A e \in Events :
          cmds'[s][i] = <<"record", e>> => ~ i > Len(cmds[s])
    BY <1>1
  <2>2. \A e \in Events :
          home'[e] # Null /\ (home[e] = Null \/ work'[e] # work[e])
            => Sent(home[e], work[e])'
    BY <1>b, <1>3, <1>4 DEF Sent, Ahead
  <2>3. \A u \in Threads : pc'[u] \in Launched =>
          pc[u] \in Launched /\ cur'[u] = cur[u] /\ wk'[u] = wk[u]
    BY DEF Creates, Launched
  <2>4. recorded \subseteq recorded'
    BY <1>b
  <2>5. QED
    BY <1>1, <1>2, <1>c, <2>1, <2>2, <2>3, <2>4, DeviceFrame DEF OrderInv
<1>6. OwnersOK'
  <2>1. \A e \in Events : home'[e] = Null => ~partial'[e] /\ e \notin recorded' /\ e \notin fired'
    BY <1>b, <1>3, <1>4, ConstantAssumption DEF OrderInv, OwnersOK
  <2>2. ASSUME NEW u \in Threads \ {t}
        PROVE  /\ pc'[u] = "register" => ~partial'[ev'[u]] /\ ev'[u] \notin recorded'
               /\ pc'[u] \in {"mapped", "check", "find", "push"} => partial'[part'[u]]
    <3>1. pc'[u] = pc[u] /\ ev'[u] = ev[u] /\ part'[u] = part[u]
      BY DEF Creates
    <3>2. ~Held(u, x)
      BY <1>b, FreshNowhere DEF Constructs
    <3>3. pc[u] = "register" => ev[u] \in Events \ {x}
      BY <3>2, Controlled DEF Held
    <3>4. pc[u] \in {"mapped", "check", "find", "push"} => part[u] \in Events \ {x}
      BY <3>2, Controlled DEF Held
    <3>5. QED
      BY <1>b, <1>4, <3>1, <3>3, <3>4 DEF OrderInv, OwnersOK
  <2>3. /\ pc'[t] = "register" => ~partial'[ev'[t]] /\ ev'[t] \notin recorded'
        /\ pc'[t] \in {"mapped", "check", "find", "push"} => partial'[part'[t]]
    <3>1. x \notin recorded'
      BY <1>b, FreshNowhere DEF Constructs
    <3>2. QED
      BY <1>3, <3>1 DEF Creates
  <2>4. QED
    BY <2>1, <2>2, <2>3 DEF OwnersOK
<1>7. PartialsCovered'
  <2>1. \A s \in Streams, p, r \in Events : Precedes(s, p, r)' => Precedes(s, p, r)
    BY <1>b DEF Precedes, PutAside, InQueue, Unseen
  <2>2. \A s \in Streams : \A i \in 1 .. Len(cmds'[s]) : ~ i > Len(cmds[s])
    BY <1>1
  <2>3. QED
    BY <1>1, <1>2, <1>c, <2>1, <2>2, CoverFrame DEF OrderInv
<1>8. QED
  BY <1>2, <1>5, <1>6, <1>7 DEF OrderInv

LEMMA MapOrder ==
  ASSUME TypeInv, TypeInv', EventInv, OrderInv, NEW t \in Threads, NEW e \in Events,
         MapEventToTensor(t, e)
  PROVE  OrderInv'
<1>1. PICK q \in Streams : q = cur[t].s
  BY Controlled DEF MapEventToTensor, Issuing
<1>2. PICK b \in BOOLEAN : Creates(t, e, b, 0)
  <2>1. Creates(t, e, TRUE, 0)
    BY Typed, <1>1
    DEF Creates, Constructs, MapEventToTensor, NewEvent, Goto, gcVars
  <2>2. QED
    BY <2>1
<1>3. 0 \in Works /\ 0 \in executed
  BY ConstantAssumption DEF Works, OrderInv, DeviceOK
<1>4. QED
  BY <1>1, <1>2, <1>3, CreatesOrder

LEMMA AddProducerOrder ==
  ASSUME TypeInv, TypeInv', EventInv, OrderInv, NEW t \in Threads, NEW e \in Events,
         AddProducer(t, e)
  PROVE  OrderInv'
<1>1. PICK q \in Streams : q = cur[t].s
  BY Controlled DEF AddProducer, Issuing
<1>2. PICK b \in BOOLEAN : Creates(t, e, b, wk[t])
  <2>1. Creates(t, e, FALSE, wk[t])
    BY Typed, <1>1 DEF Creates, Constructs, AddProducer, NewEvent, Goto, gcVars
  <2>2. QED
    BY <2>1
<1>3. wk[t] \in Works /\ Sent(q, wk[t])
  BY Typed, <1>1 DEF OrderInv, DeviceOK, AddProducer, Sent, Ahead
<1>4. QED
  BY <1>1, <1>2, <1>3, CreatesOrder

LEMMA RegistersOrder ==
  ASSUME TypeInv, TypeInv', EventInv, OrderInv, NEW t \in Threads, RegisterPending(t)
  PROVE  OrderInv'
<1>1. PICK q \in Streams : q = cur[t].s
  BY Controlled DEF RegisterPending, Issuing
<1>2. PICK x \in Events : x = ev[t]
  BY Controlled DEF RegisterPending
<1>3. Held(t, x)
  BY <1>2 DEF Held, RegisterPending
<1>4. home[x] = q /\ Nowhere(x) /\ q # Null
  BY <1>1, <1>3, ConstantAssumption DEF EventInv, HeldOK
<1>5. ~partial[x] /\ x \notin recorded /\ x \notin fired
  BY <1>2 DEF OrderInv, OwnersOK, DeviceOK, RegisterPending
<1>6. /\ RecordAndPush(x, q)
      /\ UNCHANGED <<home, partial, work, done, gc, gcEv, partials, executed, fired>>
  BY <1>1, <1>2 DEF RegisterPending, semVars
<1>7. \A u \in Threads :
        /\ u # t => pc'[u] = pc[u] /\ cur'[u] = cur[u] /\ wk'[u] = wk[u]
                    /\ ev'[u] = ev[u] /\ part'[u] = part[u]
        /\ u = t => pc'[u] = "idle"
  BY DEF RegisterPending, Return, Goto, TypeInv, TypeOK
<1>8. Registers(x, q)
  BY <1>4, <1>5, <1>6, <1>7 DEF Registers, Launched
<1>9. OwnersOK'
  <2>1. recorded' = recorded \cup {x}
    BY <1>6 DEF RecordAndPush
  <2>2. \A e \in Events : home'[e] = Null => ~partial'[e] /\ e \notin recorded' /\ e \notin fired'
    BY <1>4, <1>6, <2>1 DEF OrderInv, OwnersOK
  <2>3. \A u \in Threads : pc'[u] = "register" => u # t /\ pc[u] = "register" /\ ev[u] # x
    <3>1. \A u \in Threads : Held(u, x) => u = t
      BY <1>3 DEF EventInv, HeldOK
    <3>2. QED
      BY <1>7, <3>1 DEF Held
  <2>4. \A u \in Threads :
          /\ pc'[u] = "register" => ~partial'[ev'[u]] /\ ev'[u] \notin recorded'
          /\ pc'[u] \in {"mapped", "check", "find", "push"} => partial'[part'[u]]
    BY <1>6, <1>7, <2>1, <2>3 DEF OrderInv, OwnersOK
  <2>5. QED
    BY <2>2, <2>4 DEF OwnersOK
<1>10. QED
  BY <1>8, <1>9, PushReal DEF OrderInv

LEMMA RecordAndWaitOrder ==
  ASSUME TypeInv, TypeInv', EventInv, OrderInv, NEW t \in Threads, NEW x \in Events,
         NEW q \in Streams, NEW s \in Streams, RecordAndWait(t, x, q, s)
  PROVE  OrderInv'
<1>1. /\ home[x] = Null
      /\ home' = [home EXCEPT ![x] = q] /\ partial' = [partial EXCEPT ![x] = FALSE]
      /\ work' = [work EXCEPT ![x] = 0]
      /\ RecordAndPush(x, q) /\ UNCHANGED <<done, gc, gcEv, partials, executed, fired>>
  BY DEF RecordAndWait, NewEvent
<1>2. /\ Nowhere(x) /\ x \notin recorded /\ x \notin fired
      /\ \A u \in Threads : ~Held(u, x)
  BY <1>1, FreshNowhere
<1>3. /\ home'[x] = q /\ ~partial'[x] /\ work'[x] = 0 /\ q # Null
      /\ \A e \in Events \ {x} :
           home'[e] = home[e] /\ partial'[e] = partial[e] /\ work'[e] = work[e]
  BY <1>1, Typed, ConstantAssumption
<1>4. \A u \in Threads :
        /\ u # t => pc'[u] = pc[u] /\ cur'[u] = cur[u] /\ wk'[u] = wk[u]
                    /\ ev'[u] = ev[u] /\ part'[u] = part[u]
        /\ u = t => pc'[u] = "got"
  BY DEF RecordAndWait, Goto, TypeInv, TypeOK
<1>5. Registers(x, q)
  BY <1>1, <1>2, <1>3, <1>4 DEF Registers, Launched
<1>6. OwnersOK'
  <2>1. recorded' = recorded \cup {x}
    BY <1>1 DEF RecordAndPush
  <2>2. \A e \in Events : home'[e] = Null => ~partial'[e] /\ e \notin recorded' /\ e \notin fired'
    BY <1>1, <1>3, <2>1 DEF OrderInv, OwnersOK
  <2>3. ASSUME NEW u \in Threads \ {t}
        PROVE  /\ pc'[u] = "register" => ~partial'[ev'[u]] /\ ev'[u] \notin recorded'
               /\ pc'[u] \in {"mapped", "check", "find", "push"} => partial'[part'[u]]
    <3>1. pc[u] = "register" => ev[u] \in Events \ {x}
      BY <1>2, Controlled DEF Held
    <3>2. pc[u] \in {"mapped", "check", "find", "push"} => part[u] \in Events \ {x}
      BY <1>2, Controlled DEF Held
    <3>3. QED
      BY <1>3, <1>4, <2>1, <3>1, <3>2 DEF OrderInv, OwnersOK
  <2>4. QED
    BY <1>4, <2>2, <2>3 DEF OwnersOK
<1>7. QED
  BY <1>5, <1>6, PushReal DEF OrderInv

LEMMA PushPartialOrder ==
  ASSUME TypeInv, TypeInv', EventInv, OrderInv, NEW t \in Threads, PushPartial(t)
  PROVE  OrderInv'
<1>1. PICK q \in Streams : q = cur[t].s
  BY Controlled DEF PushPartial, Issuing
<1>2. PICK x \in Events : x = part[t]
  BY Controlled DEF PushPartial
<1>3. partial[x]
  BY <1>2 DEF OrderInv, OwnersOK, PushPartial
<1>4. /\ pending' = [pending EXCEPT ![q] = Append(@, x)]
      /\ UNCHANGED <<gc, gcEv, partials>>
  BY <1>1, <1>2 DEF PushPartial
<1>5. UNCHANGED <<home, partial, work, done, cmds, executed, recorded, fired>>
  BY DEF PushPartial, semVars, devVars
<1>6. \A u \in Threads :
        /\ pc'[u] \in Launched =>
             pc[u] \in Launched /\ cur'[u] = cur[u] /\ wk'[u] = wk[u]
        /\ pc'[u] = "register" => pc[u] = "register" /\ ev'[u] = ev[u]
        /\ pc'[u] \in {"mapped", "check", "find", "push"} =>
             pc[u] \in {"mapped", "check", "find", "push"} /\ part'[u] = part[u]
  BY DEF PushPartial, Goto, TypeInv, TypeOK, Launched
<1>7. /\ CmdsExtend /\ \A s \in Streams : \A i \in 1 .. Len(cmds'[s]) : ~ i > Len(cmds[s])
      /\ UNCHANGED fired /\ recorded \subseteq recorded'
  <2>1. \A s \in Streams : Len(cmds[s]) \in Nat
    BY Typed DEF CmdsType
  <2>2. QED
    BY <1>5, <2>1 DEF CmdsExtend
<1>8. DeviceOK'
  BY <1>5, <1>6, <1>7, DeviceFrame, ConstantAssumption DEF OrderInv
<1>9. OwnersOK'
  BY <1>5, <1>6 DEF OrderInv, OwnersOK
<1>10. PartialsCovered'
  <2>1. \A s \in Streams, p, r \in Events :
          Precedes(s, p, r)' => Precedes(s, p, r) \/ r = x
    BY <1>4, PrecedesPush
  <2>2. QED
    BY <1>3, <1>5, <1>7, <2>1, CoverFrame DEF OrderInv
<1>11. GcOK' /\ DoneAfterExecuted'
  BY <1>4, <1>5 DEF OrderInv, GcOK, DoneAfterExecuted
<1>12. QED
  BY <1>8, <1>9, <1>10, <1>11 DEF OrderInv

LEMMA DestroyStreamsOrder ==
  ASSUME TypeInv, TypeInv', EventInv, OrderInv, DestroyStreams
  PROVE  OrderInv'
<1>1. /\ \A s \in Streams : pending'[s] = Append(pending[s], Null)
      /\ UNCHANGED <<gc, gcEv, partials>>
  BY DEF DestroyStreams
<1>2. UNCHANGED <<home, partial, work, done, cmds, executed, recorded, fired>>
  BY DEF DestroyStreams, semVars, devVars
<1>3. \A u \in Threads : pc'[u] = "exit"
  BY DEF DestroyStreams
<1>4. /\ CmdsExtend /\ \A s \in Streams : \A i \in 1 .. Len(cmds'[s]) : ~ i > Len(cmds[s])
      /\ UNCHANGED fired /\ recorded \subseteq recorded'
  <2>1. \A s \in Streams : Len(cmds[s]) \in Nat
    BY Typed DEF CmdsType
  <2>2. QED
    BY <1>2, <2>1 DEF CmdsExtend
<1>5. DeviceOK'
  BY <1>2, <1>3, <1>4, DeviceFrame, ConstantAssumption DEF OrderInv, Launched
<1>6. OwnersOK'
  BY <1>2, <1>3 DEF OrderInv, OwnersOK
<1>7. PartialsCovered'
  <2>1. \A s \in Streams, p, r \in Events : Precedes(s, p, r)' => Precedes(s, p, r)
    <3> SUFFICES ASSUME NEW s \in Streams, NEW p \in Events, NEW r \in Events,
                        Precedes(s, p, r)'
                 PROVE  Precedes(s, p, r)
      OBVIOUS
    <3>1. pending'[s] = Append(pending[s], Null) /\ r # Null /\ Null \in Events \cup {Null}
      BY <1>1, ConstantAssumption
    <3>2. QED
      BY <1>1, <3>1, PrecedesAppend
  <2>2. QED
    BY <1>2, <1>4, <2>1, CoverFrame DEF OrderInv
<1>8. GcOK' /\ DoneAfterExecuted'
  BY <1>1, <1>2 DEF OrderInv, GcOK, DoneAfterExecuted
<1>9. QED
  BY <1>5, <1>6, <1>7, <1>8 DEF OrderInv

LEMMA LaunchOrder ==
  ASSUME TypeInv, TypeInv', EventInv, OrderInv, NEW t \in Threads, Launch(t)
  PROVE  OrderInv'
<1>1. PICK q \in Streams : q = cur[t].s
  BY Controlled DEF Launch, ReadyToLaunch, Issuing
<1>2. PICK w \in Works : w = Len(launched) + 1
  BY DEF Launch, Works, TypeInv, TypeOK
<1>3. /\ cmds' = [cmds EXCEPT ![q] = Append(@, <<"work", w>>)]
      /\ UNCHANGED <<home, partial, done, pending, gc, gcEv, partials, executed, fired>>
      /\ recorded \subseteq recorded'
  BY <1>1, <1>2 DEF Launch, semVars, gcVars
<1>4. /\ CmdsExtend /\ Sent(q, w)'
      /\ \A s \in Streams : \A i \in 1 .. Len(cmds'[s]) : \A e \in Events :
           i > Len(cmds[s]) => cmds'[s][i] # <<"record", e>>
  <2>1. CmdsType /\ CmdsType' /\ executed' = executed
    BY <1>3 DEF TypeInv, TypeOK, CmdsType
  <2>2. PICK c \in Cmds : c = <<"work", w>>
    BY DEF Cmds
  <2>3. /\ CmdsExtend
        /\ Len(cmds'[q]) = Len(cmds[q]) + 1 /\ cmds'[q][Len(cmds[q]) + 1] = c
        /\ \A s \in Streams : \A i \in 1 .. Len(cmds'[s]) :
             i \in 1 .. Len(cmds[s]) \/ (s = q /\ i = Len(cmds[q]) + 1)
    BY <1>3, <2>1, <2>2, Enqueued
  <2>4. \A s \in Streams : Len(cmds[s]) \in Nat
    BY <2>1 DEF CmdsType
  <2>5. Len(cmds[q]) + 1 \in 1 .. Len(cmds'[q]) /\ Len(cmds[q]) + 1 < Len(cmds'[q]) + 1
    BY <2>3, <2>4
  <2>6. Sent(q, w)'
    BY <2>2, <2>3, <2>5 DEF Sent, Ahead
  <2>7. \A e : c # <<"record", e>>
    BY <2>2
  <2>8. ASSUME NEW s \in Streams, NEW i \in 1 .. Len(cmds'[s]), NEW e \in Events,
               i > Len(cmds[s])
        PROVE  cmds'[s][i] # <<"record", e>>
    <3>1. s = q /\ i = Len(cmds[q]) + 1
      BY <2>3, <2>4, <2>8
    <3>2. QED
      BY <2>3, <2>7, <3>1
  <2>9. QED
    BY <2>3, <2>6, <2>8
<1>5. \A e \in Events : e = part[t] => partial[e] /\ home[e] = q /\ ~done[e] /\ Nowhere(e)
  <2> SUFFICES ASSUME NEW e \in Events, e = part[t]
               PROVE  partial[e] /\ home[e] = q /\ ~done[e] /\ Nowhere(e)
    OBVIOUS
  <2>1. e # Null
    BY ConstantAssumption
  <2>2. pc[t] = "mapped"
    BY <2>1, Controlled DEF Launch, ReadyToLaunch
  <2>3. Held(t, e)
    BY <2>2 DEF Held
  <2>4. QED
    BY <1>1, <2>2, <2>3 DEF EventInv, HeldOK, OrderInv, OwnersOK
<1>6. \A e \in Events : e # part[t] => work'[e] = work[e] /\ (e \in recorded' => e \in recorded)
  BY Typed DEF Launch
<1>7. \A e \in Events : work'[e] = work[e] \/ (e = part[t] /\ work'[e] = w)
  BY <1>2, Typed DEF Launch
<1>8. /\ \A u \in Threads \ {t} :
           /\ pc'[u] = pc[u] /\ cur'[u] = cur[u] /\ wk'[u] = wk[u]
           /\ ev'[u] = ev[u] /\ part'[u] = part[u]
      /\ cur'[t] = cur[t] /\ wk'[t] = w /\ part'[t] = part[t]
      /\ pc'[t] \in {"launched", "check"} /\ (pc'[t] = "check" => part[t] # Null)
  BY <1>2, Typed DEF Launch, Goto
<1>9. DeviceOK'
  <2>1. \A e \in Events :
          home'[e] # Null /\ (home[e] = Null \/ work'[e] # work[e])
            => Sent(home[e], work[e])'
    BY <1>3, <1>4, <1>5, <1>7 DEF Sent, Ahead
  <2>2. ASSUME NEW u \in Threads, pc'[u] \in Launched
        PROVE  \/ pc[u] \in Launched /\ cur'[u] = cur[u] /\ wk'[u] = wk[u]
               \/ Sent(cur[u].s, wk[u])'
    <3>1. CASE u # t
      BY <1>8, <2>2, <3>1
    <3>2. CASE u = t
      BY <1>1, <1>4, <1>8, <3>2 DEF Sent, Ahead
    <3>3. QED
      BY <3>1, <3>2
  <2>3. \A e \in Events : home[e] # Null =>
          home'[e] = home[e] /\ partial'[e] = partial[e]
          /\ (partial[e] \/ work'[e] = work[e])
    BY <1>3, <1>5, <1>6
  <2>4. UNCHANGED fired /\ recorded \subseteq recorded'
    BY <1>3
  <2>5. QED
    BY <1>4, <2>1, <2>2, <2>3, <2>4, DeviceFrame DEF OrderInv
<1>10. OwnersOK'
  <2>1. \A e \in Events : home'[e] = Null => ~partial'[e] /\ e \notin recorded' /\ e \notin fired'
    <3>1. q # Null
      BY ConstantAssumption
    <3>2. QED
      BY <1>3, <1>5, <1>6, <3>1 DEF OrderInv, OwnersOK
  <2>2. ASSUME NEW u \in Threads \ {t}
        PROVE  /\ pc'[u] = "register" => ~partial'[ev'[u]] /\ ev'[u] \notin recorded'
               /\ pc'[u] \in {"mapped", "check", "find", "push"} => partial'[part'[u]]
    <3>1. pc[u] = "register" => ev[u] \in Events /\ ~partial[ev[u]] /\ ev[u] \notin recorded
      BY Controlled DEF OrderInv, OwnersOK
    <3>2. pc[u] = "register" => ev[u] # part[t]
      BY <1>5, <3>1
    <3>3. pc[u] \in {"mapped", "check", "find", "push"} => partial[part[u]]
      BY DEF OrderInv, OwnersOK
    <3>4. QED
      BY <1>3, <1>6, <1>8, <3>1, <3>2, <3>3
  <2>3. pc'[t] # "register" /\ (pc'[t] \in {"mapped", "check", "find", "push"} => partial'[part'[t]])
    <3>1. part[t] # Null => part[t] \in Events
      BY Typed
    <3>2. QED
      BY <1>3, <1>5, <1>8, <3>1
  <2>4. QED
    BY <2>1, <2>2, <2>3 DEF OwnersOK
<1>11. \A e \in Events : ~Nowhere(e) => work'[e] = work[e]
  BY <1>5, <1>6
<1>12. PartialsCovered'
  <2>1. \A s \in Streams, p, r \in Events : Precedes(s, p, r)' => Precedes(s, p, r)
    BY <1>3 DEF Precedes, PutAside, InQueue, Unseen
  <2>2. \A s \in Streams : \A i \in 1 .. Len(cmds'[s]) : \A e \in Events :
           cmds'[s][i] = <<"record", e>> /\ i > Len(cmds[s]) => Nowhere(e)
    BY <1>4
  <2>3. (\A e \in Events : home[e] # Null => partial'[e] = partial[e]) /\ UNCHANGED fired
    BY <1>3
  <2>4. QED
    BY <1>4, <1>11, <2>1, <2>2, <2>3, CoverFrame DEF OrderInv
<1>13. GcOK'
  <2> SUFFICES ASSUME NEW s \in Streams
               PROVE  /\ \A k \in 1 .. Len(partials[s]) : partial[partials[s][k]]
                      /\ gcEv[s] # Null =>
                           IF partial[gcEv[s]]
                           THEN /\ work'[gcEv[s]] \in executed
                                /\ \A k \in 1 .. Len(partials[s]) :
                                     work'[partials[s][k]] \in executed
                           ELSE gc[s] \in {"unmap", "complete"} => gcEv[s] \in fired
    BY <1>3 DEF GcOK
  <2>1. /\ \A k \in 1 .. Len(partials[s]) :
             partials[s][k] \in Events /\ ~Nowhere(partials[s][k])
        /\ gcEv[s] # Null => gcEv[s] \in Events /\ ~Nowhere(gcEv[s])
    BY Typed DEF Nowhere
  <2>2. QED
    BY <1>11, <2>1 DEF OrderInv, GcOK
<1>14. DoneAfterExecuted'
  BY <1>3, <1>5, <1>6 DEF OrderInv, DoneAfterExecuted
<1>15. QED
  BY <1>9, <1>10, <1>12, <1>13, <1>14 DEF OrderInv
-----------------------------------------------------------------------------
(* The steps of the GC threads.                                            *)

\* The queues change, and nothing else does.
LEMMA GcFrame ==
  ASSUME OrderInv, UNCHANGED <<home, partial, work, hostVars, devVars>>,
         \A s \in Streams, p, r \in Events :
           partial[p] /\ ~partial[r] /\ Precedes(s, p, r)' => Precedes(s, p, r)
  PROVE  DeviceOK' /\ OwnersOK' /\ PartialsCovered'
<1> USE DEF hostVars, devVars
<1>1. DeviceOK'
  <2>1. RecordsFollow'
    <3> SUFFICES ASSUME NEW s \in Streams, NEW i \in 1 .. Len(cmds[s]), NEW e \in Events,
                        cmds[s][i] = <<"record", e>>
                 PROVE  /\ home[e] = s /\ ~partial[e] /\ e \in recorded
                        /\ Ahead(s, work[e], i)'
      BY DEF RecordsFollow
    <3>1. home[e] = s /\ ~partial[e] /\ e \in recorded /\ Ahead(s, work[e], i)
      BY DEF OrderInv, DeviceOK, RecordsFollow
    <3>2. QED
      BY <3>1 DEF Ahead
  <2>2. \A e \in Events : home'[e] # Null => Sent(home[e], work[e])'
    BY DEF OrderInv, DeviceOK, Sent, Ahead
  <2>3. \A t \in Threads :
          pc'[t] \in {"launched", "check", "find", "push"} => Sent(cur[t].s, wk[t])'
    BY DEF OrderInv, DeviceOK, Sent, Ahead
  <2>4. 0 \in executed' /\ \A e \in fired' : ~partial'[e] => e \in recorded' /\ work'[e] \in executed'
    BY DEF OrderInv, DeviceOK
  <2>5. QED
    BY <2>1, <2>2, <2>3, <2>4 DEF DeviceOK
<1>2. OwnersOK'
  BY DEF OrderInv, OwnersOK
<1>3. \A s \in Streams, p, r \in Events : SignalledAfter(s, p, r)' = SignalledAfter(s, p, r)
  BY DEF SignalledAfter, Ahead
<1>4. PartialsCovered'
  BY <1>3 DEF OrderInv, PartialsCovered
<1>5. QED
  BY <1>1, <1>2, <1>4

\* The other streams keep their queues.
LEMMA PrecedesElsewhere ==
  ASSUME TypeInv, NEW q \in Streams, NEW s \in Streams \ {q},
         pending'[s] = pending[s], gc'[s] = gc[s], gcEv'[s] = gcEv[s],
         partials'[s] = partials[s],
         NEW p \in Events, NEW r \in Events, Precedes(s, p, r)'
  PROVE  Precedes(s, p, r)
BY DEF Precedes, PutAside, InQueue, Unseen

LEMMA GcPopOrder ==
  ASSUME TypeInv, TypeInv', EventInv, OrderInv, NEW q \in Streams, GcPop(q)
  PROVE  OrderInv'
<1>1. /\ UNCHANGED <<home, partial, work, hostVars, devVars>>
      /\ UNCHANGED <<done, executed, fired, gcEv, partials>>
      /\ gc[q] = "pop" /\ pending' = [pending EXCEPT ![q] = Tail(@)]
      /\ gc' = [gc EXCEPT ![q] = "take"]
  BY DEF GcPop, semVars, devVars
<1>2. gcEv[q] = Null /\ pending[q] # <<>>
  BY <1>1 DEF EventInv, QueuesOK, InHandOK, TypeInv, ControlOK
<1>3. pending \in [Streams -> Seq(Events \cup {Null})] /\ gc \in [Streams -> GCs]
  BY Typed
<1>4. ASSUME NEW s \in Streams, NEW p \in Events, NEW r \in Events, Precedes(s, p, r)'
      PROVE  Precedes(s, p, r)
  <2>1. CASE s # q
    BY <1>1, <1>3, <1>4, <2>1, PrecedesElsewhere
  <2>2. CASE s = q
    <3>1. /\ pending[s] \in Seq(Events \cup {Null}) /\ pending[s] # <<>>
          /\ pending'[s] = Tail(pending[s])
      BY <1>1, <1>2, <1>3, <2>2
    <3>2. /\ \A i \in Unseen(s)' : i + 1 \in Unseen(s) /\ pending'[s][i] = pending[s][i + 1]
          /\ Unseen(s)' \subseteq Nat
      BY <3>1 DEF Unseen
    <3>3. InQueue(s, r)' => InQueue(s, r)
      BY <3>2 DEF InQueue
    <3>4. ASSUME NEW i \in Unseen(s)', NEW j \in Unseen(s)', i < j,
                 pending'[s][i] = p, pending'[s][j] = r
          PROVE  Precedes(s, p, r)
      BY <3>2, <3>4 DEF Precedes
    <3>5. PutAside(s, p)' => PutAside(s, p)
      BY <1>1 DEF PutAside
    <3>6. QED
      BY <1>1, <1>4, <3>3, <3>4, <3>5 DEF Precedes
  <2>3. QED
    BY <2>1, <2>2
<1>5. DeviceOK' /\ OwnersOK' /\ PartialsCovered'
  BY <1>1, <1>4, GcFrame
<1>6. GcOK'
  BY <1>1, <1>2, <1>3 DEF OrderInv, GcOK
<1>7. DoneAfterExecuted'
  BY <1>1 DEF OrderInv, DoneAfterExecuted
<1>8. QED
  BY <1>5, <1>6, <1>7 DEF OrderInv

LEMMA GcTakeOrder ==
  ASSUME TypeInv, TypeInv', EventInv, OrderInv, NEW q \in Streams, GcTake(q)
  PROVE  OrderInv'
<1>1. /\ UNCHANGED <<home, partial, work, hostVars, devVars>>
      /\ UNCHANGED <<done, executed, fired, pending>>
      /\ gc[q] = "take" /\ pending[q] # <<>>
  BY DEF GcTake, semVars, devVars
<1>2. /\ gcEv[q] = Null
      /\ \A s \in Streams \ {q} :
           gc'[s] = gc[s] /\ gcEv'[s] = gcEv[s] /\ partials'[s] = partials[s]
  <2>1. gcEv[q] = Null
    BY <1>1 DEF EventInv, QueuesOK, InHandOK
  <2>2. \A s \in Streams \ {q} :
          gc'[s] = gc[s] /\ gcEv'[s] = gcEv[s] /\ partials'[s] = partials[s]
    BY Typed DEF GcTake
  <2>3. QED
    BY <2>1, <2>2
<1>3. PICK h \in Events \cup {Null} : h = Head(pending[q])
  BY <1>1, Typed
<1>4. /\ pending[q] \in Seq(Events \cup {Null}) /\ partials[q] \in Seq(Events)
      /\ 1 \in Unseen(q) /\ pending[q][1] = h
  BY <1>1, <1>3, Typed DEF Unseen
<1>5. \/ /\ h = Null /\ gc'[q] = "exit" /\ gcEv'[q] = Null /\ partials'[q] = partials[q]
      \/ /\ h \in Events /\ partial[h] /\ gc'[q] = "pop" /\ gcEv'[q] = Null
         /\ partials'[q] = Append(partials[q], h)
      \/ /\ h \in Events /\ ~partial[h] /\ gc'[q] = "sync" /\ gcEv'[q] = h
         /\ partials'[q] = partials[q]
  BY <1>2, <1>3, Typed DEF GcTake
<1>6. \A i \in Unseen(q)' : i \in Unseen(q) /\ i > 1
  BY <1>1, <1>4, <1>5 DEF Unseen
<1>7. ASSUME NEW s \in Streams, NEW p \in Events, NEW r \in Events, ~partial[r],
             Precedes(s, p, r)'
      PROVE  Precedes(s, p, r)
  <2>1. CASE s # q
    BY <1>1, <1>2, <1>7, <2>1, PrecedesElsewhere
  <2>2. CASE s = q
    <3>1. ASSUME NEW i \in Unseen(q)', NEW j \in Unseen(q)', i < j,
                 pending'[q][i] = p, pending'[q][j] = r
          PROVE  Precedes(q, p, r)
      BY <1>1, <1>6, <3>1 DEF Precedes
    <3>2. ASSUME PutAside(q, p)', InQueue(q, r)' \/ gcEv'[q] = r
          PROVE  Precedes(q, p, r)
      <4>1. PutAside(q, p) \/ (p = h /\ partial[h] /\ gcEv'[q] = Null)
        BY <1>4, <1>5, <3>2 DEF PutAside
      <4>2. CASE InQueue(q, r)'
        <5>1. PICK j \in Unseen(q) : j > 1 /\ pending[q][j] = r
          BY <1>1, <1>6, <4>2 DEF InQueue
        <5>2. InQueue(q, r) /\ 1 < j
          BY <5>1 DEF InQueue, Unseen
        <5>3. QED
          BY <1>4, <4>1, <5>1, <5>2 DEF Precedes
      <4>3. CASE gcEv'[q] = r
        <5>1. h = r /\ PutAside(q, p)
          BY <1>5, <4>1, <4>3, ConstantAssumption
        <5>2. InQueue(q, r)
          BY <1>4, <5>1 DEF InQueue
        <5>3. QED
          BY <5>1, <5>2 DEF Precedes
      <4>4. QED
        BY <3>2, <4>2, <4>3
    <3>3. QED
      BY <1>7, <2>2, <3>1, <3>2 DEF Precedes
  <2>3. QED
    BY <2>1, <2>2
<1>8. DeviceOK' /\ OwnersOK' /\ PartialsCovered'
  BY <1>1, <1>7, GcFrame
<1>9. GcOK'
  <2> SUFFICES ASSUME NEW s \in Streams
               PROVE  /\ \A k \in 1 .. Len(partials'[s]) : partial[partials'[s][k]]
                      /\ gcEv'[s] # Null =>
                           IF partial[gcEv'[s]]
                           THEN /\ work[gcEv'[s]] \in executed
                                /\ \A k \in 1 .. Len(partials'[s]) :
                                     work[partials'[s][k]] \in executed
                           ELSE gc'[s] \in {"unmap", "complete"} => gcEv'[s] \in fired
    BY <1>1 DEF GcOK
  <2>1. CASE s # q
    BY <1>2, <2>1 DEF OrderInv, GcOK
  <2>2. CASE s = q
    <3>1. \A k \in 1 .. Len(partials'[q]) : partial[partials'[q][k]]
      <4>1. \A k \in 1 .. Len(partials[q]) : partial[partials[q][k]]
        BY DEF OrderInv, GcOK
      <4>2. CASE partials'[q] = partials[q]
        BY <4>1, <4>2
      <4>3. CASE partial[h] /\ h \in Events /\ partials'[q] = Append(partials[q], h)
        BY <1>4, <4>1, <4>3
      <4>4. QED
        BY <1>5, <4>2, <4>3
    <3>2. QED
      BY <1>5, <2>2, <3>1
  <2>3. QED
    BY <2>1, <2>2
<1>10. DoneAfterExecuted'
  BY <1>1 DEF OrderInv, DoneAfterExecuted
<1>11. QED
  BY <1>8, <1>9, <1>10 DEF OrderInv

\* Synchronizing and unmapping move nothing.
LEMMA GcControlOrder ==
  ASSUME TypeInv, TypeInv', EventInv, OrderInv, NEW q \in Streams,
         GcSynchronize(q) \/ GcUnmap(q)
  PROVE  OrderInv'
<1>1. /\ UNCHANGED <<home, partial, work, hostVars, devVars>>
      /\ UNCHANGED <<done, executed, fired, pending, gcEv, partials>>
      /\ gc[q] \in {"sync", "unmap"}
  BY DEF GcSynchronize, GcUnmap, semVars, devVars
<1>2. /\ gc' = [gc EXCEPT ![q] = gc'[q]]
      /\ \/ gc'[q] = "exit"
         \/ gc[q] = "sync" /\ gc'[q] = "unmap" /\ (partial[gcEv[q]] \/ gcEv[q] \in fired)
         \/ gc[q] = "unmap" /\ gc'[q] = "complete"
  BY Typed DEF GcSynchronize, GcUnmap, GcFatal
<1>3. \A s \in Streams : Unseen(s)' = Unseen(s)
  BY <1>1, <1>2, Typed DEF Unseen
<1>4. \A s \in Streams, p, r \in Events : Precedes(s, p, r)' => Precedes(s, p, r)
  BY <1>1, <1>3 DEF Precedes, PutAside, InQueue
<1>5. DeviceOK' /\ OwnersOK' /\ PartialsCovered'
  BY <1>1, <1>4, GcFrame
<1>6. GcOK'
  BY <1>1, <1>2, Typed DEF OrderInv, GcOK
<1>7. DoneAfterExecuted'
  BY <1>1 DEF OrderInv, DoneAfterExecuted
<1>8. QED
  BY <1>5, <1>6, <1>7 DEF OrderInv

LEMMA GcCompleteOrder ==
  ASSUME TypeInv, TypeInv', EventInv, OrderInv, NEW q \in Streams, GcComplete(q)
  PROVE  OrderInv'
<1>1. /\ UNCHANGED <<home, partial, work, hostVars, devVars>>
      /\ UNCHANGED <<executed, fired, pending>>
      /\ gc[q] = "complete"
  BY DEF GcComplete, devVars
<1>2. PICK x \in Events : x = gcEv[q]
  BY <1>1 DEF TypeInv, ControlOK
<1>3. ~done[x] /\ x # Null
  BY <1>2, ConstantAssumption DEF EventInv, QueuesOK, InHandOK
<1>4. /\ done' = [done EXCEPT ![x] = TRUE]
      /\ \A s \in Streams \ {q} :
           gc'[s] = gc[s] /\ gcEv'[s] = gcEv[s] /\ partials'[s] = partials[s]
      /\ \/ /\ partials[q] = <<>> /\ gc'[q] = "pop" /\ gcEv'[q] = Null
            /\ partials'[q] = partials[q]
         \/ /\ partials[q] # <<>> /\ gc'[q] = "sync" /\ gcEv'[q] = Head(partials[q])
            /\ partials'[q] = Tail(partials[q])
  BY <1>2, <1>3, Typed DEF GcComplete
<1>5. partials[q] \in Seq(Events) /\ \A k \in 1 .. Len(partials[q]) : partial[partials[q][k]]
  BY Typed DEF OrderInv, GcOK
<1>6. work[x] \in executed /\ \A k \in 1 .. Len(partials[q]) : work[partials[q][k]] \in executed
  <2>1. CASE partial[x]
    BY <1>2, <1>3, <2>1 DEF OrderInv, GcOK
  <2>2. CASE ~partial[x]
    <3>1. x \in fired
      BY <1>1, <1>2, <1>3, <2>2 DEF OrderInv, GcOK
    <3>2. work[x] \in executed
      BY <2>2, <3>1 DEF OrderInv, DeviceOK
    <3>3. ASSUME NEW k \in 1 .. Len(partials[q]) PROVE work[partials[q][k]] \in executed
      <4>1. PICK p \in Events : p = partials[q][k]
        BY <1>5
      <4>2. partial[p] /\ Precedes(q, p, x)
        BY <1>2, <1>5, <4>1 DEF Precedes, PutAside
      <4>3. SignalledAfter(q, p, x)
        BY <2>2, <4>2 DEF OrderInv, PartialsCovered
      <4>4. QED
        BY <3>1, <4>1, <4>3 DEF SignalledAfter
    <3>4. QED
      BY <3>2, <3>3
  <2>3. QED
    BY <2>1, <2>2
<1>7. /\ gcEv'[q] # Null =>
           partial[gcEv'[q]] /\ gcEv'[q] \in Events /\ work[gcEv'[q]] \in executed
      /\ \A k \in 1 .. Len(partials'[q]) :
           \E m \in 1 .. Len(partials[q]) : partials'[q][k] = partials[q][m]
  <2>1. CASE partials[q] = <<>>
    BY <1>4, <2>1
  <2>2. CASE partials[q] # <<>>
    <3>1. 1 \in 1 .. Len(partials[q]) /\ Head(partials[q]) = partials[q][1]
      BY <1>5, <2>2
    <3>2. \A k \in 1 .. Len(Tail(partials[q])) :
            k + 1 \in 1 .. Len(partials[q]) /\ Tail(partials[q])[k] = partials[q][k + 1]
      BY <1>5, <2>2
    <3>3. gcEv'[q] = partials[q][1] /\ partials'[q] = Tail(partials[q])
      BY <1>4, <2>2, <3>1
    <3>4. partials[q][1] \in Events
      BY <1>5, <3>1
    <3>5. QED
      BY <1>5, <1>6, <3>1, <3>2, <3>3, <3>4
  <2>3. QED
    BY <2>1, <2>2
<1>8. ASSUME NEW s \in Streams, NEW p \in Events, NEW r \in Events, ~partial[r],
             Precedes(s, p, r)'
      PROVE  Precedes(s, p, r)
  <2>1. CASE s # q
    BY <1>1, <1>4, <1>8, <2>1, PrecedesElsewhere
  <2>2. CASE s = q
    <3>1. Unseen(q)' = Unseen(q)
      BY <1>1, <1>4 DEF Unseen
    <3>2. gcEv'[q] # r
      BY <1>7, <1>8, ConstantAssumption
    <3>3. InQueue(q, r)' => InQueue(q, r)
      BY <1>1, <3>1 DEF InQueue
    <3>4. PutAside(q, p)' => PutAside(q, p)
      BY <1>7 DEF PutAside
    <3>5. QED
      BY <1>1, <1>8, <2>2, <3>1, <3>2, <3>3, <3>4 DEF Precedes
  <2>3. QED
    BY <2>1, <2>2
<1>9. DeviceOK' /\ OwnersOK' /\ PartialsCovered'
  BY <1>1, <1>8, GcFrame
<1>10. GcOK'
  <2> SUFFICES ASSUME NEW s \in Streams
               PROVE  /\ \A k \in 1 .. Len(partials'[s]) : partial[partials'[s][k]]
                      /\ gcEv'[s] # Null =>
                           IF partial[gcEv'[s]]
                           THEN /\ work[gcEv'[s]] \in executed
                                /\ \A k \in 1 .. Len(partials'[s]) :
                                     work[partials'[s][k]] \in executed
                           ELSE gc'[s] \in {"unmap", "complete"} => gcEv'[s] \in fired
    BY <1>1 DEF GcOK
  <2>1. CASE s # q
    BY <1>4, <2>1 DEF OrderInv, GcOK
  <2>2. CASE s = q
    BY <1>5, <1>6, <1>7, <2>2
  <2>3. QED
    BY <2>1, <2>2
<1>11. DoneAfterExecuted'
  <2>1. \A e \in Events : done'[e] => done[e] \/ e = x
    BY <1>4, Typed
  <2>2. QED
    BY <1>1, <1>6, <2>1 DEF OrderInv, DoneAfterExecuted
<1>12. QED
  BY <1>9, <1>10, <1>11 DEF OrderInv
-----------------------------------------------------------------------------
(* The steps of the device.                                                *)

LEMMA DeviceSignalOrder ==
  ASSUME TypeInv, TypeInv', EventInv, OrderInv, NEW q \in Streams, NEW e \in Events,
         DeviceSignal(q, e)
  PROVE  OrderInv'
<1>1. /\ UNCHANGED <<home, partial, work, done, pending, gc, gcEv, partials>>
      /\ UNCHANGED <<pc, cur, wk, ev, part, cmds, executed, recorded>>
      /\ fired' = fired \cup {e} /\ partial[e]
  BY DEF DeviceSignal, semVars, gcVars, hostVars
<1>2. DeviceOK'
  <2>1. RecordsFollow'
    <3> SUFFICES ASSUME NEW s \in Streams, NEW i \in 1 .. Len(cmds[s]), NEW x \in Events,
                        cmds[s][i] = <<"record", x>>
                 PROVE  /\ home[x] = s /\ ~partial[x] /\ x \in recorded
                        /\ Ahead(s, work[x], i)'
      BY <1>1 DEF RecordsFollow
    <3>1. home[x] = s /\ ~partial[x] /\ x \in recorded /\ Ahead(s, work[x], i)
      BY DEF OrderInv, DeviceOK, RecordsFollow
    <3>2. QED
      BY <1>1, <3>1 DEF Ahead
  <2>2. \A x \in Events : home'[x] # Null => Sent(home[x], work[x])'
    BY <1>1 DEF OrderInv, DeviceOK, Sent, Ahead
  <2>3. \A t \in Threads :
          pc'[t] \in {"launched", "check", "find", "push"} => Sent(cur[t].s, wk[t])'
    BY <1>1 DEF OrderInv, DeviceOK, Sent, Ahead
  <2>4. /\ 0 \in executed'
        /\ \A x \in fired' : ~partial'[x] => x \in recorded' /\ work'[x] \in executed'
    BY <1>1 DEF OrderInv, DeviceOK
  <2>5. QED
    BY <2>1, <2>2, <2>3, <2>4 DEF DeviceOK
<1>3. OwnersOK'
  BY <1>1 DEF OrderInv, OwnersOK
<1>4. PartialsCovered'
  <2> SUFFICES ASSUME NEW s \in Streams, NEW p \in Events, NEW r \in Events,
                      partial[p], ~partial[r], Precedes(s, p, r)
               PROVE  SignalledAfter(s, p, r)'
    BY <1>1 DEF PartialsCovered, Precedes, PutAside, InQueue, Unseen
  <2>1. SignalledAfter(s, p, r) /\ r # e
    BY <1>1 DEF OrderInv, PartialsCovered
  <2>2. QED
    BY <1>1, <2>1 DEF SignalledAfter, Ahead
<1>5. GcOK' /\ DoneAfterExecuted'
  BY <1>1 DEF OrderInv, GcOK, DoneAfterExecuted
<1>6. QED
  BY <1>2, <1>3, <1>4, <1>5 DEF OrderInv

LEMMA DeviceStepOrder ==
  ASSUME TypeInv, TypeInv', EventInv, OrderInv, NEW q \in Streams, DeviceStep(q)
  PROVE  OrderInv'
<1>1. /\ UNCHANGED <<home, partial, work, done, pending, gc, gcEv, partials>>
      /\ UNCHANGED <<pc, cur, wk, ev, part, recorded>>
      /\ executed \subseteq executed' /\ fired \subseteq fired'
      /\ cmds' = [cmds EXCEPT ![q] = Tail(@)] /\ cmds[q] # <<>>
  BY DEF DeviceStep, semVars, gcVars, hostVars
<1>2. CmdsType /\ CmdsType'
  BY DEF TypeInv, TypeOK, CmdsType
<1>3. /\ cmds[q] \in Seq(Cmds) /\ Len(cmds[q]) \in Nat /\ Len(cmds[q]) >= 1
      /\ cmds'[q] = Tail(cmds[q]) /\ Len(cmds'[q]) = Len(cmds[q]) - 1
      /\ \A i \in 1 .. Len(cmds'[q]) :
           i + 1 \in 1 .. Len(cmds[q]) /\ cmds'[q][i] = cmds[q][i + 1]
      /\ \A s \in Streams \ {q} : cmds'[s] = cmds[s]
      /\ \A s \in Streams : Len(cmds[s]) \in Nat
  BY <1>1, <1>2 DEF CmdsType
<1>4. \A s \in Streams : \A w : Sent(s, w) => Sent(s, w)'
  <2> SUFFICES ASSUME NEW s \in Streams, NEW w, Sent(s, w) PROVE Sent(s, w)'
    OBVIOUS
  <2>1. PICK n \in 1 .. Len(cmds[s]) + 1 : n = Len(cmds[s]) + 1
    BY <1>3
  <2>2. Ahead(s, w, n)
    BY <2>1 DEF Sent, Ahead
  <2>3. IF s = q THEN n = 1 \/ Ahead(s, w, n - 1)' ELSE Ahead(s, w, n)'
    BY <1>2, <2>2, AheadStep
  <2>4. ASSUME s = q PROVE n - 1 = Len(cmds'[s]) + 1 /\ n # 1
    <3>1. Len(cmds[q]) \in Nat /\ Len(cmds[q]) >= 1 /\ Len(cmds'[q]) = Len(cmds[q]) - 1
      BY <1>3
    <3>2. n = Len(cmds[q]) + 1
      BY <2>1, <2>4
    <3>3. QED
      BY <2>4, <3>1, <3>2
  <2>5. QED
    BY <1>3, <2>1, <2>3, <2>4 DEF Sent, Ahead
\* What is before the command of a stream stays before it.
<1>5. ASSUME NEW s \in Streams, NEW w, NEW i \in 1 .. Len(cmds'[s]), NEW c, cmds'[s][i] = c
      PROVE  \E j \in 1 .. Len(cmds[s]) :
               cmds[s][j] = c /\ (Ahead(s, w, j) => Ahead(s, w, i)')
  <2>1. CASE s = q
    <3>1. PICK j \in 1 .. Len(cmds[s]) + 1 :
             j = i + 1 /\ j \in 1 .. Len(cmds[s]) /\ cmds[s][j] = c
      <4>1. i \in 1 .. Len(cmds'[q]) /\ Len(cmds[q]) \in Nat
        BY <1>3, <2>1
      <4>2. i + 1 \in 1 .. Len(cmds[q]) /\ cmds[q][i + 1] = c
        BY <1>3, <1>5, <2>1, <4>1
      <4>3. i + 1 \in 1 .. Len(cmds[q]) + 1
        BY <4>1, <4>2
      <4>4. QED
        BY <2>1, <4>2, <4>3
    <3>2. j # 1 /\ j - 1 = i
      BY <3>1
    <3>3. Ahead(s, w, j) => Ahead(s, w, j - 1)'
      BY <1>2, <2>1, <3>1, <3>2, AheadStep
    <3>4. QED
      BY <3>1, <3>2, <3>3
  <2>2. CASE s # q
    <3>1. PICK j \in 1 .. Len(cmds[s]) + 1 :
             j = i /\ j \in 1 .. Len(cmds[s]) /\ cmds[s][j] = c
      BY <1>3, <1>5, <2>2
    <3>2. Ahead(s, w, j) => Ahead(s, w, j)'
      BY <1>2, <2>2, <3>1, AheadStep
    <3>3. QED
      BY <3>1, <3>2
  <2>3. QED
    BY <2>1, <2>2
\* A real event that is signalled now is the one whose record is at the head.
<1>6. \A e \in fired' \ fired :
        partial[e] \/ (1 \in 1 .. Len(cmds[q]) /\ cmds[q][1] = <<"record", e>>)
  <2>1. /\ 1 \in 1 .. Len(cmds[q]) /\ Head(cmds[q]) = cmds[q][1]
        /\ Head(cmds[q]) \in Cmds
    BY <1>1, <1>3
  <2>2. Head(cmds[q])[1] = "record" =>
          Head(cmds[q]) = <<"record", Head(cmds[q])[2]>>
    BY <2>1 DEF Cmds
  <2>3. QED
    BY <2>1, <2>2 DEF DeviceStep
<1>7. DeviceOK'
  <2>1. RecordsFollow'
    <3> SUFFICES ASSUME NEW s \in Streams, NEW i \in 1 .. Len(cmds'[s]), NEW x \in Events,
                        cmds'[s][i] = <<"record", x>>
                 PROVE  /\ home'[x] = s /\ ~partial'[x] /\ x \in recorded'
                        /\ Ahead(s, work[x], i)'
      BY DEF RecordsFollow
    <3>1. PICK w : w = work[x]
      OBVIOUS
    <3>2. PICK j \in 1 .. Len(cmds[s]) :
            cmds[s][j] = <<"record", x>> /\ (Ahead(s, w, j) => Ahead(s, w, i)')
      BY <1>5
    <3>3. home[x] = s /\ ~partial[x] /\ x \in recorded /\ Ahead(s, work[x], j)
      BY <3>2 DEF OrderInv, DeviceOK, RecordsFollow
    <3>4. Ahead(s, w, i)'
      BY <3>1, <3>2, <3>3 DEF Ahead
    <3>5. QED
      BY <1>1, <3>1, <3>3, <3>4 DEF Ahead
  <2>2. ASSUME NEW x \in Events, home'[x] # Null PROVE Sent(home[x], work[x])'
    <3>1. PICK s \in Streams, w \in {work[x]} : s = home[x] /\ w = work[x]
      BY <1>1, <2>2, Typed
    <3>2. Sent(s, w)
      BY <1>1, <2>2, <3>1 DEF OrderInv, DeviceOK, Sent, Ahead
    <3>3. Sent(s, w)'
      BY <1>4, <3>2
    <3>4. QED
      BY <1>1, <3>1, <3>3 DEF Sent, Ahead
  <2>3. ASSUME NEW t \in Threads, pc'[t] \in Launched PROVE Sent(cur[t].s, wk[t])'
    <3>1. PICK s \in Streams, w \in {wk[t]} : s = cur[t].s /\ w = wk[t]
      BY <1>1, <2>3, Controlled DEF Launched, Issuing
    <3>2. Sent(s, w)
      BY <1>1, <2>3, <3>1 DEF OrderInv, DeviceOK, Sent, Ahead, Launched
    <3>3. Sent(s, w)'
      BY <1>4, <3>2
    <3>4. QED
      BY <1>1, <3>1, <3>3 DEF Sent, Ahead
  <2>4. /\ 0 \in executed'
        /\ \A x \in fired' : ~partial'[x] => x \in recorded' /\ work'[x] \in executed'
    <3>1. ASSUME NEW x \in fired' \ fired, ~partial[x]
          PROVE  x \in recorded /\ work[x] \in executed
      <4>1. 1 \in 1 .. Len(cmds[q]) /\ cmds[q][1] = <<"record", x>> /\ x \in Events
        BY <1>6, <3>1 DEF TypeInv, TypeOK
      <4>2. x \in recorded /\ Ahead(q, work[x], 1)
        BY <4>1 DEF OrderInv, DeviceOK, RecordsFollow
      <4>3. QED
        BY <4>2 DEF Ahead
    <3>2. QED
      BY <1>1, <3>1 DEF OrderInv, DeviceOK
  <2>5. QED
    BY <2>1, <2>2, <2>3, <2>4 DEF DeviceOK, Launched
<1>8. OwnersOK'
  <2>1. \A e \in fired' \ fired : e \in Events => home[e] # Null
    BY <1>6, ConstantAssumption DEF OrderInv, OwnersOK, DeviceOK, RecordsFollow
  <2>2. QED
    BY <1>1, <2>1 DEF OrderInv, OwnersOK
<1>9. PartialsCovered'
  <2> SUFFICES ASSUME NEW s \in Streams, NEW p \in Events, NEW r \in Events,
                      partial[p], ~partial[r], Precedes(s, p, r)
               PROVE  SignalledAfter(s, p, r)'
    BY <1>1 DEF PartialsCovered, Precedes, PutAside, InQueue, Unseen
  <2>1. SignalledAfter(s, p, r) /\ home[r] = s
    BY PrecedesAt DEF OrderInv, PartialsCovered
  <2>2. r \in fired' => work'[p] \in executed'
    <3>1. CASE r \in fired
      BY <1>1, <2>1, <3>1 DEF SignalledAfter
    <3>2. CASE r \in fired' \ fired
      <4>1. 1 \in 1 .. Len(cmds[q]) /\ cmds[q][1] = <<"record", r>>
        BY <1>6, <3>2
      <4>2. s = q
        BY <2>1, <4>1 DEF OrderInv, DeviceOK, RecordsFollow
      <4>3. Ahead(s, work[p], 1)
        BY <2>1, <4>1, <4>2 DEF SignalledAfter
      <4>4. QED
        BY <1>1, <4>3 DEF Ahead
    <3>3. QED
      BY <3>1, <3>2
  <2>3. ASSUME NEW i \in 1 .. Len(cmds'[s]), cmds'[s][i] = <<"record", r>>
        PROVE  Ahead(s, work[p], i)'
    <3>1. PICK w : w = work[p]
      OBVIOUS
    <3>2. PICK j \in 1 .. Len(cmds[s]) :
            cmds[s][j] = <<"record", r>> /\ (Ahead(s, w, j) => Ahead(s, w, i)')
      BY <1>5, <2>3
    <3>3. Ahead(s, work[p], j)
      BY <2>1, <3>2 DEF SignalledAfter
    <3>4. Ahead(s, w, i)'
      BY <3>1, <3>2, <3>3 DEF Ahead
    <3>5. QED
      BY <1>1, <3>1, <3>4 DEF Ahead
  <2>4. QED
    BY <2>2, <2>3 DEF SignalledAfter
<1>10. GcOK' /\ DoneAfterExecuted'
  BY <1>1 DEF OrderInv, GcOK, DoneAfterExecuted
<1>11. QED
  BY <1>7, <1>8, <1>9, <1>10 DEF OrderInv
-----------------------------------------------------------------------------
(* The whole next-state relation.                                          *)

LEMMA OrderInvInit == Init => OrderInv
<1> SUFFICES ASSUME Init PROVE OrderInv
  OBVIOUS
<1> USE ConstantAssumption DEF Init
<1>1. DeviceOK
  BY DEF DeviceOK, RecordsFollow
<1>2. OwnersOK
  BY DEF OwnersOK
<1>3. PartialsCovered
  BY DEF PartialsCovered
<1>4. GcOK
  BY DEF GcOK
<1>5. DoneAfterExecuted
  BY DEF DoneAfterExecuted
<1>6. QED
  BY <1>1, <1>2, <1>3, <1>4, <1>5 DEF OrderInv

LEMMA OrderInvStep ==
  ASSUME TypeInv, EventInv, OrderInv, [Next]_vars
  PROVE  OrderInv'
<1>1. TypeInv'
  BY TypeInvStep
<1>2. ASSUME NEW t \in Threads, Continue(t) \/ Begin(t)
      PROVE  OrderInv'
  <2>1. CASE \/ \E o \in Ops : BeginOp(t, o)
             \/ \E a \in Addrs : EnqueueWait(t, a) \/ LookupForWait(t, a)
             \/ LaunchFails(t) \/ ReadPartialPtrs(t) \/ FindPartialPtrs(t)
             \/ AwaitDone(t) \/ StreamWaitGot(t) \/ IsFlushed(t) \/ BeginFlush(t)
             \/ \E a \in Addrs, s \in Streams : GetWaitEvent(t, a, s)
             \/ \E s \in Streams : FlushStream(t, s) \/ FlushTimesOut(t, s)
    BY <1>1, <2>1, ControlSteps, ControlStep
  <2>2. CASE \E e \in Events : MapEventToTensor(t, e) \/ AddProducer(t, e)
    BY <1>1, <2>2, MapOrder, AddProducerOrder
  <2>3. CASE Launch(t)
    BY <1>1, <2>3, LaunchOrder
  <2>4. CASE PushPartial(t)
    BY <1>1, <2>4, PushPartialOrder
  <2>5. CASE RegisterPending(t)
    BY <1>1, <2>5, RegistersOrder
  <2>6. CASE \E e \in Events, r \in Streams, s \in Streams : RecordAndWait(t, e, r, s)
    BY <1>1, <2>6, RecordAndWaitOrder
  <2>7. QED
    BY <1>2, <2>1, <2>2, <2>3, <2>4, <2>5, <2>6 DEF Continue, Begin
<1>3. ASSUME NEW s \in Streams, GcStep(s)
      PROVE  OrderInv'
  BY <1>1, <1>3, GcPopOrder, GcTakeOrder, GcControlOrder, GcCompleteOrder DEF GcStep
<1>4. ASSUME NEW s \in Streams, DeviceStep(s)
      PROVE  OrderInv'
  BY <1>1, <1>4, DeviceStepOrder
<1>5. ASSUME NEW s \in Streams, NEW e \in Events, DeviceSignal(s, e)
      PROVE  OrderInv'
  BY <1>1, <1>5, DeviceSignalOrder
<1>6. CASE DestroyStreams
  BY <1>1, <1>6, DestroyStreamsOrder
<1>7. CASE UNCHANGED vars
  <2>1. /\ UNCHANGED <<home, partial, work, hostVars, devVars>>
        /\ UNCHANGED <<done, pending, gc, gcEv, partials>>
    BY <1>7 DEF vars, semVars, gcVars, hostVars, devVars
  <2>2. \A s \in Streams, p, r \in Events : Precedes(s, p, r)' => Precedes(s, p, r)
    BY <2>1 DEF Precedes, PutAside, InQueue, Unseen
  <2>3. DeviceOK' /\ OwnersOK' /\ PartialsCovered'
    BY <2>1, <2>2, GcFrame
  <2>4. GcOK' /\ DoneAfterExecuted'
    BY <2>1 DEF OrderInv, GcOK, DoneAfterExecuted, devVars
  <2>5. QED
    BY <2>3, <2>4 DEF OrderInv
<1>8. QED
  BY <1>2, <1>3, <1>4, <1>5, <1>6, <1>7 DEF Next, Joined

\* An event is completed - its callback frees tensors, its waiters return -
\* only after the device has done the work it stands for, a partial event
\* included: the invariant behind DoneAfterExecuted (event::complete called
\* by gc_thread_proc).
THEOREM OrderInvariant == Spec => [](TypeInv /\ EventInv /\ OrderInv)
<1>1. Init => TypeInv /\ EventInv /\ OrderInv
  BY TypeInvInit, EventInvInit, OrderInvInit
<1>2. TypeInv /\ EventInv /\ OrderInv /\ [Next]_vars => (TypeInv /\ EventInv /\ OrderInv)'
  BY TypeInvStep, EventInvStep, OrderInvStep
<1>3. QED
  BY <1>1, <1>2, PTL DEF Spec

\* DoneAfterExecuted, for any numbers of streams, threads, addresses, events.
THEOREM CompletedWorkIsDone == Spec => []DoneAfterExecuted
<1>1. OrderInv => DoneAfterExecuted
  BY DEF OrderInv
<1>2. QED
  BY <1>1, OrderInvariant, PTL

-----------------------------------------------------------------------------
(* Flushing and the end of a stream: flush_stream_events returns only when *)
(* what was queued is complete (FlushCompletes), and joining the GC        *)
(* threads loses no event (NoEventLostAtExit).                             *)
(*                                                                         *)
(* The argument follows an event from the step that queues it: until it is *)
(* complete it is an unseen entry of the queue of its stream or in the     *)
(* hands of its GC thread (RealsKept).  The empty event of ~stream is      *)
(* queued last (EmptyLast), and a real event comes behind every partial    *)
(* one (PartialsDrained), so the thread ends with nothing left.            *)

\* Event e waits for the GC thread of its stream.
Waiting(e) == InQueue(home[e], e) \/ gcEv[home[e]] = e

Real(e) == e # Null /\ ~partial[e]

RealsKept ==
  \A e \in recorded : ~partial[e] => done[e] \/ Waiting(e)

AllExit == \A t \in Threads : pc[t] = "exit"

\* The empty event is queued last, when no thread is left.
EmptyLast(s) ==
  /\ \A i \in Unseen(s) : pending[s][i] = Null =>
       AllExit /\ \A j \in Unseen(s) : i < j => pending[s][j] = Null
  /\ gc[s] = "exit" => AllExit /\ \A j \in Unseen(s) : pending[s][j] = Null

\* A real event will be queued on stream s.
Coming(s) == \E t \in Threads : pc[t] \in {"launched", "register"} /\ cur[t].s = s

\* A partial event is followed by a real one, whose completion drains it.
PartialsDrained(s) ==
  /\ \A i \in Unseen(s) : pending[s][i] # Null /\ partial[pending[s][i]] =>
       Coming(s) \/ \E j \in Unseen(s) : i < j /\ Real(pending[s][j])
  /\ partials[s] # <<>> =>
       Coming(s) \/ gcEv[s] # Null \/ \E j \in Unseen(s) : Real(pending[s][j])

QueuedRecorded(s) ==
  \A i \in 1 .. Len(pending[s]) : Real(pending[s][i]) => pending[s][i] \in recorded

StreamOK(s) == EmptyLast(s) /\ PartialsDrained(s) /\ QueuedRecorded(s)

\* What a flush waits for is complete, or in a stream it has not flushed yet.
FlushOK ==
  \A t \in Threads : pc[t] = "flush" => \A e \in goal[t] :
    ~partial[e] /\ (done[e] \/ (home[e] \in todo[t] \cap Streams /\ Waiting(e)))

ExitInv == RealsKept /\ FlushOK /\ \A s \in Streams : StreamOK(s)

-----------------------------------------------------------------------------
(* Flushing and joining: what a step keeps.                                *)

\* An event stays where it is until it is complete.
Kept ==
  \A e \in Events : home[e] # Null =>
    /\ home'[e] = home[e] /\ partial'[e] = partial[e]
    /\ done[e] => done'[e]
    /\ ~partial[e] /\ Waiting(e) => done'[e] \/ Waiting(e)'

LEMMA RecordedExist ==
  ASSUME TypeInv, EventInv, OrderInv, NEW e \in Events, e \in recorded \/ done[e]
  PROVE  home[e] \in Streams /\ home[e] # Null
BY Typed, ConstantAssumption DEF OrderInv, OwnersOK, EventInv, FreshOK

LEMMA RealsFrame ==
  ASSUME TypeInv, TypeInv', EventInv, OrderInv, RealsKept, Kept,
         \A e \in recorded' : e \in recorded \/ partial'[e] \/ Waiting(e)'
  PROVE  RealsKept'
<1> SUFFICES ASSUME NEW e \in Events, e \in recorded, ~partial'[e], ~done'[e]
             PROVE  Waiting(e)'
  BY DEF RealsKept, TypeInv, TypeOK
<1>1. home[e] # Null
  BY RecordedExist
<1>2. QED
  BY <1>1 DEF RealsKept, Kept

\* No flush begins or ends.
SameFlush ==
  \A t \in Threads : pc'[t] = "flush" =>
    pc[t] = "flush" /\ goal'[t] = goal[t] /\ todo'[t] = todo[t]

LEMMA FlushFrame ==
  ASSUME TypeInv, EventInv, OrderInv, FlushOK, Kept, SameFlush
  PROVE  FlushOK'
<1> SUFFICES ASSUME NEW t \in Threads, pc'[t] = "flush", NEW e \in goal'[t]
             PROVE  /\ ~partial'[e]
                    /\ done'[e] \/ (home'[e] \in todo'[t] \cap Streams /\ Waiting(e)')
  BY DEF FlushOK
<1>1. /\ pc[t] = "flush" /\ e \in goal[t] /\ todo'[t] = todo[t]
      /\ e \in Events
  BY DEF SameFlush, TypeInv, TypeOK
<1>2. home[e] # Null
  BY <1>1, RecordedExist, ConstantAssumption DEF FlushOK
<1>3. QED
  BY <1>1, <1>2 DEF FlushOK, Kept

\* The stream's own queue does not change.
SameStream(s) ==
  /\ pending'[s] = pending[s] /\ Unseen(s)' = Unseen(s)
  /\ gcEv'[s] = gcEv[s] /\ partials'[s] = partials[s]
  /\ gc'[s] = "exit" => gc[s] = "exit"

\* No thread ends, and what was coming is.
SameHost(s) ==
  /\ AllExit => AllExit'
  /\ Coming(s) => Coming(s)'
  /\ recorded \subseteq recorded'
  /\ \A e \in Events : ~Nowhere(e) => partial'[e] = partial[e]

LEMMA StreamFrame ==
  ASSUME TypeInv, TypeInv', NEW s \in Streams, SameStream(s), SameHost(s), StreamOK(s)
  PROVE  StreamOK(s)'
<1>1. /\ Unseen(s) \subseteq 1 .. Len(pending[s])
      /\ \A i \in 1 .. Len(pending[s]) : pending[s][i] # Null =>
           pending[s][i] \in Events /\ ~Nowhere(pending[s][i])
  BY Typed DEF Unseen, Nowhere
<1>2. \A i \in 1 .. Len(pending[s]) :
        pending'[s][i] = pending[s][i]
        /\ (pending[s][i] # Null => partial'[pending[s][i]] = partial[pending[s][i]])
  BY <1>1 DEF SameStream, SameHost
<1>3. EmptyLast(s)'
  BY DEF StreamOK, SameStream, SameHost, EmptyLast
<1>4. PartialsDrained(s)'
  <2>1. \A j \in Unseen(s) : Real(pending[s][j]) => Real(pending[s][j])'
    BY <1>1, <1>2 DEF SameStream, Real
  <2>2. ASSUME NEW i \in Unseen(s), pending[s][i] # Null, partial'[pending[s][i]]
        PROVE  Coming(s)' \/ \E j \in Unseen(s) : i < j /\ Real(pending[s][j])'
    BY <1>1, <1>2, <2>1, <2>2 DEF StreamOK, SameHost, PartialsDrained
  <2>3. partials[s] # <<>> =>
          Coming(s)' \/ gcEv[s] # Null \/ \E j \in Unseen(s) : Real(pending[s][j])'
    BY <2>1 DEF StreamOK, SameHost, PartialsDrained
  <2>4. QED
    BY <2>2, <2>3 DEF PartialsDrained, SameStream
<1>5. QueuedRecorded(s)'
  BY <1>1, <1>2 DEF StreamOK, SameStream, SameHost, QueuedRecorded, Real
<1>6. QED
  BY <1>3, <1>4, <1>5 DEF StreamOK

\* A step that moves no event.
LEMMA StillFrame ==
  ASSUME TypeInv, TypeInv', EventInv, OrderInv, ExitInv,
         \A s \in Streams : SameStream(s) /\ SameHost(s),
         \A e \in Events : home[e] # Null =>
           home'[e] = home[e] /\ partial'[e] = partial[e] /\ (done[e] => done'[e]),
         \A e \in recorded' : e \in recorded \/ partial'[e],
         SameFlush \/ FlushOK'
  PROVE  ExitInv'
<1>1. Kept
  <2> SUFFICES ASSUME NEW e \in Events, home[e] # Null, Waiting(e) PROVE Waiting(e)'
    BY DEF Kept
  <2>1. home[e] \in Streams /\ home'[e] = home[e]
    BY Typed
  <2>2. QED
    BY <2>1 DEF Waiting, InQueue, SameStream
<1>2. RealsKept'
  BY <1>1, RealsFrame DEF ExitInv
<1>3. FlushOK'
  BY <1>1, FlushFrame DEF ExitInv
<1>4. \A s \in Streams : StreamOK(s)'
  BY StreamFrame DEF ExitInv
<1>5. QED
  BY <1>2, <1>3, <1>4 DEF ExitInv

\* What is not nowhere exists.
LEMMA SomewhereExists ==
  ASSUME TypeInv, EventInv, NEW e \in Events, ~Nowhere(e)
  PROVE  home[e] # Null
BY ConstantAssumption
DEF EventInv, QueuesOK, QueueHomeOK, PartialsOK, InHandOK, Nowhere

LEMMA ControlExit ==
  ASSUME TypeInv, TypeInv', EventInv, OrderInv, ExitInv, NEW t \in Threads, Control(t),
         SameFlush \/ FlushOK'
  PROVE  ExitInv'
<1>1. UNCHANGED <<home, partial, done, pending, gc, gcEv, partials, recorded>>
  BY DEF Control, gcVars
<1>2. ASSUME NEW s \in Streams PROVE SameStream(s) /\ SameHost(s)
  <2>1. SameStream(s)
    BY <1>1 DEF SameStream, Unseen
  <2>2. Coming(s) => Coming(s)'
    BY DEF Coming, Control
  <2>3. ~AllExit
    BY DEF AllExit, Control
  <2>4. QED
    BY <1>1, <2>1, <2>2, <2>3 DEF SameHost
<1>3. QED
  BY <1>1, <1>2, StillFrame

\* The steps of flush_stream_events.
LEMMA FlushSteps ==
  ASSUME TypeInv, TypeInv', EventInv, OrderInv, ExitInv, NEW t \in Threads,
         \/ BeginFlush(t)
         \/ \E s \in Streams : FlushStream(t, s) \/ FlushTimesOut(t, s)
  PROVE  FlushOK'
<1>1. /\ UNCHANGED <<home, partial, done, pending, gc, gcEv>>
      /\ \A u \in Threads \ {t} : pc'[u] = pc[u] /\ goal'[u] = goal[u] /\ todo'[u] = todo[u]
  BY DEF BeginFlush, FlushStream, FlushTimesOut, Goto, semVars, gcVars, TypeInv, TypeOK
<1>2. \A e \in Events : Waiting(e)' = Waiting(e)
  BY <1>1 DEF Waiting, InQueue, Unseen
<1>3. goal \in [Threads -> SUBSET Events] /\ todo \in [Threads -> SUBSET (Addrs \cup Streams)]
  BY DEF TypeInv, TypeOK
<1>4. ASSUME NEW u \in Threads \ {t}, pc'[u] = "flush", NEW e \in goal'[u]
      PROVE  /\ ~partial'[e]
             /\ done'[e] \/ (home'[e] \in todo'[u] \cap Streams /\ Waiting(e)')
  BY <1>1, <1>2, <1>3, <1>4 DEF ExitInv, FlushOK
<1>5. ASSUME NEW e \in goal'[t]
      PROVE  /\ ~partial'[e]
             /\ done'[e] \/ (home'[e] \in todo'[t] \cap Streams /\ Waiting(e)')
  <2>1. CASE BeginFlush(t)
    <3>1. goal'[t] = UNION {Queued(s) : s \in Streams} /\ todo'[t] = Streams
      BY <1>3, <2>1 DEF BeginFlush
    <3>2. PICK s \in Streams :
            e \in Events /\ ~partial[e] /\ \E i \in 1 .. Len(pending[s]) : pending[s][i] = e
      BY <1>5, <3>1 DEF Queued
    <3>3. e \in recorded /\ e # Null
      BY <3>2, ConstantAssumption DEF ExitInv, StreamOK, QueuedRecorded, Real
    <3>4. home[e] \in Streams
      BY <3>2, <3>3, RecordedExist
    <3>5. done[e] \/ Waiting(e)
      BY <3>2, <3>3 DEF ExitInv, RealsKept
    <3>6. QED
      BY <1>1, <1>2, <3>1, <3>2, <3>4, <3>5
  <2>2. ASSUME NEW s \in Streams, FlushStream(t, s)
        PROVE  /\ ~partial'[e]
               /\ done'[e] \/ (home'[e] \in todo'[t] \cap Streams /\ Waiting(e)')
    <3>1. /\ goal'[t] = goal[t] /\ pc[t] = "flush" /\ pending[s] = <<>>
          /\ todo'[t] = todo[t] \ {s}
      BY <1>3, <2>2 DEF FlushStream
    <3>2. /\ e \in Events /\ ~partial[e]
          /\ done[e] \/ (home[e] \in todo[t] \cap Streams /\ Waiting(e))
      BY <1>3, <1>5, <3>1 DEF ExitInv, FlushOK
    <3>3. gcEv[s] = Null
      BY <3>1, Typed DEF TypeInv, ControlOK, EventInv, QueuesOK, InHandOK
    <3>4. ~InQueue(s, e)
      BY <3>1 DEF InQueue, Unseen
    <3>5. home[e] = s => ~Waiting(e)
      BY <3>2, <3>3, <3>4, ConstantAssumption DEF Waiting
    <3>6. QED
      BY <1>1, <1>2, <3>1, <3>2, <3>5
  <2>3. ASSUME NEW s \in Streams, FlushTimesOut(t, s) PROVE FALSE
    BY <1>3, <1>5, <2>3 DEF FlushTimesOut
  <2>4. QED
    BY <2>1, <2>2, <2>3
<1>6. QED
  BY <1>4, <1>5 DEF FlushOK

LEMMA ControlExits ==
  ASSUME TypeInv, TypeInv', EventInv, OrderInv, ExitInv, NEW t \in Threads,
         \/ \E o \in Ops : BeginOp(t, o)
         \/ \E a \in Addrs : EnqueueWait(t, a) \/ LookupForWait(t, a)
         \/ LaunchFails(t) \/ ReadPartialPtrs(t) \/ FindPartialPtrs(t)
         \/ AwaitDone(t) \/ StreamWaitGot(t) \/ IsFlushed(t) \/ BeginFlush(t)
         \/ \E a \in Addrs, s \in Streams : GetWaitEvent(t, a, s)
         \/ \E s \in Streams : FlushStream(t, s) \/ FlushTimesOut(t, s)
  PROVE  ExitInv'
<1>1. Control(t)
  BY ControlSteps
<1>2. pc'[t] # "flush" => SameFlush
  BY <1>1 DEF SameFlush, Control
<1>3. \/ pc'[t] # "flush" \/ BeginFlush(t)
      \/ \E s \in Streams : FlushStream(t, s) \/ FlushTimesOut(t, s)
  BY Typed DEF BeginOp, EnqueueWait, LookupForWait, LaunchFails, ReadPartialPtrs,
               FindPartialPtrs, AwaitDone, StreamWaitGot, IsFlushed, GetWaitEvent,
               Return, Goto
<1>4. QED
  BY <1>1, <1>2, <1>3, ControlExit, FlushSteps

LEMMA CreateExit ==
  ASSUME TypeInv, TypeInv', EventInv, OrderInv, ExitInv, NEW t \in Threads, NEW x \in Events,
         MapEventToTensor(t, x) \/ AddProducer(t, x)
  PROVE  ExitInv'
<1>1. /\ home[x] = Null /\ \E q : home' = [home EXCEPT ![x] = q]
      /\ \E b \in BOOLEAN : partial' = [partial EXCEPT ![x] = b]
      /\ UNCHANGED <<done, pending, gc, gcEv, partials, recorded, cur, goal, todo>>
  BY DEF MapEventToTensor, AddProducer, NewEvent, gcVars
<1>2. \A e \in Events : home[e] # Null =>
        home'[e] = home[e] /\ partial'[e] = partial[e] /\ (done[e] => done'[e])
  BY <1>1, Typed
<1>3. /\ \A u \in Threads \ {t} : pc'[u] = pc[u]
      /\ pc[t] # "exit" /\ pc'[t] # "flush"
      /\ pc[t] \in {"launched", "register"} => pc'[t] \in {"launched", "register"}
  BY Typed DEF MapEventToTensor, AddProducer, Goto
<1>4. ASSUME NEW s \in Streams PROVE SameStream(s) /\ SameHost(s)
  <2>1. SameStream(s)
    BY <1>1 DEF SameStream, Unseen
  <2>2. Coming(s) => Coming(s)'
    BY <1>1, <1>3 DEF Coming
  <2>3. ~AllExit
    BY <1>3 DEF AllExit
  <2>4. \A e \in Events : ~Nowhere(e) => partial'[e] = partial[e]
    BY <1>2, SomewhereExists
  <2>5. QED
    BY <1>1, <2>1, <2>2, <2>3, <2>4 DEF SameHost
<1>5. SameFlush
  BY <1>1, <1>3 DEF SameFlush
<1>6. \A e \in recorded' : e \in recorded
  BY <1>1
<1>7. QED
  BY <1>2, <1>4, <1>5, <1>6, StillFrame

LEMMA LaunchExit ==
  ASSUME TypeInv, TypeInv', EventInv, OrderInv, ExitInv, NEW t \in Threads, Launch(t)
  PROVE  ExitInv'
<1>1. UNCHANGED <<home, partial, done, pending, gc, gcEv, partials, cur, goal, todo>>
  BY DEF Launch, semVars, gcVars
<1>2. recorded \subseteq recorded' /\ recorded' \subseteq recorded \cup {part[t]}
  BY DEF Launch
<1>3. part[t] \in Events => partial[part[t]]
  BY Controlled, ConstantAssumption DEF Launch, ReadyToLaunch, OrderInv, OwnersOK
<1>4. recorded' \subseteq Events
  BY DEF TypeInv, TypeOK
<1>5. \A e \in recorded' : e \in recorded \/ partial'[e]
  BY <1>1, <1>2, <1>3, <1>4
<1>6. /\ \A u \in Threads \ {t} : pc'[u] = pc[u]
      /\ pc[t] \notin {"exit", "launched", "register"} /\ pc'[t] # "flush"
  BY Typed DEF Launch, ReadyToLaunch, Goto
<1>7. ASSUME NEW s \in Streams PROVE SameStream(s) /\ SameHost(s)
  <2>1. SameStream(s)
    BY <1>1 DEF SameStream, Unseen
  <2>2. Coming(s) => Coming(s)'
    BY <1>1, <1>6 DEF Coming
  <2>3. ~AllExit
    BY <1>6 DEF AllExit
  <2>4. QED
    BY <1>1, <1>2, <2>1, <2>2, <2>3 DEF SameHost
<1>8. SameFlush
  BY <1>1, <1>6 DEF SameFlush
<1>9. QED
  BY <1>1, <1>5, <1>7, <1>8, StillFrame

\* Device steps and the two control steps of the GC threads.
LEMMA DeviceExit ==
  ASSUME TypeInv, TypeInv', EventInv, EventInv', OrderInv, ExitInv, NEW q \in Streams,
         \/ DeviceStep(q) \/ \E e \in Events : DeviceSignal(q, e)
         \/ GcSynchronize(q) \/ GcUnmap(q)
  PROVE  ExitInv'
<1>1. /\ UNCHANGED <<home, partial, done, pending, gcEv, partials, recorded>>
      /\ UNCHANGED hostVars
  BY DEF DeviceStep, DeviceSignal, GcSynchronize, GcUnmap, semVars, gcVars, devVars
<1>2. /\ \A s \in Streams \ {q} : gc'[s] = gc[s]
      /\ gc'[q] = gc[q] \/ (gc[q] # "take" /\ gc'[q] \in {"unmap", "complete"})
  BY Typed DEF DeviceStep, DeviceSignal, gcVars, GcSynchronize, GcUnmap, GcFatal,
               EventInv, NoGcFatal
<1>3. ASSUME NEW s \in Streams PROVE SameStream(s) /\ SameHost(s)
  <2>1. Unseen(s)' = Unseen(s) /\ (gc'[s] = "exit" => gc[s] = "exit")
    BY <1>1, <1>2 DEF Unseen
  <2>2. SameStream(s)
    BY <1>1, <2>1 DEF SameStream
  <2>3. SameHost(s)
    BY <1>1 DEF SameHost, hostVars, Coming, AllExit
  <2>4. QED
    BY <2>2, <2>3
<1>4. SameFlush
  BY <1>1 DEF SameFlush, hostVars
<1>5. QED
  BY <1>1, <1>3, <1>4, StillFrame

\* A queue with a new last entry: it is unseen.
LEMMA Pushed ==
  ASSUME TypeInv, NEW q \in Streams, NEW x \in Events \cup {Null},
         pending'[q] = Append(pending[q], x), gc'[q] = gc[q], gc[q] # "exit" \/ x = Null
  PROVE  /\ \A i \in 1 .. Len(pending[q]) : pending'[q][i] = pending[q][i]
         /\ \A i \in Unseen(q) : i \in Unseen(q)' /\ i \in 1 .. Len(pending[q])
         /\ \A i \in 1 .. Len(pending'[q]) :
              i \in 1 .. Len(pending[q]) \/ pending'[q][i] = x
         /\ \A i \in Unseen(q)' :
              \/ i \in Unseen(q)
              \/ pending'[q][i] = x /\ \A j \in Unseen(q)' : ~ i < j
         /\ x # Null => \E i \in Unseen(q)' :
              pending'[q][i] = x /\ \A j \in Unseen(q) : j < i
<1>1. pending[q] \in Seq(Events \cup {Null}) /\ Len(pending[q]) \in Nat
  BY Typed
<1>2. PICK n \in Nat : n = Len(pending[q]) + 1
  BY <1>1
<1>3. /\ Len(pending'[q]) = n /\ pending'[q][n] = x
      /\ \A i \in 1 .. Len(pending[q]) : pending'[q][i] = pending[q][i]
      /\ \A i \in 1 .. Len(pending'[q]) : i \in 1 .. Len(pending[q]) \/ i = n
      /\ \A i \in 1 .. Len(pending[q]) : i \in 1 .. Len(pending'[q]) /\ i < n
  BY <1>1, <1>2
<1>4. \A i \in Unseen(q) : i \in Unseen(q)' /\ i \in 1 .. Len(pending[q])
  BY <1>3 DEF Unseen
<1>5. \A i \in Unseen(q)' : i \in Unseen(q) \/ i = n
  BY <1>3 DEF Unseen
<1>6. \A j \in Unseen(q)' : ~ n < j
  BY <1>1, <1>2, <1>3 DEF Unseen
<1>7. ASSUME x # Null PROVE n \in Unseen(q)'
  <2>1. n > 1 \/ gc[q] = "take"
    <3>1. CASE pending[q] = <<>>
      BY <1>7, <3>1, Typed DEF TypeInv, ControlOK, GCs
    <3>2. CASE pending[q] # <<>>
      BY <1>1, <1>2, <3>2
    <3>3. QED
      BY <3>1, <3>2
  <2>2. n \in 1 .. Len(pending'[q])
    BY <1>1, <1>2, <1>3
  <2>3. QED
    BY <2>1, <2>2 DEF Unseen
<1>8. QED
  BY <1>3, <1>4, <1>5, <1>6, <1>7

LEMMA PushedLast ==
  ASSUME TypeInv, NEW q \in Streams, NEW x \in Events,
         pending'[q] = Append(pending[q], x), gc'[q] = gc[q], gc[q] # "exit"
  PROVE  InQueue(q, x)'
<1>1. x \in Events \cup {Null} /\ x # Null
  BY ConstantAssumption
<1>2. \E i \in Unseen(q)' : pending'[q][i] = x /\ \A j \in Unseen(q) : j < i
  BY <1>1, Pushed, ZenonT(30)
<1>3. QED
  BY <1>2 DEF InQueue

\* A stream with a new last entry.
LEMMA PushedStream ==
  ASSUME TypeInv, TypeInv', NEW q \in Streams, NEW x \in Events \cup {Null},
         pending'[q] = Append(pending[q], x),
         gc'[q] = gc[q], gcEv'[q] = gcEv[q], partials'[q] = partials[q],
         StreamOK(q), recorded \subseteq recorded',
         \A e \in Events : ~Nowhere(e) => partial'[e] = partial[e],
         AllExit => AllExit' /\ x = Null,
         x = Null => AllExit',
         x # Null => partial'[x] \/ x \in recorded',
         x # Null /\ partial'[x] => Coming(q)',
         (x # Null /\ ~partial'[x]) \/ (Coming(q) => Coming(q)')
  PROVE  StreamOK(q)'
<1>1. /\ gc[q] # "exit" \/ x = Null
      /\ gc[q] = "exit" => AllExit
  BY DEF StreamOK, EmptyLast
<1>2. /\ \A i \in 1 .. Len(pending[q]) : pending'[q][i] = pending[q][i]
      /\ \A i \in Unseen(q) : i \in Unseen(q)' /\ i \in 1 .. Len(pending[q])
      /\ \A i \in 1 .. Len(pending'[q]) :
              i \in 1 .. Len(pending[q]) \/ pending'[q][i] = x
      /\ \A i \in Unseen(q)' :
              \/ i \in Unseen(q)
              \/ pending'[q][i] = x /\ \A j \in Unseen(q)' : ~ i < j
      /\ x # Null => \E i \in Unseen(q)' :
              pending'[q][i] = x /\ \A j \in Unseen(q) : j < i
  BY <1>1, Pushed
<1>3. \A i \in 1 .. Len(pending[q]) : pending[q][i] # Null =>
        pending[q][i] \in Events /\ partial'[pending[q][i]] = partial[pending[q][i]]
  BY Typed DEF Nowhere
<1>4. EmptyLast(q)'
  <2>1. ASSUME NEW i \in Unseen(q)', pending'[q][i] = Null
        PROVE  AllExit' /\ \A j \in Unseen(q)' : i < j => pending'[q][j] = Null
    <3>1. CASE i \in Unseen(q)
      <4>1. AllExit /\ \A j \in Unseen(q) : i < j => pending[q][j] = Null
        BY <1>2, <2>1, <3>1 DEF StreamOK, EmptyLast
      <4>2. QED
        BY <1>2, <4>1
    <3>2. CASE i \notin Unseen(q)
      BY <1>2, <2>1, <3>2
    <3>3. QED
      BY <3>1, <3>2
  <2>2. ASSUME gc'[q] = "exit" PROVE AllExit' /\ \A j \in Unseen(q)' : pending'[q][j] = Null
    BY <1>1, <1>2, <2>2 DEF StreamOK, EmptyLast
  <2>3. QED
    BY <2>1, <2>2 DEF EmptyLast
<1>5. PartialsDrained(q)'
  <2>1. \A j \in Unseen(q) : Real(pending[q][j]) => Real(pending[q][j])' /\ j \in Unseen(q)'
    BY <1>2, <1>3 DEF Real
  <2>2. Coming(q) => Coming(q)' \/ \E j \in Unseen(q)' :
                       (\A i \in Unseen(q) : i < j) /\ Real(pending[q][j])'
    <3>1. CASE x # Null /\ ~partial'[x]
      <4>1. PICK j \in Unseen(q)' : pending'[q][j] = x /\ \A i \in Unseen(q) : i < j
        BY <1>2, <3>1
      <4>2. Real(pending[q][j])'
        BY <3>1, <4>1 DEF Real
      <4>3. QED
        BY <4>1, <4>2
    <3>2. CASE ~(x # Null /\ ~partial'[x])
      BY <3>2
    <3>3. QED
      BY <3>1, <3>2
  <2>3. ASSUME NEW i \in Unseen(q)', pending'[q][i] # Null, partial'[pending'[q][i]]
        PROVE  Coming(q)' \/ \E j \in Unseen(q)' : i < j /\ Real(pending[q][j])'
    <3>1. CASE i \in Unseen(q)
      <4>1. pending[q][i] # Null /\ partial[pending[q][i]]
        BY <1>2, <1>3, <2>3, <3>1
      <4>2. Coming(q) \/ \E j \in Unseen(q) : i < j /\ Real(pending[q][j])
        BY <3>1, <4>1 DEF StreamOK, PartialsDrained
      <4>3. QED
        BY <2>1, <2>2, <3>1, <4>2
    <3>2. CASE i \notin Unseen(q)
      BY <1>2, <2>3, <3>2
    <3>3. QED
      BY <3>1, <3>2
  <2>4. ASSUME partials'[q] # <<>>
        PROVE  Coming(q)' \/ gcEv'[q] # Null \/ \E j \in Unseen(q)' : Real(pending[q][j])'
    <3>1. Coming(q) \/ gcEv[q] # Null \/ \E j \in Unseen(q) : Real(pending[q][j])
      BY <2>4 DEF StreamOK, PartialsDrained
    <3>2. QED
      BY <2>1, <2>2, <3>1
  <2>5. QED
    BY <2>3, <2>4 DEF PartialsDrained
<1>6. QueuedRecorded(q)'
  BY <1>2, <1>3 DEF StreamOK, QueuedRecorded, Real
<1>7. QED
  BY <1>4, <1>5, <1>6 DEF StreamOK

\* Event x is queued on stream q.
LEMMA PushExit ==
  ASSUME TypeInv, TypeInv', EventInv, OrderInv, ExitInv, NEW q \in Streams, NEW x \in Events,
         pending' = [pending EXCEPT ![q] = Append(@, x)],
         UNCHANGED <<done, gc, gcEv, partials>>, home'[x] = q, ~AllExit, SameFlush,
         \A e \in Events : home[e] # Null => home'[e] = home[e] /\ partial'[e] = partial[e],
         recorded \subseteq recorded',
         recorded' \subseteq recorded \cup {x},
         \A s \in Streams \ {q} : Coming(s) => Coming(s)',
         IF partial'[x] THEN Coming(q)' ELSE x \in recorded'
  PROVE  ExitInv'
<1>1. x # Null /\ x \in Events \cup {Null} /\ gc[q] # "exit"
  BY ConstantAssumption DEF ExitInv, StreamOK, EmptyLast
<1>2. pending'[q] = Append(pending[q], x) /\ \A s \in Streams \ {q} : pending'[s] = pending[s]
  BY Typed
<1>3. /\ gc'[q] = gc[q] /\ gcEv'[q] = gcEv[q] /\ partials'[q] = partials[q]
  OBVIOUS
<1>4. /\ \A i \in 1 .. Len(pending[q]) : pending'[q][i] = pending[q][i]
      /\ \A i \in Unseen(q) : i \in Unseen(q)' /\ i \in 1 .. Len(pending[q])
      /\ InQueue(q, x)'
  <2>1. /\ \A i \in 1 .. Len(pending[q]) : pending'[q][i] = pending[q][i]
        /\ \A i \in Unseen(q) : i \in Unseen(q)' /\ i \in 1 .. Len(pending[q])
    BY <1>1, <1>2, <1>3, Pushed
  <2>2. InQueue(q, x)'
    BY <1>1, <1>2, <1>3, PushedLast
  <2>3. QED
    BY <2>1, <2>2
<1>5. \A e \in Events : ~Nowhere(e) => partial'[e] = partial[e]
  BY SomewhereExists
<1>6. \A s \in Streams \ {q} : SameStream(s) /\ SameHost(s)
  BY <1>2, <1>5 DEF SameStream, SameHost, Unseen
<1>7. Kept
  <2> SUFFICES ASSUME NEW e \in Events, home[e] # Null, Waiting(e) PROVE Waiting(e)'
    BY DEF Kept
  <2>1. home[e] \in Streams /\ home'[e] = home[e]
    BY Typed
  <2>2. InQueue(home[e], e) => InQueue(home[e], e)'
    <3>1. CASE home[e] = q
      BY <1>4, <2>1, <3>1 DEF InQueue
    <3>2. CASE home[e] # q
      BY <1>6, <2>1, <3>2 DEF InQueue, SameStream
    <3>3. QED
      BY <3>1, <3>2
  <2>3. QED
    BY <2>1, <2>2 DEF Waiting
<1>8. Waiting(x)'
  BY <1>4 DEF Waiting
<1>9. RealsKept'
  BY <1>7, <1>8, RealsFrame DEF ExitInv
<1>10. FlushOK'
  BY <1>7, FlushFrame DEF ExitInv
<1>11. StreamOK(q)'
  <2>1. /\ AllExit => AllExit' /\ x = Null
        /\ x = Null => AllExit'
        /\ x # Null => partial'[x] \/ x \in recorded'
        /\ x # Null /\ partial'[x] => Coming(q)'
        /\ (x # Null /\ ~partial'[x]) \/ (Coming(q) => Coming(q)')
        /\ StreamOK(q)
    BY <1>1 DEF ExitInv
  <2>2. QED
    BY <1>1, <1>2, <1>3, <1>5, <2>1, PushedStream
<1>12. \A s \in Streams \ {q} : StreamOK(s)'
  BY <1>6, StreamFrame DEF ExitInv
<1>13. QED
  BY <1>9, <1>10, <1>11, <1>12 DEF ExitInv

LEMMA PushPartialExit ==
  ASSUME TypeInv, TypeInv', EventInv, OrderInv, ExitInv, NEW t \in Threads, PushPartial(t)
  PROVE  ExitInv'
<1>1. PICK q \in Streams : q = cur[t].s
  BY Controlled DEF PushPartial, Issuing
<1>2. PICK x \in Events : x = part[t]
  BY Controlled DEF PushPartial
<1>3. /\ pending' = [pending EXCEPT ![q] = Append(@, x)]
      /\ UNCHANGED <<gc, gcEv, partials>> /\ UNCHANGED <<done, gc, gcEv, partials>>
      /\ UNCHANGED <<home, partial, recorded, cur, goal, todo>>
  BY <1>1, <1>2 DEF PushPartial, semVars, devVars
<1>4. /\ pc[t] = "push" /\ pc'[t] = "launched"
      /\ \A u \in Threads \ {t} : pc'[u] = pc[u]
  BY Typed DEF PushPartial, Goto
<1>5. home[x] = q /\ partial[x]
  <2>1. Held(t, x)
    BY <1>2, <1>4 DEF Held
  <2>2. QED
    BY <1>1, <1>2, <1>4, <2>1 DEF EventInv, HeldOK, OrderInv, OwnersOK
<1>6. Coming(q)' /\ \A s \in Streams \ {q} : Coming(s) => Coming(s)'
  BY <1>1, <1>3, <1>4 DEF Coming
<1>7. ~AllExit /\ SameFlush
  BY <1>3, <1>4 DEF AllExit, SameFlush
<1>8. QED
  BY <1>3, <1>5, <1>6, <1>7, PushExit

LEMMA RegisterExit ==
  ASSUME TypeInv, TypeInv', EventInv, OrderInv, ExitInv, NEW t \in Threads,
         RegisterPending(t)
  PROVE  ExitInv'
<1>1. PICK q \in Streams : q = cur[t].s
  BY Controlled DEF RegisterPending, Issuing
<1>2. PICK x \in Events : x = ev[t]
  BY Controlled DEF RegisterPending
<1>3. /\ pending' = [pending EXCEPT ![q] = Append(@, x)]
      /\ UNCHANGED <<done, gc, gcEv, partials>>
      /\ UNCHANGED <<home, partial>> /\ recorded' = recorded \cup {x}
  BY <1>1, <1>2 DEF RegisterPending, RecordAndPush, semVars
<1>4. /\ pc[t] = "register" /\ pc'[t] = "idle"
      /\ \A u \in Threads \ {t} :
           pc'[u] = pc[u] /\ cur'[u] = cur[u] /\ goal'[u] = goal[u] /\ todo'[u] = todo[u]
  BY DEF RegisterPending, Return, Goto, TypeInv, TypeOK
<1>5. home[x] = q /\ ~partial[x]
  <2>1. Held(t, x)
    BY <1>2, <1>4 DEF Held
  <2>2. QED
    BY <1>1, <1>2, <1>4, <2>1 DEF EventInv, HeldOK, OrderInv, OwnersOK
<1>6. \A s \in Streams \ {q} : Coming(s) => Coming(s)'
  BY <1>1, <1>4 DEF Coming
<1>7. ~AllExit /\ SameFlush
  BY <1>4 DEF AllExit, SameFlush
<1>8. QED
  BY <1>3, <1>5, <1>6, <1>7, PushExit

LEMMA RecordAndWaitExit ==
  ASSUME TypeInv, TypeInv', EventInv, OrderInv, ExitInv, NEW t \in Threads,
         NEW x \in Events, NEW q \in Streams, NEW s \in Streams, RecordAndWait(t, x, q, s)
  PROVE  ExitInv'
<1>1. /\ pending' = [pending EXCEPT ![q] = Append(@, x)]
      /\ UNCHANGED <<done, gc, gcEv, partials>> /\ recorded' = recorded \cup {x}
      /\ home[x] = Null /\ home' = [home EXCEPT ![x] = q]
      /\ partial' = [partial EXCEPT ![x] = FALSE]
      /\ UNCHANGED <<cur, goal, todo>>
  BY DEF RecordAndWait, RecordAndPush, NewEvent
<1>2. /\ pc[t] = "idle" /\ pc'[t] = "got"
      /\ \A u \in Threads \ {t} : pc'[u] = pc[u]
  BY Typed DEF RecordAndWait, Goto
<1>3. /\ home'[x] = q /\ ~partial'[x]
      /\ \A e \in Events : home[e] # Null => home'[e] = home[e] /\ partial'[e] = partial[e]
  BY <1>1, Typed
<1>4. \A r \in Streams \ {q} : Coming(r) => Coming(r)'
  BY <1>1, <1>2 DEF Coming
<1>5. ~AllExit /\ SameFlush
  BY <1>1, <1>2 DEF AllExit, SameFlush
<1>6. QED
  BY <1>1, <1>3, <1>4, <1>5, PushExit

LEMMA DestroyStreamsExit ==
  ASSUME TypeInv, TypeInv', EventInv, OrderInv, ExitInv, DestroyStreams
  PROVE  ExitInv'
<1>1. /\ \A s \in Streams : pending'[s] = Append(pending[s], Null)
      /\ UNCHANGED <<home, partial, done, gc, gcEv, partials, recorded>>
      /\ AllExit' /\ \A t \in Threads : pc[t] = "idle" /\ pc'[t] = "exit"
  BY DEF DestroyStreams, semVars, devVars, AllExit
<1>2. ASSUME NEW s \in Streams PROVE StreamOK(s)'
  <2>1. PICK x \in Events \cup {Null} : x = Null
    OBVIOUS
  <2>2. /\ AllExit => AllExit' /\ x = Null
        /\ x = Null => AllExit'
        /\ x # Null => partial'[x] \/ x \in recorded'
        /\ x # Null /\ partial'[x] => Coming(s)'
    BY <1>1, <2>1
  <2>3. (x # Null /\ ~partial'[x]) \/ (Coming(s) => Coming(s)')
    BY <1>1 DEF Coming
  <2>4. /\ pending'[s] = Append(pending[s], x)
        /\ gc'[s] = gc[s] /\ gcEv'[s] = gcEv[s] /\ partials'[s] = partials[s]
        /\ recorded \subseteq recorded'
        /\ \A e \in Events : ~Nowhere(e) => partial'[e] = partial[e]
    BY <1>1, <2>1
  <2>5. StreamOK(s)
    BY DEF ExitInv
  <2>6. QED
    BY <2>2, <2>3, <2>4, <2>5, PushedStream
<1>3. Kept
  <2> SUFFICES ASSUME NEW e \in Events, home[e] # Null, Waiting(e) PROVE Waiting(e)'
    BY <1>1 DEF Kept
  <2>1. PICK s \in Streams : s = home[e]
    BY Typed
  <2>2. PICK x \in Events \cup {Null} : x = Null
    OBVIOUS
  <2>3. pending'[s] = Append(pending[s], x) /\ gc'[s] = gc[s]
    BY <1>1, <2>2
  <2>4. /\ \A i \in 1 .. Len(pending[s]) : pending'[s][i] = pending[s][i]
        /\ \A i \in Unseen(s) : i \in Unseen(s)' /\ i \in 1 .. Len(pending[s])
    BY <2>2, <2>3, Pushed
  <2>5. InQueue(s, e) => InQueue(s, e)'
    BY <2>4 DEF InQueue
  <2>6. QED
    BY <1>1, <2>1, <2>5 DEF Waiting
<1>4. RealsKept'
  BY <1>1, <1>3, RealsFrame DEF ExitInv
<1>5. FlushOK'
  BY <1>1 DEF FlushOK
<1>6. QED
  BY <1>2, <1>4, <1>5 DEF ExitInv

\* The step of a GC thread moves events of its own stream only.
LEMMA GcStreams ==
  ASSUME TypeInv, TypeInv', EventInv, OrderInv, ExitInv, NEW q \in Streams,
         UNCHANGED <<home, partial, recorded, hostVars>>,
         \A s \in Streams \ {q} :
           /\ pending'[s] = pending[s] /\ gc'[s] = gc[s]
           /\ gcEv'[s] = gcEv[s] /\ partials'[s] = partials[s],
         \A e \in Events : done[e] => done'[e],
         \A e \in Events : home[e] = q /\ ~partial[e] /\ (InQueue(q, e) \/ gcEv[q] = e) =>
           done'[e] \/ InQueue(q, e)' \/ gcEv'[q] = e,
         StreamOK(q)'
  PROVE  ExitInv'
<1>1. \A s \in Streams : SameHost(s)
  BY DEF SameHost, Coming, AllExit, hostVars
<1>2. \A s \in Streams \ {q} : SameStream(s)
  BY DEF SameStream, Unseen
<1>3. Kept
  <2> SUFFICES ASSUME NEW e \in Events, home[e] # Null, ~partial[e], Waiting(e)
               PROVE  done'[e] \/ Waiting(e)'
    BY DEF Kept
  <2>1. PICK s \in Streams : s = home[e]
    BY Typed
  <2>2. CASE s = q
    <3>1. InQueue(q, e) \/ gcEv[q] = e
      BY <2>1, <2>2 DEF Waiting
    <3>2. done'[e] \/ InQueue(q, e)' \/ gcEv'[q] = e
      BY <2>1, <2>2, <3>1
    <3>3. home'[e] = q
      BY <2>1, <2>2
    <3>4. QED
      BY <3>2, <3>3 DEF Waiting
  <2>3. CASE s # q
    <3>1. InQueue(s, e) => InQueue(s, e)'
      BY <1>2, <2>3 DEF InQueue, SameStream
    <3>2. QED
      BY <2>1, <2>3, <3>1 DEF Waiting
  <2>4. QED
    BY <2>2, <2>3
<1>4. RealsKept'
  BY <1>3, RealsFrame DEF ExitInv
<1>5. FlushOK'
  BY <1>3, FlushFrame DEF ExitInv, SameFlush, hostVars
<1>6. \A s \in Streams \ {q} : StreamOK(s)'
  BY <1>1, <1>2, StreamFrame DEF ExitInv
<1>7. QED
  BY <1>4, <1>5, <1>6 DEF ExitInv

LEMMA GcPopExit ==
  ASSUME TypeInv, TypeInv', EventInv, OrderInv, ExitInv, NEW q \in Streams, GcPop(q)
  PROVE  ExitInv'
<1>1. /\ UNCHANGED <<home, partial, recorded, hostVars>>
      /\ UNCHANGED <<done, gcEv, partials>>
      /\ gc[q] = "pop" /\ pending' = [pending EXCEPT ![q] = Tail(@)]
      /\ gc' = [gc EXCEPT ![q] = "take"]
  BY DEF GcPop, semVars, devVars
<1>2. pending[q] # <<>> /\ gcEv[q] = Null /\ pending[q] \in Seq(Events \cup {Null})
  BY <1>1, Typed DEF EventInv, QueuesOK, InHandOK, TypeInv, ControlOK
<1>3. /\ \A s \in Streams \ {q} : pending'[s] = pending[s] /\ gc'[s] = gc[s]
      /\ pending'[q] = Tail(pending[q]) /\ gc'[q] = "take"
  BY <1>1, Typed
<1>4. /\ \A i \in Unseen(q)' :
           i \in Nat /\ i + 1 \in Unseen(q) /\ pending'[q][i] = pending[q][i + 1]
      /\ \A j \in Unseen(q) :
           j \in Nat /\ j - 1 \in Unseen(q)' /\ pending'[q][j - 1] = pending[q][j]
      /\ \A i \in 1 .. Len(pending'[q]) :
           \E j \in 1 .. Len(pending[q]) : pending'[q][i] = pending[q][j]
  <2>1. /\ Len(pending[q]) \in Nat \ {0} /\ Len(pending'[q]) = Len(pending[q]) - 1
        /\ \A i \in 1 .. Len(pending[q]) - 1 : pending'[q][i] = pending[q][i + 1]
    BY <1>2, <1>3
  <2>2. Unseen(q) = 2 .. Len(pending[q]) /\ Unseen(q)' = 1 .. Len(pending[q]) - 1
    BY <1>1, <1>3, <2>1 DEF Unseen
  <2>3. \A i \in 1 .. Len(pending[q]) - 1 :
          i \in Nat /\ i + 1 \in 2 .. Len(pending[q]) /\ i + 1 \in 1 .. Len(pending[q])
    BY <2>1
  <2>4. \A j \in 2 .. Len(pending[q]) :
          j \in Nat /\ j - 1 \in 1 .. Len(pending[q]) - 1 /\ (j - 1) + 1 = j
    BY <2>1
  <2>5. QED
    BY <2>1, <2>2, <2>3, <2>4
<1>5. /\ AllExit' = AllExit /\ Coming(q)' = Coming(q)
      /\ \A e : Real(e)' = Real(e)
  BY <1>1 DEF AllExit, Coming, Real, hostVars
<1>6. EmptyLast(q)'
  <2>1. ASSUME NEW i \in Unseen(q)', pending'[q][i] = Null
        PROVE  AllExit /\ \A j \in Unseen(q)' : i < j => pending'[q][j] = Null
    <3>1. AllExit /\ \A j \in Unseen(q) : i + 1 < j => pending[q][j] = Null
      BY <1>4, <2>1 DEF ExitInv, StreamOK, EmptyLast
    <3>2. ASSUME NEW j \in Unseen(q)', i < j PROVE pending'[q][j] = Null
      <4>1. i \in Nat /\ j \in Nat /\ j + 1 \in Unseen(q)
        BY <1>4
      <4>2. i + 1 < j + 1
        BY <3>2, <4>1
      <4>3. QED
        BY <1>4, <3>1, <4>1, <4>2
    <3>3. QED
      BY <3>1, <3>2
  <2>2. QED
    BY <1>3, <1>5, <2>1 DEF EmptyLast
<1>7. PartialsDrained(q)'
  <2>1. ASSUME NEW i \in Unseen(q)', pending'[q][i] # Null, partial[pending'[q][i]]
        PROVE  Coming(q) \/ \E j \in Unseen(q)' : i < j /\ Real(pending'[q][j])
    <3>1. Coming(q) \/ \E j \in Unseen(q) : i + 1 < j /\ Real(pending[q][j])
      BY <1>4, <2>1 DEF ExitInv, StreamOK, PartialsDrained
    <3>2. QED
      BY <1>4, <3>1
  <2>2. ASSUME partials[q] # <<>>
        PROVE  Coming(q) \/ gcEv[q] # Null \/ \E j \in Unseen(q)' : Real(pending'[q][j])
    BY <1>4, <2>2 DEF ExitInv, StreamOK, PartialsDrained
  <2>3. QED
    BY <1>1, <1>5, <2>1, <2>2 DEF PartialsDrained, Real
<1>8. QueuedRecorded(q)'
  BY <1>1, <1>4 DEF ExitInv, StreamOK, QueuedRecorded, Real
<1>9. \A e \in Events : InQueue(q, e) => InQueue(q, e)'
  BY <1>4 DEF InQueue
<1>10. StreamOK(q)'
  BY <1>6, <1>7, <1>8 DEF StreamOK
<1>11. QED
  BY <1>1, <1>3, <1>9, <1>10, GcStreams

LEMMA GcTakeExit ==
  ASSUME TypeInv, TypeInv', EventInv, OrderInv, ExitInv, NEW q \in Streams, GcTake(q)
  PROVE  ExitInv'
<1>1. /\ UNCHANGED <<home, partial, recorded, hostVars>>
      /\ UNCHANGED <<done, pending>>
      /\ gc[q] = "take" /\ pending[q] # <<>>
  BY DEF GcTake, semVars, devVars
<1>2. \A s \in Streams \ {q} :
        gc'[s] = gc[s] /\ gcEv'[s] = gcEv[s] /\ partials'[s] = partials[s]
  BY Typed DEF GcTake
<1>3. PICK h \in Events \cup {Null} : h = Head(pending[q])
  BY <1>1, Typed
<1>4. /\ gcEv[q] = Null
      /\ 1 \in Unseen(q) /\ pending[q][1] = h
      /\ \A i \in Unseen(q) : i = 1 \/ i > 1
  <2>1. gcEv[q] = Null
    BY <1>1 DEF EventInv, QueuesOK, InHandOK
  <2>2. pending[q] \in Seq(Events \cup {Null}) /\ Len(pending[q]) \in Nat
    BY Typed
  <2>3. 1 \in Unseen(q) /\ pending[q][1] = h
    BY <1>1, <1>3, <2>2 DEF Unseen
  <2>4. \A i \in Unseen(q) : i = 1 \/ i > 1
    BY <2>2 DEF Unseen
  <2>5. QED
    BY <2>1, <2>3, <2>4
<1>5. \/ /\ h = Null /\ gc'[q] = "exit" /\ gcEv'[q] = Null /\ partials'[q] = partials[q]
      \/ /\ h \in Events /\ partial[h] /\ gc'[q] = "pop" /\ gcEv'[q] = Null
      \/ /\ h \in Events /\ ~partial[h] /\ gc'[q] = "sync" /\ gcEv'[q] = h
         /\ partials'[q] = partials[q]
  BY <1>3, <1>4, Typed DEF GcTake
<1>6. \A i : i \in Unseen(q)' <=> i \in Unseen(q) /\ i > 1
  BY <1>1, <1>5 DEF Unseen
<1>7. /\ AllExit' = AllExit /\ Coming(q)' = Coming(q)
      /\ \A e : Real(e)' = Real(e)
  BY <1>1 DEF AllExit, Coming, Real, hostVars
<1>8. EmptyLast(q) /\ PartialsDrained(q) /\ QueuedRecorded(q)
  BY DEF ExitInv, StreamOK
<1>9. h = Null => AllExit /\ \A j \in Unseen(q) : j > 1 => pending[q][j] = Null
  BY <1>4, <1>8 DEF EmptyLast
<1>10. EmptyLast(q)'
  <2>1. \A i \in Unseen(q)' : pending'[q][i] = Null =>
          AllExit' /\ \A j \in Unseen(q)' : i < j => pending'[q][j] = Null
    BY <1>1, <1>6, <1>7, <1>8 DEF EmptyLast
  <2>2. gc'[q] = "exit" => AllExit' /\ \A j \in Unseen(q)' : pending'[q][j] = Null
    BY <1>1, <1>5, <1>6, <1>7, <1>9
  <2>3. QED
    BY <2>1, <2>2 DEF EmptyLast
<1>11. PartialsDrained(q)'
  <2>1. ASSUME NEW i \in Unseen(q)', pending[q][i] # Null, partial[pending[q][i]]
        PROVE  Coming(q) \/ \E j \in Unseen(q)' : i < j /\ Real(pending[q][j])
    <3>1. Coming(q) \/ \E j \in Unseen(q) : i < j /\ Real(pending[q][j])
      BY <1>6, <1>8, <2>1 DEF PartialsDrained
    <3>2. \A j \in Unseen(q) : i < j => j \in Unseen(q)'
      <4>1. i \in Nat /\ i > 1 /\ \A j \in Unseen(q) : j \in Nat
        BY <1>6 DEF Unseen
      <4>2. QED
        BY <1>6, <4>1
    <3>3. QED
      BY <3>1, <3>2
  <2>2. ASSUME partials'[q] # <<>>
        PROVE  Coming(q) \/ gcEv'[q] # Null \/ \E j \in Unseen(q)' : Real(pending[q][j])
    <3>1. CASE h = Null
      <4>1. Coming(q) \/ \E j \in Unseen(q) : Real(pending[q][j])
        BY <1>4, <1>5, <1>8, <2>2, <3>1 DEF PartialsDrained
      <4>2. QED
        BY <1>4, <1>6, <3>1, <4>1 DEF Real
    <3>2. CASE h \in Events /\ partial[h]
      <4>1. Coming(q) \/ \E j \in Unseen(q) : 1 < j /\ Real(pending[q][j])
        BY <1>4, <1>8, <3>2, ConstantAssumption DEF PartialsDrained
      <4>2. QED
        BY <1>6, <4>1
    <3>3. CASE h \in Events /\ ~partial[h]
      BY <1>5, <3>3, ConstantAssumption
    <3>4. QED
      BY <3>1, <3>2, <3>3
  <2>3. QED
    BY <1>1, <1>7, <2>1, <2>2 DEF PartialsDrained
<1>12. QueuedRecorded(q)'
  BY <1>1, <1>8 DEF QueuedRecorded, Real
<1>13. ASSUME NEW e \in Events, ~partial[e], InQueue(q, e) \/ gcEv[q] = e
       PROVE  InQueue(q, e)' \/ gcEv'[q] = e
  <2>1. PICK j \in Unseen(q) : pending[q][j] = e
    BY <1>4, <1>13, ConstantAssumption DEF InQueue
  <2>2. CASE j = 1
    BY <1>4, <1>5, <1>13, <2>1, <2>2, ConstantAssumption
  <2>3. CASE j > 1
    BY <1>1, <1>6, <2>1, <2>3 DEF InQueue
  <2>4. QED
    BY <1>4, <2>2, <2>3
<1>14. StreamOK(q)'
  BY <1>10, <1>11, <1>12 DEF StreamOK
<1>15. QED
  BY <1>1, <1>2, <1>13, <1>14, GcStreams

LEMMA GcCompleteExit ==
  ASSUME TypeInv, TypeInv', EventInv, OrderInv, ExitInv, NEW q \in Streams, GcComplete(q)
  PROVE  ExitInv'
<1>1. /\ UNCHANGED <<home, partial, recorded, hostVars>>
      /\ UNCHANGED pending /\ gc[q] = "complete"
  BY DEF GcComplete, devVars
<1>2. PICK x \in Events : x = gcEv[q]
  BY <1>1 DEF TypeInv, ControlOK
<1>3. ~done[x] /\ x # Null
  BY <1>2, ConstantAssumption DEF EventInv, QueuesOK, InHandOK
<1>4. /\ done' = [done EXCEPT ![x] = TRUE]
      /\ \A s \in Streams \ {q} :
           gc'[s] = gc[s] /\ gcEv'[s] = gcEv[s] /\ partials'[s] = partials[s]
      /\ \/ partials[q] = <<>> /\ gc'[q] = "pop" /\ partials'[q] = partials[q]
         \/ partials[q] # <<>> /\ gc'[q] = "sync" /\ gcEv'[q] = Head(partials[q])
  BY <1>2, <1>3, Typed DEF GcComplete
<1>5. \A e \in Events : (done[e] => done'[e]) /\ done'[x]
  BY <1>4, Typed
<1>6. Unseen(q)' = Unseen(q) /\ gc'[q] # "exit"
  BY <1>1, <1>4 DEF Unseen
<1>7. /\ AllExit' = AllExit /\ Coming(q)' = Coming(q)
      /\ \A e : Real(e)' = Real(e)
  BY <1>1 DEF AllExit, Coming, Real, hostVars
<1>8. EmptyLast(q) /\ PartialsDrained(q) /\ QueuedRecorded(q)
  BY DEF ExitInv, StreamOK
<1>9. partials'[q] # <<>> => gcEv'[q] # Null
  BY <1>4, Typed, ConstantAssumption
<1>10. EmptyLast(q)' /\ PartialsDrained(q)' /\ QueuedRecorded(q)'
  BY <1>1, <1>6, <1>7, <1>8, <1>9 DEF EmptyLast, PartialsDrained, QueuedRecorded
<1>11. \A e \in Events : InQueue(q, e) \/ gcEv[q] = e => done'[e] \/ InQueue(q, e)'
  BY <1>1, <1>2, <1>5, <1>6 DEF InQueue
<1>12. StreamOK(q)'
  BY <1>10 DEF StreamOK
<1>13. QED
  BY <1>1, <1>4, <1>5, <1>11, <1>12, GcStreams
-----------------------------------------------------------------------------
(* The whole next-state relation, and what follows.                        *)

LEMMA ExitInvInit == Init => ExitInv
<1> SUFFICES ASSUME Init PROVE ExitInv
  OBVIOUS
<1>1. RealsKept /\ FlushOK
  BY DEF Init, RealsKept, FlushOK
<1>2. ASSUME NEW s \in Streams PROVE StreamOK(s)
  <2>1. Unseen(s) = {} /\ gc[s] # "exit" /\ partials[s] = <<>>
    BY DEF Init, Unseen
  <2>2. \A i \in 1 .. Len(pending[s]) : pending[s][i] = Null
    BY DEF Init
  <2>3. QED
    BY <2>1, <2>2 DEF StreamOK, EmptyLast, PartialsDrained, QueuedRecorded, Real
<1>3. QED
  BY <1>1, <1>2 DEF ExitInv

LEMMA ExitInvStep ==
  ASSUME TypeInv, EventInv, OrderInv, ExitInv, [Next]_vars
  PROVE  ExitInv'
<1>1. TypeInv' /\ EventInv'
  BY TypeInvStep, EventInvStep
<1>2. ASSUME NEW t \in Threads, Continue(t) \/ Begin(t)
      PROVE  ExitInv'
  <2>1. CASE \/ \E o \in Ops : BeginOp(t, o)
             \/ \E a \in Addrs : EnqueueWait(t, a) \/ LookupForWait(t, a)
             \/ LaunchFails(t) \/ ReadPartialPtrs(t) \/ FindPartialPtrs(t)
             \/ AwaitDone(t) \/ StreamWaitGot(t) \/ IsFlushed(t) \/ BeginFlush(t)
             \/ \E a \in Addrs, s \in Streams : GetWaitEvent(t, a, s)
             \/ \E s \in Streams : FlushStream(t, s) \/ FlushTimesOut(t, s)
    BY <1>1, <2>1, ControlExits
  <2>2. CASE \E e \in Events : MapEventToTensor(t, e) \/ AddProducer(t, e)
    BY <1>1, <2>2, CreateExit
  <2>3. CASE Launch(t)
    BY <1>1, <2>3, LaunchExit
  <2>4. CASE PushPartial(t)
    BY <1>1, <2>4, PushPartialExit
  <2>5. CASE RegisterPending(t)
    BY <1>1, <2>5, RegisterExit
  <2>6. CASE \E e \in Events, r \in Streams, s \in Streams : RecordAndWait(t, e, r, s)
    BY <1>1, <2>6, RecordAndWaitExit
  <2>7. QED
    BY <1>2, <2>1, <2>2, <2>3, <2>4, <2>5, <2>6 DEF Continue, Begin
<1>3. ASSUME NEW s \in Streams, GcStep(s)
      PROVE  ExitInv'
  BY <1>1, <1>3, GcPopExit, GcTakeExit, DeviceExit, GcCompleteExit DEF GcStep
<1>4. ASSUME NEW s \in Streams, DeviceStep(s) \/ \E e \in Events : DeviceSignal(s, e)
      PROVE  ExitInv'
  BY <1>1, <1>4, DeviceExit
<1>5. CASE DestroyStreams
  BY <1>1, <1>5, DestroyStreamsExit
<1>6. CASE UNCHANGED vars
  <2>1. /\ UNCHANGED <<home, partial, done, pending, gc, gcEv, partials, recorded>>
        /\ UNCHANGED hostVars
    BY <1>6 DEF vars, semVars, gcVars, hostVars, devVars
  <2>2. \A s \in Streams : SameStream(s) /\ SameHost(s)
    BY <2>1 DEF SameStream, SameHost, Unseen, Coming, AllExit, hostVars
  <2>3. SameFlush
    BY <2>1 DEF SameFlush, hostVars
  <2>4. QED
    BY <1>1, <2>1, <2>2, <2>3, StillFrame
<1>7. QED
  BY <1>2, <1>3, <1>4, <1>5, <1>6 DEF Next, Joined

\* Every event is in the queue of its stream until it is complete, a partial
\* event is followed by a real one, and the empty event of ~stream comes last.
THEOREM ExitInvariant == Spec => [](TypeInv /\ EventInv /\ OrderInv /\ ExitInv)
<1>1. Init => ExitInv
  BY ExitInvInit
<1>2. TypeInv /\ EventInv /\ OrderInv /\ ExitInv /\ [Next]_vars => ExitInv'
  BY ExitInvStep
<1>3. QED
  BY <1>1, <1>2, OrderInvariant, PTL DEF Spec

\* Joining the GC thread of a stream (~stream) loses no event: what was
\* registered is complete, and no partial event is left aside.
THEOREM JoinLosesNothing == Spec => []NoEventLostAtExit
<1>1. TypeInv /\ EventInv /\ OrderInv /\ ExitInv => NoEventLostAtExit
  <2> SUFFICES ASSUME TypeInv, EventInv, OrderInv, ExitInv, NEW s \in Streams, gc[s] = "exit"
               PROVE  /\ \A e \in Events :
                           home[e] = s /\ e \in recorded /\ ~partial[e] => done[e]
                      /\ partials[s] = <<>>
    BY DEF NoEventLostAtExit
  <2>1. /\ gcEv[s] = Null
        /\ AllExit /\ \A j \in Unseen(s) : pending[s][j] = Null
    BY DEF EventInv, QueuesOK, InHandOK, ExitInv, StreamOK, EmptyLast
  <2>2. ~Coming(s)
    BY <2>1 DEF AllExit, Coming
  <2>3. \A e \in Events : ~InQueue(s, e) /\ gcEv[s] # e
    BY <2>1, ConstantAssumption DEF InQueue
  <2>4. \A e \in Events : home[e] = s /\ e \in recorded /\ ~partial[e] => done[e]
    BY <2>3 DEF ExitInv, RealsKept, Waiting
  <2>5. partials[s] = <<>>
    BY <2>1, <2>2 DEF ExitInv, StreamOK, PartialsDrained, Real
  <2>6. QED
    BY <2>4, <2>5
<1>2. QED
  BY <1>1, ExitInvariant, PTL

\* flush_stream_events, when no stream::flush timed out, returns only after
\* every event that was queued before the call is complete.
THEOREM FlushWaitsForAll == Spec => FlushCompletes
<1>1. TypeInv /\ EventInv /\ OrderInv /\ ExitInv /\ [Next]_vars =>
        \A t \in Threads :
          pc[t] = "flush" /\ pc'[t] = "idle" => \A e \in goal[t] : done[e]
  <2> SUFFICES ASSUME TypeInv, EventInv, OrderInv, ExitInv, [Next]_vars, NEW t \in Threads,
                      pc[t] = "flush", pc'[t] = "idle", NEW e \in goal[t]
               PROVE  done[e]
    OBVIOUS
  <2>1. todo[t] = {}
    <3>1. ASSUME NEW u \in Threads, Continue(u) PROVE todo[t] = {}
      <4>1. \/ \E x \in Events : MapEventToTensor(u, x) \/ AddProducer(u, x)
            \/ Launch(u) \/ ReadPartialPtrs(u) \/ FindPartialPtrs(u) \/ PushPartial(u)
            \/ RegisterPending(u) \/ AwaitDone(u) \/ StreamWaitGot(u)
            => pc[u] # "flush" /\ \A v \in Threads \ {u} : pc'[v] = pc[v]
        BY Typed DEF MapEventToTensor, AddProducer, Launch, ReadyToLaunch, ReadPartialPtrs,
          FindPartialPtrs, PushPartial, RegisterPending, AwaitDone, StreamWaitGot,
          Return, Goto
      <4>2. \/ \E a \in Addrs : EnqueueWait(u, a)
            \/ \E s \in Streams : FlushStream(u, s) \/ FlushTimesOut(u, s)
            => pc' = pc
        BY DEF EnqueueWait, FlushStream, FlushTimesOut
      <4>3. IsFlushed(u) => todo[u] = {} /\ \A v \in Threads \ {u} : pc'[v] = pc[v]
        BY Typed DEF IsFlushed, Return, Goto
      <4>4. QED
        BY <3>1, <4>1, <4>2, <4>3 DEF Continue
    <3>2. CASE \E u \in Threads : Begin(u)
      <4>1. PICK u \in Threads : Begin(u)
        BY <3>2
      <4>2. pc[u] # "flush" /\ \A v \in Threads \ {u} : pc'[v] = pc[v]
        BY <4>1, Typed DEF Begin, BeginOp, LaunchFails, ReadyToLaunch, LookupForWait,
          GetWaitEvent, RecordAndWait, BeginFlush, Return, Goto
      <4> QED
        BY <4>2
    <3>3. CASE ~ \E u \in Threads : Continue(u) \/ Begin(u)
      BY <3>3 DEF Next, Joined, GcStep, GcPop, GcTake, GcSynchronize, GcUnmap, GcComplete,
        DeviceStep, DeviceSignal, DestroyStreams, vars, hostVars
    <3>4. QED
      BY <3>1, <3>2, <3>3
  <2>2. QED
    BY <2>1 DEF ExitInv, FlushOK
<1>2. QED
  BY <1>1, ExitInvariant, PTL DEF FlushCompletes, Spec
=============================================================================
