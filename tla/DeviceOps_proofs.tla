-------------------------- MODULE DeviceOps_proofs ---------------------------
(***************************************************************************)
(* The order of the operations on the device: ReadsAndWritesFollowWrites   *)
(* and WritesFollowRecipeReads of DeviceOps, for any streams, addresses,   *)
(* events and operations that meet ProgramOrder, and for programs of any   *)
(* length.                                                                 *)
(*                                                                         *)
(* Operation k depends on i for a when it was issued later and runs after  *)
(* what i registers for a.  The argument: an address that i has registered *)
(* is mapped to an event that stands for i or for an operation that        *)
(* depends on i, until the device is done (MappedOK); so when k waits for  *)
(* a, a command that sees to i gets ahead of the work of k on its stream   *)
(* (GuardedOK), and when the work of k comes up, i is done (StartedOK).    *)
(***************************************************************************)
EXTENDS DeviceOps, EventOrder_proofs

Depends(k, i, a) ==
  /\ i < k
  /\ a \in Produces(launched[i])
  /\ RunsAfter(launched[k], launched[i], a)

\* Once e is signalled, the device is done with a as far as i uses it.
StandsFor(e, i, a) ==
  /\ home[e] # Null
  /\ work[e] \in Issued
  /\ partial[e] => launched[work[e]].ext = a
  /\ work[e] = i \/ Depends(work[e], i, a)

\* A stream gets past command c only when the device is done with a ...
Sees(c, i, a) ==
  \/ c = <<"work", i>>
  \/ \E e \in Events : c = <<"wait", e>> /\ StandsFor(e, i, a)

\* ... and this holds before the n-th command of stream s.
Behind(s, n, i, a) ==
  \/ Released(i, a)
  \/ \E m \in 1 .. Len(cmds[s]) : m < n /\ Sees(cmds[s][m], i, a)

\* The device runs operation k or has run it.
Started(k) == k \in executed \/ \E e \in fired : partial[e] /\ work[e] = k

StartedOK ==
  \A k, i \in Issued : \A a \in Addrs :
    Depends(k, i, a) /\ Started(k) => Released(i, a)

GuardedOK ==
  \A s \in Streams : \A n \in 1 .. Len(cmds[s]) : \A k \in Works :
    cmds[s][n] = <<"work", k>> =>
      /\ k \in Issued
      /\ \A i \in Issued : \A a \in Addrs : Depends(k, i, a) => Behind(s, n, i, a)

\* Thread t is about to register its operation for a.
AboutToRegister(t, i, a) ==
  \/ pc[t] = "mapped" /\ a = cur[t].ext
  \/ pc[t] \in Launched /\ wk[t] = i /\ a # cur[t].ext

MappedOK ==
  \A i \in Issued : \A a \in Produces(launched[i]) :
    \/ Released(i, a)
    \/ byAddr[a] # Null /\ StandsFor(byAddr[a], i, a)
    \/ \E t \in Threads : AboutToRegister(t, i, a)

WaitedOK ==
  \A t \in Threads : pc[t] \in {"wait", "mapped"} =>
    \A i \in Issued : \A a \in Produces(launched[i]) :
      a \in cur[t].wait \ todo[t] => Behind(cur[t].s, Len(cmds[cur[t].s]) + 1, i, a)

\* What the threads have in hand.
ThreadsOK ==
  \A t \in Threads :
    /\ pc[t] = "mapped" =>
         /\ todo[t] = {} /\ cur[t].ext \in Addrs
         /\ byAddr[cur[t].ext] = part[t] /\ work[part[t]] = 0
    /\ pc[t] = "find" => todo[t] = ptrs[part[t]]
    /\ pc[t] \in Launched => wk[t] \in Issued /\ wk[t] = Len(launched) /\ launched[wk[t]] = cur[t]

\* The work an event stands for, and the work the device knows.
WorkOK ==
  /\ \A i \in Issued : Sent(launched[i].s, i)
  /\ \A e \in Events : home[e] # Null /\ work[e] # 0 =>
       work[e] \in Issued /\ launched[work[e]].s = home[e]
  /\ \A e \in Events : home[e] # Null /\ e \notin recorded =>
       \E t \in Threads : \/ pc[t] = "register" /\ ev[t] = e
                          \/ pc[t] = "mapped" /\ part[t] = e
  /\ executed \subseteq 0 .. Len(launched)
  /\ \A e \in fired : partial[e] => work[e] \in Issued

OpsInv ==
  StartedOK /\ GuardedOK /\ MappedOK /\ WaitedOK /\ ThreadsOK /\ WorkOK /\ NoHostFatal

USE ConstantAssumption

-----------------------------------------------------------------------------
(* What a step keeps: what is done stays done, and what an event or an     *)
(* index of launched stands for stays the same.                            *)

HistoryKept ==
  /\ executed \subseteq executed' /\ fired \subseteq fired'
  /\ Len(launched) <= Len(launched')
  /\ \A i \in Issued : launched'[i] = launched[i]
  /\ \A e \in Events : home[e] # Null =>
       /\ home'[e] = home[e] /\ partial'[e] = partial[e]
       /\ work[e] # 0 => work'[e] = work[e]

LEMMA Typed2 ==
  ASSUME TypeInv
  PROVE  /\ CmdsType /\ launched \in Seq(Ops) /\ Len(launched) \in Nat
         /\ Issued \subseteq Works \ {0}
         /\ \A i \in Issued : /\ launched[i] \in Ops /\ launched[i].s \in Streams
                              /\ Produces(launched[i]) \subseteq Addrs
         /\ \A s \in Streams : Len(cmds[s]) \in Nat
         /\ byAddr \in [Addrs -> Events \cup {Null}] /\ ptrs \in [Events -> SUBSET Addrs]
         /\ cur \in [Threads -> Ops \cup {Null}] /\ todo \in [Threads -> SUBSET (Addrs \cup Streams)]
<1>1. launched \in Seq(Ops) /\ Len(launched) \in Nat /\ Len(launched) <= MaxWork
  BY DEF TypeInv, TypeOK
<1>2. \A i \in Issued : i \in Nat \ {0} /\ i <= MaxWork /\ launched[i] \in Ops
  BY <1>1 DEF Issued
<1>3. \A o \in Ops : o.s \in Streams /\ Produces(o) \subseteq Addrs
  BY DEF OpType, Produces
<1>4. CmdsType
  BY Typed
<1>5. \A s \in Streams : Len(cmds[s]) \in Nat
  BY <1>4 DEF CmdsType
<1>6. /\ byAddr \in [Addrs -> Events \cup {Null}] /\ ptrs \in [Events -> SUBSET Addrs]
      /\ cur \in [Threads -> Ops \cup {Null}] /\ todo \in [Threads -> SUBSET (Addrs \cup Streams)]
  BY DEF TypeInv, TypeOK, EvOrNull
<1>7. QED
  BY <1>1, <1>2, <1>3, <1>4, <1>5, <1>6 DEF Works

LEMMA FactsKept ==
  ASSUME TypeInv, TypeInv', OwnersOK, HistoryKept, NEW i \in Issued, NEW a \in Addrs
  PROVE  /\ i \in Issued'
         /\ Released(i, a) => Released(i, a)'
         /\ \A k \in Issued : Depends(k, i, a)' <=> Depends(k, i, a)
         /\ \A e \in Events : StandsFor(e, i, a) => StandsFor(e, i, a)'
         /\ \A c : Sees(c, i, a) => Sees(c, i, a)'
<1>1. Issued \subseteq Issued' /\ i # 0 /\ 0 \notin Issued
  BY Typed2 DEF HistoryKept, Issued, TypeInv, TypeOK
<1>2. launched'[i] = launched[i]
  BY DEF HistoryKept
<1>3. Released(i, a) => Released(i, a)'
  <2>1. CASE i \in executed
    BY <2>1 DEF Released, HistoryKept
  <2>2. CASE launched[i].ext = a /\ \E e \in fired : partial[e] /\ work[e] = i
    <3>1. PICK e \in fired : partial[e] /\ work[e] = i
      BY <2>2
    <3>2. e \in Events /\ home[e] # Null
      BY <3>1, Typed DEF OwnersOK
    <3>3. e \in fired' /\ partial'[e] /\ work'[e] = i
      BY <3>1, <3>2, <1>1 DEF HistoryKept
    <3>4. QED
      BY <3>3, <2>2, <1>2 DEF Released
  <2>3. QED
    BY <2>1, <2>2 DEF Released
<1>4. ASSUME NEW k \in Issued PROVE Depends(k, i, a)' <=> Depends(k, i, a)
  <2>1. launched'[k] = launched[k]
    BY DEF HistoryKept
  <2>2. QED
    BY <1>2, <2>1 DEF Depends
<1>5. ASSUME NEW e \in Events, StandsFor(e, i, a) PROVE StandsFor(e, i, a)'
  <2>1. home[e] # Null /\ work[e] \in Issued
    BY <1>5 DEF StandsFor
  <2>2. home'[e] = home[e] /\ partial'[e] = partial[e] /\ work'[e] = work[e]
    BY <2>1, <1>1 DEF HistoryKept
  <2>3. PICK k : k = work[e]
    OBVIOUS
  <2>4. launched'[k] = launched[k] /\ (Depends(k, i, a)' <=> Depends(k, i, a))
    BY <2>1, <2>3, <1>4 DEF HistoryKept
  <2>5. k \in Issued' /\ (partial[e] => launched[k].ext = a) /\ (k = i \/ Depends(k, i, a))
    BY <1>1, <1>5, <2>1, <2>3 DEF StandsFor, Depends
  <2>6. k = i \/ Depends(k, i, a)'
    BY <2>4, <2>5
  <2>7. QED
    BY <2>1, <2>2, <2>3, <2>4, <2>5, <2>6 DEF StandsFor, Depends
<1>6. ASSUME NEW c, Sees(c, i, a) PROVE Sees(c, i, a)'
  BY <1>5, <1>6 DEF Sees
<1>7. QED
  BY <1>1, <1>3, <1>4, <1>5, <1>6

LEMMA BehindKept ==
  ASSUME TypeInv, TypeInv', OwnersOK, HistoryKept, CmdsExtend,
         NEW i \in Issued, NEW a \in Addrs, NEW s \in Streams, NEW n \in 1 .. Len(cmds[s]) + 1,
         NEW m \in Nat, n <= m, Behind(s, n, i, a)
  PROVE  Behind(s, m, i, a)'
<1>1. CASE Released(i, a)
  BY <1>1, FactsKept DEF Behind
<1>2. CASE ~Released(i, a)
  <2>1. PICK j \in 1 .. Len(cmds[s]) : j < n /\ Sees(cmds[s][j], i, a)
    BY <1>2 DEF Behind
  <2>2. PICK c : c = cmds[s][j]
    OBVIOUS
  <2>3. j \in 1 .. Len(cmds'[s]) /\ j < m /\ cmds'[s][j] = c
    BY <2>1, <2>2, Typed2 DEF CmdsExtend, TypeInv, TypeOK
  <2>4. Sees(c, i, a)'
    BY <2>1, <2>2, FactsKept DEF Sees
  <2>5. QED
    BY <2>3, <2>4 DEF Behind, Sees
<1>3. QED
  BY <1>1, <1>2

-----------------------------------------------------------------------------
(* What a step of the host disturbs.                                       *)

LEMMA StartedFrame ==
  ASSUME TypeInv, TypeInv', OrderInv, OpsInv, HistoryKept, UNCHANGED <<executed, fired>>
  PROVE  StartedOK'
<1> SUFFICES ASSUME NEW k \in Issued', NEW i \in Issued', NEW a \in Addrs,
                    Depends(k, i, a)', Started(k)'
             PROVE  Released(i, a)'
  BY DEF StartedOK
<1>1. k \in Nat /\ i \in Nat \ {0} /\ i < k
  BY DEF Depends, Issued, TypeInv, TypeOK
<1>2. k \in Issued /\ Started(k)
  <2>1. CASE k \in executed'
    <3>1. k \in executed /\ k \in 0 .. Len(launched)
      BY <2>1 DEF OpsInv, WorkOK
    <3>2. QED
      BY <3>1, <1>1, Typed2 DEF Issued, Started
  <2>2. CASE k \notin executed'
    <3>1. PICK e \in fired' : partial'[e] /\ work'[e] = k
      BY <2>2 DEF Started
    <3>2. e \in Events /\ e \in fired /\ home[e] # Null
      BY <3>1, Typed DEF OrderInv, OwnersOK
    <3>3. partial[e] /\ work[e] \in Issued
      BY <3>1, <3>2 DEF HistoryKept, OpsInv, WorkOK
    <3>4. work[e] = k
      BY <3>1, <3>2, <3>3, Typed2 DEF HistoryKept
    <3>5. QED
      BY <3>2, <3>3, <3>4 DEF Started
  <2>3. QED
    BY <2>1, <2>2
<1>3. i \in Issued
  BY <1>1, <1>2, Typed2 DEF Issued
<1>4. Depends(k, i, a)
  BY <1>2, <1>3, FactsKept DEF OrderInv
<1>5. Released(i, a)
  BY <1>2, <1>3, <1>4 DEF OpsInv, StartedOK
<1>6. QED
  BY <1>3, <1>5, FactsKept DEF OrderInv

LEMMA GuardedFrame ==
  ASSUME TypeInv, TypeInv', OrderInv, OpsInv, HistoryKept, CmdsExtend,
         \A s \in Streams : \A n \in 1 .. Len(cmds'[s]) : \A k \in Works :
           cmds'[s][n] = <<"work", k>> /\ n > Len(cmds[s]) =>
             /\ k \in Issued'
             /\ \A i \in Issued' : \A a \in Addrs :
                  Depends(k, i, a)' => Behind(s, n, i, a)'
  PROVE  GuardedOK'
<1> SUFFICES ASSUME NEW s \in Streams, NEW n \in 1 .. Len(cmds'[s]), NEW k \in Works,
                    cmds'[s][n] = <<"work", k>>
             PROVE  /\ k \in Issued'
                    /\ \A i \in Issued' : \A a \in Addrs :
                         Depends(k, i, a)' => Behind(s, n, i, a)'
  BY DEF GuardedOK
<1>1. Len(cmds[s]) \in Nat /\ Len(cmds'[s]) \in Nat
  BY Typed2 DEF TypeInv, TypeOK
<1>2. CASE n > Len(cmds[s])
  BY <1>2
<1>3. CASE ~(n > Len(cmds[s]))
  <2>1. n \in 1 .. Len(cmds[s]) /\ n \in 1 .. Len(cmds[s]) + 1 /\ n \in Nat
    BY <1>1, <1>3
  <2>2. cmds[s][n] = <<"work", k>>
    BY <2>1 DEF CmdsExtend
  <2>3. k \in Issued /\ \A i \in Issued : \A a \in Addrs : Depends(k, i, a) => Behind(s, n, i, a)
    BY <2>1, <2>2 DEF OpsInv, GuardedOK
  <2>4. k \in Issued'
    BY <2>3, Typed2 DEF HistoryKept, Issued, TypeInv, TypeOK
  <2>5. ASSUME NEW i \in Issued', NEW a \in Addrs, Depends(k, i, a)'
        PROVE  Behind(s, n, i, a)'
    <3>1. i \in Issued
      BY <2>3, <2>5, Typed2 DEF Depends, Issued, TypeInv, TypeOK
    <3>2. Depends(k, i, a)
      BY <2>3, <2>5, <3>1, FactsKept DEF OrderInv
    <3>3. Behind(s, n, i, a) /\ OwnersOK
      BY <2>3, <3>1, <3>2 DEF OrderInv
    <3>4. n <= n
      BY <2>1
    <3>5. QED
      BY <2>1, <3>1, <3>3, <3>4, BehindKept
  <2>6. QED
    BY <2>4, <2>5
<1>4. QED
  BY <1>2, <1>3

LEMMA MappedFrame ==
  ASSUME TypeInv, TypeInv', OrderInv, OpsInv, HistoryKept, UNCHANGED <<byAddr, launched>>,
         \A t \in Threads : \A i \in Issued : \A a \in Addrs :
           AboutToRegister(t, i, a) => AboutToRegister(t, i, a)'
  PROVE  MappedOK'
<1> SUFFICES ASSUME NEW i \in Issued', NEW a \in Produces(launched'[i])
             PROVE  \/ Released(i, a)'
                    \/ byAddr'[a] # Null /\ StandsFor(byAddr[a], i, a)'
                    \/ \E t \in Threads : AboutToRegister(t, i, a)'
  BY DEF MappedOK
<1>1. i \in Issued /\ launched'[i] = launched[i] /\ a \in Produces(launched[i])
  BY DEF Issued
<1>2. a \in Addrs
  BY <1>1, Typed2
<1>3. CASE Released(i, a)
  BY <1>1, <1>2, <1>3, FactsKept DEF OrderInv
<1>4. CASE byAddr[a] # Null /\ StandsFor(byAddr[a], i, a)
  <2>1. PICK e \in Events : e = byAddr[a]
    BY <1>2, <1>4, Typed2
  <2>2. StandsFor(e, i, a)
    BY <1>4, <2>1 DEF StandsFor
  <2>3. StandsFor(e, i, a)'
    BY <1>1, <1>2, <2>2, FactsKept DEF OrderInv
  <2>4. QED
    BY <1>4, <2>1, <2>3 DEF StandsFor
<1>5. CASE \E t \in Threads : AboutToRegister(t, i, a)
  BY <1>1, <1>2, <1>5
<1>6. QED
  BY <1>1, <1>3, <1>4, <1>5 DEF OpsInv, MappedOK

LEMMA WaitedFrame ==
  ASSUME TypeInv, TypeInv', OrderInv, OpsInv, HistoryKept, CmdsExtend, UNCHANGED launched,
         \A t \in Threads : pc'[t] \in {"wait", "mapped"} =>
           \/ pc[t] \in {"wait", "mapped"} /\ cur'[t] = cur[t] /\ todo'[t] = todo[t]
           \/ todo'[t] = cur'[t].wait
  PROVE  WaitedOK'
<1> SUFFICES ASSUME NEW t \in Threads, pc'[t] \in {"wait", "mapped"},
                    NEW i \in Issued', NEW a \in Produces(launched'[i]),
                    a \in cur'[t].wait \ todo'[t]
             PROVE  Behind(cur[t].s, Len(cmds[cur[t].s]) + 1, i, a)'
  BY DEF WaitedOK
<1>1. i \in Issued /\ a \in Produces(launched[i]) /\ a \in Addrs
  BY Typed2 DEF Issued
<1>2. pc[t] \in {"wait", "mapped"} /\ cur'[t] = cur[t] /\ todo'[t] = todo[t]
  OBVIOUS
<1>3. PICK s \in Streams : s = cur[t].s
  BY <1>2, Controlled DEF Issuing
<1>4. Behind(s, Len(cmds[s]) + 1, i, a)
  BY <1>1, <1>2, <1>3 DEF OpsInv, WaitedOK, Behind
<1>5. PICK m \in Nat : m = Len(cmds'[s]) + 1
  BY DEF TypeInv, TypeOK
<1>6. Len(cmds[s]) + 1 \in 1 .. Len(cmds[s]) + 1 /\ Len(cmds[s]) + 1 <= m
  BY <1>5, Typed2 DEF CmdsExtend, TypeInv, TypeOK
<1>7. PICK n \in 1 .. Len(cmds[s]) + 1 : n = Len(cmds[s]) + 1 /\ n <= m
  BY <1>6
<1>8. Behind(s, n, i, a) /\ OwnersOK
  BY <1>4, <1>7 DEF Behind, OrderInv
<1>9. Behind(s, m, i, a)'
  BY <1>1, <1>7, <1>8, BehindKept
<1>10. QED
  BY <1>2, <1>3, <1>5, <1>9 DEF Behind

\* What thread t has registered, launched or mapped is not touched.
Quiet(t) ==
  /\ pc[t] = "mapped" \/ pc'[t] = "mapped" =>
       /\ pc[t] = "mapped" /\ pc'[t] = "mapped"
       /\ cur'[t] = cur[t] /\ part'[t] = part[t] /\ todo'[t] = todo[t]
  /\ pc[t] \in Launched \/ pc'[t] \in Launched =>
       pc[t] \in Launched /\ pc'[t] \in Launched /\ cur'[t] = cur[t] /\ wk'[t] = wk[t]
  /\ pc[t] = "register" => pc'[t] = "register" /\ ev'[t] = ev[t]
  /\ pc'[t] = "find" =>
       \/ pc[t] = "find" /\ todo'[t] = todo[t] /\ part'[t] = part[t]
       \/ todo'[t] = ptrs[part'[t]]

\* The waits of thread t go on, or begin.
WaitsQuiet(t) ==
  pc'[t] = "wait" =>
    \/ pc[t] = "wait" /\ cur'[t] = cur[t] /\ todo'[t] = todo[t]
    \/ todo'[t] = cur'[t].wait

\* No work is given to the device.
NoNewWork ==
  \A s \in Streams : \A n \in 1 .. Len(cmds'[s]) : \A k \in Works :
    n > Len(cmds[s]) => cmds'[s][n] # <<"work", k>>

\* The events and the map stay as they are.
QuietEvents ==
  /\ UNCHANGED <<byAddr, ptrs, home, partial, work, launched, executed, fired, recorded>>
  /\ CmdsExtend /\ NoNewWork
  /\ "host" \in fatal' => "host" \in fatal

LEMMA QuietHistory ==
  ASSUME TypeInv, QuietEvents
  PROVE  HistoryKept
BY Typed2 DEF QuietEvents, HistoryKept

LEMMA ThreadsFrame ==
  ASSUME TypeInv, TypeInv', OpsInv, QuietEvents, \A t \in Threads : Quiet(t)
  PROVE  ThreadsOK'
<1> SUFFICES ASSUME NEW t \in Threads
             PROVE  /\ pc'[t] = "mapped" =>
                         /\ todo'[t] = {} /\ cur'[t].ext \in Addrs
                         /\ byAddr'[cur'[t].ext] = part'[t] /\ work'[part'[t]] = 0
                    /\ pc'[t] = "find" => todo'[t] = ptrs'[part'[t]]
                    /\ pc'[t] \in Launched =>
                         /\ wk'[t] \in Issued' /\ wk'[t] = Len(launched')
                         /\ launched'[wk'[t]] = cur'[t]
  BY DEF ThreadsOK
<1>1. Quiet(t)
  OBVIOUS
<1>2. UNCHANGED <<byAddr, ptrs, work, launched, Issued>>
  BY DEF QuietEvents, Issued
<1>3. /\ pc[t] = "mapped" =>
           /\ todo[t] = {} /\ cur[t].ext \in Addrs
           /\ byAddr[cur[t].ext] = part[t] /\ work[part[t]] = 0
      /\ pc[t] = "find" => todo[t] = ptrs[part[t]]
      /\ pc[t] \in Launched => wk[t] \in Issued /\ wk[t] = Len(launched) /\ launched[wk[t]] = cur[t]
  BY DEF OpsInv, ThreadsOK
<1>4. QED
  BY <1>1, <1>2, <1>3 DEF Quiet

LEMMA SentAll ==
  ASSUME TypeInv, TypeInv', OpsInv, CmdsExtend, UNCHANGED launched
  PROVE  \A i \in Issued' : Sent(launched[i].s, i)'
<1> SUFFICES ASSUME NEW i \in Issued' PROVE Sent(launched[i].s, i)'
  OBVIOUS
<1>1. i \in Issued /\ launched'[i] = launched[i]
  BY DEF Issued
<1>2. PICK s \in Streams : s = launched[i].s
  BY <1>1, Typed2
<1>3. Sent(s, i)
  BY <1>1, <1>2 DEF OpsInv, WorkOK, Sent, Ahead
<1>4. CmdsType /\ CmdsType'
  BY Typed2 DEF TypeInv, TypeOK, CmdsType
<1>5. Sent(s, i)'
  BY <1>3, <1>4, SentStays
<1>6. QED
  BY <1>1, <1>2, <1>5 DEF Sent, Ahead

LEMMA WorkFrame ==
  ASSUME TypeInv, TypeInv', OpsInv, QuietEvents, \A t \in Threads : Quiet(t)
  PROVE  WorkOK'
<1>1. \A i \in Issued' : Sent(launched[i].s, i)'
  BY SentAll DEF QuietEvents
<1>2. UNCHANGED <<home, partial, work, launched, executed, fired, recorded, Issued>>
  BY DEF QuietEvents, Issued
<1>3. \A e \in Events : home'[e] # Null /\ work'[e] # 0 =>
        work'[e] \in Issued' /\ launched'[work'[e]].s = home'[e]
  BY <1>2 DEF OpsInv, WorkOK
<1>4. \A e \in Events : home'[e] # Null /\ e \notin recorded' =>
        \E t \in Threads : \/ pc'[t] = "register" /\ ev'[t] = e
                           \/ pc'[t] = "mapped" /\ part'[t] = e
  BY <1>2 DEF OpsInv, WorkOK, Quiet
<1>5. /\ executed' \subseteq 0 .. Len(launched')
      /\ \A e \in fired' : partial'[e] => work'[e] \in Issued'
  BY <1>2 DEF OpsInv, WorkOK
<1>6. QED
  BY <1>1, <1>3, <1>4, <1>5 DEF WorkOK

LEMMA QuietFrame ==
  ASSUME TypeInv, TypeInv', OrderInv, OpsInv, QuietEvents, \A t \in Threads : Quiet(t)
  PROVE  StartedOK' /\ GuardedOK' /\ MappedOK' /\ ThreadsOK' /\ WorkOK' /\ NoHostFatal'
<1>1. HistoryKept
  BY QuietHistory
<1>2. StartedOK'
  BY <1>1, StartedFrame DEF QuietEvents
<1>3. GuardedOK'
  BY <1>1, GuardedFrame DEF QuietEvents, NoNewWork
<1>4. MappedOK'
  <2>1. ASSUME NEW t \in Threads, NEW i \in Issued, NEW a \in Addrs, AboutToRegister(t, i, a)
        PROVE  AboutToRegister(t, i, a)'
    BY <2>1 DEF AboutToRegister, Quiet
  <2>2. QED
    BY <1>1, <2>1, MappedFrame DEF QuietEvents
<1>5. ThreadsOK' /\ WorkOK'
  BY ThreadsFrame, WorkFrame
<1>6. NoHostFatal'
  BY DEF OpsInv, NoHostFatal, QuietEvents
<1>7. QED
  BY <1>2, <1>3, <1>4, <1>5, <1>6

LEMMA QuietStep ==
  ASSUME TypeInv, TypeInv', OrderInv, OpsInv, QuietEvents,
         \A t \in Threads : Quiet(t) /\ WaitsQuiet(t)
  PROVE  OpsInv'
<1>1. StartedOK' /\ GuardedOK' /\ MappedOK' /\ ThreadsOK' /\ WorkOK' /\ NoHostFatal'
  BY QuietFrame
<1>2. HistoryKept /\ CmdsExtend /\ UNCHANGED launched
  BY QuietHistory DEF QuietEvents
<1>3. \A t \in Threads : pc'[t] \in {"wait", "mapped"} =>
           \/ pc[t] \in {"wait", "mapped"} /\ cur'[t] = cur[t] /\ todo'[t] = todo[t]
           \/ todo'[t] = cur'[t].wait
  BY DEF Quiet, WaitsQuiet
<1>4. WaitedOK'
  BY <1>2, <1>3, WaitedFrame
<1>5. QED
  BY <1>1, <1>4 DEF OpsInv

-----------------------------------------------------------------------------
(* The quiet steps of the threads.                                         *)

LEMMA NothingEnqueued ==
  ASSUME TypeInv, UNCHANGED <<byAddr, ptrs, home, partial, work, cmds, launched, executed, recorded, fired>>,
         "host" \in fatal' => "host" \in fatal
  PROVE  QuietEvents
BY Typed2 DEF QuietEvents, CmdsExtend, NoNewWork, CmdsType

\* The partial event of a thread has not been displaced when it is registered.
LEMMA FindSucceeds ==
  ASSUME TypeInv, EventInv, OpsInv, NEW t \in Threads, pc[t] = "find"
  PROVE  \A a \in todo[t] : byAddr[a] = part[t]
<1>1. PICK e \in Events : e = part[t] /\ Held(t, e) /\ todo[t] = ptrs[e]
  BY Controlled DEF OpsInv, ThreadsOK, Held
<1>2. home[e] = cur[t].s /\ cur[t].s \in Streams /\ ~done[e] /\ Nowhere(e)
  BY <1>1, Controlled DEF EventInv, HeldOK, Issuing
<1>3. Live(e)
  BY <1>2, ConstantAssumption DEF Live, Unmapped, Nowhere
<1>4. QED
  BY <1>1, <1>3 DEF EventInv, MapMatchesPtrs

LEMMA FindPartialPtrsQuiet ==
  ASSUME TypeInv, EventInv, OpsInv, NEW t \in Threads, FindPartialPtrs(t)
  PROVE  QuietEvents /\ \A u \in Threads : Quiet(u) /\ WaitsQuiet(u)
<1>1. /\ pc[t] = "find" /\ pc' = [pc EXCEPT ![t] = "push"]
      /\ todo' = [todo EXCEPT ![t] = {}]
      /\ UNCHANGED <<fatal, cur, tgt, part, ev, wk, goal>>
      /\ UNCHANGED <<semVars, gcVars, devVars>>
  BY FindSucceeds DEF FindPartialPtrs, Goto
<1>2. QuietEvents
  BY <1>1, NothingEnqueued DEF semVars, devVars
<1>3. pc \in [Threads -> PCs] /\ todo \in [Threads -> SUBSET (Addrs \cup Streams)]
  BY Typed, Typed2
<1>4. QED
  BY <1>1, <1>2, <1>3 DEF Quiet, WaitsQuiet, Launched

LEMMA ThreadsQuiet ==
  ASSUME TypeInv, EventInv, OpsInv, NEW t \in Threads,
         \/ \E o \in Ops : BeginOp(t, o)
         \/ ReadPartialPtrs(t) \/ PushPartial(t)
         \/ \E a \in Addrs : LookupForWait(t, a)
         \/ AwaitDone(t)
         \/ \E a \in Addrs, s \in Streams : GetWaitEvent(t, a, s)
         \/ BeginFlush(t)
         \/ \E s \in Streams : FlushStream(t, s) \/ FlushTimesOut(t, s)
         \/ IsFlushed(t)
  PROVE  QuietEvents /\ \A u \in Threads : Quiet(u) /\ WaitsQuiet(u)
<1>1. QuietEvents
  <2>1. UNCHANGED <<byAddr, ptrs, home, partial, work, cmds, launched, executed, recorded, fired>> /\ UNCHANGED fatal
    BY DEF BeginOp, ReadPartialPtrs, PushPartial, LookupForWait, AwaitDone, GetWaitEvent,
           BeginFlush, FlushStream, FlushTimesOut, IsFlushed, semVars, devVars
  <2>2. QED
    BY <2>1, NothingEnqueued
<1> USE Typed, Typed2 DEF Quiet, WaitsQuiet, Launched, Goto
<1>2. ASSUME NEW o \in Ops, BeginOp(t, o), NEW u \in Threads PROVE Quiet(u) /\ WaitsQuiet(u)
  BY <1>2 DEF BeginOp
<1>3. ASSUME ReadPartialPtrs(t), NEW u \in Threads PROVE Quiet(u) /\ WaitsQuiet(u)
  BY <1>3 DEF ReadPartialPtrs
<1>4. ASSUME PushPartial(t), NEW u \in Threads PROVE Quiet(u) /\ WaitsQuiet(u)
  BY <1>4 DEF PushPartial
<1>5. ASSUME NEW a \in Addrs, LookupForWait(t, a), NEW u \in Threads
      PROVE  Quiet(u) /\ WaitsQuiet(u)
  BY <1>5 DEF LookupForWait
<1>6. ASSUME AwaitDone(t), NEW u \in Threads PROVE Quiet(u) /\ WaitsQuiet(u)
  BY <1>6 DEF AwaitDone, Return
<1>7. ASSUME NEW a \in Addrs, NEW s \in Streams, GetWaitEvent(t, a, s), NEW u \in Threads
      PROVE  Quiet(u) /\ WaitsQuiet(u)
  BY <1>7 DEF GetWaitEvent
<1>8. ASSUME BeginFlush(t), NEW u \in Threads PROVE Quiet(u) /\ WaitsQuiet(u)
  BY <1>8 DEF BeginFlush
<1>9. ASSUME NEW s \in Streams, FlushStream(t, s) \/ FlushTimesOut(t, s), NEW u \in Threads
      PROVE  Quiet(u) /\ WaitsQuiet(u)
  BY <1>9 DEF FlushStream, FlushTimesOut
<1>10. ASSUME IsFlushed(t), NEW u \in Threads PROVE Quiet(u) /\ WaitsQuiet(u)
  BY <1>10 DEF IsFlushed, Return
<1>11. QED
  BY <1>1, <1>2, <1>3, <1>4, <1>5, <1>6, <1>7, <1>8, <1>9, <1>10

LEMMA GcQuiet ==
  ASSUME TypeInv,
         \/ \E s \in Streams : \/ GcPop(s) \/ GcTake(s) \/ GcSynchronize(s) \/ GcComplete(s)
         \/ DestroyStreams
         \/ UNCHANGED vars
  PROVE  QuietEvents /\ \A u \in Threads : Quiet(u) /\ WaitsQuiet(u)
<1>1. CASE \E s \in Streams : \/ GcPop(s) \/ GcTake(s) \/ GcSynchronize(s) \/ GcComplete(s)
  <2>1. PICK s \in Streams : \/ GcPop(s) \/ GcTake(s) \/ GcSynchronize(s) \/ GcComplete(s)
    BY <1>1
  <2>2. UNCHANGED <<byAddr, ptrs, home, partial, work, cmds, launched, executed, recorded, fired>> /\ UNCHANGED hostVars
    BY <2>1 DEF GcPop, GcTake, GcSynchronize, GcComplete, semVars, devVars
  <2>3. "host" \in fatal' => "host" \in fatal
    <3>1. UNCHANGED fatal \/ fatal' = fatal \cup {"gc"}
      BY <2>1, Zenon DEF GcPop, GcTake, GcSynchronize, GcComplete, GcFatal
    <3>2. QED
      BY <3>1
  <2>4. QED
    BY <2>2, <2>3, NothingEnqueued DEF hostVars, Quiet, WaitsQuiet
<1>2. CASE DestroyStreams
  <2>1. /\ UNCHANGED <<byAddr, ptrs, home, partial, work, cmds, launched, executed, recorded, fired>> /\ UNCHANGED fatal
        /\ \A u \in Threads : pc[u] = "idle" /\ pc'[u] = "exit"
    BY <1>2 DEF DestroyStreams, semVars, devVars
  <2>2. QED
    BY <2>1, NothingEnqueued DEF Quiet, WaitsQuiet, Launched
<1>3. CASE UNCHANGED vars
  BY <1>3, NothingEnqueued DEF vars, semVars, devVars, hostVars, Quiet, WaitsQuiet
<1>4. QED
  BY <1>1, <1>2, <1>3

\* A wait for an event is enqueued, or nothing.
LEMMA StreamWaitQuiet ==
  ASSUME TypeInv, NEW e \in Events, NEW q \in Streams, StreamWait(e, q),
         UNCHANGED <<semVars, launched, executed, recorded, fired, work, fatal>>
  PROVE  QuietEvents
<1>1. <<"wait", e>> \in Cmds /\ CmdsType /\ UNCHANGED executed
  BY Typed DEF Cmds
<1>2. CASE cmds' = [cmds EXCEPT ![q] = Append(@, <<"wait", e>>)]
  <2>1. /\ CmdsExtend /\ cmds'[q][Len(cmds[q]) + 1] = <<"wait", e>>
        /\ \A s \in Streams : \A i \in 1 .. Len(cmds'[s]) :
             i \in 1 .. Len(cmds[s]) \/ (s = q /\ i = Len(cmds[q]) + 1)
    BY <1>1, <1>2, Enqueued
  <2>2. NoNewWork
    BY <2>1, Typed2 DEF NoNewWork
  <2>3. QED
    BY <2>1, <2>2 DEF QuietEvents, semVars
<1>3. CASE UNCHANGED cmds
  BY <1>3, NothingEnqueued DEF semVars
<1>4. QED
  BY <1>2, <1>3 DEF StreamWait

LEMMA StreamWaitGotQuiet ==
  ASSUME TypeInv, NEW t \in Threads, StreamWaitGot(t)
  PROVE  QuietEvents /\ \A u \in Threads : Quiet(u) /\ WaitsQuiet(u)
<1>1. ev[t] \in Events /\ tgt[t] \in Streams
  BY Controlled DEF StreamWaitGot
<1>2. QuietEvents
  BY <1>1, StreamWaitQuiet DEF StreamWaitGot
<1>3. QED
  BY <1>2, Typed, Typed2 DEF StreamWaitGot, Return, Goto, Quiet, WaitsQuiet, Launched

-----------------------------------------------------------------------------
(* A thread waits for an address: every operation that has registered for  *)
(* it is seen to.                                                          *)

\* The device is done with a as far as i uses it once it is past an event
\* that stands for i: when it has run the work of the event ...
LEMMA StandsReleased ==
  ASSUME OpsInv, NEW i \in Issued, NEW a \in Addrs, NEW e \in Events, StandsFor(e, i, a),
         work[e] \in executed
  PROVE  Released(i, a)
<1>1. PICK l \in Issued : l = work[e]
  BY DEF StandsFor
<1>2. CASE l = i
  BY <1>1, <1>2 DEF Released
<1>3. CASE Depends(l, i, a)
  BY <1>1, <1>3 DEF OpsInv, StartedOK, Started
<1>4. QED
  BY <1>1, <1>2, <1>3 DEF StandsFor, Depends

\* ... and the commands of the stream of the event see to it meanwhile.
LEMMA StandsBehind ==
  ASSUME TypeInv, OpsInv, NEW i \in Issued, NEW a \in Addrs, NEW e \in Events,
         StandsFor(e, i, a), NEW s \in Streams, home[e] = s
  PROVE  Behind(s, Len(cmds[s]) + 1, i, a)
<1>1. PICK l \in Issued : l = work[e]
  BY DEF StandsFor
<1>2. l # 0 /\ launched[l].s = s /\ s # Null /\ Len(cmds[s]) \in Nat
  BY <1>1, Typed2, ConstantAssumption DEF OpsInv, WorkOK
<1>3. Sent(s, l)
  BY <1>1, <1>2 DEF OpsInv, WorkOK, Sent, Ahead
<1>4. CASE l \in executed
  BY <1>1, <1>4, StandsReleased DEF Behind
<1>5. CASE l \notin executed
  <2>1. PICK n \in 1 .. Len(cmds[s]) : cmds[s][n] = <<"work", l>>
    BY <1>3, <1>5 DEF Sent, Ahead
  <2>2. n \in Nat /\ n < Len(cmds[s]) + 1
    BY <1>2
  <2>3. CASE l = i
    BY <2>1, <2>2, <2>3 DEF Behind, Sees
  <2>4. CASE Depends(l, i, a)
    <3>1. l \in Works
      BY Typed2
    <3>2. Behind(s, n, i, a)
      BY <2>1, <2>4, <3>1 DEF OpsInv, GuardedOK
    <3>3. \A m \in 1 .. Len(cmds[s]) : m < n => m < Len(cmds[s]) + 1
      BY <1>2
    <3>4. QED
      BY <3>2, <3>3 DEF Behind
  <2>5. QED
    BY <1>1, <2>3, <2>4 DEF StandsFor, Depends
<1>6. QED
  BY <1>4, <1>5

\* The last position of a stream, before and after a step.
LEMMA LastPosition ==
  ASSUME TypeInv, TypeInv', CmdsExtend, NEW s \in Streams
  PROVE  \E n \in 1 .. Len(cmds[s]) + 1 : \E m \in Nat :
           n = Len(cmds[s]) + 1 /\ m = Len(cmds'[s]) + 1 /\ n <= m
<1>1. Len(cmds[s]) \in Nat /\ Len(cmds'[s]) \in Nat
  BY Typed2 DEF TypeInv, TypeOK
<1>2. Len(cmds[s]) <= Len(cmds'[s])
  BY DEF CmdsExtend
<1>3. QED
  BY <1>1, <1>2

LEMMA WaitBehind ==
  ASSUME ProgramOrder, TypeInv, TypeInv', EventInv, OrderInv, OpsInv,
         NEW t \in Threads, NEW a \in Addrs, EnqueueWait(t, a), HistoryKept, CmdsExtend,
         NEW i \in Issued, a \in Produces(launched[i]),
         NEW s \in Streams, s = cur[t].s
  PROVE  Behind(s, Len(cmds[s]) + 1, i, a)'
<1>0. Len(cmds[s]) \in Nat /\ Len(cmds'[s]) \in Nat
  <2>1. \A q \in Streams : Len(cmds[q]) \in Nat
    BY Typed2
  <2>2. \A q \in Streams : Len(cmds'[q]) \in Nat
    BY DEF TypeInv, TypeOK
  <2>3. QED
    BY <2>1, <2>2
<1>1. OwnersOK /\ Len(cmds[s]) \in Nat /\ Len(cmds'[s]) \in Nat
  BY <1>0 DEF OrderInv
<1>2. CASE Released(i, a)
  BY <1>1, <1>2, FactsKept DEF Behind
<1>3. CASE byAddr[a] # Null /\ StandsFor(byAddr[a], i, a)
  <2>1. PICK e \in Events : e = byAddr[a] /\ StandsFor(e, i, a)
    BY <1>3, Typed2
  <2>2. Live(e) /\ StreamWait(e, s)
    BY <1>3, <2>1 DEF EnqueueWait, EventInv, MapMatchesPtrs
  <2>3. e \in recorded
    <3>1. \A u \in Threads : pc[u] = "wait"
      BY DEF ProgramOrder, EnqueueWait
    <3>2. QED
      BY <2>2, <3>1 DEF OpsInv, WorkOK, Live
  <2>4. CASE home[e] = s
    <3>1. Behind(s, Len(cmds[s]) + 1, i, a)
      BY <2>1, <2>4, StandsBehind
    <3>2. PICK n \in 1 .. Len(cmds[s]) + 1, m \in Nat :
            n = Len(cmds[s]) + 1 /\ m = Len(cmds'[s]) + 1 /\ n <= m
      BY LastPosition
    <3>3. n <= m
      BY <3>2
    <3>4. Behind(s, n, i, a)
      BY <3>1, <3>2 DEF Behind
    <3>5. Behind(s, m, i, a)'
      BY <1>1, <3>3, <3>4, BehindKept
    <3>6. QED
      BY <3>2, <3>5 DEF Behind
  <2>5. CASE home[e] # s
    <3>1. cmds' = [cmds EXCEPT ![s] = Append(@, <<"wait", e>>)] /\ UNCHANGED executed
      BY <2>2, <2>3, <2>5 DEF StreamWait, Live, EnqueueWait
    <3>2. <<"wait", e>> \in Cmds /\ CmdsType
      BY Typed DEF Cmds
    <3>3. Len(cmds'[s]) = Len(cmds[s]) + 1 /\ cmds'[s][Len(cmds[s]) + 1] = <<"wait", e>>
      BY <3>1, <3>2, Enqueued
    <3>4. PICK n \in Nat : n = Len(cmds'[s])
      BY <1>1
    <3>5. n \in 1 .. Len(cmds'[s]) /\ n < Len(cmds'[s]) + 1 /\ cmds'[s][n] = <<"wait", e>>
      BY <1>1, <3>3, <3>4
    <3>6. Sees(<<"wait", e>>, i, a)'
      BY <1>1, <2>1, FactsKept DEF Sees
    <3>7. QED
      BY <3>5, <3>6 DEF Behind, Sees
  <2>6. QED
    BY <2>4, <2>5
<1>4. ~ \E u \in Threads : AboutToRegister(u, i, a)
  BY DEF ProgramOrder, EnqueueWait, AboutToRegister, Launched
<1>5. QED
  BY <1>2, <1>3, <1>4 DEF OpsInv, MappedOK

LEMMA EnqueueWaitOrder ==
  ASSUME ProgramOrder, TypeInv, TypeInv', EventInv, OrderInv, OpsInv,
         NEW t \in Threads, NEW a \in Addrs, EnqueueWait(t, a)
  PROVE  OpsInv'
<1>1. /\ pc[t] = "wait" /\ cur[t].s \in Streams
      /\ UNCHANGED <<semVars, launched, executed, recorded, fired, work, fatal>>
      /\ UNCHANGED <<pc, cur, part, ev, wk>>
      /\ todo' = [todo EXCEPT ![t] = @ \ {a}]
  BY Controlled DEF EnqueueWait, Issuing
<1>2. QuietEvents
  <2>1. CASE byAddr[a] = Null
    BY <1>1, <2>1, NothingEnqueued DEF EnqueueWait, semVars
  <2>2. CASE byAddr[a] # Null
    <3>1. byAddr[a] \in Events /\ StreamWait(byAddr[a], cur[t].s)
      BY <2>2, Typed2 DEF EnqueueWait
    <3>2. QED
      BY <1>1, <3>1, StreamWaitQuiet
  <2>3. QED
    BY <2>1, <2>2
<1>3. \A u \in Threads : Quiet(u)
  BY <1>1, Typed2 DEF Quiet, Launched
<1>4. StartedOK' /\ GuardedOK' /\ MappedOK' /\ ThreadsOK' /\ WorkOK' /\ NoHostFatal'
  BY <1>2, <1>3, QuietFrame
<1>5. HistoryKept /\ CmdsExtend /\ UNCHANGED launched /\ OwnersOK
  BY <1>2, QuietHistory DEF QuietEvents, OrderInv
<1>6. WaitedOK'
  <2> SUFFICES ASSUME NEW u \in Threads, pc'[u] \in {"wait", "mapped"},
                      NEW i \in Issued', NEW b \in Produces(launched'[i]),
                      b \in cur'[u].wait \ todo'[u]
               PROVE  Behind(cur[u].s, Len(cmds[cur[u].s]) + 1, i, b)'
    BY DEF WaitedOK
  <2>1. u = t /\ i \in Issued /\ b \in Produces(launched[i]) /\ b \in Addrs
    BY <1>5, Typed2 DEF ProgramOrder, Issued
  <2>2. PICK s \in Streams : s = cur[t].s /\ s = cur'[t].s
    BY <1>1
  <2>3. Behind(s, Len(cmds[s]) + 1, i, b)'
    <3>1. CASE b = a
      BY <1>5, <2>1, <2>2, <3>1, WaitBehind
    <3>2. CASE b # a
      <4>1. b \in cur[t].wait \ todo[t]
        BY <1>1, <2>1, <3>2, Typed2
      <4>2. Behind(s, Len(cmds[s]) + 1, i, b)
        BY <1>1, <2>1, <2>2, <4>1 DEF OpsInv, WaitedOK, Behind
      <4>4. PICK n \in 1 .. Len(cmds[s]) + 1, m \in Nat :
              n = Len(cmds[s]) + 1 /\ m = Len(cmds'[s]) + 1 /\ n <= m
        BY <1>5, LastPosition
      <4>5. n <= m
        BY <4>4
      <4>6. Behind(s, n, i, b)
        BY <4>2, <4>4 DEF Behind
      <4>7. Behind(s, m, i, b)'
        BY <1>5, <2>1, <4>5, <4>6, BehindKept
      <4>8. QED
        BY <4>4, <4>7 DEF Behind
    <3>3. QED
      BY <3>1, <3>2
  <2>4. QED
    BY <2>1, <2>2, <2>3 DEF Behind
<1>7. QED
  BY <1>4, <1>6 DEF OpsInv

-----------------------------------------------------------------------------
(* The steps that construct an event.                                      *)

LEMMA NewEventKept ==
  ASSUME TypeInv, NEW x \in Events, NEW q \in Streams, NEW A \in SUBSET Addrs,
         NEW isPartial \in BOOLEAN, NEW w \in Works, NewEvent(x, q, A, isPartial, w),
         UNCHANGED <<launched, executed, fired>>
  PROVE  /\ HistoryKept /\ home[x] = Null
         /\ home'[x] = q /\ partial'[x] = isPartial /\ work'[x] = w
         /\ \A e \in Events \ {x} :
              home'[e] = home[e] /\ partial'[e] = partial[e] /\ work'[e] = work[e]
         /\ \A a \in Addrs : byAddr'[a] = IF a \in A THEN x ELSE byAddr[a]
<1>1. /\ home' = [home EXCEPT ![x] = q] /\ partial' = [partial EXCEPT ![x] = isPartial]
      /\ work' = [work EXCEPT ![x] = w] /\ home[x] = Null
      /\ byAddr' = [a \in Addrs |-> IF a \in A THEN x ELSE byAddr[a]]
  BY DEF NewEvent, MapTo
<1>2. /\ home'[x] = q /\ partial'[x] = isPartial /\ work'[x] = w
      /\ \A e \in Events \ {x} :
           home'[e] = home[e] /\ partial'[e] = partial[e] /\ work'[e] = work[e]
  BY <1>1, Typed
<1>3. HistoryKept
  BY <1>1, <1>2, Typed2 DEF HistoryKept
<1>4. QED
  BY <1>1, <1>2, <1>3

\* The map, when event x takes over the addresses A.
LEMMA NewEventMapped ==
  ASSUME TypeInv, TypeInv', OrderInv, OpsInv, HistoryKept, UNCHANGED launched,
         NEW x \in Events, NEW A \in SUBSET Addrs,
         \A a \in Addrs : byAddr'[a] = IF a \in A THEN x ELSE byAddr[a],
         \A i \in Issued : \A a \in Produces(launched[i]) :
           a \in A => \/ StandsFor(x, i, a)'
                      \/ \E t \in Threads : AboutToRegister(t, i, a)',
         \A i \in Issued : \A a \in Produces(launched[i]) :
           a \notin A => ~ \E t \in Threads : AboutToRegister(t, i, a)
  PROVE  MappedOK'
<1> SUFFICES ASSUME NEW i \in Issued', NEW a \in Produces(launched'[i])
             PROVE  \/ Released(i, a)'
                    \/ byAddr'[a] # Null /\ StandsFor(byAddr[a], i, a)'
                    \/ \E t \in Threads : AboutToRegister(t, i, a)'
  BY DEF MappedOK
<1>1. i \in Issued /\ launched'[i] = launched[i] /\ a \in Produces(launched[i])
  BY DEF Issued
<1>2. a \in Addrs /\ x # Null /\ OwnersOK
  BY <1>1, Typed2, ConstantAssumption DEF OrderInv
<1>3. CASE a \in A
  <2>1. byAddr'[a] = x
    BY <1>2, <1>3
  <2>2. \/ StandsFor(x, i, a)'
        \/ \E t \in Threads : AboutToRegister(t, i, a)'
    BY <1>1, <1>3
  <2>3. QED
    BY <1>2, <2>1, <2>2 DEF StandsFor
<1>4. CASE a \notin A
  <2>1. byAddr'[a] = byAddr[a]
    BY <1>2, <1>4
  <2>2. CASE Released(i, a)
    BY <1>1, <1>2, <2>2, FactsKept
  <2>3. CASE byAddr[a] # Null /\ StandsFor(byAddr[a], i, a)
    <3>1. PICK e \in Events : e = byAddr[a] /\ StandsFor(e, i, a)
      BY <1>2, <2>3, Typed2
    <3>2. StandsFor(e, i, a)'
      BY <1>1, <1>2, <3>1, FactsKept
    <3>3. QED
      BY <2>1, <2>3, <3>1, <3>2 DEF StandsFor
  <2>4. ~ \E t \in Threads : AboutToRegister(t, i, a)
    BY <1>1, <1>4
  <2>5. QED
    BY <1>1, <2>2, <2>3, <2>4 DEF OpsInv, MappedOK
<1>5. QED
  BY <1>3, <1>4

LEMMA MapEventToTensorOrder ==
  ASSUME ProgramOrder, TypeInv, TypeInv', EventInv, OrderInv, OpsInv,
         NEW t \in Threads, NEW x \in Events, MapEventToTensor(t, x)
  PROVE  OpsInv'
<1>1. PICK b \in Addrs : b = cur[t].ext
  BY Controlled DEF MapEventToTensor, Issuing, OpType
<1>2. /\ pc[t] = "wait" /\ todo[t] = {} /\ cur[t].s \in Streams
      /\ NewEvent(x, cur[t].s, {b}, TRUE, 0) /\ 0 \in Works
      /\ UNCHANGED <<launched, executed, fired, cmds, recorded, cur, todo, fatal>>
      /\ pc' = [pc EXCEPT ![t] = "mapped"] /\ part' = [part EXCEPT ![t] = x]
  <2>1. cur[t].s \in Streams
    BY Controlled DEF MapEventToTensor, Issuing
  <2>2. 0 \in Works
    BY ConstantAssumption DEF Works
  <2>3. QED
    BY <1>1, <2>1, <2>2 DEF MapEventToTensor, Goto
<1>3. /\ HistoryKept /\ home[x] = Null
      /\ home'[x] = cur[t].s /\ partial'[x] = TRUE /\ work'[x] = 0
      /\ \A e \in Events \ {x} :
           home'[e] = home[e] /\ partial'[e] = partial[e] /\ work'[e] = work[e]
      /\ \A a \in Addrs : byAddr'[a] = IF a \in {b} THEN x ELSE byAddr[a]
  <2>1. PICK A \in SUBSET Addrs, q \in Streams, w \in Works :
          A = {b} /\ q = cur[t].s /\ w = 0
    <3>1. {b} \in SUBSET Addrs
      OBVIOUS
    <3>2. QED
      BY <1>2, <3>1, Zenon
  <2>2. NewEvent(x, q, A, TRUE, w) /\ UNCHANGED <<launched, executed, fired>>
    BY <1>2, <2>1
  <2>3. TRUE \in BOOLEAN
    OBVIOUS
  <2>4. /\ HistoryKept /\ home[x] = Null
        /\ home'[x] = q /\ partial'[x] = TRUE /\ work'[x] = w
        /\ \A e \in Events \ {x} :
             home'[e] = home[e] /\ partial'[e] = partial[e] /\ work'[e] = work[e]
        /\ \A a \in Addrs : byAddr'[a] = IF a \in A THEN x ELSE byAddr[a]
    BY <2>2, <2>3, NewEventKept
  <2>5. QED
    BY <2>1, <2>4
<1>4. /\ \A u \in Threads : u = t
      /\ pc'[t] = "mapped" /\ part'[t] = x
      /\ CmdsExtend
  BY <1>2, Typed, Typed2 DEF ProgramOrder, CmdsExtend
<1>5. StartedOK'
  BY <1>2, <1>3, StartedFrame
<1>6. GuardedOK'
  <2>1. \A s \in Streams : \A n \in 1 .. Len(cmds'[s]) : ~(n > Len(cmds[s]))
    BY <1>2, Typed2
  <2>2. QED
    BY <1>3, <1>4, <2>1, GuardedFrame
<1>7. MappedOK'
  <2>1. ASSUME NEW i \in Issued, NEW a \in Produces(launched[i]), a \in {b}
        PROVE  \E u \in Threads : AboutToRegister(u, i, a)'
    BY <1>1, <1>2, <1>4, <2>1 DEF AboutToRegister
  <2>2. ~ \E u \in Threads : pc[u] = "mapped" \/ pc[u] \in Launched
    BY <1>2, <1>4 DEF Launched
  <2>3. QED
    BY <1>2, <1>3, <2>1, <2>2, NewEventMapped DEF AboutToRegister
<1>8. WaitedOK'
  <2>1. \A u \in Threads : pc[u] \in {"wait", "mapped"} /\ cur'[u] = cur[u] /\ todo'[u] = todo[u]
    BY <1>2, <1>4
  <2>2. QED
    BY <1>2, <1>3, <1>4, <2>1, WaitedFrame
<1>9. ThreadsOK'
  <2>1. /\ todo'[t] = {} /\ cur'[t].ext \in Addrs
        /\ byAddr'[cur'[t].ext] = x
    BY <1>1, <1>2, <1>3
  <2>2. QED
    BY <1>3, <1>4, <2>1 DEF ThreadsOK, Launched
<1>10. WorkOK'
  <2>1. \A i \in Issued' : Sent(launched[i].s, i)'
    BY <1>2, <1>4, SentAll
  <2>2. \A e \in Events : home'[e] # Null /\ work'[e] # 0 =>
          work'[e] \in Issued' /\ launched'[work'[e]].s = home'[e]
    BY <1>2, <1>3 DEF OpsInv, WorkOK, Issued
  <2>3. \A e \in Events : home'[e] # Null /\ e \notin recorded' => e = x
    BY <1>2, <1>3, <1>4 DEF OpsInv, WorkOK
  <2>4. executed' \subseteq 0 .. Len(launched')
    BY <1>2 DEF OpsInv, WorkOK
  <2>5. \A e \in fired' : partial'[e] => work'[e] \in Issued'
    <3>1. x \notin fired /\ fired \subseteq Events
      BY <1>3, Typed DEF OrderInv, OwnersOK
    <3>2. QED
      BY <1>2, <1>3, <3>1 DEF OpsInv, WorkOK, Issued
  <2>6. QED
    BY <1>4, <2>1, <2>2, <2>3, <2>4, <2>5 DEF WorkOK
<1>11. NoHostFatal'
  BY <1>2 DEF OpsInv, NoHostFatal
<1>12. QED
  BY <1>5, <1>6, <1>7, <1>8, <1>9, <1>10, <1>11 DEF OpsInv

LEMMA AddProducerStands ==
  ASSUME ProgramOrder, TypeInv, TypeInv', OrderInv, OpsInv,
         NEW t \in Threads, NEW x \in Events, AddProducer(t, x), HistoryKept, UNCHANGED launched,
         home'[x] # Null, partial'[x] = FALSE, work'[x] = wk[t],
         NEW i \in Issued, NEW a \in Produces(launched[i]), a \in cur[t].reg \ {cur[t].ext}
  PROVE  StandsFor(x, i, a)'
<1>1. PICK w \in Issued : w = wk[t] /\ w = Len(launched) /\ launched[w] = cur[t]
  BY DEF AddProducer, OpsInv, ThreadsOK, Launched
<1>2. w \in Issued' /\ a \in Addrs /\ i \in Nat /\ w \in Nat /\ i <= w
  BY <1>1, Typed2 DEF Issued
<1>3. w = i \/ Depends(w, i, a)'
  <2>1. launched[i] \in Ops /\ launched[w] \in Ops
    BY Typed2
  <2>2. a \in Produces(launched[w])
    BY <1>1 DEF Produces
  <2>3. RunsAfter(launched[w], launched[i], a)
    BY <2>1, <2>2 DEF ProgramOrder
  <2>4. i # w => i < w
    BY <1>2
  <2>5. QED
    BY <2>3, <2>4 DEF Depends
<1>4. QED
  BY <1>1, <1>2, <1>3 DEF StandsFor, Depends

LEMMA AddProducerOps ==
  ASSUME ProgramOrder, TypeInv, TypeInv', EventInv, OrderInv, OpsInv,
         NEW t \in Threads, NEW x \in Events, AddProducer(t, x)
  PROVE  OpsInv'
<1> DEFINE A == cur[t].reg \ {cur[t].ext}
<1>1. cur[t] \in Ops /\ cur[t].s \in Streams /\ A \in SUBSET Addrs
  BY Controlled DEF AddProducer, Issuing, OpType
<1>2. /\ pc[t] = "launched" /\ wk[t] \in Works
      /\ NewEvent(x, cur[t].s, A, FALSE, wk[t])
      /\ UNCHANGED <<launched, executed, fired>>
      /\ UNCHANGED <<cmds, recorded, cur, todo, part, wk, fatal>>
      /\ pc' = [pc EXCEPT ![t] = "register"] /\ ev' = [ev EXCEPT ![t] = x]
  BY Typed DEF AddProducer, Goto
<1>3. /\ HistoryKept /\ home[x] = Null
      /\ home'[x] = cur[t].s /\ partial'[x] = FALSE /\ work'[x] = wk[t]
      /\ \A e \in Events \ {x} :
           home'[e] = home[e] /\ partial'[e] = partial[e] /\ work'[e] = work[e]
      /\ \A a \in Addrs : byAddr'[a] = IF a \in A THEN x ELSE byAddr[a]
  <2>1. PICK b \in BOOLEAN : b = FALSE
    OBVIOUS
  <2>2. NewEvent(x, cur[t].s, A, b, wk[t])
    BY <1>2, <2>1
  <2> HIDE DEF A
  <2>3. /\ HistoryKept /\ home[x] = Null
        /\ home'[x] = cur[t].s /\ partial'[x] = b /\ work'[x] = wk[t]
        /\ \A e \in Events \ {x} :
             home'[e] = home[e] /\ partial'[e] = partial[e] /\ work'[e] = work[e]
        /\ \A a \in Addrs : byAddr'[a] = IF a \in A THEN x ELSE byAddr[a]
    BY <1>1, <1>2, <2>2, NewEventKept
  <2>4. QED
    BY <2>1, <2>3
<1>4. /\ \A u \in Threads : u = t
      /\ pc'[t] = "register" /\ ev'[t] = x
      /\ CmdsExtend
  BY <1>2, Typed, Typed2 DEF ProgramOrder, CmdsExtend
<1>5. StartedOK'
  BY <1>2, <1>3, StartedFrame
<1>6. GuardedOK'
  <2>1. \A s \in Streams : \A n \in 1 .. Len(cmds'[s]) : ~(n > Len(cmds[s]))
    BY <1>2, Typed2
  <2>2. QED
    BY <1>3, <1>4, <2>1, GuardedFrame
<1>7. wk[t] \in Issued /\ launched[wk[t]] = cur[t]
  BY <1>2 DEF OpsInv, ThreadsOK, Launched
<1>8. MappedOK'
  <2>1. ASSUME NEW i \in Issued, NEW a \in Produces(launched[i]), a \in A
        PROVE  StandsFor(x, i, a)'
    <3>1. home'[x] # Null
      BY <1>1, <1>3, ConstantAssumption
    <3>2. QED
      BY <1>2, <1>3, <2>1, <3>1, AddProducerStands
  <2>2. ASSUME NEW i \in Issued, NEW a \in Produces(launched[i]), a \notin A
        PROVE  ~ \E u \in Threads : AboutToRegister(u, i, a)
    BY <1>2, <1>4, <1>7, <2>2 DEF AboutToRegister, Produces
  <2> HIDE DEF A
  <2>3. QED
    BY <1>1, <1>2, <1>3, <2>1, <2>2, NewEventMapped
<1>9. WaitedOK'
  <2>1. \A u \in Threads : pc'[u] \notin {"wait", "mapped"}
    BY <1>4
  <2>2. QED
    BY <2>1 DEF WaitedOK
<1>10. ThreadsOK'
  BY <1>4 DEF ThreadsOK, Launched
<1>11. WorkOK'
  <2>1. \A i \in Issued' : Sent(launched[i].s, i)'
    BY <1>2, <1>4, SentAll
  <2>2. \A e \in Events : home'[e] # Null /\ work'[e] # 0 =>
          work'[e] \in Issued' /\ launched'[work'[e]].s = home'[e]
    BY <1>2, <1>3, <1>7 DEF OpsInv, WorkOK, Issued
  <2>3. \A e \in Events : home'[e] # Null /\ e \notin recorded' => e = x
    BY <1>2, <1>3, <1>4 DEF OpsInv, WorkOK
  <2>4. executed' \subseteq 0 .. Len(launched')
    BY <1>2 DEF OpsInv, WorkOK
  <2>5. \A e \in fired' : partial'[e] => work'[e] \in Issued'
    <3>1. x \notin fired /\ fired \subseteq Events
      BY <1>3, Typed DEF OrderInv, OwnersOK
    <3>2. QED
      BY <1>2, <1>3, <3>1 DEF OpsInv, WorkOK, Issued
  <2>6. QED
    BY <1>4, <2>1, <2>2, <2>3, <2>4, <2>5 DEF WorkOK
<1>12. NoHostFatal'
  BY <1>2 DEF OpsInv, NoHostFatal
<1>13. QED
  BY <1>5, <1>6, <1>8, <1>9, <1>10, <1>11, <1>12 DEF OpsInv

\* A record at the end of a stream is no new work.
LEMMA RecordNoWork ==
  ASSUME TypeInv, NEW x \in Events, NEW q \in Streams, RecordAndPush(x, q), UNCHANGED executed
  PROVE  CmdsExtend /\ NoNewWork /\ recorded' = recorded \cup {x} /\ x \in recorded'
<1>1. <<"record", x>> \in Cmds /\ CmdsType
  BY Typed DEF Cmds
<1>2. cmds' = [cmds EXCEPT ![q] = Append(@, <<"record", x>>)] /\ recorded' = recorded \cup {x}
  BY DEF RecordAndPush
<1>3. /\ CmdsExtend /\ cmds'[q][Len(cmds[q]) + 1] = <<"record", x>>
      /\ \A s \in Streams : \A i \in 1 .. Len(cmds'[s]) :
           i \in 1 .. Len(cmds[s]) \/ (s = q /\ i = Len(cmds[q]) + 1)
  BY <1>1, <1>2, Enqueued
<1>4. NoNewWork
  BY <1>3, Typed2 DEF NoNewWork
<1>5. QED
  BY <1>2, <1>3, <1>4

LEMMA RegisterPendingOps ==
  ASSUME ProgramOrder, TypeInv, TypeInv', EventInv, OrderInv, OpsInv,
         NEW t \in Threads, RegisterPending(t)
  PROVE  OpsInv'
<1>1. PICK x \in Events : x = ev[t]
  BY Controlled DEF RegisterPending
<1>2. /\ pc[t] = "register" /\ RecordAndPush(x, cur[t].s) /\ cur[t].s \in Streams
      /\ UNCHANGED <<byAddr, home, ptrs, partial, launched, executed, fired, work, fatal>>
      /\ pc' = [pc EXCEPT ![t] = "idle"]
  BY <1>1, Controlled DEF RegisterPending, Issuing, Return, Goto, semVars
<1>3. (\A u \in Threads : u = t) /\ pc'[t] = "idle"
  BY <1>2, Typed DEF ProgramOrder
<1>4. CmdsExtend /\ NoNewWork /\ recorded' = recorded \cup {x}
  BY <1>2, RecordNoWork
<1>5. HistoryKept
  BY <1>2, Typed2 DEF HistoryKept
<1>6. StartedOK'
  BY <1>2, <1>5, StartedFrame
<1>7. GuardedOK'
  BY <1>4, <1>5, GuardedFrame DEF NoNewWork
<1>8. MappedOK'
  <2>1. \A u \in Threads, i \in Issued, a \in Addrs : ~AboutToRegister(u, i, a)
    BY <1>2, <1>3 DEF AboutToRegister, Launched
  <2>2. QED
    BY <1>2, <1>5, <2>1, MappedFrame
<1>9. WaitedOK' /\ ThreadsOK'
  BY <1>3 DEF WaitedOK, ThreadsOK, Launched
<1>10. WorkOK'
  <2>1. \A i \in Issued' : Sent(launched[i].s, i)'
    BY <1>2, <1>4, SentAll
  <2>2. \A e \in Events : home'[e] # Null => e \in recorded'
    BY <1>1, <1>2, <1>3, <1>4 DEF OpsInv, WorkOK
  <2>3. QED
    BY <1>2, <2>1, <2>2 DEF OpsInv, WorkOK, Issued
<1>11. NoHostFatal'
  BY <1>2 DEF OpsInv, NoHostFatal
<1>12. QED
  BY <1>6, <1>7, <1>8, <1>9, <1>10, <1>11 DEF OpsInv

LEMMA RecordAndWaitOps ==
  ASSUME ProgramOrder, TypeInv, TypeInv', EventInv, OrderInv, OpsInv,
         NEW t \in Threads, NEW x \in Events, NEW q \in Streams, NEW s \in Streams,
         RecordAndWait(t, x, q, s)
  PROVE  OpsInv'
<1>1. /\ pc[t] = "idle" /\ RecordAndPush(x, q)
      /\ NewEvent(x, q, {}, FALSE, 0)
      /\ UNCHANGED <<launched, executed, fired>> /\ UNCHANGED fatal
      /\ pc' = [pc EXCEPT ![t] = "got"]
  BY DEF RecordAndWait, Goto
<1>2. /\ HistoryKept /\ home[x] = Null
      /\ home'[x] = q /\ partial'[x] = FALSE /\ work'[x] = 0
      /\ \A e \in Events \ {x} :
           home'[e] = home[e] /\ partial'[e] = partial[e] /\ work'[e] = work[e]
      /\ \A a \in Addrs : byAddr'[a] = IF a \in {} THEN x ELSE byAddr[a]
  <2>1. PICK b \in BOOLEAN, w \in Works, A \in SUBSET Addrs : b = FALSE /\ w = 0 /\ A = {}
    <3>1. FALSE \in BOOLEAN /\ 0 \in Works /\ {} \in SUBSET Addrs
      BY ConstantAssumption DEF Works
    <3>2. QED
      BY <3>1, Zenon
  <2>2. NewEvent(x, q, A, b, w)
    BY <1>1, <2>1
  <2>3. /\ HistoryKept /\ home[x] = Null
        /\ home'[x] = q /\ partial'[x] = b /\ work'[x] = w
        /\ \A e \in Events \ {x} :
             home'[e] = home[e] /\ partial'[e] = partial[e] /\ work'[e] = work[e]
        /\ \A a \in Addrs : byAddr'[a] = IF a \in A THEN x ELSE byAddr[a]
    BY <1>1, <2>2, NewEventKept
  <2>4. QED
    BY <2>1, <2>3
<1>3. (\A u \in Threads : u = t) /\ pc'[t] = "got"
  BY <1>1, Typed DEF ProgramOrder
<1>4. CmdsExtend /\ NoNewWork /\ recorded' = recorded \cup {x}
  BY <1>1, RecordNoWork
<1>5. StartedOK'
  BY <1>1, <1>2, StartedFrame
<1>6. GuardedOK'
  BY <1>2, <1>4, GuardedFrame DEF NoNewWork
<1>7. MappedOK'
  <2>1. \A u \in Threads, i \in Issued, a \in Addrs : ~AboutToRegister(u, i, a)
    BY <1>1, <1>3 DEF AboutToRegister, Launched
  <2>2. byAddr' = byAddr
    BY <1>2, Typed2 DEF TypeInv, TypeOK
  <2>3. QED
    BY <1>1, <1>2, <2>1, <2>2, MappedFrame
<1>8. WaitedOK' /\ ThreadsOK'
  BY <1>3 DEF WaitedOK, ThreadsOK, Launched
<1>9. WorkOK'
  <2>1. \A i \in Issued' : Sent(launched[i].s, i)'
    BY <1>1, <1>4, SentAll
  <2>2. \A e \in Events : home'[e] # Null => e \in recorded'
    BY <1>1, <1>2, <1>3, <1>4 DEF OpsInv, WorkOK
  <2>3. \A e \in Events : home'[e] # Null /\ work'[e] # 0 =>
          work'[e] \in Issued' /\ launched'[work'[e]].s = home'[e]
    BY <1>1, <1>2 DEF OpsInv, WorkOK, Issued
  <2>4. executed' \subseteq 0 .. Len(launched')
    BY <1>1 DEF OpsInv, WorkOK
  <2>5. \A e \in fired' : partial'[e] => work'[e] \in Issued'
    <3>1. x \notin fired /\ fired \subseteq Events
      BY <1>2, Typed DEF OrderInv, OwnersOK
    <3>2. QED
      BY <1>1, <1>2, <3>1 DEF OpsInv, WorkOK, Issued
  <2>6. QED
    BY <2>1, <2>2, <2>3, <2>4, <2>5 DEF WorkOK
<1>10. NoHostFatal'
  BY <1>1 DEF OpsInv, NoHostFatal
<1>11. QED
  BY <1>5, <1>6, <1>7, <1>8, <1>9, <1>10 DEF OpsInv

-----------------------------------------------------------------------------
(* A launch.                                                               *)

LEMMA LaunchFacts ==
  ASSUME ProgramOrder, TypeInv, TypeInv', EventInv, OrderInv, OpsInv,
         NEW t \in Threads, Launch(t)
  PROVE  \E q \in Streams, w \in Works :
           /\ q = cur[t].s /\ w # 0 /\ w = Len(launched) + 1 /\ cur[t] \in Ops
           /\ launched'[w] = cur[t] /\ Len(launched') = w
           /\ Issued' = Issued \cup {w} /\ w \notin Issued
           /\ \A i \in Issued : launched'[i] = launched[i] /\ i < w
           /\ CmdsExtend /\ Len(cmds'[q]) = Len(cmds[q]) + 1
           /\ cmds'[q][Len(cmds[q]) + 1] = <<"work", w>>
           /\ \A s \in Streams : \A n \in 1 .. Len(cmds'[s]) :
                n \in 1 .. Len(cmds[s]) \/ (s = q /\ n = Len(cmds[q]) + 1)
           /\ HistoryKept
<1>1. cur[t] \in Ops /\ cur[t].s \in Streams
  BY Controlled DEF Launch, ReadyToLaunch, Issuing
<1>2. PICK q \in Streams : q = cur[t].s
  BY <1>1
<1>3. PICK w \in Works : w = Len(launched) + 1 /\ w # 0
  BY Typed2 DEF Launch, Works
<1>4. /\ launched' = Append(launched, cur[t])
      /\ cmds' = [cmds EXCEPT ![q] = Append(@, <<"work", w>>)]
      /\ UNCHANGED <<home, partial, executed, fired>>
  BY <1>2, <1>3 DEF Launch, semVars
<1>5. /\ launched'[w] = cur[t] /\ Len(launched') = w
      /\ Issued' = Issued \cup {w} /\ w \notin Issued
      /\ \A i \in Issued : launched'[i] = launched[i] /\ i < w
  <2>1. launched \in Seq(Ops) /\ Len(launched) \in Nat
    BY Typed2
  <2>2. Len(launched') = w /\ launched'[w] = cur[t]
    BY <1>1, <1>3, <1>4, <2>1
  <2>3. \A i \in Issued : launched'[i] = launched[i]
    BY <1>1, <1>4, <2>1 DEF Issued
  <2>4. PICK l \in Nat : l = Len(launched)
    BY <2>1
  <2>5. (1 .. l + 1) = (1 .. l) \cup {l + 1} /\ l + 1 \notin 1 .. l /\ \A i \in 1 .. l : i < l + 1
    OBVIOUS
  <2>6. QED
    BY <1>3, <2>2, <2>3, <2>4, <2>5 DEF Issued
<1>6. /\ CmdsExtend /\ Len(cmds'[q]) = Len(cmds[q]) + 1
      /\ cmds'[q][Len(cmds[q]) + 1] = <<"work", w>>
      /\ \A s \in Streams : \A n \in 1 .. Len(cmds'[s]) :
           n \in 1 .. Len(cmds[s]) \/ (s = q /\ n = Len(cmds[q]) + 1)
  <2>1. <<"work", w>> \in Cmds /\ CmdsType /\ executed' = executed
    BY <1>4, Typed DEF Cmds
  <2>2. QED
    BY <1>4, <2>1, Enqueued
<1>7. HistoryKept
  <2>1. \A e \in Events : work[e] # 0 => work'[e] = work[e]
    <3>1. part[t] # Null => work[part[t]] = 0
      BY Controlled DEF Launch, ReadyToLaunch, OpsInv, ThreadsOK
    <3>2. \A e \in Events : e # part[t] => work'[e] = work[e]
      BY Typed DEF Launch
    <3>3. QED
      BY <3>1, <3>2, ConstantAssumption
  <2>2. Len(launched) <= Len(launched')
    BY <1>3, <1>5, Typed2
  <2>3. QED
    BY <1>4, <1>5, <2>1, <2>2 DEF HistoryKept
<1>8. QED
  BY <1>1, <1>2, <1>3, <1>5, <1>6, <1>7

\* The work of a launch comes after what its thread has waited for, and after
\* the operations of its own stream.
LEMMA LaunchBehind ==
  ASSUME TypeInv, OpsInv, NEW t \in Threads, ReadyToLaunch(t), NEW q \in Streams, q = cur[t].s,
         NEW i \in Issued, NEW a \in Produces(launched[i]), RunsAfter(cur[t], launched[i], a)
  PROVE  Behind(q, Len(cmds[q]) + 1, i, a)
<1>1. CASE a \in cur[t].wait
  <2>1. pc[t] \in {"wait", "mapped"} /\ todo[t] = {}
    BY DEF ReadyToLaunch, OpsInv, ThreadsOK
  <2>2. Behind(cur[t].s, Len(cmds[cur[t].s]) + 1, i, a)
    BY <1>1, <2>1 DEF OpsInv, WaitedOK
  <2>3. QED
    BY <2>2 DEF Behind
<1>2. CASE q = launched[i].s
  <2>1. Sent(q, i)
    BY <1>2 DEF OpsInv, WorkOK, Sent, Ahead
  <2>2. QED
    BY <2>1 DEF Sent, Ahead, Behind, Released, Sees
<1>3. QED
  BY <1>1, <1>2 DEF RunsAfter

LEMMA LaunchGuarded ==
  ASSUME ProgramOrder, TypeInv, TypeInv', EventInv, OrderInv, OpsInv,
         NEW t \in Threads, Launch(t)
  PROVE  GuardedOK'
<1>1. PICK q \in Streams, w \in Works :
           /\ q = cur[t].s /\ w # 0 /\ w = Len(launched) + 1 /\ cur[t] \in Ops
           /\ launched'[w] = cur[t] /\ Len(launched') = w
           /\ Issued' = Issued \cup {w} /\ w \notin Issued
           /\ \A i \in Issued : launched'[i] = launched[i] /\ i < w
           /\ CmdsExtend /\ Len(cmds'[q]) = Len(cmds[q]) + 1
           /\ cmds'[q][Len(cmds[q]) + 1] = <<"work", w>>
           /\ \A s \in Streams : \A n \in 1 .. Len(cmds'[s]) :
                n \in 1 .. Len(cmds[s]) \/ (s = q /\ n = Len(cmds[q]) + 1)
           /\ HistoryKept
  BY LaunchFacts
<1>2. \A s \in Streams : Len(cmds[s]) \in Nat
  BY Typed2
<1>3. ASSUME NEW i \in Issued', NEW a \in Addrs, Depends(w, i, a)',
             NEW n \in Nat, n = Len(cmds[q]) + 1
      PROVE  Behind(q, n, i, a)'
  <2>1. i \in Issued /\ a \in Produces(launched[i]) /\ RunsAfter(cur[t], launched[i], a)
    <3>1. i < w /\ w \in Nat
      BY <1>3, <1>1 DEF Depends, Works
    <3>2. i \in Issued
      BY <1>1, <3>1
    <3>3. QED
      BY <1>1, <1>3, <3>2 DEF Depends
  <2>2. Behind(q, Len(cmds[q]) + 1, i, a)
    BY <1>1, <2>1, LaunchBehind DEF Launch
  <2>3. n \in 1 .. Len(cmds[q]) + 1 /\ n <= n
    BY <1>2, <1>3
  <2>4. Behind(q, n, i, a) /\ OwnersOK /\ HistoryKept /\ CmdsExtend
    BY <1>1, <1>3, <2>2 DEF Behind, OrderInv
  <2>5. QED
    BY <2>1, <2>3, <2>4, BehindKept
<1>4. ASSUME NEW s \in Streams, NEW n \in 1 .. Len(cmds'[s]), NEW k \in Works,
             cmds'[s][n] = <<"work", k>>, n > Len(cmds[s])
      PROVE  /\ k \in Issued'
             /\ \A i \in Issued' : \A a \in Addrs : Depends(k, i, a)' => Behind(s, n, i, a)'
  <2>1. s = q /\ n = Len(cmds[q]) + 1
    BY <1>1, <1>2, <1>4
  <2>2. k = w
    BY <1>1, <1>4, <2>1
  <2>3. ASSUME NEW i \in Issued', NEW a \in Addrs, Depends(k, i, a)'
        PROVE  Behind(s, n, i, a)'
    <3>1. Depends(w, i, a)'
      BY <2>2, <2>3 DEF Depends
    <3>2. n \in Nat
      BY <1>2, <2>1
    <3>3. Behind(q, n, i, a)'
      BY <1>3, <2>1, <3>1, <3>2
    <3>4. QED
      BY <2>1, <3>3 DEF Behind
  <2>4. QED
    BY <1>1, <2>2, <2>3
<1>5. QED
  BY <1>1, <1>4, GuardedFrame

LEMMA LaunchMapped ==
  ASSUME ProgramOrder, TypeInv, TypeInv', EventInv, OrderInv, OpsInv,
         NEW t \in Threads, Launch(t)
  PROVE  MappedOK'
<1>1. PICK q \in Streams, w \in Works :
           /\ q = cur[t].s /\ w # 0 /\ w = Len(launched) + 1 /\ cur[t] \in Ops
           /\ launched'[w] = cur[t] /\ Len(launched') = w
           /\ Issued' = Issued \cup {w} /\ w \notin Issued
           /\ \A i \in Issued : launched'[i] = launched[i] /\ i < w
           /\ HistoryKept
  BY LaunchFacts
<1>2. /\ wk'[t] = w /\ UNCHANGED <<byAddr, home, partial, cur>>
      /\ \A u \in Threads : u = t
      /\ pc'[t] \in {"launched", "check"}
      /\ pc[t] \in {"wait", "mapped"}
  BY <1>1, Typed DEF Launch, ReadyToLaunch, Goto, semVars, ProgramOrder
<1>3. ASSUME pc[t] = "mapped"
      PROVE  \A e \in Events : e = part[t] =>
               home[e] = q /\ partial[e] /\ work'[e] = w /\ byAddr[cur[t].ext] = e
  <2>1. part[t] \in Events /\ part[t] # Null
    BY <1>3, Controlled, ConstantAssumption
  <2>2. PICK e \in Events : e = part[t]
    BY <2>1
  <2>3. Held(t, e)
    BY <1>3, <2>2 DEF Held
  <2>4. home[e] = q /\ partial[e] /\ byAddr[cur[t].ext] = e
    BY <1>1, <1>3, <2>2, <2>3 DEF EventInv, HeldOK, OrderInv, OwnersOK, OpsInv, ThreadsOK
  <2>5. work'[e] = w
    BY <1>1, <2>1, <2>2, Typed DEF Launch
  <2>6. QED
    BY <2>2, <2>4, <2>5
<1>4. ASSUME NEW i \in Issued', NEW a \in Produces(launched'[i]), pc[t] = "mapped", a = cur[t].ext
      PROVE  byAddr'[a] # Null /\ StandsFor(byAddr[a], i, a)'
  <2>1. PICK e \in Events : e = part[t] /\ e # Null
    BY <1>4, Controlled, ConstantAssumption
  <2>2. home'[e] # Null /\ partial'[e] /\ work'[e] = w /\ byAddr'[a] = e
    BY <1>2, <1>3, <1>4, <2>1, ConstantAssumption
  <2>3. w = i \/ Depends(w, i, a)'
    <3>1. CASE i \in Issued
      <4>1. launched[i] \in Ops /\ launched'[i] = launched[i] /\ i < w /\ a \in Addrs
        BY <1>1, <3>1, <1>4, Typed2
      <4>2. a \in Produces(launched[i]) /\ a \in Produces(cur[t])
        BY <1>4, <4>1 DEF Produces
      <4>3. RunsAfter(cur[t], launched[i], a)
        BY <1>1, <4>1, <4>2 DEF ProgramOrder
      <4>4. QED
        BY <1>1, <4>1, <4>2, <4>3 DEF Depends
    <3>2. QED
      BY <1>1, <3>1
  <2>4. w \in Issued' /\ launched'[w].ext = a
    BY <1>1, <1>4
  <2>5. StandsFor(e, i, a)'
    BY <2>2, <2>3, <2>4 DEF StandsFor, Depends
  <2>6. QED
    BY <2>1, <2>2, <2>5 DEF StandsFor
<1>5. ASSUME NEW i \in Issued, NEW a \in Produces(launched[i]), ~(pc[t] = "mapped" /\ a = cur[t].ext)
      PROVE  \/ Released(i, a)'
             \/ byAddr'[a] # Null /\ StandsFor(byAddr[a], i, a)'
  <2>1. a \in Addrs /\ OwnersOK /\ HistoryKept
    BY <1>1, Typed2 DEF OrderInv
  <2>2. ~ \E u \in Threads : AboutToRegister(u, i, a)
    BY <1>2, <1>5 DEF AboutToRegister, Launched
  <2>3. CASE Released(i, a)
    BY <2>1, <2>3, FactsKept
  <2>4. CASE byAddr[a] # Null /\ StandsFor(byAddr[a], i, a)
    <3>1. PICK e \in Events : e = byAddr[a] /\ StandsFor(e, i, a)
      BY <2>1, <2>4, Typed2
    <3>2. StandsFor(e, i, a)'
      BY <2>1, <3>1, FactsKept
    <3>3. QED
      BY <1>2, <2>4, <3>1, <3>2 DEF StandsFor
  <2>5. QED
    BY <2>2, <2>3, <2>4 DEF OpsInv, MappedOK
<1>6. ASSUME NEW a \in Produces(cur[t]), ~(pc[t] = "mapped" /\ a = cur[t].ext)
      PROVE  AboutToRegister(t, w, a)'
  <2>1. a # cur[t].ext
    <3>1. CASE pc[t] = "mapped"
      BY <1>6, <3>1
    <3>2. CASE pc[t] = "wait"
      BY <1>6, <3>2, <1>1, ConstantAssumption DEF Launch, ReadyToLaunch, Produces, OpType
    <3>3. QED
      BY <1>2, <3>1, <3>2
  <2>2. QED
    BY <1>2, <2>1 DEF AboutToRegister, Launched
<1>7. ASSUME NEW i \in Issued', NEW a \in Produces(launched'[i])
      PROVE  \/ Released(i, a)'
             \/ byAddr'[a] # Null /\ StandsFor(byAddr[a], i, a)'
             \/ \E u \in Threads : AboutToRegister(u, i, a)'
  <2>1. CASE pc[t] = "mapped" /\ a = cur[t].ext
    BY <1>4, <2>1
  <2>2. CASE ~(pc[t] = "mapped" /\ a = cur[t].ext)
    <3>1. CASE i \in Issued
      <4>1. a \in Produces(launched[i])
        BY <1>1, <1>7, <3>1
      <4>2. QED
        BY <1>5, <2>2, <3>1, <4>1
    <3>2. CASE i = w
      <4>1. a \in Produces(cur[t])
        BY <1>1, <1>7, <3>2
      <4>2. AboutToRegister(t, w, a)'
        BY <1>6, <2>2, <4>1
      <4>3. QED
        BY <3>2, <4>2
    <3>3. QED
      BY <1>1, <3>1, <3>2
  <2>3. QED
    BY <2>1, <2>2
<1>8. QED
  BY <1>7 DEF MappedOK

LEMMA LaunchOps ==
  ASSUME ProgramOrder, TypeInv, TypeInv', EventInv, OrderInv, OpsInv,
         NEW t \in Threads, Launch(t)
  PROVE  OpsInv'
<1>1. PICK q \in Streams, w \in Works :
           /\ q = cur[t].s /\ w # 0 /\ w = Len(launched) + 1 /\ cur[t] \in Ops
           /\ launched'[w] = cur[t] /\ Len(launched') = w
           /\ Issued' = Issued \cup {w} /\ w \notin Issued
           /\ \A i \in Issued : launched'[i] = launched[i] /\ i < w
           /\ CmdsExtend /\ Len(cmds'[q]) = Len(cmds[q]) + 1
           /\ cmds'[q][Len(cmds[q]) + 1] = <<"work", w>>
           /\ HistoryKept
  BY LaunchFacts
<1>2. /\ wk'[t] = w /\ UNCHANGED <<byAddr, home, partial, cur, executed, fired, fatal>>
      /\ \A u \in Threads : u = t
      /\ pc'[t] \in {"launched", "check"}
      /\ pc[t] \in {"wait", "mapped"}
  BY <1>1, Typed DEF Launch, ReadyToLaunch, Goto, semVars, ProgramOrder
<1>3. StartedOK'
  BY <1>1, <1>2, StartedFrame
<1>4. GuardedOK' /\ MappedOK'
  BY LaunchGuarded, LaunchMapped
<1>5. WaitedOK' /\ ThreadsOK'
  BY <1>1, <1>2 DEF WaitedOK, ThreadsOK
<1>6. WorkOK'
  <2>1. ASSUME NEW i \in Issued' PROVE Sent(launched[i].s, i)'
    <3>1. CASE i \in Issued
      <4>1. PICK s \in Streams : s = launched[i].s
        BY <3>1, Typed2
      <4>2. Sent(s, i)
        BY <3>1, <4>1 DEF OpsInv, WorkOK, Sent, Ahead
      <4>3. CmdsType /\ CmdsType'
        BY Typed2 DEF TypeInv, TypeOK, CmdsType
      <4>4. Sent(s, i)'
        BY <1>1, <4>2, <4>3, SentStays
      <4>5. QED
        BY <1>1, <3>1, <4>1, <4>4 DEF Sent, Ahead
    <3>2. CASE i = w
      <4>1. PICK n \in Nat : n = Len(cmds'[q])
        BY DEF TypeInv, TypeOK
      <4>2. Len(cmds[q]) \in Nat
        BY Typed2
      <4>3. n \in 1 .. Len(cmds'[q]) /\ n < Len(cmds'[q]) + 1 /\ cmds'[q][n] = <<"work", w>>
        BY <1>1, <4>1, <4>2
      <4>4. Sent(q, w)'
        BY <4>3 DEF Sent, Ahead
      <4>5. QED
        BY <1>1, <3>2, <4>4 DEF Sent, Ahead
    <3>3. QED
      BY <1>1, <3>1, <3>2
  <2>2. \A e \in Events : \/ e # part[t] /\ work'[e] = work[e]
                          \/ /\ e = part[t] /\ pc[t] = "mapped" /\ work'[e] = w
                             /\ home[e] = q /\ work[e] = 0 /\ e \in recorded'
    <3> SUFFICES ASSUME NEW e \in Events, e = part[t]
                 PROVE  /\ pc[t] = "mapped" /\ work'[e] = w
                        /\ home[e] = q /\ work[e] = 0 /\ e \in recorded'
      BY Typed DEF Launch
    <3>1. e # Null
      BY ConstantAssumption
    <3>2. pc[t] = "mapped"
      BY <1>2, <3>1, Controlled
    <3>3. Held(t, e)
      BY <3>2 DEF Held
    <3>4. home[e] = q /\ work[e] = 0
      BY <1>1, <3>2, <3>3 DEF EventInv, HeldOK, OpsInv, ThreadsOK
    <3>5. work'[e] = w /\ e \in recorded'
      BY <1>1, <3>1, Typed DEF Launch
    <3>6. QED
      BY <3>2, <3>4, <3>5
  <2>3. ASSUME NEW e \in Events, home'[e] # Null, work'[e] # 0
        PROVE  work'[e] \in Issued' /\ launched'[work'[e]].s = home'[e]
    <3>1. CASE e # part[t]
      <4>1. PICK k \in Issued : k = work[e] /\ launched[k].s = home[e]
        BY <1>2, <2>2, <2>3, <3>1 DEF OpsInv, WorkOK
      <4>2. work'[e] = k /\ launched'[k] = launched[k] /\ k \in Issued'
        BY <1>1, <2>2, <3>1, <4>1
      <4>3. QED
        BY <1>2, <4>1, <4>2
    <3>2. CASE e = part[t]
      BY <1>1, <1>2, <2>2, <3>2
    <3>3. QED
      BY <3>1, <3>2
  <2>4. \A e \in Events : home'[e] # Null => e \in recorded'
    <3>1. recorded \subseteq recorded'
      BY DEF Launch
    <3>2. QED
      BY <1>2, <2>2, <3>1 DEF OpsInv, WorkOK
  <2>5. executed' \subseteq 0 .. Len(launched')
    BY <1>1, <1>2, Typed2 DEF OpsInv, WorkOK
  <2>6. \A e \in fired' : partial'[e] => work'[e] \in Issued'
    <3>1. fired \subseteq Events /\ 0 \notin Issued
      BY Typed, Typed2
    <3>2. QED
      BY <1>1, <1>2, <2>2, <3>1 DEF OpsInv, WorkOK
  <2>7. QED
    BY <2>1, <2>3, <2>4, <2>5, <2>6 DEF WorkOK
<1>7. NoHostFatal'
  BY <1>2 DEF OpsInv, NoHostFatal
<1>8. QED
  BY <1>3, <1>4, <1>5, <1>6, <1>7 DEF OpsInv

-----------------------------------------------------------------------------
(* The GC thread takes the addresses of an event from the map: the device  *)
(* is done with what the event stands for.                                 *)

LEMMA UnmappedReleased ==
  ASSUME TypeInv, OrderInv, OpsInv, NEW s \in Streams, gc[s] = "unmap",
         NEW e \in Events, e = gcEv[s], NEW i \in Issued, NEW a \in Addrs, StandsFor(e, i, a)
  PROVE  Released(i, a)
<1>1. e # Null
  BY ConstantAssumption
<1>2. work[e] \in executed
  <2>1. CASE partial[e]
    BY <1>1, <2>1 DEF OrderInv, GcOK
  <2>2. CASE ~partial[e]
    <3>1. e \in fired
      BY <1>1, <2>2 DEF OrderInv, GcOK
    <3>2. QED
      BY <2>2, <3>1 DEF OrderInv, DeviceOK
  <2>3. QED
    BY <2>1, <2>2
<1>3. QED
  BY <1>2, StandsReleased

LEMMA GcUnmapOps ==
  ASSUME TypeInv, TypeInv', EventInv, OrderInv, OpsInv, NEW s \in Streams, GcUnmap(s)
  PROVE  OpsInv'
<1>1. /\ UNCHANGED <<home, ptrs, partial, work, cmds, launched, executed, fired, recorded>>
      /\ UNCHANGED hostVars
      /\ "host" \in fatal' => "host" \in fatal
  <2>1. UNCHANGED fatal \/ fatal' = fatal \cup {"gc"}
    BY Zenon DEF GcUnmap, GcFatal
  <2>2. QED
    BY <2>1 DEF GcUnmap, devVars
<1>2. /\ UNCHANGED <<pc, cur, todo, part, ev, wk>>
  BY <1>1 DEF hostVars
<1>3. PICK e \in Events : e = gcEv[s] /\ gc[s] = "unmap" /\ home[e] # Null
  BY ConstantAssumption DEF GcUnmap, TypeInv, ControlOK, EventInv, QueuesOK, InHandOK
<1>4. \A a \in Addrs : byAddr'[a] = byAddr[a] \/ (a \in ptrs[e] /\ byAddr[a] = e)
  BY <1>3, Typed2 DEF GcUnmap, MapTo
<1>5. HistoryKept /\ CmdsExtend
  BY <1>1, Typed2 DEF HistoryKept, CmdsExtend
<1>6. StartedOK'
  BY <1>1, <1>5, StartedFrame
<1>7. GuardedOK'
  <2>1. \A q \in Streams : \A n \in 1 .. Len(cmds'[q]) : ~(n > Len(cmds[q]))
    BY <1>1, Typed2
  <2>2. QED
    BY <1>5, <2>1, GuardedFrame
<1>8. WaitedOK'
  BY <1>1, <1>2, <1>5, WaitedFrame
<1>9. MappedOK'
  <2> SUFFICES ASSUME NEW i \in Issued', NEW a \in Produces(launched'[i])
               PROVE  \/ Released(i, a)'
                      \/ byAddr'[a] # Null /\ StandsFor(byAddr[a], i, a)'
                      \/ \E t \in Threads : AboutToRegister(t, i, a)'
    BY DEF MappedOK
  <2>1. i \in Issued /\ launched'[i] = launched[i] /\ a \in Produces(launched[i])
    BY <1>1 DEF Issued
  <2>2. a \in Addrs /\ OwnersOK
    BY <2>1, Typed2 DEF OrderInv
  <2>3. CASE Released(i, a)
    BY <1>5, <2>1, <2>2, <2>3, FactsKept
  <2>4. CASE byAddr[a] # Null /\ StandsFor(byAddr[a], i, a)
    <3>1. PICK x \in Events : x = byAddr[a] /\ StandsFor(x, i, a)
      BY <2>2, <2>4, Typed2
    <3>2. CASE byAddr'[a] = x
      <4>1. StandsFor(x, i, a)'
        BY <1>5, <2>1, <2>2, <3>1, FactsKept
      <4>2. QED
        BY <2>4, <3>1, <3>2, <4>1 DEF StandsFor
    <3>3. CASE byAddr'[a] # x
      <4>1. x = e
        BY <1>4, <2>2, <3>1, <3>3
      <4>2. Released(i, a)
        BY <1>3, <2>1, <2>2, <3>1, <4>1, UnmappedReleased
      <4>3. QED
        BY <1>5, <2>1, <2>2, <4>2, FactsKept
    <3>4. QED
      BY <3>2, <3>3
  <2>5. CASE \E t \in Threads : AboutToRegister(t, i, a)
    BY <1>2, <2>5 DEF AboutToRegister
  <2>6. QED
    BY <2>1, <2>3, <2>4, <2>5 DEF OpsInv, MappedOK
<1>10. ThreadsOK'
  <2>1. ASSUME NEW t \in Threads, pc[t] = "mapped"
        PROVE  byAddr'[cur[t].ext] = byAddr[cur[t].ext]
    <3>1. PICK f \in Events : f = part[t] /\ Held(t, f)
      BY <2>1, Controlled DEF Held
    <3>2. f # e
      BY <1>3, <3>1 DEF EventInv, HeldOK, Nowhere
    <3>3. cur[t].ext \in Addrs /\ byAddr[cur[t].ext] = f
      BY <2>1, <3>1 DEF OpsInv, ThreadsOK
    <3>4. QED
      BY <1>4, <3>2, <3>3
  <2>2. QED
    BY <1>1, <1>2, <2>1 DEF OpsInv, ThreadsOK, Issued
<1>11. WorkOK'
  <2>1. \A i \in Issued' : Sent(launched[i].s, i)'
    BY <1>1, <1>5, SentAll
  <2>2. QED
    BY <1>1, <1>2, <2>1 DEF OpsInv, WorkOK, Issued
<1>12. NoHostFatal'
  BY <1>1 DEF OpsInv, NoHostFatal
<1>13. QED
  BY <1>6, <1>7, <1>8, <1>9, <1>10, <1>11, <1>12 DEF OpsInv

-----------------------------------------------------------------------------
(* The device runs.                                                        *)

\* The operation whose work comes up finds what it depends on done.
LEMMA HeadGuarded ==
  ASSUME TypeInv, OpsInv, NEW q \in Streams, cmds[q] # <<>>,
         NEW k \in Works, Head(cmds[q]) = <<"work", k>>
  PROVE  /\ k \in Issued
         /\ \A i \in Issued : \A a \in Addrs : Depends(k, i, a) => Released(i, a)
<1>1. 1 \in 1 .. Len(cmds[q]) /\ cmds[q][1] = <<"work", k>>
  BY Typed DEF CmdsType
<1>2. /\ k \in Issued
      /\ \A i \in Issued : \A a \in Addrs : Depends(k, i, a) => Behind(q, 1, i, a)
  BY <1>1 DEF OpsInv, GuardedOK
<1>3. QED
  BY <1>2 DEF Behind

LEMMA DeviceSignalOps ==
  ASSUME TypeInv, TypeInv', OrderInv, OpsInv, NEW q \in Streams, NEW e \in Events,
         DeviceSignal(q, e)
  PROVE  OpsInv'
<1>1. /\ UNCHANGED <<byAddr, home, ptrs, partial, work, cmds, launched, executed, recorded, fatal>>
      /\ UNCHANGED <<pc, cur, todo, part, ev, wk>>
      /\ fired' = fired \cup {e} /\ partial[e]
  BY DEF DeviceSignal, semVars, hostVars
<1>2. PICK k \in Works : k = work[e]
  BY Typed
<1>3. /\ k \in Issued
      /\ \A i \in Issued : \A a \in Addrs : Depends(k, i, a) => Released(i, a)
  BY <1>2, HeadGuarded DEF DeviceSignal
<1>4. HistoryKept /\ CmdsExtend
  BY <1>1, Typed2 DEF HistoryKept, CmdsExtend
<1>5. StartedOK'
  <2> SUFFICES ASSUME NEW l \in Issued, NEW i \in Issued, NEW a \in Addrs,
                      Depends(l, i, a)', Started(l)'
               PROVE  Released(i, a)'
    BY <1>1 DEF StartedOK, Issued
  <2>1. Depends(l, i, a) /\ OwnersOK
    BY <1>4, FactsKept DEF OrderInv
  <2>2. Started(l) \/ l = k
    BY <1>1, <1>2 DEF Started
  <2>3. Released(i, a)
    BY <1>3, <2>1, <2>2 DEF OpsInv, StartedOK
  <2>4. QED
    BY <1>4, <2>1, <2>3, FactsKept
<1>6. GuardedOK'
  <2>1. \A s \in Streams : \A n \in 1 .. Len(cmds'[s]) : ~(n > Len(cmds[s]))
    BY <1>1, Typed2
  <2>2. QED
    BY <1>4, <2>1, GuardedFrame
<1>7. MappedOK'
  <2>1. \A t \in Threads : \A i \in Issued : \A a \in Addrs :
          AboutToRegister(t, i, a) => AboutToRegister(t, i, a)'
    BY <1>1 DEF AboutToRegister
  <2>2. QED
    BY <1>1, <1>4, <2>1, MappedFrame
<1>8. WaitedOK'
  BY <1>1, <1>4, WaitedFrame
<1>9. ThreadsOK'
  BY <1>1 DEF OpsInv, ThreadsOK, Issued
<1>10. WorkOK'
  <2>1. \A i \in Issued' : Sent(launched[i].s, i)'
    BY <1>1, <1>4, SentAll
  <2>2. \A x \in fired' : partial'[x] => work'[x] \in Issued'
    BY <1>1, <1>2, <1>3 DEF OpsInv, WorkOK, Issued
  <2>3. QED
    BY <1>1, <2>1, <2>2 DEF OpsInv, WorkOK, Issued
<1>11. NoHostFatal'
  BY <1>1 DEF OpsInv, NoHostFatal
<1>12. QED
  BY <1>5, <1>6, <1>7, <1>8, <1>9, <1>10, <1>11 DEF OpsInv

\* An event that is signalled, and stands for an operation, releases it.
LEMMA FiredReleased ==
  ASSUME OrderInv, OpsInv, NEW e \in Events, e \in fired,
         NEW i \in Issued, NEW a \in Addrs, StandsFor(e, i, a)
  PROVE  Released(i, a)
<1>1. PICK l \in Issued : l = work[e]
  BY DEF StandsFor
<1>2. CASE ~partial[e]
  BY <1>2, StandsReleased DEF OrderInv, DeviceOK
<1>3. CASE partial[e]
  <2>1. launched[l].ext = a /\ (l = i \/ Depends(l, i, a))
    BY <1>1, <1>3 DEF StandsFor, Depends
  <2>2. Started(l)
    BY <1>1, <1>3 DEF Started
  <2>3. CASE l = i
    BY <1>1, <1>3, <2>1, <2>3 DEF Released
  <2>4. CASE Depends(l, i, a)
    BY <1>1, <2>2, <2>4 DEF OpsInv, StartedOK
  <2>5. QED
    BY <2>1, <2>3, <2>4
<1>4. QED
  BY <1>2, <1>3

\* The commands of the streams, when stream q has run one.
LEMMA StepFacts ==
  ASSUME TypeInv, TypeInv', NEW q \in Streams, DeviceStep(q)
  PROVE  /\ UNCHANGED <<byAddr, home, ptrs, partial, work, launched, recorded, fatal>>
         /\ UNCHANGED <<pc, cur, todo, part, ev, wk>>
         /\ HistoryKept
         /\ cmds[q] # <<>> /\ Head(cmds[q]) \in Cmds
         /\ 1 \in 1 .. Len(cmds[q]) /\ Head(cmds[q]) = cmds[q][1]
         /\ Len(cmds'[q]) = Len(cmds[q]) - 1
         /\ \A m \in 1 .. Len(cmds[q]) : m # 1 =>
              m - 1 \in 1 .. Len(cmds'[q]) /\ cmds'[q][m - 1] = cmds[q][m]
         /\ \A n \in 1 .. Len(cmds'[q]) :
              n + 1 \in 1 .. Len(cmds[q]) /\ cmds'[q][n] = cmds[q][n + 1]
         /\ \A s \in Streams \ {q} : cmds'[s] = cmds[s]
         /\ \A s \in Streams : Len(cmds[s]) \in Nat /\ Len(cmds'[s]) \in Nat
<1>1. /\ UNCHANGED <<byAddr, home, ptrs, partial, work, launched, recorded, fatal>>
      /\ UNCHANGED <<pc, cur, todo, part, ev, wk>>
      /\ executed \subseteq executed' /\ fired \subseteq fired'
      /\ cmds' = [cmds EXCEPT ![q] = Tail(@)] /\ cmds[q] # <<>>
  BY DEF DeviceStep, semVars, hostVars
<1>2. CmdsType /\ CmdsType'
  BY DEF TypeInv, TypeOK, CmdsType
<1>3. /\ cmds[q] \in Seq(Cmds) /\ Len(cmds[q]) \in Nat /\ Len(cmds[q]) >= 1
      /\ cmds'[q] = Tail(cmds[q]) /\ Len(cmds'[q]) = Len(cmds[q]) - 1
  BY <1>1, <1>2 DEF CmdsType
<1>4. /\ Head(cmds[q]) \in Cmds /\ 1 \in 1 .. Len(cmds[q]) /\ Head(cmds[q]) = cmds[q][1]
      /\ \A m \in 1 .. Len(cmds[q]) : m # 1 =>
           m - 1 \in 1 .. Len(cmds'[q]) /\ cmds'[q][m - 1] = cmds[q][m]
      /\ \A n \in 1 .. Len(cmds'[q]) :
           n + 1 \in 1 .. Len(cmds[q]) /\ cmds'[q][n] = cmds[q][n + 1]
  BY <1>1, <1>3
<1>5. /\ \A s \in Streams \ {q} : cmds'[s] = cmds[s]
      /\ \A s \in Streams : Len(cmds[s]) \in Nat /\ Len(cmds'[s]) \in Nat
  BY <1>1, <1>2 DEF CmdsType
<1>6. HistoryKept
  BY <1>1, Typed2 DEF HistoryKept
<1>7. QED
  BY <1>1, <1>3, <1>4, <1>5, <1>6

\* What a stream had to get past, it has got past or still has to.
LEMMA HeadReleases ==
  ASSUME TypeInv, TypeInv', OrderInv, OpsInv, NEW q \in Streams, DeviceStep(q),
         NEW i \in Issued, NEW a \in Addrs, Sees(Head(cmds[q]), i, a)
  PROVE  Released(i, a)'
<1>1. HistoryKept /\ UNCHANGED launched /\ OwnersOK
  BY StepFacts DEF OrderInv
<1>2. CASE Head(cmds[q]) = <<"work", i>>
  BY <1>2 DEF DeviceStep, Released
<1>3. CASE \E e \in Events : Head(cmds[q]) = <<"wait", e>> /\ StandsFor(e, i, a)
  <2>1. PICK e \in Events : Head(cmds[q]) = <<"wait", e>> /\ StandsFor(e, i, a)
    BY <1>3
  <2>2. e \in fired
    BY <2>1 DEF DeviceStep
  <2>3. QED
    BY <1>1, <2>1, <2>2, FiredReleased, FactsKept
<1>4. QED
  BY <1>2, <1>3 DEF Sees

LEMMA BehindStep ==
  ASSUME TypeInv, TypeInv', OrderInv, OpsInv, NEW q \in Streams, DeviceStep(q),
         NEW s \in Streams, NEW n \in 1 .. Len(cmds[s]) + 1,
         NEW i \in Issued, NEW a \in Addrs, Behind(s, n, i, a)
  PROVE  IF s = q THEN Behind(s, n - 1, i, a)' ELSE Behind(s, n, i, a)'
<1>1. HistoryKept /\ OwnersOK
  BY StepFacts DEF OrderInv
<1>2. CASE Released(i, a)
  BY <1>1, <1>2, FactsKept DEF Behind
<1>3. CASE ~Released(i, a)
  <2>1. PICK m \in 1 .. Len(cmds[s]) : m < n /\ Sees(cmds[s][m], i, a)
    BY <1>3 DEF Behind
  <2>2. PICK c : c = cmds[s][m]
    OBVIOUS
  <2>3. Sees(c, i, a)'
    BY <1>1, <2>1, <2>2, FactsKept DEF Sees
  <2>4. CASE s # q
    <3>1. cmds'[s] = cmds[s]
      BY <2>4, StepFacts
    <3>2. QED
      BY <2>1, <2>2, <2>3, <2>4, <3>1 DEF Behind, Sees
  <2>5. CASE s = q /\ m = 1
    <3>1. Sees(Head(cmds[q]), i, a)
      BY <2>1, <2>5, StepFacts DEF Sees
    <3>2. QED
      BY <2>5, <3>1, HeadReleases DEF Behind
  <2>6. CASE s = q /\ m # 1
    <3>1. m - 1 \in 1 .. Len(cmds'[s]) /\ cmds'[s][m - 1] = c
      BY <2>1, <2>2, <2>6, StepFacts
    <3>2. m - 1 < n - 1
      <4>1. \A j \in Streams : Len(cmds[j]) \in Nat
        BY Typed2
      <4>2. QED
        BY <2>1, <4>1
    <3>3. QED
      BY <2>3, <2>6, <3>1, <3>2 DEF Behind, Sees
  <2>7. QED
    BY <2>4, <2>5, <2>6
<1>4. QED
  BY <1>2, <1>3

\* An operation that starts in this step is the one at the head of the stream.
LEMMA NewlyStarted ==
  ASSUME TypeInv, TypeInv', OrderInv, NEW q \in Streams, DeviceStep(q), NEW k \in Works,
         Started(k)', ~Started(k)
  PROVE  Head(cmds[q]) = <<"work", k>>
<1>1. UNCHANGED <<partial, work>> /\ Head(cmds[q]) \in Cmds
      /\ 1 \in 1 .. Len(cmds[q]) /\ Head(cmds[q]) = cmds[q][1]
  BY StepFacts
<1>2. CASE k \in executed'
  BY <1>1, <1>2 DEF DeviceStep, Started, Cmds
<1>3. CASE \E e \in fired' : partial'[e] /\ work'[e] = k
  <2>1. PICK e \in fired' : partial[e] /\ work[e] = k /\ e \notin fired
    BY <1>1, <1>3 DEF Started
  <2>2. e \in Events
    BY <2>1 DEF TypeInv, TypeOK
  <2>3. Head(cmds[q]) # <<"record", e>>
    BY <1>1, <2>1, <2>2 DEF OrderInv, DeviceOK, RecordsFollow
  <2>4. QED
    BY <1>1, <2>1, <2>3 DEF DeviceStep, Cmds
<1>4. QED
  BY <1>2, <1>3 DEF Started

LEMMA DeviceStepStarted ==
  ASSUME TypeInv, TypeInv', OrderInv, OpsInv, NEW q \in Streams, DeviceStep(q)
  PROVE  StartedOK'
<1>1. HistoryKept /\ OwnersOK /\ UNCHANGED launched /\ cmds[q] # <<>>
  BY StepFacts DEF OrderInv
<1> SUFFICES ASSUME NEW k \in Issued, NEW i \in Issued, NEW a \in Addrs,
                    Depends(k, i, a)', Started(k)'
             PROVE  Released(i, a)'
  BY <1>1 DEF StartedOK, Issued
<1>2. Depends(k, i, a) /\ k \in Works
  BY <1>1, FactsKept, Typed2
<1>3. Released(i, a)
  <2>1. CASE Started(k)
    BY <1>2, <2>1 DEF OpsInv, StartedOK
  <2>2. CASE ~Started(k)
    <3>1. Head(cmds[q]) = <<"work", k>>
      BY <1>2, <2>2, NewlyStarted
    <3>2. QED
      BY <1>1, <1>2, <3>1, HeadGuarded
  <2>3. QED
    BY <2>1, <2>2
<1>4. QED
  BY <1>1, <1>3, FactsKept

LEMMA DeviceStepGuarded ==
  ASSUME TypeInv, TypeInv', OrderInv, OpsInv, NEW q \in Streams, DeviceStep(q)
  PROVE  GuardedOK'
<1>1. HistoryKept /\ OwnersOK /\ UNCHANGED launched /\ Issued' = Issued
  BY StepFacts DEF OrderInv, Issued
<1> SUFFICES ASSUME NEW s \in Streams, NEW n \in 1 .. Len(cmds'[s]), NEW k \in Works,
                    cmds'[s][n] = <<"work", k>>
             PROVE  /\ k \in Issued
                    /\ \A i \in Issued : \A a \in Addrs :
                         Depends(k, i, a)' => Behind(s, n, i, a)'
  BY <1>1 DEF GuardedOK
<1>2. \E j \in 1 .. Len(cmds[s]) :
        cmds[s][j] = <<"work", k>> /\ j = (IF s = q THEN n + 1 ELSE n)
  <2>1. CASE s = q
    <3>1. n + 1 \in 1 .. Len(cmds[s]) /\ cmds[s][n + 1] = <<"work", k>>
      BY <2>1, StepFacts
    <3>2. QED
      BY <2>1, <3>1
  <2>2. CASE s # q
    BY <2>2, StepFacts
  <2>3. QED
    BY <2>1, <2>2
<1>3. PICK j \in 1 .. Len(cmds[s]) :
        cmds[s][j] = <<"work", k>> /\ j = (IF s = q THEN n + 1 ELSE n)
  BY <1>2
<1>4. /\ k \in Issued
      /\ \A i \in Issued : \A a \in Addrs : Depends(k, i, a) => Behind(s, j, i, a)
  BY <1>3 DEF OpsInv, GuardedOK
<1>5. ASSUME NEW i \in Issued, NEW a \in Addrs, Depends(k, i, a)'
      PROVE  Behind(s, n, i, a)'
  <2>1. Depends(k, i, a)
    BY <1>1, <1>4, <1>5, FactsKept
  <2>2. Behind(s, j, i, a) /\ j \in 1 .. Len(cmds[s]) + 1
    <3>1. Len(cmds[s]) \in Nat
      BY Typed2
    <3>2. QED
      BY <1>4, <2>1, <3>1
  <2>3. IF s = q THEN Behind(s, j - 1, i, a)' ELSE Behind(s, j, i, a)'
    BY <2>2, BehindStep
  <2>4. s = q => j - 1 = n
    <3>1. Len(cmds'[s]) \in Nat
      BY StepFacts
    <3>2. QED
      BY <1>3, <3>1
  <2>5. QED
    BY <1>3, <2>3, <2>4
<1>6. QED
  BY <1>4, <1>5

LEMMA DeviceStepWaited ==
  ASSUME TypeInv, TypeInv', OrderInv, OpsInv, NEW q \in Streams, DeviceStep(q)
  PROVE  WaitedOK'
<1>1. UNCHANGED <<pc, cur, todo, launched>> /\ Issued' = Issued
  BY StepFacts DEF Issued
<1> SUFFICES ASSUME NEW t \in Threads, pc[t] \in {"wait", "mapped"},
                    NEW i \in Issued, NEW a \in Produces(launched[i]),
                    a \in cur[t].wait \ todo[t]
             PROVE  Behind(cur[t].s, Len(cmds[cur[t].s]) + 1, i, a)'
  BY <1>1 DEF WaitedOK
<1>2. PICK s \in Streams : s = cur[t].s
  BY Controlled DEF Issuing
<1>3. PICK n \in 1 .. Len(cmds[s]) + 1 : n = Len(cmds[s]) + 1
  BY Typed2
<1>4. Behind(s, n, i, a) /\ a \in Addrs
  BY <1>2, <1>3, Typed2 DEF OpsInv, WaitedOK, Behind
<1>5. IF s = q THEN Behind(s, n - 1, i, a)' ELSE Behind(s, n, i, a)'
  BY <1>4, BehindStep
<1>6. IF s = q THEN n - 1 = Len(cmds'[s]) + 1 ELSE n = Len(cmds'[s]) + 1
  <2>1. PICK l \in Nat : l = Len(cmds[s])
    BY StepFacts
  <2>2. IF s = q THEN Len(cmds'[s]) = l - 1 ELSE Len(cmds'[s]) = l
    BY <2>1, StepFacts
  <2>3. QED
    BY <1>3, <2>1, <2>2
<1>7. Behind(s, Len(cmds[s]) + 1, i, a)'
  BY <1>5, <1>6 DEF Behind
<1>8. QED
  BY <1>1, <1>2, <1>7 DEF Behind

LEMMA DeviceStepWork ==
  ASSUME TypeInv, TypeInv', OrderInv, OpsInv, NEW q \in Streams, DeviceStep(q)
  PROVE  WorkOK'
<1>1. /\ UNCHANGED <<home, partial, work, launched, recorded>> /\ Issued' = Issued
      /\ UNCHANGED <<pc, ev, part>> /\ Len(launched') = Len(launched)
  BY StepFacts DEF Issued
<1>2. ASSUME NEW i \in Issued' PROVE Sent(launched[i].s, i)'
  <2>1. PICK s \in Streams : s = launched[i].s
    BY <1>1, Typed2
  <2>2. PICK n \in 1 .. Len(cmds[s]) + 1 : n = Len(cmds[s]) + 1
    BY Typed2
  <2>3. Ahead(s, i, n)
    BY <1>1, <2>1, <2>2 DEF OpsInv, WorkOK, Sent, Ahead
  <2>4. CmdsType /\ CmdsType'
    BY DEF TypeInv, TypeOK, CmdsType
  <2>5. IF s = q THEN n = 1 \/ Ahead(s, i, n - 1)' ELSE Ahead(s, i, n)'
    BY <2>3, <2>4, AheadStep
  <2>6. IF s = q THEN n - 1 = Len(cmds'[s]) + 1 /\ n # 1 ELSE n = Len(cmds'[s]) + 1
    <3>1. PICK l \in Nat : l = Len(cmds[s])
      BY StepFacts
    <3>2. PICK m \in Nat : m = Len(cmds'[s])
      BY StepFacts
    <3>3. IF s = q THEN m = l - 1 ELSE m = l
      BY <3>1, <3>2, StepFacts
    <3>4. QED
      BY <2>2, <3>1, <3>2, <3>3
  <2>7. Sent(s, i)'
    BY <2>5, <2>6 DEF Sent, Ahead
  <2>8. QED
    BY <1>1, <2>1, <2>7 DEF Sent, Ahead
<1>3. ASSUME NEW k \in Works, Started(k)', ~Started(k) PROVE k \in Issued
  BY <1>3, NewlyStarted, HeadGuarded, StepFacts
<1>4. executed' \subseteq 0 .. Len(launched')
  <2> SUFFICES ASSUME NEW k \in executed' PROVE k \in 0 .. Len(launched)
    BY <1>1
  <2>1. k \in Works /\ Started(k)'
    BY DEF TypeInv, TypeOK, Started
  <2>2. CASE k \in executed
    BY <2>2 DEF OpsInv, WorkOK
  <2>3. CASE k \notin executed
    <3>1. k \in Issued
      <4>1. CASE Started(k)
        BY <2>3, <4>1, Typed DEF Started, OpsInv, WorkOK
      <4>2. QED
        BY <1>3, <2>1, <4>1
    <3>2. QED
      BY <3>1, Typed2 DEF Issued
  <2>4. QED
    BY <2>2, <2>3
<1>5. \A e \in fired' : partial'[e] => work'[e] \in Issued'
  <2> SUFFICES ASSUME NEW e \in fired', partial[e] PROVE work[e] \in Issued
    BY <1>1
  <2>1. PICK k \in Works : k = work[e]
    BY Typed DEF TypeInv, TypeOK
  <2>2. Started(k)'
    BY <1>1, <2>1 DEF Started
  <2>3. CASE Started(k)
    <3>1. CASE \E x \in fired : partial[x] /\ work[x] = k
      BY <2>1, <3>1 DEF OpsInv, WorkOK
    <3>2. CASE k \in executed /\ e \notin fired
      <4>1. Head(cmds[q]) = <<"work", k>>
        <5>1. e \in Events /\ UNCHANGED work /\ UNCHANGED partial
          BY <1>1 DEF TypeInv, TypeOK
        <5>2. Head(cmds[q]) # <<"record", e>> /\ Head(cmds[q]) \in Cmds
          BY <5>1, StepFacts DEF OrderInv, DeviceOK, RecordsFollow
        <5>3. QED
          BY <2>1, <3>2, <5>2 DEF DeviceStep, Cmds
      <4>2. QED
        BY <2>1, <4>1, HeadGuarded, StepFacts
    <3>3. QED
      BY <2>1, <2>3, <3>1, <3>2 DEF Started
  <2>4. QED
    BY <1>3, <2>1, <2>2, <2>3
<1>6. QED
  BY <1>1, <1>2, <1>4, <1>5 DEF OpsInv, WorkOK

LEMMA DeviceStepOps ==
  ASSUME TypeInv, TypeInv', OrderInv, OpsInv, NEW q \in Streams, DeviceStep(q)
  PROVE  OpsInv'
<1>1. /\ UNCHANGED <<byAddr, ptrs, work, launched, fatal>> /\ Issued' = Issued
      /\ UNCHANGED <<pc, cur, todo, part, wk>> /\ HistoryKept
  BY StepFacts DEF Issued
<1>2. MappedOK'
  <2>1. \A t \in Threads : \A i \in Issued : \A a \in Addrs :
          AboutToRegister(t, i, a) => AboutToRegister(t, i, a)'
    BY <1>1 DEF AboutToRegister
  <2>2. QED
    BY <1>1, <2>1, MappedFrame
<1>3. ThreadsOK' /\ NoHostFatal'
  BY <1>1 DEF OpsInv, ThreadsOK, NoHostFatal
<1>4. QED
  BY <1>2, <1>3, DeviceStepStarted, DeviceStepGuarded, DeviceStepWaited, DeviceStepWork DEF OpsInv

-----------------------------------------------------------------------------
(* The whole next-state relation.                                          *)

LEMMA OpsInvInit == Init => OpsInv
<1> SUFFICES ASSUME Init PROVE OpsInv
  OBVIOUS
<1> USE DEF Init
<1>1. Issued = {}
  BY DEF Issued
<1>2. StartedOK /\ MappedOK
  BY <1>1 DEF StartedOK, MappedOK
<1>3. GuardedOK
  BY DEF GuardedOK
<1>4. WaitedOK /\ ThreadsOK
  BY DEF WaitedOK, ThreadsOK, Launched
<1>5. WorkOK
  BY <1>1 DEF WorkOK
<1>6. NoHostFatal
  BY DEF NoHostFatal
<1>7. QED
  BY <1>2, <1>3, <1>4, <1>5, <1>6 DEF OpsInv

LEMMA OpsInvStep ==
  ASSUME ProgramOrder, TypeInv, EventInv, OrderInv, OpsInv, [Next]_vars
  PROVE  OpsInv'
<1>1. TypeInv'
  BY TypeInvStep
<1>2. ASSUME NEW t \in Threads, Continue(t) \/ Begin(t)
      PROVE  OpsInv'
  <2>1. CASE \/ \E o \in Ops : BeginOp(t, o)
             \/ ReadPartialPtrs(t) \/ PushPartial(t)
             \/ \E a \in Addrs : LookupForWait(t, a)
             \/ AwaitDone(t)
             \/ \E a \in Addrs, s \in Streams : GetWaitEvent(t, a, s)
             \/ BeginFlush(t)
             \/ \E s \in Streams : FlushStream(t, s) \/ FlushTimesOut(t, s)
             \/ IsFlushed(t)
    <3>1. QuietEvents /\ \A u \in Threads : Quiet(u) /\ WaitsQuiet(u)
      BY <2>1, ThreadsQuiet
    <3>2. QED
      BY <1>1, <3>1, QuietStep
  <2>2. CASE FindPartialPtrs(t) \/ StreamWaitGot(t)
    <3>1. QuietEvents /\ \A u \in Threads : Quiet(u) /\ WaitsQuiet(u)
      BY <2>2, FindPartialPtrsQuiet, StreamWaitGotQuiet
    <3>2. QED
      BY <1>1, <3>1, QuietStep
  <2>3. CASE \E a \in Addrs : EnqueueWait(t, a)
    BY <1>1, <2>3, EnqueueWaitOrder
  <2>4. CASE \E e \in Events : MapEventToTensor(t, e) \/ AddProducer(t, e)
    BY <1>1, <2>4, MapEventToTensorOrder, AddProducerOps
  <2>5. CASE Launch(t)
    BY <1>1, <2>5, LaunchOps
  <2>6. CASE RegisterPending(t)
    BY <1>1, <2>6, RegisterPendingOps
  <2>7. CASE \E e \in Events, r \in Streams, s \in Streams : RecordAndWait(t, e, r, s)
    BY <1>1, <2>7, RecordAndWaitOps
  <2>8. ~LaunchFails(t)
    BY DEF LaunchFails, ProgramOrder
  <2>9. QED
    BY <1>2, <2>1, <2>2, <2>3, <2>4, <2>5, <2>6, <2>7, <2>8 DEF Continue, Begin
<1>3. ASSUME NEW s \in Streams, GcStep(s)
      PROVE  OpsInv'
  <2>1. CASE GcUnmap(s)
    BY <1>1, <2>1, GcUnmapOps
  <2>2. CASE GcPop(s) \/ GcTake(s) \/ GcSynchronize(s) \/ GcComplete(s)
    <3>1. QuietEvents /\ \A u \in Threads : Quiet(u) /\ WaitsQuiet(u)
      BY <2>2, GcQuiet
    <3>2. QED
      BY <1>1, <3>1, QuietStep
  <2>3. QED
    BY <1>3, <2>1, <2>2 DEF GcStep
<1>4. ASSUME NEW s \in Streams, DeviceStep(s)
      PROVE  OpsInv'
  BY <1>1, <1>4, DeviceStepOps
<1>5. ASSUME NEW s \in Streams, NEW e \in Events, DeviceSignal(s, e)
      PROVE  OpsInv'
  BY <1>1, <1>5, DeviceSignalOps
<1>6. CASE DestroyStreams \/ UNCHANGED vars
  <2>1. QuietEvents /\ \A u \in Threads : Quiet(u) /\ WaitsQuiet(u)
    BY <1>6, GcQuiet
  <2>2. QED
    BY <1>1, <2>1, QuietStep
<1>7. QED
  BY <1>2, <1>3, <1>4, <1>5, <1>6 DEF Next, Joined

\* The chain of waits through events_by_addr_, for one program thread whose
\* operations run after what they take an address over from: an operation
\* starts on the device only when everything it depends on is done, whatever
\* the streams, the GC threads and the device do meanwhile (add_producer and
\* enqueue_wait_event of stream_event_manager.cpp).
THEOREM OperationsFollow ==
  ASSUME ProgramOrder
  PROVE  Spec => [](TypeInv /\ EventInv /\ OrderInv /\ OpsInv)
<1>1. Init => TypeInv /\ EventInv /\ OrderInv /\ OpsInv
  BY TypeInvInit, EventInvInit, OrderInvInit, OpsInvInit
<1>2. TypeInv /\ EventInv /\ OrderInv /\ OpsInv /\ [Next]_vars
        => (TypeInv /\ EventInv /\ OrderInv /\ OpsInv)'
  BY TypeInvStep, EventInvStep, OrderInvStep, OpsInvStep
<1>3. QED
  BY <1>1, <1>2, PTL DEF Spec

\* What an operation reads or overwrites has been written (device.cpp's copies
\* and RecipeLauncher::Launch), for any number of streams, addresses, events
\* and operations issued.
THEOREM WritesOrdered ==
  ASSUME ProgramOrder, WritesCovered
  PROVE  Spec => []ReadsAndWritesFollowWrites
<1>1. TypeInv /\ OpsInv => ReadsAndWritesFollowWrites
  <2> SUFFICES ASSUME TypeInv, OpsInv, NEW i \in Issued, NEW j \in Issued, i < j,
                      NEW a \in launched[i].wr \cap (launched[j].rd \cup launched[j].wr),
                      j \in executed
               PROVE  Released(i, a)
    BY DEF ReadsAndWritesFollowWrites, Follows
  <2>1. launched[i] \in Ops /\ launched[j] \in Ops
    BY Typed2
  <2>2. a \in Produces(launched[i]) /\ RunsAfter(launched[j], launched[i], a)
    BY <2>1 DEF WritesCovered
  <2>3. a \in Addrs
    BY <2>2, Typed2
  <2>4. QED
    BY <2>2, <2>3 DEF Depends, Started, OpsInv, StartedOK
<1>2. QED
  BY <1>1, OperationsFollow, PTL

\* An operation that overwrites an input of a recipe runs after the recipe
\* (RecipeLauncher::Launch registers a producer for its inputs too).
THEOREM RecipeReadsOrdered ==
  ASSUME ProgramOrder, RecipeReadsCovered
  PROVE  Spec => []WritesFollowRecipeReads
<1>1. TypeInv /\ OpsInv => WritesFollowRecipeReads
  <2> SUFFICES ASSUME TypeInv, OpsInv, NEW i \in Issued, NEW j \in Issued, i < j,
                      launched[i].s \in ComputeStreams,
                      NEW a \in launched[i].rd \cap launched[j].wr,
                      j \in executed
               PROVE  Released(i, a)
    BY DEF WritesFollowRecipeReads, Follows
  <2>1. launched[i] \in Ops /\ launched[j] \in Ops
    BY Typed2
  <2>2. a \in Produces(launched[i]) /\ RunsAfter(launched[j], launched[i], a)
    BY <2>1 DEF RecipeReadsCovered
  <2>3. a \in Addrs
    BY <2>2, Typed2
  <2>4. QED
    BY <2>2, <2>3 DEF Depends, Started, OpsInv, StartedOK
<1>2. QED
  BY <1>1, OperationsFollow, PTL

\* The FATALs of add_producer(stream, event) need a second thread that takes
\* the address over between map_event_to_tensor and add_producer: with one
\* thread NoHostFatal holds.
THEOREM OneThreadNeverFatal ==
  ASSUME ProgramOrder
  PROVE  Spec => []NoHostFatal
<1>1. OpsInv => NoHostFatal
  BY DEF OpsInv
<1>2. QED
  BY <1>1, OperationsFollow, PTL

-----------------------------------------------------------------------------
(* The operations the conditions are about: recipes that wait for what     *)
(* they produce, uploads and downloads.                                    *)

\* The operations are recipes, whose outputs are among their inputs, and
\* copies between the device and pinned host buffers on the streams h2d and
\* d2h: uploads read the buffers In, downloads write the buffers Out.
BridgeOps(h2d, d2h, In, Out) ==
  /\ {h2d, d2h} \subseteq Streams \ ComputeStreams
  /\ In \in SUBSET Addrs /\ Out \in SUBSET Addrs /\ In \cap Out = {}
  /\ \A o \in Ops :
      \/ \E s \in ComputeStreams : \E in \in SUBSET (Addrs \ (In \cup Out)) :
         \E out \in SUBSET in : \E ext \in out \cup {Null} :
           o = RecipeLaunch(s, in, out, ext)
      \/ \E host \in In, dst \in Addrs \ (In \cup Out) : o = CopyToDevice(h2d, host, dst)
      \/ \E src \in Addrs \ (In \cup Out), host \in Out : o = CopyToHost(d2h, src, host)

\* What such an operation uses, and what of it waits or runs on one stream.
BridgeUses(d2h, In, Out) ==
  \A o \in Ops :
    /\ Produces(o) \subseteq Addrs \ In /\ o.wr \subseteq Produces(o)
    /\ o.rd \cap Out = {}
    /\ o.s \in ComputeStreams => o.rd \subseteq Produces(o)
    /\ \A a \in (o.rd \cup Produces(o)) \ (In \cup Out) : a \in o.wait
    /\ \A a \in Produces(o) \cap Out : o.s = d2h

LEMMA BridgeOpsUse ==
  ASSUME NEW h2d, NEW d2h, NEW In, NEW Out, BridgeOps(h2d, d2h, In, Out)
  PROVE  BridgeUses(d2h, In, Out)
<1> SUFFICES ASSUME NEW o \in Ops
             PROVE  /\ Produces(o) \subseteq Addrs \ In /\ o.wr \subseteq Produces(o)
                    /\ o.rd \cap Out = {}
                    /\ o.s \in ComputeStreams => o.rd \subseteq Produces(o)
                    /\ \A a \in (o.rd \cup Produces(o)) \ (In \cup Out) : a \in o.wait
                    /\ \A a \in Produces(o) \cap Out : o.s = d2h
  BY DEF BridgeUses
<1>0. /\ h2d \notin ComputeStreams /\ d2h \notin ComputeStreams
      /\ In \subseteq Addrs /\ Out \subseteq Addrs /\ In \cap Out = {}
  BY DEF BridgeOps
<1>1. CASE \E s \in ComputeStreams : \E in \in SUBSET (Addrs \ (In \cup Out)) :
           \E out \in SUBSET in : \E ext \in out \cup {Null} :
             o = RecipeLaunch(s, in, out, ext)
  <2>1. PICK s \in ComputeStreams, in \in SUBSET (Addrs \ (In \cup Out)) :
          \E out \in SUBSET in : \E ext \in out \cup {Null} :
             o = RecipeLaunch(s, in, out, ext)
    BY <1>1
  <2>2. PICK out \in SUBSET in : \E ext \in out \cup {Null} : o = RecipeLaunch(s, in, out, ext)
    BY <2>1
  <2>3. PICK ext \in out \cup {Null} : o = RecipeLaunch(s, in, out, ext)
    BY <2>2
  <2>4. /\ o.s = s /\ o.wait = in /\ o.rd = in /\ o.wr = out
        /\ o.reg = out \cup in /\ o.ext = ext
    BY <2>3 DEF RecipeLaunch
  <2>5. Produces(o) = in
    BY <2>4, ConstantAssumption DEF Produces
  <2>6. QED
    BY <1>0, <2>4, <2>5
<1>2. CASE \E host \in In, dst \in Addrs \ (In \cup Out) : o = CopyToDevice(h2d, host, dst)
  <2>1. PICK host \in In, dst \in Addrs \ (In \cup Out) : o = CopyToDevice(h2d, host, dst)
    BY <1>2
  <2>2. /\ o.s = h2d /\ o.wait = {dst, host} /\ o.rd = {host} /\ o.wr = {dst}
        /\ o.reg = {dst} /\ o.ext = Null
    BY <2>1 DEF CopyToDevice
  <2>3. Produces(o) = {dst}
    BY <2>2, ConstantAssumption DEF Produces
  <2>4. QED
    BY <1>0, <2>2, <2>3
<1>3. CASE \E src \in Addrs \ (In \cup Out), host \in Out : o = CopyToHost(d2h, src, host)
  <2>1. PICK src \in Addrs \ (In \cup Out), host \in Out : o = CopyToHost(d2h, src, host)
    BY <1>3
  <2>2. /\ o.s = d2h /\ o.wait = {src} /\ o.rd = {src} /\ o.wr = {host}
        /\ o.reg = {host} /\ o.ext = Null
    BY <2>1 DEF CopyToHost
  <2>3. Produces(o) = {host}
    BY <2>2, ConstantAssumption DEF Produces
  <2>4. QED
    BY <1>0, <2>2, <2>3
<1>4. QED
  BY <1>1, <1>2, <1>3 DEF BridgeOps

\* The operations of the bridge, issued by one thread, keep the program order
\* on the device whatever the streams and the addresses they use: what a
\* recipe, an upload or a download reads or overwrites has been written, and
\* what a recipe reads is overwritten only after it (RecipeLauncher::Launch,
\* copy_data_to_device and copy_data_to_host).
THEOREM BridgeOperationsOrdered ==
  ASSUME \A t, u \in Threads : t = u, ~MayFail,
         NEW h2d, NEW d2h, NEW In, NEW Out, BridgeOps(h2d, d2h, In, Out)
  PROVE  Spec => []ReadsAndWritesFollowWrites /\ []WritesFollowRecipeReads
<1>1. \A o \in Ops :
        /\ Produces(o) \subseteq Addrs \ In /\ o.wr \subseteq Produces(o)
        /\ o.rd \cap Out = {}
        /\ o.s \in ComputeStreams => o.rd \subseteq Produces(o)
        /\ \A a \in (o.rd \cup Produces(o)) \ (In \cup Out) : a \in o.wait
        /\ \A a \in Produces(o) \cap Out : o.s = d2h
  <2>1. BridgeUses(d2h, In, Out)
    BY BridgeOpsUse
  <2>2. QED
    BY <2>1 DEF BridgeUses
<1>2. ASSUME NEW o \in Ops, NEW p \in Ops, NEW a \in Produces(o) \cap (p.rd \cup Produces(p))
      PROVE  RunsAfter(p, o, a)
  <2>1. CASE a \in Out
    <3>1. a \in Produces(p)
      BY <1>1, <2>1
    <3>2. o.s = d2h /\ p.s = d2h
      BY <1>1, <2>1, <3>1
    <3>3. QED
      BY <3>2 DEF RunsAfter
  <2>2. CASE a \notin Out
    <3>1. a \in Addrs /\ a \notin In
      BY <1>1
    <3>2. a \in p.wait
      BY <1>1, <2>2, <3>1
    <3>3. QED
      BY <3>2 DEF RunsAfter
  <2>3. QED
    BY <2>1, <2>2
<1>3. ProgramOrder
  BY <1>2 DEF ProgramOrder
<1>4. WritesCovered /\ RecipeReadsCovered
  <2>1. ASSUME NEW o \in Ops, NEW p \in Ops, NEW a \in o.wr \cap (p.rd \cup p.wr)
        PROVE  a \in Produces(o) /\ RunsAfter(p, o, a)
    <3>1. a \in Produces(o) /\ a \in p.rd \cup Produces(p)
      BY <1>1, <2>1
    <3>2. QED
      BY <1>2, <3>1
  <2>2. ASSUME NEW o \in Ops, NEW p \in Ops, o.s \in ComputeStreams, NEW a \in o.rd \cap p.wr
        PROVE  a \in Produces(o) /\ RunsAfter(p, o, a)
    <3>1. a \in Produces(o) /\ a \in p.rd \cup Produces(p)
      BY <1>1, <2>2
    <3>2. QED
      BY <1>2, <3>1
  <2>3. QED
    BY <2>1, <2>2 DEF WritesCovered, RecipeReadsCovered
<1>5. (Spec => []ReadsAndWritesFollowWrites) /\ (Spec => []WritesFollowRecipeReads)
  BY <1>3, <1>4, WritesOrdered, RecipeReadsOrdered
<1>6. QED
  BY <1>5
=============================================================================
