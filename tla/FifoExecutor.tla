---------------------------- MODULE FifoExecutor ----------------------------
(***************************************************************************)
(* What a thread pool with one worker promises to those who hand it tasks: *)
(* they take effect one at a time, at most once and in the order in which  *)
(* they were submitted.  A task may be given up: it, or the machinery that *)
(* runs it, threw an exception.                                            *)
(***************************************************************************)
EXTENDS Naturals, Sequences

CONSTANT Tasks

VARIABLES
  waiting,   \* the tasks submitted and not yet settled, oldest first
  done       \* the tasks that took effect, in that order

vars == <<waiting, done>>

Elements(s) == {s[i] : i \in DOMAIN s}

Init == waiting = <<>> /\ done = <<>>

Submit(x) ==
  /\ x \notin Elements(waiting) \cup Elements(done)
  /\ waiting' = Append(waiting, x)
  /\ UNCHANGED done

Execute ==
  /\ waiting /= <<>>
  /\ done' = Append(done, Head(waiting))
  /\ waiting' = Tail(waiting)

GiveUp(i) ==
  /\ waiting' = SubSeq(waiting, 1, i - 1) \o SubSeq(waiting, i + 1, Len(waiting))
  /\ UNCHANGED done

Next ==
  \/ \E x \in Tasks : Submit(x)
  \/ Execute
  \/ \E i \in DOMAIN waiting : GiveUp(i)

Spec == Init /\ [][Next]_vars
=============================================================================
