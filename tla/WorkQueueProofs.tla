-------------------------- MODULE WorkQueueProofs ---------------------------
(***************************************************************************)
(* The workqueue shim for any set of works.  QInv adds to the invariants   *)
(* of WorkQueue what makes them inductive: a work in cut is on the list,   *)
(* and once destroy_workqueue has begun nothing links a work any more.     *)
(***************************************************************************)
EXTENDS WorkQueue, TLAPS

On(q, w)    == \E i \in 1 .. Len(q) : q[i] = w
Distinct(q) == \A i, j \in 1 .. Len(q) : q[i] = q[j] => i = j

\* Linking at the tail adds the work and keeps the entries distinct.
LEMMA AppendOn ==
    ASSUME NEW S, NEW q \in Seq(S), NEW w \in S
    PROVE  /\ Append(q, w) \in Seq(S)
           /\ \A v : On(Append(q, w), v) <=> On(q, v) \/ v = w
           /\ Distinct(q) /\ ~On(q, w) => Distinct(Append(q, w))
<1>1. /\ Append(q, w) \in Seq(S) /\ Len(Append(q, w)) = Len(q) + 1
      /\ \A i \in 1 .. Len(q) : Append(q, w)[i] = q[i]
      /\ Append(q, w)[Len(q) + 1] = w
  OBVIOUS
<1>2. Len(q) \in Nat /\ 1 .. Len(q) + 1 = (1 .. Len(q)) \cup {Len(q) + 1}
  OBVIOUS
<1>3. ASSUME NEW v PROVE On(Append(q, w), v) <=> On(q, v) \/ v = w
  BY <1>1, <1>2 DEF On
<1>4. Distinct(q) /\ ~On(q, w) => Distinct(Append(q, w))
  BY <1>1, <1>2 DEF On, Distinct
<1> QED
  BY <1>1, <1>3, <1>4

\* Unlinking the head takes that work away and no other.
LEMMA TailOn ==
    ASSUME NEW S, NEW q \in Seq(S), q # <<>>, Distinct(q)
    PROVE  /\ Head(q) \in S /\ Tail(q) \in Seq(S)
           /\ \A v : On(Tail(q), v) <=> On(q, v) /\ v # Head(q)
           /\ Distinct(Tail(q))
<1>1. /\ Head(q) \in S /\ Tail(q) \in Seq(S) /\ Head(q) = q[1]
      /\ Len(q) \in Nat \ {0} /\ Len(Tail(q)) = Len(q) - 1
      /\ \A i \in 1 .. Len(q) - 1 : Tail(q)[i] = q[i + 1]
  OBVIOUS
<1>2. ASSUME NEW v PROVE On(Tail(q), v) <=> On(q, v) /\ v # Head(q)
  <2>1. ASSUME On(Tail(q), v) PROVE On(q, v) /\ v # Head(q)
    <3>1. PICK i \in 1 .. Len(q) - 1 : q[i + 1] = v
      BY <1>1, <2>1 DEF On
    <3>2. i + 1 \in 1 .. Len(q) /\ i + 1 # 1 /\ 1 \in 1 .. Len(q)
      BY <1>1
    <3> QED
      BY <1>1, <3>1, <3>2 DEF On, Distinct
  <2>2. ASSUME On(q, v), v # Head(q) PROVE On(Tail(q), v)
    <3>1. PICK i \in 1 .. Len(q) : q[i] = v
      BY <2>2 DEF On
    <3>2. i # 1
      BY <1>1, <2>2, <3>1
    <3>3. i - 1 \in 1 .. Len(q) - 1 /\ (i - 1) + 1 = i
      BY <1>1, <3>2
    <3> QED
      BY <1>1, <3>1, <3>3 DEF On
  <2> QED
    BY <2>1, <2>2
<1>3. Distinct(Tail(q))
  <2> SUFFICES ASSUME NEW i \in 1 .. Len(q) - 1, NEW j \in 1 .. Len(q) - 1,
                      Tail(q)[i] = Tail(q)[j]
               PROVE  i = j
    BY <1>1 DEF Distinct
  <2>1. i + 1 \in 1 .. Len(q) /\ j + 1 \in 1 .. Len(q) /\ q[i + 1] = q[j + 1]
    BY <1>1
  <2>2. i + 1 = j + 1
    BY <2>1 DEF Distinct
  <2> QED
    BY <2>2
<1> QED
  BY <1>1, <1>2, <1>3

-----------------------------------------------------------------------------
\* What the list and the flags say of each other; LinkedOnce follows.
ListInv == /\ queue \in Seq(Works) /\ pending \in [Works -> BOOLEAN] /\ torn \in BOOLEAN
           /\ cut \subseteq Works
           /\ \A w \in Works : pending[w] = (On(queue, w) /\ w \notin cut)
           /\ Distinct(queue)
           /\ torn => cut # {}
           /\ \A w \in cut : On(queue, w)

Quiet     == ~running => \A w \in Works : ~armed[w] /\ cb[w] = "idle"
UsrInv    == usr.pc \in {"wait", "unpend"} => running /\ usr.work \in Works
GoneInv   == worker = "gone" => ~running /\ queue = <<>>
FreedInv  == freed => worker = "gone"

QInv == QTypeOK /\ ListInv /\ Quiet /\ UsrInv /\ GoneInv /\ FreedInv

\* Pending says whether a work is linked, so linking once is what Linked counts.
LEMMA ListLinked == ListInv => LinkedOnce /\ (\A w \in Works : Linked(w) <=> On(queue, w))
  BY DEF ListInv, LinkedOnce, Linked, On, Distinct

\* alloc_workqueue leaves an empty list and a sleeping worker.
LEMMA InitQInv == QInit => QInv
<1> SUFFICES ASSUME QInit PROVE QInv
  OBVIOUS
<1>1. queue \in Seq(Works) /\ Len(queue) = 0
  BY DEF QInit
<1>2. ListInv
  <2>1. (\A v : ~On(queue, v)) /\ Distinct(queue)
    BY <1>1 DEF On, Distinct
  <2>2. pending \in [Works -> BOOLEAN] /\ \A w \in Works : ~pending[w]
    BY DEF QInit
  <2> QED
    BY <1>1, <2>1, <2>2 DEF QInit, ListInv
<1>3. QTypeOK
  <2>1. /\ pending \in [Works -> BOOLEAN] /\ active \in [Works -> BOOLEAN]
        /\ armed \in [Works -> BOOLEAN] /\ cb \in [Works -> {"idle", "test", "clear", "fire"}]
    BY DEF QInit
  <2>2. usr \in [pc : {"idle", "wait", "unpend", "destroy"}, work : Works \cup {None}]
    BY DEF QInit
  <2> QED
    BY <1>1, <2>1, <2>2 DEF QInit, QTypeOK
<1> QED
  BY <1>2, <1>3 DEF QInit, QInv, Quiet, UsrInv, GoneInv, FreedInv

\* queue_work's locked section keeps the list in order, or breaks it at a work
\* that was cancelled while it was linked.
LEMMA EnqueueList ==
    ASSUME ListInv, ~torn, NEW w \in Works, Enqueue(w), cut' = cut
    PROVE  ListInv'
<1>1. CASE pending[w] /\ UNCHANGED <<queue, pending, worker, torn>>
  BY <1>1 DEF ListInv, On, Distinct
<1>2. CASE ~pending[w] /\ Linked(w) /\ torn' = TRUE /\ UNCHANGED <<queue, pending, worker>>
  <2>1. w \in cut
    BY <1>2, ListLinked DEF ListInv
  <2> QED
    BY <1>2, <2>1 DEF ListInv, On, Distinct
<1>3. CASE /\ ~pending[w] /\ ~Linked(w)
           /\ pending' = [pending EXCEPT ![w] = TRUE] /\ queue' = Append(queue, w)
           /\ UNCHANGED torn
  <2>1. ~On(queue, w) /\ w \notin cut
    BY <1>3, ListLinked DEF ListInv
  <2>2. queue' \in Seq(Works) /\ Distinct(queue')
    BY <1>3, <2>1, AppendOn DEF ListInv
  <2>3. \A v : On(queue', v) <=> On(queue, v) \/ v = w
    BY <1>3, AppendOn DEF ListInv
  <2>4. \A v \in Works : pending'[v] = (On(queue', v) /\ v \notin cut)
    BY <1>3, <2>1, <2>3 DEF ListInv
  <2>5. pending' \in [Works -> BOOLEAN]
    BY <1>3 DEF ListInv
  <2>6. \A v \in cut : On(queue', v)
    BY <2>3 DEF ListInv
  <2> QED
    BY <1>3, <2>2, <2>4, <2>5, <2>6 DEF ListInv
<1> QED
  BY <1>1, <1>2, <1>3 DEF Enqueue

\* cancel_work_sync: pending is cleared, and cut remembers a linked work.
LEMMA UnpendList ==
    ASSUME ListInv, NEW w \in Works, Unpend(w), UNCHANGED <<queue, torn>>
    PROVE  ListInv'
<1>1. /\ pending' = [pending EXCEPT ![w] = FALSE]
      /\ cut' = IF On(queue, w) THEN cut \cup {w} ELSE cut
  BY ListLinked DEF Unpend
<1>2. \A v : On(queue', v) = On(queue, v)
  OBVIOUS
<1> QED
  BY <1>1, <1>2 DEF ListInv

\* The worker takes the head off the list and clears its pending.
LEMMA TakeList ==
    ASSUME ListInv, ~torn, WorkerTake
    PROVE  ListInv' /\ Head(queue) \in Works
<1>1. /\ Head(queue) \in Works /\ Tail(queue) \in Seq(Works) /\ Distinct(Tail(queue))
      /\ \A v : On(Tail(queue), v) <=> On(queue, v) /\ v # Head(queue)
  BY TailOn DEF WorkerTake, ListInv
<1>2. /\ queue' = Tail(queue) /\ pending' = [pending EXCEPT ![Head(queue)] = FALSE]
      /\ cut' = cut \ {Head(queue)} /\ torn' = torn
  BY DEF WorkerTake
<1>3. pending' \in [Works -> BOOLEAN] /\ cut' \subseteq Works
  BY <1>2 DEF ListInv
<1>4. \A v \in Works : pending'[v] = (On(queue', v) /\ v \notin cut')
  BY <1>1, <1>2 DEF ListInv
<1>5. \A v \in cut' : On(queue', v)
  BY <1>1, <1>2 DEF ListInv
<1> QED
  BY <1>1, <1>2, <1>3, <1>4, <1>5 DEF ListInv

\* Steps that leave the list and its flags alone.
LEMMA SameList ==
    ASSUME ListInv, UNCHANGED <<queue, pending, torn, cut>>
    PROVE  ListInv'
  BY DEF ListInv, On, Distinct

\* The parts of QInv about the timers, the worker and the callers.
CtlInv == /\ running \in BOOLEAN /\ freed \in BOOLEAN
          /\ worker \in {"test", "sleep", "run", "gone"} /\ exec \in Works \cup {None}
          /\ (worker = "run") = (exec # None)
          /\ usr \in [pc : {"idle", "wait", "unpend", "destroy"}, work : Works \cup {None}]
          /\ UsrInv /\ GoneInv /\ FreedInv

TimersInv == /\ active \in [Works -> BOOLEAN] /\ armed \in [Works -> BOOLEAN]
             /\ cb \in [Works -> {"idle", "test", "clear", "fire"}]
             /\ owed \subseteq Works /\ again \in BOOLEAN
             /\ Quiet

\* The invariant, split into what different steps disturb.
LEMMA QInvParts == QInv <=> ListInv /\ CtlInv /\ TimersInv
  BY Zenon DEF QInv, QTypeOK, ListInv, CtlInv, TimersInv

\* Linking wakes a sleeping worker and moves no other.
LEMMA EnqueueWorker ==
    ASSUME NEW w \in Works, Enqueue(w)
    PROVE  worker' = worker \/ (worker = "sleep" /\ worker' = "test")
  BY DEF Enqueue

\* Every section of the worker, the timers and the users keeps the invariant.
LEMMA StepQInv == QInv /\ [QNext]_qvars => QInv'
<1> SUFFICES ASSUME QInv, [QNext]_qvars PROVE QInv'
  OBVIOUS
<1>0. ListInv /\ CtlInv /\ TimersInv
  BY QInvParts
<1> SUFFICES ListInv' /\ CtlInv' /\ TimersInv'
  BY QInvParts, PTL
<1>1. CASE UNCHANGED qvars
  <2>1. ListInv'
    BY <1>0, <1>1, SameList DEF qvars
  <2>2. CtlInv' /\ TimersInv'
    BY <1>0, <1>1 DEF qvars, CtlInv, TimersInv, Quiet, UsrInv, GoneInv, FreedInv
  <2> QED
    BY <2>1, <2>2
<1>2. ASSUME ~torn, NEW w \in Works, QueueWork(w) PROVE ListInv' /\ CtlInv' /\ TimersInv'
  <2>1. ListInv'
    BY <1>0, <1>2, EnqueueList DEF QueueWork
  <2>2. CtlInv'
    BY <1>0, <1>2, EnqueueWorker DEF QueueWork, CtlInv, UsrInv, GoneInv, FreedInv
  <2>3. TimersInv'
    BY <1>0, <1>2 DEF QueueWork, TimersInv, Quiet, tmvars
  <2> QED
    BY <2>1, <2>2, <2>3
<1>3. ASSUME NEW w \in Works, QueueDelayed(w) PROVE ListInv' /\ CtlInv' /\ TimersInv'
  <2>1. ListInv'
    BY <1>0, <1>3, SameList DEF QueueDelayed
  <2>2. CtlInv'
    BY <1>0, <1>3 DEF QueueDelayed, CtlInv, UsrInv, GoneInv, FreedInv
  <2>3. TimersInv'
    BY <1>0, <1>3 DEF QueueDelayed, SetTimer, mod_timer, TimersInv, Quiet
  <2> QED
    BY <2>1, <2>2, <2>3
<1>4. ASSUME NEW w \in Works, TimerStart(w) \/ TimerTest(w) \/ TimerClear(w)
      PROVE  ListInv' /\ CtlInv' /\ TimersInv'
  <2>1. ListInv'
    BY <1>0, <1>4, SameList DEF TimerStart, TimerTest, TimerClear
  <2>2. CtlInv'
    BY <1>0, <1>4 DEF TimerStart, TimerTest, TimerClear, CtlInv, UsrInv, GoneInv, FreedInv
  <2>3. TimersInv'
    BY <1>0, <1>4 DEF TimerStart, TimerTest, TimerClear, TimersInv, Quiet
  <2> QED
    BY <2>1, <2>2, <2>3
<1>5. ASSUME ~torn, NEW w \in Works, TimerFire(w) PROVE ListInv' /\ CtlInv' /\ TimersInv'
  <2>1. ListInv'
    BY <1>0, <1>5, EnqueueList DEF TimerFire
  <2>2. CtlInv'
    <3>1. running
      BY <1>0, <1>5 DEF TimersInv, Quiet, TimerFire, CtlInv
    <3> QED
      BY <1>0, <1>5, <3>1, EnqueueWorker DEF TimerFire, CtlInv, UsrInv, GoneInv, FreedInv
  <2>3. TimersInv'
    BY <1>0, <1>5 DEF TimerFire, TimersInv, Quiet
  <2> QED
    BY <2>1, <2>2, <2>3
<1>6. ASSUME NEW w \in Works, CancelWork(w) \/ CancelDelayed(w)
      PROVE  ListInv' /\ CtlInv' /\ TimersInv'
  <2>1. ListInv'
    BY <1>0, <1>6, UnpendList DEF CancelWork, CancelDelayed
  <2>2. CtlInv'
    BY <1>0, <1>6 DEF CancelWork, CancelDelayed, CtlInv, UsrInv, GoneInv, FreedInv
  <2>3. TimersInv'
    BY <1>0, <1>6 DEF CancelWork, CancelDelayed, SetTimer, TimerOf, del_timer, TimersInv,
                      Quiet, tmvars
  <2> QED
    BY <2>1, <2>2, <2>3
<1>7. ASSUME NEW w \in Works, CancelSync(w) PROVE ListInv' /\ CtlInv' /\ TimersInv'
  <2>1. ListInv'
    BY <1>0, <1>7, SameList DEF CancelSync
  <2>2. CtlInv'
    BY <1>0, <1>7 DEF CancelSync, CtlInv, UsrInv, GoneInv, FreedInv
  <2>3. TimersInv'
    BY <1>0, <1>7 DEF CancelSync, TimersInv, Quiet
  <2> QED
    BY <2>1, <2>2, <2>3
<1>8. CASE CancelSyncCall
  <2>1. ListInv'
    BY <1>0, <1>8, SameList DEF CancelSyncCall
  <2>2. CtlInv'
    BY <1>0, <1>8 DEF CancelSyncCall, CtlInv, UsrInv, GoneInv, FreedInv
  <2>3. TimersInv'
    BY <1>0, <1>8 DEF CancelSyncCall, CtlInv, UsrInv, TimersInv, Quiet
  <2> QED
    BY <2>1, <2>2, <2>3
<1>9. CASE CancelSyncEnd
  <2>1. ListInv'
    BY <1>0, <1>9, UnpendList DEF CancelSyncEnd, CtlInv, UsrInv
  <2>2. CtlInv'
    BY <1>0, <1>9 DEF CancelSyncEnd, CtlInv, UsrInv, GoneInv, FreedInv
  <2>3. TimersInv'
    BY <1>0, <1>9 DEF CancelSyncEnd, TimersInv, Quiet, tmvars
  <2> QED
    BY <2>1, <2>2, <2>3
<1>10. CASE Destroy
  <2>1. ListInv'
    BY <1>0, <1>10, SameList DEF Destroy
  <2>2. CtlInv'
    BY <1>0, <1>10 DEF Destroy, CtlInv, UsrInv, GoneInv, FreedInv
  <2>3. TimersInv'
    BY <1>0, <1>10 DEF Destroy, TimersInv, Quiet, tmvars
  <2> QED
    BY <2>1, <2>2, <2>3
<1>11. CASE DestroyEnd
  <2>1. ListInv'
    BY <1>0, <1>11, SameList DEF DestroyEnd
  <2>2. CtlInv'
    BY <1>0, <1>11 DEF DestroyEnd, CtlInv, UsrInv, GoneInv, FreedInv
  <2>3. TimersInv'
    BY <1>0, <1>11 DEF DestroyEnd, TimersInv, Quiet, tmvars
  <2> QED
    BY <2>1, <2>2, <2>3
<1>12. ASSUME ~torn, WorkerTake PROVE ListInv' /\ CtlInv' /\ TimersInv'
  <2>1. ListInv' /\ Head(queue) \in Works
    BY <1>0, <1>12, TakeList
  <2>2. CtlInv'
    BY <1>0, <1>12, <2>1, WorksAssumption DEF WorkerTake, CtlInv, UsrInv, GoneInv, FreedInv
  <2>3. TimersInv'
    BY <1>0, <1>12 DEF WorkerTake, TimersInv, Quiet, tmvars
  <2> QED
    BY <2>1, <2>2, <2>3
<1>13. CASE WorkerSleep \/ WorkerReturn \/ WorkerExit
  <2>1. ListInv'
    BY <1>0, <1>13, SameList DEF WorkerSleep, WorkerReturn, WorkerExit
  <2>2. CtlInv'
    BY <1>0, <1>13 DEF WorkerSleep, WorkerReturn, WorkerExit, CtlInv, UsrInv, GoneInv, FreedInv
  <2>3. TimersInv'
    BY <1>0, <1>13 DEF WorkerSleep, WorkerReturn, WorkerExit, TimersInv, Quiet, tmvars
  <2> QED
    BY <2>1, <2>2, <2>3
<1> QED
  BY <1>1, <1>2, <1>3, <1>4, <1>5, <1>6, <1>7, <1>8, <1>9, <1>10, <1>11, <1>12, <1>13
  DEF QNext, TimerWork, WorkerWork, UsrWork

\* The invariant holds in every state of the workqueue.
THEOREM QueueInvariant == QSpec => []QInv
  BY InitQInv, StepQInv, PTL DEF QSpec

\* Works, timers and threads stay in the states the code has for them: a work is
\* run by the worker only, and pending, armed and owed name works.
THEOREM QueueTypes == QSpec => []QTypeOK
<1>1. QInv => QTypeOK
  BY DEF QInv
<1> QED
  BY <1>1, QueueInvariant, PTL

\* For any number of works: a work is on the list once at most, and pending
\* says so unless it was cancelled there, so that only queueing a cancelled
\* work again (cancel_work_sync unlinks nothing) can break the list.
THEOREM QueueLinkedOnce == QSpec => []LinkedOnce
<1>1. QInv => LinkedOnce
  BY ListLinked DEF QInv
<1> QED
  BY <1>1, QueueInvariant, PTL

\* destroy_workqueue frees the queue only when its list is empty and its
\* thread is gone.
THEOREM QueueDestroyDrains == QSpec => []DestroyDrains
<1>1. QInv => DestroyDrains
  BY DEF QInv, QTypeOK, GoneInv, FreedInv, DestroyDrains
<1> QED
  BY <1>1, QueueInvariant, PTL
=============================================================================
