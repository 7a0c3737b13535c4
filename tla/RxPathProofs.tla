---------------------------- MODULE RxPathProofs ----------------------------
(***************************************************************************)
(* RxPath implements RxReorder, so what is proved of the locked sections   *)
(* holds of the threads around them; no wakeup of the flush timer is lost; *)
(* the threads keep their types; and no frame is delivered twice.          *)
(***************************************************************************)
EXTENDS RxPath, RxReorderProofs

Shapes ==
    /\ rx = [pc |-> rx.pc, tid |-> rx.tid, n |-> rx.n, ptr |-> rx.ptr, q |-> rx.q, arm |-> rx.arm]
    /\ tm = [pc |-> tm.pc, q |-> tm.q, again |-> tm.again]
    /\ usr = [pc |-> usr.pc, tid |-> usr.tid, goal |-> usr.goal]

\* What the threads hold when they take _rxBaLock.  The frame stays one the AP
\* can have sent: only the receive thread sees the AP's counter move on.
FrameInHand ==
    rx.pc \in {"deref", "direct", "input"} => rx.tid \in Tids /\ rx.n \in Arrivals(rx.tid)
RxInHand ==
    /\ rx.pc \in {"addba", "delba"} => rx.tid \in Tids
    /\ rx.pc = "addba" => rx.n \in BufReqs
    /\ rx.pc = "deauth" => rx.tid \in 0 .. NumTid
UsrInHand ==
    usr.pc \in {"unlink", "free"} => usr.tid \in Tids

Hands == Shapes /\ FrameInHand /\ RxInHand /\ UsrInHand

\* Only the timer's loop keeps _rxBaLock from one step to the next.
LoopHoldsLock == (tm.pc = "loop") = flush.on

\* At first no thread has anything in hand.
LEMMA InitHands == PInit => Hands
  BY ReorderAssumption
  DEF PInit, Hands, Shapes, FrameInHand, RxInHand, UsrInHand, RxIdle, TmIdle, UsrIdle, Tids

\* What a thread has in hand after a step is what it may have there.
LEMMA StepHands == Hands /\ [PNext]_vars => Hands'
<1> SUFFICES ASSUME Hands, [PNext]_vars PROVE Hands'
  OBVIOUS
<1> USE ReorderAssumption DEF Hands, Shapes, FrameInHand, RxInHand, UsrInHand, RxIdle, TmIdle, UsrIdle
<1>1. CASE UNCHANGED vars
  BY <1>1 DEF vars, pvars, rvars, Arrivals
<1>2. ASSUME NEW t \in Tids, NEW n \in Arrivals(t), RxData(t, n) PROVE Hands'
  BY <1>2 DEF RxData, rvars, Arrivals
<1>3. ASSUME NEW t \in Tids, NEW kind \in {"addba", "delba", "deauth"},
             NEW req \in BufReqs \cup {0}, kind = "addba" => req \in BufReqs,
             RxMgmt(kind, t, req)
      PROVE  Hands'
  <2>1. /\ rx' = [pc |-> kind, tid |-> t, n |-> req, ptr |-> "null", q |-> <<>>, arm |-> FALSE]
        /\ UNCHANGED <<tm, usr>>
    BY <1>3 DEF RxMgmt
  <2>2. t \in 0 .. NumTid
    BY DEF Tids
  <2> QED BY <1>3, <2>1, <2>2
<1>4. CASE RxDeref
  BY <1>4 DEF RxDeref, rvars, Arrivals
<1>5. CASE RxDirect
  BY <1>5 DEF RxDirect
<1>6. CASE RxInput
  <2>1. UNCHANGED <<tm, usr>>
    BY <1>6 DEF RxInput
  <2>2. CASE rx' = RxIdle
    BY <2>1, <2>2
  <2>3. CASE rx' = [rx EXCEPT !.pc = "deliver", !.q = OutSeq(out'), !.arm = rxBa'[rx.tid].stored > 0]
    <3>1. PICK qq, aa : rx' = [rx EXCEPT !.pc = "deliver", !.q = qq, !.arm = aa]
      BY <2>3
    <3> QED BY <2>1, <3>1
  <2> QED BY <1>6, <2>2, <2>3 DEF RxInput
<1>7. CASE RxDeliver \/ RxArm \/ RxReturn
  BY <1>7 DEF RxDeliver, RxArm, RxReturn
<1>8. CASE RxAddba \/ RxDelba
  BY <1>8 DEF RxAddba, RxDelba
<1>9. CASE RxDeauth \/ RxDeauthEnd
  BY <1>9 DEF RxDeauth, RxDeauthEnd
<1>10. CASE TmDue \/ TmFire \/ TmDeliver \/ TmReturn
  BY <1>10 DEF TmDue, TmFire, TmDeliver, TmReturn, rvars, Arrivals
<1>11. CASE TmLock \/ TmUnlock
  BY <1>11 DEF TmLock, TmUnlock, FlushBegin, FlushEnd, Arrivals
<1>12. ASSUME NEW t \in Tids, TmTid(t) PROVE Hands'
  <2>1. UNCHANGED <<rx, usr, peer>> /\ tm' = [tm EXCEPT !.again = @ \/ rxBa'[t].stored > 0]
    BY <1>12 DEF TmTid, FlushTid
  <2> QED BY <2>1 DEF Arrivals
<1>13. ASSUME NEW goal \in {"up", "down"}, UsrBegin(goal) PROVE Hands'
  BY <1>13 DEF UsrBegin, rvars, Arrivals, Tids
<1>14. CASE UsrUnlink
  BY <1>14 DEF UsrUnlink, RxBaTeardown, Arrivals
<1>15. CASE UsrFree
  <2>1. UNCHANGED <<tm, peer>> /\ usr.tid \in Tids
    BY <1>15 DEF UsrFree, rvars
  <2>2. rx' = [rx EXCEPT !.ptr = IF @ = "unlinked" THEN "freed" ELSE @]
    BY <1>15 DEF UsrFree
  <2>3. /\ usr' = [usr EXCEPT !.pc = IF usr.tid = NumTid - 1 THEN "set" ELSE "unlink",
                             !.tid = IF usr.tid = NumTid - 1 THEN 0 ELSE @ + 1]
        /\ usr.tid # NumTid - 1 => usr.tid + 1 \in Tids
    BY <1>15, <2>1 DEF UsrFree, Tids
  <2>4. UsrInHand' /\ (usr = [pc |-> usr.pc, tid |-> usr.tid, goal |-> usr.goal])'
    BY <2>3
  <2>5. FrameInHand' /\ RxInHand' /\ Shapes'
    BY <2>1, <2>2, <2>4 DEF Arrivals
  <2> QED BY <2>4, <2>5
<1>16. CASE UsrSet
  BY <1>16 DEF UsrSet, rvars, Arrivals
<1> HIDE DEF Hands, Shapes, FrameInHand, RxInHand, UsrInHand, RxIdle, TmIdle, UsrIdle
<1> QED
  BY <1>1, <1>2, <1>3, <1>4, <1>5, <1>6, <1>7, <1>8, <1>9, <1>10, <1>11, <1>12, <1>13,
     <1>14, <1>15, <1>16 DEF PNext, RxWork, TmWork, UsrWork

\* A step of a thread is a step of RxReorder, or leaves its variables alone.
LEMMA StepRefines == Hands /\ [PNext]_vars => [RNext]_rvars
<1> SUFFICES ASSUME Hands, [PNext]_vars PROVE [RNext]_rvars
  OBVIOUS
<1> USE DEF Hands, FrameInHand, RxInHand, UsrInHand
<1>1. CASE UNCHANGED rvars
  BY <1>1
<1>2. CASE RxDirect
  BY <1>2 DEF RxDirect, RNext
<1>3. CASE RxInput
  BY <1>3 DEF RxInput, RNext
<1>4. CASE RxAddba
  BY <1>4 DEF RxAddba, RNext
<1>5. CASE RxDelba
  BY <1>5 DEF RxDelba, RNext
<1>6. CASE RxDeauth
  <2>1. rx.tid \in Tids /\ RxBaTeardown(rx.tid)
    BY <1>6, ReorderAssumption DEF RxDeauth, Tids
  <2> QED BY <2>1 DEF RNext
<1>7. CASE TmLock
  BY <1>7 DEF TmLock, RNext
<1>8. ASSUME NEW t \in Tids, TmTid(t) PROVE [RNext]_rvars
  BY <1>8 DEF TmTid, RNext
<1>9. CASE TmUnlock
  BY <1>9 DEF TmUnlock, RNext
<1>10. CASE UsrUnlink
  BY <1>10 DEF UsrUnlink, RNext
<1>11. ASSUME [PNext]_vars, ~(RxDirect \/ RxInput \/ RxAddba \/ RxDelba \/ RxDeauth),
              ~(TmLock \/ TmUnlock \/ UsrUnlink), ~(\E t \in Tids : TmTid(t))
       PROVE  UNCHANGED rvars
  BY <1>11 DEF PNext, RxWork, TmWork, UsrWork, vars, RxData, RxMgmt, RxDeref, RxDeliver, RxArm,
               RxReturn, RxDeauthEnd, TmDue, TmFire, TmDeliver, TmReturn, UsrBegin, UsrFree, UsrSet
<1> QED
  BY <1>1, <1>2, <1>3, <1>4, <1>5, <1>6, <1>7, <1>8, <1>9, <1>10, <1>11

\* The threads of the receive path use the reorder buffer only as RxReorder
\* allows: every step of theirs is one of its locked sections, called with a
\* TID, a frame or a size it allows, or leaves the buffers alone.
THEOREM PathImplementsReorder == PSpec => RSpec
<1>1. PInit => RInit
  BY DEF PInit
<1> QED
  BY <1>1, InitHands, StepHands, StepRefines, PTL DEF PSpec, RSpec

\* The safety of the buffers, for every interleaving of the three threads.
THEOREM PathWindow == PSpec => [](WindowInv /\ StoredExact)
  BY PathImplementsReorder, ReorderWindow, ReorderStored, PTL

-----------------------------------------------------------------------------
(* No wakeup of the flush timer is lost.                                   *)

\* What keeps a TID's frames from being forgotten, as one predicate.
Watched(t) ==
    \/ timer # "off"
    \/ rx.pc = "deliver" /\ rx.arm
    \/ tm.pc = "lock"
    \/ tm.pc = "loop" /\ (tm.again \/ t >= flush.tid)
    \/ tm.pc = "deliver" /\ tm.again

TimerInv == LoopHoldsLock /\ \A t \in Tids : rxBa[t].stored > 0 => Watched(t)

\* No frame is buffered at first.
LEMMA InitTimer == PInit => TimerInv
<1> SUFFICES ASSUME PInit PROVE TimerInv
  OBVIOUS
<1>1. tm.pc = "idle" /\ flush.on = FALSE
  BY DEF PInit, RInit, TmIdle
<1>2. \A t \in Tids : ~(rxBa[t].stored > 0)
  BY DEF PInit, RInit, NoBa
<1> QED BY <1>1, <1>2 DEF TimerInv, LoopHoldsLock

\* A section of the receive thread or of a user client cannot run while the
\* timer's loop holds the lock, and touches one TID only.
LEMMA OtherSection ==
  ASSUME RTypeOK, TimerInv, NEW u \in Tids, LockFree, flush' = flush, tm' = tm,
         timer' = timer, NEW r, rxBa' = [rxBa EXCEPT ![u] = r],
         rx.pc # "deliver",
         r.stored > 0 => rx'.pc = "deliver" /\ rx'.arm
  PROVE  TimerInv'
<1>1. ASSUME NEW t \in Tids, rxBa'[t].stored > 0 PROVE Watched(t)'
  <2>1. CASE t = u
    BY <1>1, <2>1 DEF RTypeOK, Watched
  <2>2. CASE t # u
    BY <1>1, <2>2 DEF RTypeOK, Watched, TimerInv
  <2> QED BY <2>1, <2>2
<1>2. LoopHoldsLock'
  BY DEF TimerInv, LoopHoldsLock
<1> QED BY <1>1, <1>2 DEF TimerInv

\* Such a section that leaves every buffer alone.
LEMMA NoSection ==
  ASSUME TimerInv, UNCHANGED <<rxBa, flush, tm, timer>>,
         rx.pc = "deliver" /\ rx.arm => rx'.pc = "deliver" /\ rx'.arm
  PROVE  TimerInv'
  BY DEF TimerInv, LoopHoldsLock, Watched

\* Every step of a thread leaves the timer armed, or a thread on its way, for each hole.
LEMMA StepTimer == RTypeOK /\ Hands /\ TimerInv /\ [PNext]_vars => TimerInv'
<1> SUFFICES ASSUME RTypeOK, Hands, TimerInv, [PNext]_vars PROVE TimerInv'
  OBVIOUS
<1> USE DEF Hands, Shapes
<1>1. CASE UNCHANGED vars
  BY <1>1, NoSection DEF vars, pvars, rvars
<1>2. ASSUME NEW t \in Tids, NEW n \in Arrivals(t), RxData(t, n) PROVE TimerInv'
  BY <1>2, NoSection DEF RxData, rvars
<1>3. ASSUME NEW t, NEW kind, NEW req, RxMgmt(kind, t, req) PROVE TimerInv'
  BY <1>3, NoSection DEF RxMgmt, rvars
<1>4. CASE RxDeref \/ RxReturn \/ RxDeauthEnd
  BY <1>4, NoSection DEF RxDeref, RxReturn, RxDeauthEnd, rvars
<1>5. CASE RxDeliver
  BY <1>5, NoSection DEF RxDeliver, rvars
<1>6. CASE RxArm
  BY <1>6 DEF RxArm, rvars, TimerInv, LoopHoldsLock, Watched
<1>7. CASE RxDirect
  BY <1>7, NoSection DEF RxDirect, InputNoBa
<1>8. CASE RxInput
  <2>1. CASE rx' = RxIdle /\ (InputStale(rx.tid, rx.n) \/ InputNoBa(rx.tid, rx.n))
    BY <1>8, <2>1, NoSection DEF RxInput, InputStale, InputNoBa
  <2>2. CASE /\ Input(rx.tid, rx.n)
             /\ rx' = [rx EXCEPT !.pc = "deliver", !.q = OutSeq(out'),
                                 !.arm = rxBa'[rx.tid].stored > 0]
    <3>1. rx.pc = "input" /\ rx.tid \in Tids /\ UNCHANGED <<tm, timer>>
      BY <1>8 DEF RxInput, FrameInHand
    <3>2. PICK r : rxBa' = [rxBa EXCEPT ![rx.tid] = r]
      BY <2>2 DEF Input
    <3>3. LockFree /\ flush' = flush
      BY <2>2 DEF Input
    <3>4. rxBa'[rx.tid] = r
      BY <3>1, <3>2 DEF RTypeOK
    <3>5. rx'.pc = "deliver" /\ rx'.arm = (r.stored > 0)
      BY <2>2, <3>4
    <3> QED BY <3>1, <3>2, <3>3, <3>5, OtherSection
  <2> QED BY <1>8, <2>1, <2>2 DEF RxInput
<1>9. CASE RxAddba
  <2>1. rx.tid \in Tids /\ rx.pc = "addba" /\ UNCHANGED <<tm, timer>>
    BY <1>9 DEF RxAddba, RxInHand
  <2>2. CASE RxBaSetup(rx.tid, rx.n)
    <3>1. rxBa' = [rxBa EXCEPT ![rx.tid] = NewBa(Sn(peer[rx.tid]), rx.n)]
      BY <2>2 DEF RxBaSetup
    <3>2. LockFree /\ flush' = flush /\ ~(NewBa(Sn(peer[rx.tid]), rx.n).stored > 0)
      BY <2>2 DEF RxBaSetup, NewBa
    <3> QED BY <2>1, <3>1, <3>2, OtherSection
  <2>3. CASE RxBaSetupNoMem(rx.tid)
    BY <2>1, <2>3, NoSection DEF RxBaSetupNoMem
  <2> QED BY <1>9, <2>2, <2>3 DEF RxAddba
<1>10. ASSUME NEW u \in Tids, RxBaTeardown(u), UNCHANGED <<tm, timer>>,
              rx.pc # "deliver" \/ (rx'.pc = rx.pc /\ rx'.arm = rx.arm)
       PROVE  TimerInv'
  <2>1. rxBa' = [rxBa EXCEPT ![u] = NoBa] /\ flush' = flush /\ LockFree
    BY <1>10 DEF RxBaTeardown
  <2>2. ASSUME NEW t \in Tids, rxBa'[t].stored > 0 PROVE rxBa[t].stored > 0
    BY <2>1, <2>2 DEF NoBa, RTypeOK
  <2> QED BY <1>10, <2>1, <2>2 DEF TimerInv, LoopHoldsLock, Watched
<1>11. CASE RxDelba \/ RxDeauth
  <2>1. rx.tid \in Tids /\ RxBaTeardown(rx.tid) /\ UNCHANGED <<tm, timer>> /\ rx.pc # "deliver"
    BY <1>11, ReorderAssumption DEF RxDelba, RxDeauth, RxInHand, Tids
  <2> QED BY <2>1, <1>10
<1>12. CASE UsrUnlink
  <2>1. usr.tid \in Tids /\ RxBaTeardown(usr.tid) /\ UNCHANGED <<tm, timer>>
    BY <1>12 DEF UsrUnlink, UsrInHand
  <2>2. rx'.pc = rx.pc /\ rx'.arm = rx.arm
    BY <1>12 DEF UsrUnlink
  <2> QED BY <2>1, <2>2, <1>10
<1>13. CASE UsrFree
  BY <1>13, NoSection DEF UsrFree, rvars
<1>14. CASE UsrSet \/ \E goal \in {"up", "down"} : UsrBegin(goal)
  BY <1>14, NoSection DEF UsrSet, UsrBegin, rvars
<1>15. CASE TmDue \/ TmFire
  BY <1>15 DEF TmDue, TmFire, rvars, TimerInv, LoopHoldsLock, Watched
<1>16. CASE TmLock
  <2>1. tm'.pc = "loop" /\ flush'.on = TRUE /\ flush'.tid = 0 /\ rxBa' = rxBa
    BY <1>16 DEF TmLock, FlushBegin
  <2>2. LoopHoldsLock'
    BY <2>1 DEF LoopHoldsLock
  <2>3. \A t \in Tids : t >= 0
    BY DEF Tids
  <2>4. \A t \in Tids : Watched(t)'
    BY <2>1, <2>3 DEF Watched
  <2> QED BY <2>2, <2>4 DEF TimerInv
<1>17. ASSUME NEW u \in Tids, TmTid(u) PROVE TimerInv'
  <2>1. /\ tm.pc = "loop" /\ flush.on /\ flush.tid = u
        /\ tm' = [tm EXCEPT !.again = @ \/ rxBa'[u].stored > 0]
        /\ UNCHANGED <<rx, timer>>
    BY <1>17 DEF TmTid, FlushTid
  <2>2. flush' \in {[flush EXCEPT !.tid = u + 1], [flush EXCEPT !.tid = u + 1, !.nout = flush'.nout]}
    <3>1. PICK k : flush' = [flush EXCEPT !.tid = u + 1, !.nout = k] \/ flush' = [flush EXCEPT !.tid = u + 1]
      BY <1>17 DEF TmTid, FlushTid
    <3> QED BY <3>1 DEF RTypeOK
  <2>3. flush'.on = flush.on /\ flush'.tid = u + 1
    BY <2>2 DEF RTypeOK
  <2>4. PICK r : rxBa' = [rxBa EXCEPT ![u] = r] \/ rxBa' = rxBa
    BY <1>17 DEF TmTid, FlushTid
  <2>5. tm'.pc = "loop" /\ tm'.again = (tm.again \/ rxBa'[u].stored > 0)
    BY <2>1
  <2>6. ASSUME NEW t \in Tids, rxBa'[t].stored > 0 PROVE Watched(t)'
    <3>1. CASE t = u
      BY <2>5, <2>6, <3>1 DEF Watched
    <3>2. CASE t # u
      <4>1. rxBa[t].stored > 0
        BY <2>4, <2>6, <3>2 DEF RTypeOK
      <4>2. Watched(t)
        BY <4>1 DEF TimerInv
      <4>3. t >= u => t >= u + 1
        BY <3>2 DEF Tids
      <4> QED BY <2>1, <2>3, <2>5, <4>2, <4>3 DEF Watched
    <3> QED BY <3>1, <3>2
  <2>7. LoopHoldsLock'
    BY <2>1, <2>3, <2>5 DEF LoopHoldsLock
  <2> QED BY <2>6, <2>7 DEF TimerInv
<1>18. CASE TmUnlock
  <2>1. /\ tm.pc = "loop" /\ flush.tid = NumTid /\ flush'.on = FALSE
        /\ UNCHANGED <<rxBa, rx, timer>>
        /\ tm'.pc = "deliver" /\ tm'.again = tm.again
    BY <1>18 DEF TmUnlock, FlushEnd
  <2>2. \A t \in Tids : ~(t >= NumTid)
    BY ReorderAssumption DEF Tids
  <2>3. LoopHoldsLock'
    BY <2>1 DEF LoopHoldsLock
  <2>4. \A t \in Tids : rxBa'[t].stored > 0 => Watched(t)'
    BY <2>1, <2>2 DEF TimerInv, Watched
  <2> QED BY <2>3, <2>4 DEF TimerInv
<1>19. CASE TmDeliver
  BY <1>19 DEF TmDeliver, rvars, TimerInv, LoopHoldsLock, Watched
<1>20. CASE TmReturn
  BY <1>20 DEF TmReturn, TmIdle, rvars, TimerInv, LoopHoldsLock, Watched
<1> QED
  BY <1>1, <1>2, <1>3, <1>4, <1>5, <1>6, <1>7, <1>8, <1>9, <1>11, <1>12, <1>13, <1>14,
     <1>15, <1>16, <1>17, <1>18, <1>19, <1>20 DEF PNext, RxWork, TmWork, UsrWork

\* No wakeup is lost, for any number of TIDs, any buffer size and any
\* interleaving: while a TID holds a frame the flush timer is armed, or a
\* thread is about to flush that TID or to arm the timer.
THEOREM PathTimer == PSpec => []HoleHasTimer
<1>1. TimerInv => HoleHasTimer
  BY DEF TimerInv, HoleHasTimer, Stored, Watched
<1>2. PSpec => []RTypeOK
  BY PathImplementsReorder, ReorderType, PTL
<1>3. PSpec => []Hands
  BY InitHands, StepHands, PTL DEF PSpec
<1>4. PInit /\ []RTypeOK /\ []Hands /\ [][PNext]_vars => []TimerInv
  BY InitTimer, StepTimer, PTL
<1> QED
  BY <1>1, <1>2, <1>3, <1>4, PTL DEF PSpec

-----------------------------------------------------------------------------
(* The types of the threads.                                               *)

\* What an ADDBA request or the AP can put into rx.n is a number.
LEMMA FrameNat ==
    /\ \A t \in Tids : \A n \in Arrivals(t) : n \in Nat
    /\ \A req \in BufReqs \cup {0} : req \in Nat
  BY ReorderAssumption DEF Arrivals

\* The threads start with the types they keep.
LEMMA InitTypes == PInit => PTypeOK
<1> SUFFICES ASSUME PInit PROVE PTypeOK
  OBVIOUS
<1>1. 0 \in 0 .. NumTid /\ 0 \in Tids /\ 0 \in Nat
  BY Sizes DEF Tids
<1>2. flush.on = FALSE /\ tm.pc = "idle" /\ tm.again = FALSE
  BY DEF PInit, RInit, TmIdle
<1>3. rx = RxIdle /\ usr = UsrIdle /\ timer = "off" /\ up = TRUE /\ sta = TRUE
  BY DEF PInit
<1> QED
  BY <1>1, <1>2, <1>3 DEF PTypeOK, RxIdle, UsrIdle

\* Every step of a thread keeps the types.
LEMMA StepTypes == RTypeOK /\ RTypeOK' /\ Hands /\ PTypeOK /\ [PNext]_vars => PTypeOK'
<1> SUFFICES ASSUME RTypeOK, RTypeOK', Hands, PTypeOK, [PNext]_vars PROVE PTypeOK'
  OBVIOUS
<1> USE DEF Hands, Shapes, PTypeOK, RxIdle, TmIdle, UsrIdle
<1>0. NumTid \in Nat \ {0} /\ \A t \in Tids : t \in 0 .. NumTid
  BY Sizes DEF Tids
<1>1. CASE UNCHANGED vars
  BY <1>1 DEF vars, pvars, rvars
<1>2. ASSUME NEW t \in Tids, NEW n \in Arrivals(t), RxData(t, n) PROVE PTypeOK'
  BY <1>0, <1>2, FrameNat DEF RxData, rvars
<1>3. ASSUME NEW t \in Tids, NEW kind \in {"addba", "delba", "deauth"},
             NEW req \in BufReqs \cup {0}, RxMgmt(kind, t, req)
      PROVE  PTypeOK'
  BY <1>0, <1>3, FrameNat DEF RxMgmt, rvars
<1>4. CASE RxDeref
  BY <1>0, <1>4 DEF RxDeref, rvars
<1>16. CASE RxDeliver
  BY <1>16 DEF RxDeliver, rvars
<1>17. CASE RxArm
  BY <1>0, <1>17 DEF RxArm, rvars
<1>24. CASE RxReturn
  BY <1>0, <1>24 DEF RxReturn, rvars
<1>18. CASE RxDeauthEnd
  <2>1. /\ up' = FALSE /\ UNCHANGED <<flush, sta, tm, usr, timer>>
        /\ rx' = [pc |-> "idle", tid |-> 0, n |-> 0, ptr |-> "null", q |-> <<>>, arm |-> FALSE]
    BY <1>18 DEF RxDeauthEnd, rvars
  <2>2. up' \in BOOLEAN /\ rx'.arm \in BOOLEAN
    BY <2>1
  <2> QED BY <1>0, <2>1, <2>2
<1>5. CASE RxDirect
  BY <1>0, <1>5 DEF RxDirect, InputNoBa
<1>6. CASE RxInput
  <2>1. /\ UNCHANGED <<up, sta, tm, usr, timer>> /\ flush' = flush
        /\ rx.tid \in Tids
    BY <1>6 DEF RxInput, Input, InputStale, InputNoBa, FrameInHand
  <2>2. (rxBa'[rx.tid].stored > 0) \in BOOLEAN
    OBVIOUS
  <2>3. CASE rx' = RxIdle
    BY <1>0, <2>1, <2>3
  <2>4. CASE rx' = [rx EXCEPT !.pc = "deliver", !.q = OutSeq(out'), !.arm = rxBa'[rx.tid].stored > 0]
    BY <1>0, <2>1, <2>2, <2>4
  <2> QED BY <1>6, <2>3, <2>4 DEF RxInput
<1>7. CASE RxAddba
  BY <1>0, <1>7 DEF RxAddba, RxBaSetup, RxBaSetupNoMem
<1>8. CASE RxDelba
  BY <1>0, <1>8 DEF RxDelba, RxBaTeardown
<1>19. CASE RxDeauth
  <2>1. /\ UNCHANGED <<up, sta, tm, usr, timer>> /\ flush' = flush
        /\ rx' = [rx EXCEPT !.tid = rx.tid + 1]
    BY <1>19 DEF RxDeauth, RxBaTeardown
  <2>2. rx.tid + 1 \in 0 .. NumTid
    BY <1>0, <1>19 DEF RxDeauth
  <2> QED BY <2>1, <2>2
<1>9. CASE TmDue
  BY <1>9 DEF TmDue, rvars
<1>20. CASE TmFire
  BY <1>20 DEF TmFire, rvars
<1>21. CASE TmDeliver
  BY <1>21 DEF TmDeliver, rvars
<1>22. CASE TmReturn
  BY <1>22 DEF TmReturn, rvars
<1>10. CASE TmLock
  BY <1>10 DEF TmLock, FlushBegin
<1>23. CASE TmUnlock
  BY <1>23 DEF TmUnlock, FlushEnd
<1>11. ASSUME NEW t \in Tids, TmTid(t) PROVE PTypeOK'
  <2>1. /\ UNCHANGED <<up, sta, rx, usr, timer>> /\ tm.pc = "loop" /\ flush'.on = flush.on
    <3>1. PICK k : flush' = [flush EXCEPT !.tid = t + 1, !.nout = k] \/ flush' = [flush EXCEPT !.tid = t + 1]
      BY <1>11 DEF TmTid, FlushTid
    <3> QED BY <1>11, <3>1 DEF TmTid, RTypeOK
  <2>2. (rxBa'[t].stored > 0) \in BOOLEAN
    OBVIOUS
  <2>3. tm' = [tm EXCEPT !.again = @ \/ rxBa'[t].stored > 0]
    BY <1>11 DEF TmTid
  <2> QED BY <2>1, <2>2, <2>3
<1>12. ASSUME NEW goal \in {"up", "down"}, UsrBegin(goal) PROVE PTypeOK'
  <2>1. UNCHANGED <<rvars, up, rx, tm, timer>> /\ sta' = FALSE
    BY <1>12 DEF UsrBegin
  <2>2. usr'.pc \in {"unlink", "set"} /\ usr'.tid = 0
    BY <1>12 DEF UsrBegin
  <2>3. 0 \in Tids
    BY <1>0 DEF Tids
  <2>4. sta' \in BOOLEAN /\ up' \in BOOLEAN
    BY <2>1
  <2> QED BY <2>1, <2>2, <2>3, <2>4 DEF rvars
<1>13. CASE UsrUnlink
  BY <1>13 DEF UsrUnlink, RxBaTeardown
<1>14. CASE UsrFree
  <2>1. UNCHANGED <<rvars, up, sta, tm, timer>>
    BY <1>14 DEF UsrFree
  <2>2. rx' = [rx EXCEPT !.ptr = IF @ = "unlinked" THEN "freed" ELSE @]
    BY <1>14 DEF UsrFree
  <2>3. usr' = [usr EXCEPT !.pc  = IF usr.tid = NumTid - 1 THEN "set" ELSE "unlink",
                           !.tid = IF usr.tid = NumTid - 1 THEN 0 ELSE @ + 1]
    BY <1>14 DEF UsrFree
  <2>4. 0 \in Tids /\ (usr.tid # NumTid - 1 => usr.tid + 1 \in Tids)
    BY <1>0 DEF Tids
  <2>5. usr'.pc \in {"unlink", "set"} /\ usr'.tid \in Tids
    BY <2>3, <2>4
  <2> QED BY <2>1, <2>2, <2>5 DEF rvars
<1>15. CASE UsrSet
  BY <1>0, <1>15 DEF UsrSet, rvars, Tids
<1> HIDE DEF Hands, Shapes, PTypeOK, RxIdle, TmIdle, UsrIdle
<1> QED
  BY <1>1, <1>2, <1>3, <1>4, <1>5, <1>6, <1>7, <1>8, <1>9, <1>10, <1>11, <1>12, <1>13, <1>14, <1>15,
     <1>16, <1>17, <1>18, <1>19, <1>20, <1>21, <1>22, <1>23, <1>24
     DEF PNext, RxWork, TmWork, UsrWork

\* The threads of the receive path keep their types: no TID out of range is ever
\* used to index _rxBa, and the timer's loop runs exactly while it has the lock.
THEOREM PathTypes == PSpec => []PTypeOK
<1>1. PSpec => []RTypeOK
  BY PathImplementsReorder, ReorderType, PTL
<1>2. PSpec => []Hands
  BY InitHands, StepHands, PTL DEF PSpec
<1>3. PInit /\ []RTypeOK /\ []Hands /\ [][PNext]_vars => []PTypeOK
  BY InitTypes, StepTypes, PTL
<1> QED
  BY <1>1, <1>2, <1>3, PTL DEF PSpec

-----------------------------------------------------------------------------
(* Sequences of frames.                                                    *)

Distinct(q) == \A i, j \in 1 .. Len(q) : q[i] = q[j] => i = j

\* Taking the first frame off a queue takes that frame from it and no other.
LEMMA TailPending ==
    ASSUME NEW S, NEW q \in Seq(S), q # <<>>, Distinct(q)
    PROVE  /\ Head(q) \in Pending(q) /\ Head(q) \in S
           /\ Tail(q) \in Seq(S) /\ Distinct(Tail(q))
           /\ Pending(Tail(q)) = Pending(q) \ {Head(q)}
<1>1. /\ Head(q) \in S /\ Tail(q) \in Seq(S) /\ Head(q) = q[1]
      /\ Len(q) \in Nat \ {0} /\ Len(Tail(q)) = Len(q) - 1
      /\ \A i \in 1 .. Len(q) - 1 : Tail(q)[i] = q[i + 1]
  OBVIOUS
<1>2. Head(q) \in Pending(q)
  BY <1>1 DEF Pending
<1>3. \A i \in 1 .. Len(q) - 1 : i + 1 \in 1 .. Len(q) /\ i + 1 # 1 /\ 1 \in 1 .. Len(q)
  BY <1>1
<1>4. \A i \in 1 .. Len(q) : i # 1 => i - 1 \in 1 .. Len(q) - 1 /\ (i - 1) + 1 = i
  BY <1>1
<1>5. Distinct(Tail(q))
  <2> SUFFICES ASSUME NEW i \in 1 .. Len(q) - 1, NEW j \in 1 .. Len(q) - 1,
                      Tail(q)[i] = Tail(q)[j]
               PROVE  i = j
    BY <1>1 DEF Distinct
  <2>1. q[i + 1] = q[j + 1]
    BY <1>1
  <2>2. i + 1 = j + 1
    BY <1>3, <2>1 DEF Distinct
  <2> QED BY <2>2
<1>6. ASSUME NEW f \in Pending(Tail(q)) PROVE f \in Pending(q) /\ f # Head(q)
  <2>1. PICK i \in 1 .. Len(q) - 1 : f = q[i + 1]
    BY <1>1, <1>6 DEF Pending
  <2>2. f \in Pending(q)
    BY <1>3, <2>1 DEF Pending
  <2>3. q[i + 1] # q[1]
    BY <1>3 DEF Distinct
  <2> QED BY <1>1, <2>1, <2>2, <2>3
<1>7. ASSUME NEW f \in Pending(q), f # Head(q) PROVE f \in Pending(Tail(q))
  <2>1. PICK i \in 1 .. Len(q) : f = q[i]
    BY <1>7 DEF Pending
  <2>2. i - 1 \in 1 .. Len(q) - 1 /\ (i - 1) + 1 = i
    BY <1>1, <1>4, <1>7, <2>1
  <2>3. Tail(q)[i - 1] = f
    BY <1>1, <2>1, <2>2
  <2> QED BY <1>1, <2>2, <2>3 DEF Pending
<1> QED
  BY <1>1, <1>2, <1>5, <1>6, <1>7

\* Adding a frame that is not there yet.
LEMMA AppendPending ==
    ASSUME NEW S, NEW q \in Seq(S), NEW n \in S
    PROVE  /\ Append(q, n) \in Seq(S)
           /\ Pending(Append(q, n)) = Pending(q) \cup {n}
           /\ Distinct(q) /\ n \notin Pending(q) => Distinct(Append(q, n))
<1>1. /\ Append(q, n) \in Seq(S) /\ Len(Append(q, n)) = Len(q) + 1
      /\ \A i \in 1 .. Len(q) : Append(q, n)[i] = q[i]
      /\ Append(q, n)[Len(q) + 1] = n
  OBVIOUS
<1>2. Len(q) \in Nat /\ 1 .. Len(q) + 1 = (1 .. Len(q)) \cup {Len(q) + 1}
  OBVIOUS
<1>3. Pending(Append(q, n)) = Pending(q) \cup {n}
  BY <1>1, <1>2 DEF Pending
<1>4. Distinct(q) /\ n \notin Pending(q) => Distinct(Append(q, n))
  BY <1>1, <1>2 DEF Pending, Distinct
<1> QED
  BY <1>1, <1>3, <1>4

-----------------------------------------------------------------------------
(* The order in which out[] is delivered.                                  *)

\* The frames of out[]: pairs of a TID and a number, finitely many.
LEMMA OutFramesOK ==
    ASSUME NEW o, \A t \in Tids : o[t] \in SUBSET Nat /\ IsFiniteSet(o[t])
    PROVE  /\ OutFrames(o) \subseteq Tids \X Nat
           /\ \A f : f \in OutFrames(o) <=> \E t \in Tids : \E n \in o[t] : f = <<t, n>>
           /\ IsFiniteSet(OutFrames(o))
<1> DEFINE Of(t) == {<<t, n>> : n \in o[t]}
           Parts == {Of(t) : t \in Tids}
<1>1. OutFrames(o) = UNION Parts
  BY DEF OutFrames
<1>2. \A f : f \in OutFrames(o) <=> \E t \in Tids : \E n \in o[t] : f = <<t, n>>
  BY DEF OutFrames
<1>3. ASSUME NEW t \in Tids PROVE IsFiniteSet(Of(t))
  <2> DEFINE g == [n \in o[t] |-> <<t, n>>]
  <2>1. g \in Surjection(o[t], Of(t))
    BY DEF Surjection
  <2> HIDE DEF g
  <2> QED BY <2>1, FS_Surjection
<1>4. IsFiniteSet(Tids)
  BY Sizes, FS_Interval DEF Tids
<1>5. IsFiniteSet(Parts)
  <2> DEFINE g == [t \in Tids |-> Of(t)]
  <2>1. g \in Surjection(Tids, Parts)
    <3> HIDE DEF Of
    <3> QED BY DEF Surjection
  <2> HIDE DEF g, Parts
  <2> QED BY <1>4, <2>1, FS_Surjection
<1>6. \A P \in Parts : IsFiniteSet(P)
  BY <1>3
<1>7. IsFiniteSet(UNION Parts)
  <2> HIDE DEF Parts
  <2> QED BY <1>5, <1>6, FS_UNION
<1>8. OutFrames(o) \subseteq Tids \X Nat
  BY <1>2
<1> QED
  BY <1>1, <1>2, <1>7, <1>8

\* Before orders the frames.
LEMMA BeforeOrders ==
    /\ \A a \in Tids \X Nat : ~Before(a, a)
    /\ \A a, b, c \in Tids \X Nat : Before(a, b) /\ Before(b, c) => Before(a, c)
    /\ \A a, b \in Tids \X Nat : a # b => Before(a, b) \/ Before(b, a)
<1>1. \A a \in Tids \X Nat : a = <<a[1], a[2]>> /\ a[1] \in Int /\ a[2] \in Int
  BY Sizes DEF Tids
<1>2. \A a, b \in Tids \X Nat : a # b => a[1] # b[1] \/ a[2] # b[2]
  BY <1>1
<1> QED
  BY <1>1, <1>2 DEF Before

\* OutSeq lists every frame of out[] exactly once.
LEMMA OutSeqOK ==
    ASSUME NEW o, \A t \in Tids : o[t] \in SUBSET Nat /\ IsFiniteSet(o[t])
    PROVE  /\ OutSeq(o) \in Seq(Tids \X Nat)
           /\ Pending(OutSeq(o)) = OutFrames(o)
           /\ Distinct(OutSeq(o))
<1> DEFINE F == OutFrames(o)
           N == Cardinality(F)
           Lower(a) == {b \in F : Before(b, a)}
           rank == [a \in F |-> Cardinality(Lower(a))]
<1>1. F \subseteq Tids \X Nat /\ IsFiniteSet(F)
  BY OutFramesOK
<1>2. OutSeq(o) = [i \in 1 .. N |-> CHOOSE a \in F : Cardinality(Lower(a)) = i - 1]
  BY DEF OutSeq
<1> HIDE DEF F
<1>3. N \in Nat
  BY <1>1, FS_CardinalityType
<1>4. ASSUME NEW a \in F
      PROVE  IsFiniteSet(Lower(a)) /\ Cardinality(Lower(a)) \in 0 .. N - 1
  <2>1. Lower(a) \in SUBSET F /\ a \notin Lower(a)
    BY <1>1, BeforeOrders
  <2> HIDE DEF Lower
  <2>2. IsFiniteSet(Lower(a)) /\ Cardinality(Lower(a)) <= N
    BY <1>1, <2>1, FS_Subset
  <2>3. Cardinality(Lower(a)) # N
    BY <1>1, <2>1, FS_Subset
  <2>4. Cardinality(Lower(a)) \in Nat
    BY <2>2, FS_CardinalityType
  <2> QED BY <1>3, <2>2, <2>3, <2>4
<1>5. ASSUME NEW a \in F, NEW b \in F, Before(a, b)
      PROVE  Cardinality(Lower(a)) # Cardinality(Lower(b))
  <2>1. Lower(a) \in SUBSET Lower(b) /\ a \in Lower(b) /\ a \notin Lower(a)
    BY <1>1, <1>5, BeforeOrders
  <2>2. IsFiniteSet(Lower(b))
    BY <1>4
  <2> HIDE DEF Lower
  <2> QED BY <2>1, <2>2, FS_Subset
<1>6. \A a, b \in F : rank[a] = rank[b] => a = b
  BY <1>1, <1>5, BeforeOrders
<1>7. rank \in Injection(F, 0 .. N - 1)
  BY <1>4, <1>6 DEF Injection, IsInjective
<1>8. IsFiniteSet(0 .. N - 1) /\ Cardinality(0 .. N - 1) = N
  BY <1>3, FS_Interval
<1>9. rank \in Surjection(F, 0 .. N - 1)
  <2> HIDE DEF rank
  <2> QED BY <1>7, <1>8, FS_Injection
<1>10. \A i \in 1 .. N : \E a \in F : Cardinality(Lower(a)) = i - 1
  <2> SUFFICES ASSUME NEW i \in 1 .. N PROVE \E a \in F : Cardinality(Lower(a)) = i - 1
    OBVIOUS
  <2>1. i - 1 \in 0 .. N - 1
    BY <1>3
  <2>2. PICK a \in F : rank[a] = i - 1
    BY <1>9, <2>1 DEF Surjection
  <2> QED BY <2>2
<1>11. \A i \in 1 .. N : OutSeq(o)[i] \in F /\ Cardinality(Lower(OutSeq(o)[i])) = i - 1
  BY <1>2, <1>10
<1>12. OutSeq(o) \in Seq(Tids \X Nat) /\ Len(OutSeq(o)) = N
  <2>1. OutSeq(o) \in [1 .. N -> Tids \X Nat]
    <3>1. \A i \in 1 .. N : OutSeq(o)[i] \in Tids \X Nat
      BY <1>1, <1>11
    <3>2. DOMAIN OutSeq(o) = 1 .. N
      BY <1>2
    <3>3. OutSeq(o) = [i \in 1 .. N |-> OutSeq(o)[i]]
      BY <1>2
    <3> QED BY <3>1, <3>3
  <2> QED BY <1>3, <2>1
<1>13. Distinct(OutSeq(o))
  <2> SUFFICES ASSUME NEW i \in 1 .. N, NEW j \in 1 .. N, OutSeq(o)[i] = OutSeq(o)[j]
               PROVE  i = j
    BY <1>12 DEF Distinct
  <2>1. i - 1 = j - 1
    BY <1>11
  <2> QED BY <1>3, <2>1
<1>14. ASSUME NEW f \in F PROVE f \in Pending(OutSeq(o))
  <2> DEFINE i == Cardinality(Lower(f)) + 1
  <2>1. i \in 1 .. N /\ Cardinality(Lower(f)) = i - 1
    <3>1. Cardinality(Lower(f)) \in 0 .. N - 1
      BY <1>4
    <3> HIDE DEF Lower
    <3> QED BY <1>3, <3>1
  <2>2. OutSeq(o)[i] \in F /\ Cardinality(Lower(OutSeq(o)[i])) = Cardinality(Lower(f))
    BY <1>11, <2>1
  <2>3. OutSeq(o)[i] = f
    BY <1>6, <2>2
  <2> QED BY <1>12, <2>1, <2>3 DEF Pending
<1>15. ASSUME NEW f \in Pending(OutSeq(o)) PROVE f \in F
  BY <1>11, <1>12, <1>15 DEF Pending
<1> QED
  BY <1>12, <1>13, <1>14, <1>15 DEF F

-----------------------------------------------------------------------------
(* A frame is delivered once.                                              *)

\* The number below which every frame of TID t has left its buffer, or never
\* was in one: the head of the agreement, or else the AP's next number.
Front(t) == IF rxBa[t].active THEN headAbs[t] ELSE peer[t]

\* F holds only frames below the fronts.
Fronts      == [t \in Tids |-> Front(t)]
Past(F, fr) == \A f \in F : f \in Tids \X Nat /\ f[2] < fr[f[1]]

\* The frames the timer's loop has put into out[] and not yet into its queue.
FlushOut == IF flush.on THEN OutFrames(out) ELSE {}

Apart(A, B, C, D) ==
    A \cap B = {} /\ A \cap C = {} /\ A \cap D = {} /\ B \cap C = {} /\ B \cap D = {} /\ C \cap D = {}

OnceTypes ==
    /\ rx.q \in Seq(Tids \X Nat) /\ tm.q \in Seq(Tids \X Nat)
    /\ stack \in [Tids -> Seq(Nat)]
    /\ flush.on => \A t \in Tids : IsFiniteSet(out[t])
    /\ rx.pc # "deliver" => rx.q = <<>>
    /\ tm.pc # "deliver" => tm.q = <<>>

OnceInv ==
    /\ OnceTypes
    /\ Distinct(rx.q) /\ Distinct(tm.q) /\ \A t \in Tids : Distinct(stack[t])
    /\ Apart(Pending(rx.q), Pending(tm.q), Given, FlushOut)
    /\ Past(Pending(rx.q), Fronts) /\ Past(Pending(tm.q), Fronts)
    /\ Past(Given, Fronts) /\ Past(FlushOut, Fronts)

\* An empty queue has no frame.
LEMMA EmptyQueue ==
    <<>> \in Seq(Tids \X Nat) /\ Pending(<<>>) = {} /\ Distinct(<<>>)
  BY DEF Pending, Distinct

\* A front is a number.
LEMMA FrontNat == RTypeOK => \A t \in Tids : Front(t) \in Nat
  BY DEF RTypeOK, Front

\* What has passed the front stays behind it.
LEMMA PastStays ==
    ASSUME RTypeOK, RTypeOK', \A t \in Tids : Front(t) <= Front(t)', NEW F, Past(F, Fronts)
    PROVE  Past(F, Fronts')
<1> SUFFICES ASSUME NEW f \in F PROVE f \in Tids \X Nat /\ f[2] < Front(f[1])'
  BY DEF Past, Fronts
<1>1. f \in Tids \X Nat /\ f[2] < Front(f[1])
  BY DEF Past, Fronts
<1>2. Front(f[1]) \in Nat /\ Front(f[1])' \in Nat /\ f[2] \in Nat /\ Front(f[1]) <= Front(f[1])'
  BY <1>1 DEF RTypeOK, Front
<1> QED BY <1>1, <1>2

\* The front of a TID never goes back: not when an agreement is set up again,
\* torn down, or passed by.
LEMMA FrontGrows ==
    ASSUME RInv, RInv', [RNext]_rvars
    PROVE  \A t \in Tids : Front(t) <= Front(t)'
<1> SUFFICES ASSUME NEW t \in Tids PROVE Front(t) <= Front(t)'
  OBVIOUS
<1>1. /\ RTypeOK /\ RTypeOK' /\ headAbs[t] \in Nat /\ headAbs'[t] \in Nat
      /\ peer[t] \in Nat /\ peer'[t] \in Nat /\ Front(t) \in Nat /\ Front(t)' \in Nat
  BY DEF RInv, RTypeOK, Front
<1>2. Front(t) <= peer[t]
  BY <1>1 DEF RInv, TidInv, Front
<1>3. ASSUME rxBa'[t] = rxBa[t], headAbs'[t] = headAbs[t], peer[t] <= peer'[t]
      PROVE  Front(t) <= Front(t)'
  BY <1>1, <1>3 DEF Front
<1>4. ASSUME NEW u \in Tids, NEW n \in Arrivals(u), Arrive(u, n) PROVE peer[t] <= peer'[t]
  BY <1>1, <1>4, ArrivalRange, ArriveStep
<1>5. ASSUME NEW u \in Tids, NEW req \in BufReqs, RxBaSetup(u, req) PROVE Front(t) <= Front(t)'
  <2>1. CASE u = t
    <3>1. headAbs'[t] = peer[t] /\ rxBa'[t].active
      BY <1>1, <1>5, <2>1 DEF RxBaSetup, NewBa, RTypeOK
    <3> QED BY <1>2, <3>1 DEF Front
  <2>2. CASE u # t
    <3>1. rxBa'[t] = rxBa[t] /\ headAbs'[t] = headAbs[t] /\ peer[t] <= peer'[t]
      BY <1>1, <1>5, <2>2 DEF RxBaSetup, RTypeOK
    <3> QED BY <3>1, <1>3
  <2> QED BY <2>1, <2>2
<1>6. ASSUME NEW u \in Tids, RxBaTeardown(u) PROVE Front(t) <= Front(t)'
  <2>1. CASE u = t
    <3>1. peer'[t] = peer[t] /\ ~rxBa'[t].active
      BY <1>1, <1>6, <2>1, NoBaOK DEF RxBaTeardown, RTypeOK
    <3> QED BY <1>2, <3>1 DEF Front
  <2>2. CASE u # t
    <3>1. rxBa'[t] = rxBa[t] /\ headAbs'[t] = headAbs[t] /\ peer[t] <= peer'[t]
      BY <1>1, <1>6, <2>2 DEF RxBaTeardown, RTypeOK
    <3> QED BY <3>1, <1>3
  <2> QED BY <2>1, <2>2
<1>7. ASSUME NEW u \in Tids, NEW n \in Arrivals(u), Input(u, n) PROVE Front(t) <= Front(t)'
  <2>1. peer[t] <= peer'[t]
    BY <1>4, <1>7 DEF Input
  <2>2. CASE u = t
    <3>1. rxBa[t].active /\ rxBa'[t].active /\ headAbs[t] <= headAbs'[t]
      BY <1>7, <2>2, InputStep DEF Input
    <3> QED BY <3>1 DEF Front
  <2>3. CASE u # t
    <3>1. rxBa'[t] = rxBa[t] /\ headAbs'[t] = headAbs[t]
      BY <1>7, <2>3, InputStep
    <3> QED BY <2>1, <3>1, <1>3
  <2> QED BY <2>2, <2>3
<1>8. ASSUME NEW u \in Tids, FlushTid(u) PROVE Front(t) <= Front(t)'
  <2>1. peer[t] <= peer'[t]
    BY <1>1, <1>8 DEF FlushTid
  <2>2. CASE rxBa[u].active /\ rxBa[u].stored > 0
    <3>1. CASE u = t
      <4>1. rxBa'[t].active /\ headAbs[t] <= headAbs'[t]
        BY <1>8, <2>2, <3>1, FlushStep
      <4> QED BY <2>2, <3>1, <4>1 DEF Front
    <3>2. CASE u # t
      <4>1. rxBa'[t] = rxBa[t] /\ headAbs'[t] = headAbs[t]
        BY <1>8, <2>2, <3>2, FlushStep
      <4> QED BY <2>1, <4>1, <1>3
    <3> QED BY <3>1, <3>2
  <2>3. CASE ~(rxBa[u].active /\ rxBa[u].stored > 0)
    <3>1. rxBa' = rxBa /\ headAbs' = headAbs
      BY <1>8, <2>3 DEF FlushTid
    <3> QED BY <2>1, <3>1, <1>3
  <2> QED BY <2>2, <2>3
<1>9. ASSUME NEW u \in Tids, NEW n \in Arrivals(u), InputStale(u, n) \/ InputNoBa(u, n)
      PROVE  Front(t) <= Front(t)'
  BY <1>3, <1>4, <1>9 DEF InputStale, InputNoBa
<1>10. ASSUME UNCHANGED <<rxBa, headAbs, peer>> PROVE Front(t) <= Front(t)'
  BY <1>1, <1>3, <1>10
<1> QED
  BY <1>5, <1>6, <1>7, <1>8, <1>9, <1>10 DEF RNext, rvars, RxBaSetupNoMem, FlushBegin, FlushEnd

\* The frames given to injectRxFrame, one by one.
LEMMA GivenHas ==
    \A f : f \in Given <=> \E t \in Tids : \E i \in 1 .. Len(stack[t]) : f = <<t, stack[t][i]>>
  BY DEF Given

\* injectRxFrame is given one frame more.
LEMMA GivePut ==
    ASSUME stack \in [Tids -> Seq(Nat)], NEW f \in Tids \X Nat, f \notin Given,
           stack' = [stack EXCEPT ![f[1]] = Append(@, f[2])]
    PROVE  /\ stack' \in [Tids -> Seq(Nat)]
           /\ Given' = Given \cup {f}
           /\ (\A t \in Tids : Distinct(stack[t])) => \A t \in Tids : Distinct(stack'[t])
<1> DEFINE t == f[1]
           n == f[2]
<1>1. /\ f = <<t, n>> /\ t \in Tids /\ n \in Nat /\ stack[t] \in Seq(Nat)
      /\ stack'[t] = Append(stack[t], n)
      /\ \A u \in Tids : u # t => stack'[u] = stack[u]
  OBVIOUS
<1>2. Append(stack[t], n) \in Seq(Nat)
  BY <1>1, AppendPending
<1>3. n \notin Pending(stack[t])
  <2>1. \A i \in 1 .. Len(stack[t]) : <<t, stack[t][i]>> \in Given
    BY <1>1, GivenHas
  <2> QED BY <1>1, <2>1 DEF Pending
<1>4. /\ Pending(stack'[t]) = Pending(stack[t]) \cup {n}
      /\ Distinct(stack[t]) => Distinct(stack'[t])
  BY <1>1, <1>3, AppendPending
<1> HIDE DEF t, n
<1>5. stack' \in [Tids -> Seq(Nat)]
  BY <1>1, <1>2 DEF t, n
<1>6. \A g : g \in Given <=> \E u \in Tids : \E x \in Pending(stack[u]) : g = <<u, x>>
  BY GivenHas DEF Pending
<1>7. \A g : g \in Given' <=> \E u \in Tids : \E x \in Pending(stack'[u]) : g = <<u, x>>
  BY DEF Given, Pending
<1>8. ASSUME NEW g \in Given' PROVE g \in Given \cup {f}
  <2>1. PICK u \in Tids : \E x \in Pending(stack'[u]) : g = <<u, x>>
    BY <1>7, <1>8
  <2>2. CASE u = t
    BY <1>1, <1>4, <1>6, <2>1, <2>2
  <2>3. CASE u # t
    BY <1>1, <1>6, <2>1, <2>3
  <2> QED BY <2>2, <2>3
<1>9. ASSUME NEW g \in Given \cup {f} PROVE g \in Given'
  <2>1. CASE g = f
    BY <1>1, <1>4, <1>7, <2>1
  <2>2. CASE g \in Given
    <3>1. PICK u \in Tids : \E x \in Pending(stack[u]) : g = <<u, x>>
      BY <1>6, <2>2
    <3>2. \E x \in Pending(stack'[u]) : g = <<u, x>>
      BY <1>1, <1>4, <3>1
    <3> QED BY <1>7, <3>2
  <2> QED BY <1>9, <2>1, <2>2
<1>10. (\A u \in Tids : Distinct(stack[u])) => \A u \in Tids : Distinct(stack'[u])
  BY <1>1, <1>4
<1> QED
  BY <1>5, <1>8, <1>9, <1>10

\* A step that moves no frame between the places of OnceInv.
LEMMA OnceKeeps ==
    ASSUME OnceInv, RTypeOK, RTypeOK', \A t \in Tids : Front(t) <= Front(t)',
           rx'.q = rx.q, tm'.q = tm.q, stack' = stack, FlushOut' = FlushOut,
           flush'.on => \A t \in Tids : IsFiniteSet(out'[t]),
           rx'.pc # "deliver" => rx'.q = <<>>,
           tm'.pc # "deliver" => tm'.q = <<>>
    PROVE  OnceInv'
<1>1. Given' = Given /\ Pending(rx'.q) = Pending(rx.q) /\ Pending(tm'.q) = Pending(tm.q)
  BY DEF Given
<1>2. OnceTypes'
  BY DEF OnceInv, OnceTypes
<1>3. /\ Past(Pending(rx'.q), Fronts') /\ Past(Pending(tm'.q), Fronts')
      /\ Past(Given', Fronts') /\ Past(FlushOut', Fronts')
  <2>1. /\ Past(Pending(rx.q), Fronts) /\ Past(Pending(tm.q), Fronts)
        /\ Past(Given, Fronts) /\ Past(FlushOut, Fronts)
    BY DEF OnceInv
  <2>2. \A F : Past(F, Fronts) => Past(F, Fronts')
    BY PastStays
  <2> QED BY <1>1, <2>1, <2>2
<1> QED
  BY <1>1, <1>2, <1>3 DEF OnceInv

\* No frame has left the buffers at first.
LEMMA InitOnce == PInit => OnceInv
<1> SUFFICES ASSUME PInit PROVE OnceInv
  OBVIOUS
<1>1. rx.q = <<>> /\ tm.q = <<>> /\ flush.on = FALSE /\ stack = [t \in Tids |-> <<>>]
  BY DEF PInit, RInit, RxIdle, TmIdle
<1>2. OnceTypes
  BY <1>1, EmptyQueue DEF OnceTypes
<1>3. Given = {} /\ FlushOut = {}
  BY <1>1 DEF Given, FlushOut
<1>4. \A t \in Tids : Distinct(stack[t])
  BY <1>1, EmptyQueue
<1> QED
  BY <1>1, <1>2, <1>3, <1>4, EmptyQueue DEF OnceInv, Apart, Past

\* A locked section that puts nothing into out[] for its caller to deliver.
LEMMA OnceSection ==
    ASSUME OnceInv, RTypeOK, RTypeOK', \A t \in Tids : Front(t) <= Front(t)',
           LockFree, flush' = flush, rx'.q = rx.q, tm' = tm, stack' = stack,
           rx'.pc # "deliver" => rx'.q = <<>>
    PROVE  OnceInv'
<1>1. FlushOut = {} /\ FlushOut' = {} /\ ~flush'.on
  BY DEF LockFree, FlushOut
<1>2. tm'.q = tm.q /\ (tm'.pc # "deliver" => tm'.q = <<>>)
  BY DEF OnceInv, OnceTypes
<1> QED BY <1>1, <1>2, OnceKeeps

\* The locked section of rxReorderInput hands over what the head has passed.
LEMMA OnceInput ==
    ASSUME OnceInv, RInv, RInv', \A t \in Tids : Front(t) <= Front(t)',
           NEW t \in Tids, NEW n \in Arrivals(t), Input(t, n),
           rx.q = <<>>, rx'.q = OutSeq(out'), rx'.pc = "deliver", tm' = tm, stack' = stack
    PROVE  OnceInv'
<1>1. RTypeOK /\ RTypeOK'
  BY DEF RInv
<1>2. /\ \A x \in out'[t] : headAbs[t] <= x /\ x < headAbs'[t]
      /\ rxBa[t].active /\ rxBa'[t].active /\ IsFiniteSet(out'[t])
      /\ \A u \in Tids : u # t => out'[u] = {}
  BY InputStep DEF Input
<1>3. \A u \in Tids : out'[u] \in SUBSET Nat /\ IsFiniteSet(out'[u])
  BY <1>1, <1>2, FS_EmptySet DEF RTypeOK
<1>4. /\ rx'.q \in Seq(Tids \X Nat) /\ Pending(rx'.q) = OutFrames(out') /\ Distinct(rx'.q)
  BY <1>3, OutSeqOK
<1>5. \A f : f \in OutFrames(out') <=> \E u \in Tids : \E x \in out'[u] : f = <<u, x>>
  BY <1>3, OutFramesOK
<1>6. ASSUME NEW f \in OutFrames(out')
      PROVE  /\ f \in Tids \X Nat /\ f[2] < Front(f[1])'
             /\ ~(f[2] < Front(f[1]))
  <2>1. PICK x \in out'[t] : f = <<t, x>>
    BY <1>2, <1>5
  <2>2. x \in Nat /\ headAbs[t] <= x /\ x < headAbs'[t] /\ headAbs[t] \in Nat /\ headAbs'[t] \in Nat
    BY <1>1, <1>2, <1>3 DEF RTypeOK
  <2>3. Front(t) = headAbs[t] /\ Front(t)' = headAbs'[t]
    BY <1>2 DEF Front
  <2> QED BY <2>1, <2>2, <2>3
<1>7. FlushOut = {} /\ FlushOut' = {} /\ ~flush'.on
  BY DEF Input, LockFree, FlushOut
<1>8. Given' = Given /\ tm'.q = tm.q
  BY DEF Given
<1>9. OnceTypes'
  BY <1>4, <1>7 DEF OnceInv, OnceTypes
<1>10. Past(OutFrames(out'), Fronts')
  BY <1>6 DEF Past, Fronts
<1>11. /\ Past(Pending(tm.q), Fronts) /\ Past(Given, Fronts)
       /\ Past(Pending(tm'.q), Fronts') /\ Past(Given', Fronts') /\ Past({}, Fronts')
  <2>1. Past(Pending(tm.q), Fronts) /\ Past(Given, Fronts)
    BY DEF OnceInv
  <2>2. \A F : Past(F, Fronts) => Past(F, Fronts')
    BY <1>1, PastStays
  <2>3. Past({}, Fronts')
    BY DEF Past
  <2> QED BY <1>8, <2>1, <2>2, <2>3
<1>12. OutFrames(out') \cap Pending(tm.q) = {} /\ OutFrames(out') \cap Given = {}
  BY <1>6, <1>11 DEF Past, Fronts
<1>13. Apart(OutFrames(out'), Pending(tm.q), Given, {})
  BY <1>12 DEF OnceInv, Apart
<1> QED
  BY <1>4, <1>7, <1>8, <1>9, <1>10, <1>11, <1>13 DEF OnceInv

\* One TID of the flush loop.
LEMMA OnceFlush ==
    ASSUME OnceInv, RInv, RInv', \A t \in Tids : Front(t) <= Front(t)',
           NEW t \in Tids, FlushTid(t), rxBa[t].active, rxBa[t].stored > 0,
           rx' = rx, tm'.q = tm.q, tm'.pc = tm.pc, stack' = stack
    PROVE  OnceInv'
<1>1. RTypeOK /\ RTypeOK'
  BY DEF RInv
<1>2. /\ \A x \in out'[t] : headAbs[t] <= x /\ x < headAbs'[t]
      /\ rxBa'[t].active /\ IsFiniteSet(out'[t])
      /\ \A u \in Tids : u # t => out'[u] = out[u]
  BY FlushStep
<1>3. flush.on
  BY DEF FlushTid
<1>4. /\ \A u \in Tids : out[u] \in SUBSET Nat /\ IsFiniteSet(out[u])
      /\ \A u \in Tids : out'[u] \in SUBSET Nat /\ IsFiniteSet(out'[u])
  BY <1>1, <1>2, <1>3 DEF RTypeOK, OnceInv, OnceTypes
<1>5. /\ \A f : f \in OutFrames(out) <=> \E u \in Tids : \E x \in out[u] : f = <<u, x>>
      /\ \A f : f \in OutFrames(out') <=> \E u \in Tids : \E x \in out'[u] : f = <<u, x>>
  BY <1>4, OutFramesOK
<1> DEFINE New == {<<t, x>> : x \in out'[t]}
<1>6. ASSUME NEW f \in New
      PROVE  f \in Tids \X Nat /\ f[2] < Front(f[1])' /\ ~(f[2] < Front(f[1]))
  <2>1. PICK x \in out'[t] : f = <<t, x>>
    OBVIOUS
  <2>2. x \in Nat /\ headAbs[t] <= x /\ x < headAbs'[t] /\ headAbs[t] \in Nat /\ headAbs'[t] \in Nat
    BY <1>1, <1>2, <1>4 DEF RTypeOK
  <2>3. Front(t) = headAbs[t] /\ Front(t)' = headAbs'[t]
    BY <1>2 DEF Front
  <2> QED BY <2>1, <2>2, <2>3
<1>7. OutFrames(out') \subseteq OutFrames(out) \cup New
  <2> SUFFICES ASSUME NEW f \in OutFrames(out') PROVE f \in OutFrames(out) \cup New
    OBVIOUS
  <2>1. PICK u \in Tids : \E x \in out'[u] : f = <<u, x>>
    BY <1>5
  <2>2. CASE u = t
    BY <2>1, <2>2
  <2>3. CASE u # t
    BY <1>2, <1>5, <2>1, <2>3
  <2> QED BY <2>2, <2>3
<1> HIDE DEF New
<1>8. FlushOut = OutFrames(out) /\ FlushOut' \subseteq OutFrames(out) \cup New
  BY <1>3, <1>7 DEF FlushOut
<1>9. Given' = Given /\ rx'.q = rx.q /\ tm'.q = tm.q
  BY DEF Given
<1>10. OnceTypes'
  BY <1>4 DEF OnceInv, OnceTypes
<1>11. /\ Past(Pending(rx.q), Fronts) /\ Past(Pending(tm.q), Fronts) /\ Past(Given, Fronts)
       /\ Past(Pending(rx'.q), Fronts') /\ Past(Pending(tm'.q), Fronts')
       /\ Past(Given', Fronts') /\ Past(OutFrames(out), Fronts')
  <2>1. /\ Past(Pending(rx.q), Fronts) /\ Past(Pending(tm.q), Fronts)
        /\ Past(Given, Fronts) /\ Past(OutFrames(out), Fronts)
    BY <1>8 DEF OnceInv
  <2>2. \A F : Past(F, Fronts) => Past(F, Fronts')
    BY <1>1, PastStays
  <2> QED BY <1>9, <2>1, <2>2
<1>12. Past(FlushOut', Fronts')
  BY <1>6, <1>8, <1>11 DEF Past, Fronts
<1>13. New \cap Pending(rx.q) = {} /\ New \cap Pending(tm.q) = {} /\ New \cap Given = {}
  BY <1>6, <1>11 DEF Past, Fronts
<1>14. Apart(Pending(rx.q), Pending(tm.q), Given, FlushOut')
  BY <1>8, <1>13 DEF OnceInv, Apart
<1> QED
  BY <1>9, <1>10, <1>11, <1>12, <1>14 DEF OnceInv

\* No step of a thread duplicates a frame.
LEMMA StepOnce ==
    ASSUME OnceInv, RInv, RInv', Hands, [PNext]_vars
    PROVE  OnceInv'
<1>1. RTypeOK /\ RTypeOK' /\ \A t \in Tids : Front(t) <= Front(t)'
  BY StepRefines, FrontGrows DEF RInv
<1>2. /\ rx.q \in Seq(Tids \X Nat) /\ tm.q \in Seq(Tids \X Nat) /\ stack \in [Tids -> Seq(Nat)]
      /\ rx.pc # "deliver" => rx.q = <<>>
      /\ tm.pc # "deliver" => tm.q = <<>>
      /\ flush.on => \A t \in Tids : IsFiniteSet(out[t])
  BY DEF OnceInv, OnceTypes
<1>3. Shapes
  BY DEF Hands
<1> DEFINE Still(x, y) == x.q = y.q /\ (x.pc # "deliver" => x.q = <<>>)
<1>4. ASSUME UNCHANGED <<rvars, stack>>, Still(rx', rx), Still(tm', tm) PROVE OnceInv'
  <2>1. FlushOut' = FlushOut /\ (flush'.on => \A t \in Tids : IsFiniteSet(out'[t]))
    BY <1>2, <1>4 DEF FlushOut, rvars
  <2> QED BY <1>1, <1>4, <2>1, OnceKeeps
<1>5. ASSUME NEW t, NEW n, RxData(t, n) PROVE OnceInv'
  <2>1. rx'.q = <<>> /\ rx.pc = "idle" /\ UNCHANGED <<rvars, tm, stack>>
    BY <1>5 DEF RxData, RxIdle
  <2> QED BY <1>2, <1>4, <2>1
<1>6. ASSUME NEW t, NEW kind, NEW req, RxMgmt(kind, t, req) PROVE OnceInv'
  <2>1. rx'.q = <<>> /\ rx.pc = "idle" /\ UNCHANGED <<rvars, tm, stack>>
    BY <1>6 DEF RxMgmt, RxIdle
  <2> QED BY <1>2, <1>4, <2>1
<1>7. CASE RxDeref
  <2>1. rx'.q = rx.q /\ rx.pc = "deref" /\ UNCHANGED <<rvars, tm, stack>>
    BY <1>3, <1>7 DEF RxDeref, Shapes
  <2> QED BY <1>2, <1>4, <2>1
<1>8. CASE RxArm \/ RxReturn
  <2>1. rx'.q = <<>> /\ rx.q = <<>> /\ UNCHANGED <<rvars, tm, stack>>
    BY <1>8 DEF RxArm, RxReturn, RxIdle
  <2> QED BY <1>2, <1>4, <2>1
<1>9. CASE RxDeauthEnd
  <2>1. rx'.q = <<>> /\ rx.pc = "deauth" /\ UNCHANGED <<rvars, tm, stack>>
    BY <1>9 DEF RxDeauthEnd, RxIdle
  <2> QED BY <1>2, <1>4, <2>1
<1>10. CASE TmDue \/ TmFire \/ TmReturn
  <2>1. tm'.q = tm.q /\ (tm'.pc # "deliver" => tm'.q = <<>>) /\ UNCHANGED <<rvars, rx, stack>>
    BY <1>2, <1>3, <1>10 DEF TmDue, TmFire, TmReturn, TmIdle, Shapes
  <2> QED BY <1>2, <1>4, <2>1
<1>11. ASSUME NEW goal, UsrBegin(goal) PROVE OnceInv'
  BY <1>2, <1>4, <1>11 DEF UsrBegin
<1>12. CASE UsrFree
  <2>1. rx'.q = rx.q /\ rx'.pc = rx.pc /\ UNCHANGED <<rvars, tm, stack>>
    BY <1>3, <1>12 DEF UsrFree, Shapes
  <2> QED BY <1>2, <1>4, <2>1
<1>13. CASE UsrSet \/ UNCHANGED vars
  BY <1>2, <1>4, <1>13 DEF UsrSet, vars, pvars
<1>14. ASSUME LockFree, UNCHANGED <<flush, tm, stack>>, Still(rx', rx) PROVE OnceInv'
  BY <1>1, <1>14, OnceSection
<1>15. CASE RxDirect
  <2>1. rx'.q = <<>> /\ rx.pc = "direct" /\ UNCHANGED <<flush, tm, stack>> /\ LockFree
    BY <1>15 DEF RxDirect, RxIdle, InputNoBa
  <2> QED BY <1>2, <1>14, <2>1
<1>16. CASE RxInput
  <2>1. /\ rx.pc = "input" /\ rx.q = <<>> /\ UNCHANGED <<tm, stack>>
        /\ rx.tid \in Tids /\ rx.n \in Arrivals(rx.tid)
    BY <1>2, <1>16 DEF RxInput, Hands, FrameInHand
  <2>2. CASE rx' = RxIdle /\ (InputStale(rx.tid, rx.n) \/ InputNoBa(rx.tid, rx.n))
    <3>1. rx'.q = <<>> /\ UNCHANGED flush /\ LockFree
      BY <2>2 DEF RxIdle, InputStale, InputNoBa
    <3> QED BY <1>14, <2>1, <3>1
  <2>3. CASE /\ Input(rx.tid, rx.n)
             /\ rx' = [rx EXCEPT !.pc = "deliver", !.q = OutSeq(out'),
                                 !.arm = rxBa'[rx.tid].stored > 0]
    <3>1. rx'.q = OutSeq(out') /\ rx'.pc = "deliver"
      BY <1>3, <2>3 DEF Shapes
    <3> QED BY <1>1, <2>1, <2>3, <3>1, OnceInput
  <2> QED BY <1>16, <2>2, <2>3 DEF RxInput
<1>17. CASE RxAddba
  <2>1. rx'.q = <<>> /\ rx.pc = "addba" /\ UNCHANGED <<flush, tm, stack>> /\ LockFree
    BY <1>17 DEF RxAddba, RxIdle, RxBaSetup, RxBaSetupNoMem
  <2> QED BY <1>2, <1>14, <2>1
<1>18. CASE RxDelba
  <2>1. rx'.q = <<>> /\ rx.pc = "delba" /\ UNCHANGED <<flush, tm, stack>> /\ LockFree
    BY <1>18 DEF RxDelba, RxIdle, RxBaTeardown
  <2> QED BY <1>2, <1>14, <2>1
<1>19. CASE RxDeauth
  <2>1. rx'.q = rx.q /\ rx.pc = "deauth" /\ UNCHANGED <<flush, tm, stack>> /\ LockFree
    BY <1>3, <1>19 DEF RxDeauth, Shapes, RxBaTeardown
  <2> QED BY <1>2, <1>14, <2>1
<1>20. CASE UsrUnlink
  <2>1. /\ rx'.q = rx.q /\ rx'.pc = rx.pc
        /\ UNCHANGED <<flush, tm, stack>> /\ LockFree
    BY <1>3, <1>20 DEF UsrUnlink, Shapes, RxBaTeardown
  <2> QED BY <1>2, <1>14, <2>1
<1>21. CASE TmLock
  <2>1. /\ rx' = rx /\ stack' = stack /\ tm.pc = "lock" /\ tm'.pc = "loop" /\ tm'.q = tm.q
        /\ ~flush.on /\ flush'.on /\ out' = [t \in Tids |-> {}]
    BY <1>3, <1>21 DEF TmLock, FlushBegin, LockFree, NoOut, Shapes
  <2>2. FlushOut = {} /\ FlushOut' = {}
    <3>1. FlushOut' = OutFrames(out')
      BY <2>1 DEF FlushOut
    <3>2. OutFrames(out') = {}
      BY <2>1 DEF OutFrames
    <3> QED BY <2>1, <3>1, <3>2 DEF FlushOut
  <2>3. \A t \in Tids : IsFiniteSet(out'[t])
    BY <2>1, FS_EmptySet
  <2> QED BY <1>1, <1>2, <2>1, <2>2, <2>3, OnceKeeps
<1>22. ASSUME NEW t \in Tids, TmTid(t) PROVE OnceInv'
  <2>1. /\ rx' = rx /\ stack' = stack /\ FlushTid(t) /\ tm'.q = tm.q /\ tm'.pc = tm.pc
    BY <1>3, <1>22 DEF TmTid, Shapes
  <2>2. CASE rxBa[t].active /\ rxBa[t].stored > 0
    BY <1>1, <2>1, <2>2, OnceFlush
  <2>3. CASE ~(rxBa[t].active /\ rxBa[t].stored > 0)
    <3>1. flush.on /\ out' = out /\ flush' = [flush EXCEPT !.tid = t + 1]
      BY <2>1, <2>3 DEF FlushTid
    <3>2. flush'.on
      BY <1>1, <3>1 DEF RTypeOK
    <3>3. FlushOut' = FlushOut
      BY <3>1, <3>2 DEF FlushOut
    <3>4. \A u \in Tids : IsFiniteSet(out'[u])
      BY <1>2, <3>1
    <3> QED BY <1>1, <1>2, <2>1, <3>3, <3>4, OnceKeeps
  <2> QED BY <2>2, <2>3
<1>23. CASE TmUnlock
  <2>1. /\ rx' = rx /\ stack' = stack /\ flush.on /\ ~flush'.on /\ out' = out
        /\ tm.pc = "loop" /\ tm'.pc = "deliver" /\ tm'.q = OutSeq(out) /\ tm.q = <<>>
    BY <1>2, <1>3, <1>23 DEF TmUnlock, FlushEnd, Shapes
  <2>2. \A t \in Tids : out[t] \in SUBSET Nat /\ IsFiniteSet(out[t])
    BY <1>1, <1>2, <2>1 DEF RTypeOK
  <2>3. /\ tm'.q \in Seq(Tids \X Nat) /\ Distinct(tm'.q) /\ Pending(tm'.q) = FlushOut
    BY <2>1, <2>2, OutSeqOK DEF FlushOut
  <2>4. FlushOut' = {} /\ Given' = Given /\ rx'.q = rx.q
    BY <2>1 DEF FlushOut, Given
  <2>5. OnceTypes'
    BY <2>1, <2>3 DEF OnceInv, OnceTypes
  <2>6. /\ Past(Pending(rx.q), Fronts') /\ Past(Given, Fronts') /\ Past(FlushOut, Fronts')
        /\ Past({}, Fronts')
    <3>1. Past(Pending(rx.q), Fronts) /\ Past(Given, Fronts) /\ Past(FlushOut, Fronts)
      BY DEF OnceInv
    <3>2. \A F : Past(F, Fronts) => Past(F, Fronts')
      BY <1>1, PastStays
    <3> QED BY <3>1, <3>2 DEF Past
  <2>7. Apart(Pending(rx.q), FlushOut, Given, {})
    BY DEF OnceInv, Apart
  <2>8. Distinct(rx.q) /\ \A t \in Tids : Distinct(stack[t])
    BY DEF OnceInv
  <2> QED BY <2>1, <2>3, <2>4, <2>5, <2>6, <2>7, <2>8 DEF OnceInv
<1>24. CASE RxDeliver
  <2>1. /\ rx.q # <<>> /\ rx'.q = Tail(rx.q) /\ rx'.pc = "deliver" /\ tm' = tm
        /\ stack' = [stack EXCEPT ![Head(rx.q)[1]] = Append(@, Head(rx.q)[2])]
        /\ UNCHANGED rvars
    BY <1>3, <1>24 DEF RxDeliver, Shapes
  <2>2. /\ Head(rx.q) \in Pending(rx.q) /\ Head(rx.q) \in Tids \X Nat
        /\ rx'.q \in Seq(Tids \X Nat) /\ Distinct(rx'.q)
        /\ Pending(rx'.q) = Pending(rx.q) \ {Head(rx.q)}
    <3>1. Distinct(rx.q)
      BY DEF OnceInv
    <3>2. /\ Head(rx.q) \in Pending(rx.q) /\ Head(rx.q) \in Tids \X Nat
          /\ Tail(rx.q) \in Seq(Tids \X Nat) /\ Distinct(Tail(rx.q))
          /\ Pending(Tail(rx.q)) = Pending(rx.q) \ {Head(rx.q)}
      BY <1>2, <2>1, <3>1, TailPending
    <3> QED BY <2>1, <3>2
  <2>3. Head(rx.q) \notin Given
    BY <2>2 DEF OnceInv, Apart
  <2>4. /\ stack' \in [Tids -> Seq(Nat)] /\ Given' = Given \cup {Head(rx.q)}
        /\ \A t \in Tids : Distinct(stack'[t])
    BY <1>2, <2>1, <2>2, <2>3, GivePut DEF OnceInv
  <2>5. FlushOut' = FlushOut /\ Fronts' = Fronts /\ flush' = flush /\ out' = out
    BY <2>1 DEF FlushOut, Fronts, Front, rvars
  <2>6. OnceTypes'
    BY <2>1, <2>2, <2>4, <2>5 DEF OnceInv, OnceTypes
  <2>7. /\ Past(Pending(rx'.q), Fronts') /\ Past(Pending(tm'.q), Fronts')
        /\ Past(Given', Fronts') /\ Past(FlushOut', Fronts')
    BY <2>1, <2>2, <2>4, <2>5 DEF OnceInv, Past
  <2>8. Apart(Pending(rx'.q), Pending(tm'.q), Given', FlushOut')
    BY <2>1, <2>2, <2>4, <2>5 DEF OnceInv, Apart
  <2> QED BY <2>1, <2>2, <2>4, <2>6, <2>7, <2>8 DEF OnceInv
<1>25. CASE TmDeliver
  <2>1. /\ tm.q # <<>> /\ tm'.q = Tail(tm.q) /\ tm'.pc = "deliver" /\ rx' = rx
        /\ stack' = [stack EXCEPT ![Head(tm.q)[1]] = Append(@, Head(tm.q)[2])]
        /\ UNCHANGED rvars
    BY <1>3, <1>25 DEF TmDeliver, Shapes
  <2>2. /\ Head(tm.q) \in Pending(tm.q) /\ Head(tm.q) \in Tids \X Nat
        /\ tm'.q \in Seq(Tids \X Nat) /\ Distinct(tm'.q)
        /\ Pending(tm'.q) = Pending(tm.q) \ {Head(tm.q)}
    <3>1. Distinct(tm.q)
      BY DEF OnceInv
    <3>2. /\ Head(tm.q) \in Pending(tm.q) /\ Head(tm.q) \in Tids \X Nat
          /\ Tail(tm.q) \in Seq(Tids \X Nat) /\ Distinct(Tail(tm.q))
          /\ Pending(Tail(tm.q)) = Pending(tm.q) \ {Head(tm.q)}
      BY <1>2, <2>1, <3>1, TailPending
    <3> QED BY <2>1, <3>2
  <2>3. Head(tm.q) \notin Given
    BY <2>2 DEF OnceInv, Apart
  <2>4. /\ stack' \in [Tids -> Seq(Nat)] /\ Given' = Given \cup {Head(tm.q)}
        /\ \A t \in Tids : Distinct(stack'[t])
    BY <1>2, <2>1, <2>2, <2>3, GivePut DEF OnceInv
  <2>5. FlushOut' = FlushOut /\ Fronts' = Fronts /\ flush' = flush /\ out' = out
    BY <2>1 DEF FlushOut, Fronts, Front, rvars
  <2>6. OnceTypes'
    BY <2>1, <2>2, <2>4, <2>5 DEF OnceInv, OnceTypes
  <2>7. /\ Past(Pending(rx'.q), Fronts') /\ Past(Pending(tm'.q), Fronts')
        /\ Past(Given', Fronts') /\ Past(FlushOut', Fronts')
    BY <2>1, <2>2, <2>4, <2>5 DEF OnceInv, Past
  <2>8. Apart(Pending(rx'.q), Pending(tm'.q), Given', FlushOut')
    BY <2>1, <2>2, <2>4, <2>5 DEF OnceInv, Apart
  <2> QED BY <2>1, <2>2, <2>4, <2>6, <2>7, <2>8 DEF OnceInv
<1> HIDE DEF Still
<1> QED
  BY <1>5, <1>6, <1>7, <1>8, <1>9, <1>10, <1>11, <1>12, <1>13, <1>15, <1>16, <1>17, <1>18,
     <1>19, <1>20, <1>21, <1>22, <1>23, <1>24, <1>25 DEF PNext, RxWork, TmWork, UsrWork

\* What is in a buffer is not below the front, so it is nowhere else.
LEMMA OnceImplies == ASSUME OnceInv, RInv PROVE DeliveredOnce
<1>1. ASSUME NEW f \in Buffered, NEW F, Past(F, Fronts) PROVE f \notin F
  <2>1. PICK t \in Tids : \E i \in Occupied(rxBa[t]) : f = <<t, rxBa[t].buf[i]>>
    BY DEF Buffered
  <2>2. PICK i \in Occupied(rxBa[t]) : f = <<t, rxBa[t].buf[i]>>
    BY <2>1
  <2>3. TidInv(rxBa[t], headAbs[t], peer[t], lastRel[t]) /\ rxBa[t].active
    BY NoBaOK DEF RInv, TidInv
  <2>4. RecOK(rxBa[t], headAbs[t]) /\ headAbs[t] \in Nat /\ rxBa[t].buf[i] \in Nat
    <3>1. RecOK(rxBa[t], headAbs[t]) /\ i \in Slots /\ rxBa[t].buf[i] # Empty
      BY <2>3 DEF TidInv, Occupied
    <3> QED BY <3>1, RecFields DEF RInv, RTypeOK, RecOK
  <2>5. headAbs[t] <= rxBa[t].buf[i]
    BY <2>4 DEF RecOK, Occupied
  <2>6. Fronts[t] = headAbs[t]
    BY <2>3 DEF Fronts, Front
  <2> QED BY <1>1, <2>2, <2>4, <2>5, <2>6 DEF Past
<1>2. Buffered \cap (Pending(rx.q) \cup Pending(tm.q) \cup Given) = {}
  BY <1>1 DEF OnceInv
<1>3. \A t \in Tids : SE!IsInjective(stack[t])
  <2> SUFFICES ASSUME NEW t \in Tids PROVE SE!IsInjective(stack[t])
    OBVIOUS
  <2>1. stack[t] \in Seq(Nat) /\ Distinct(stack[t])
    BY DEF OnceInv, OnceTypes
  <2>2. DOMAIN stack[t] = 1 .. Len(stack[t])
    BY <2>1
  <2> QED BY <2>1, <2>2 DEF SE!IsInjective, Distinct
<1> QED
  BY <1>2, <1>3 DEF DeliveredOnce, OnceInv, Apart

\* A frame that went through the reorder buffer is in one place only and reaches
\* injectRxFrame at most once, for any number of TIDs, any buffer size and any
\* interleaving of the receive thread, the flush timer and a user client.
THEOREM PathDeliversOnce == PSpec => []DeliveredOnce
<1>1. PSpec => []RInv
  BY PathImplementsReorder, ReorderInvariant, PTL
<1>2. PSpec => []Hands
  BY InitHands, StepHands, PTL DEF PSpec
<1>3. OnceInv /\ RInv /\ RInv' /\ Hands /\ [PNext]_vars => OnceInv'
  BY StepOnce
<1>4. PInit /\ []RInv /\ []Hands /\ [][PNext]_vars => []OnceInv
  BY <1>3, InitOnce, PTL
<1>5. OnceInv /\ RInv => DeliveredOnce
  BY OnceImplies
<1> QED
  BY <1>1, <1>2, <1>4, <1>5, PTL DEF PSpec
=============================================================================
