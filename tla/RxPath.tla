------------------------------- MODULE RxPath -------------------------------
(***************************************************************************)
(* The threads around the reorder buffer of RxReorder:                     *)
(*   rx   the driver's receive thread call: processRxData, the BlockAck    *)
(*        and deauthentication cases of processRxMgmt;                     *)
(*   tm   the flush timer on the parent's work loop (reorderTimerFired);   *)
(*   usr  a user client in doDisconnect, or in cmdConnect's releaseSta.    *)
(* The locked sections are RxReorder's actions.  What the code does before *)
(* it takes _rxBaLock and after it drops it are steps of their own.  The   *)
(* link is only up or not here; a whole new association is one step.       *)
(***************************************************************************)
EXTENDS RxReorder, Sequences

SE == INSTANCE SequencesExt

VARIABLES
    up,         \* _state = CONNECTED (the rest of _state is not told apart)
    sta,        \* _sta # nullptr
    rx, tm, usr,
    timer,      \* _reorderTimer: "off", "set", or "due" (its deadline passed)
    stack       \* history: per TID, the reordered frames given to injectRxFrame

pvars == <<up, sta, rx, tm, usr, timer, stack>>
vars  == <<rvars, pvars>>

\* ptr is the _rxBa[tid] that processRxData loaded without the lock.
RxIdle  == [pc |-> "idle", tid |-> 0, n |-> 0, ptr |-> "null", q |-> <<>>, arm |-> FALSE]
TmIdle  == [pc |-> "idle", q |-> <<>>, again |-> FALSE]
UsrIdle == [pc |-> "idle", tid |-> 0, goal |-> "down"]

PInit ==
    /\ RInit
    /\ up = TRUE /\ sta = TRUE
    /\ rx = RxIdle /\ tm = TmIdle /\ usr = UsrIdle
    /\ timer = "off"
    /\ stack = [t \in Tids |-> <<>>]

\* The frames of out[], and their order: that in which the loops put them there.
OutFrames(o) == UNION {{<<t, n>> : n \in o[t]} : t \in Tids}
Before(a, b) == a[1] < b[1] \/ (a[1] = b[1] /\ a[2] < b[2])

\* The i-th frame is the one with i - 1 before it.
OutSeq(o) ==
    [i \in 1 .. Cardinality(OutFrames(o)) |->
        CHOOSE a \in OutFrames(o) :
            Cardinality({b \in OutFrames(o) : Before(b, a)}) = i - 1]

Stored == {t \in Tids : rxBa[t].stored > 0}

-----------------------------------------------------------------------------
(* The receive thread.                                                     *)

\* processRxData, up to its unlocked load of _rxBa[tid].
RxData(t, n) ==
    /\ rx.pc = "idle" /\ up
    /\ rx' = [RxIdle EXCEPT !.pc  = IF rxBa[t].active THEN "deref" ELSE "direct",
                            !.tid = t, !.n = n,
                            !.ptr = IF rxBa[t].active THEN "live" ELSE "null"]
    /\ UNCHANGED <<rvars, up, sta, tm, usr, timer, stack>>

\* ... ->active, which no code ever clears; freed memory may read as anything.
RxDeref ==
    /\ rx.pc = "deref"
    /\ \/ rx' = [rx EXCEPT !.pc = "input", !.ptr = "null"]
       \/ rx.ptr = "freed" /\ rx' = [rx EXCEPT !.pc = "direct", !.ptr = "null"]
    /\ UNCHANGED <<rvars, up, sta, tm, usr, timer, stack>>

\* No agreement: deliverDataFrame at once.
RxDirect ==
    /\ rx.pc = "direct"
    /\ InputNoBa(rx.tid, rx.n)
    /\ rx' = RxIdle
    /\ UNCHANGED <<up, sta, tm, usr, timer, stack>>

\* Mutant: needTimer is computed from what was released, not from stored.
RxInputArmsOnOut ==
    /\ rx.pc = "input"
    /\ \/ /\ Input(rx.tid, rx.n)
          /\ rx' = [rx EXCEPT !.pc = "deliver", !.q = OutSeq(out'),
                              !.arm = out'[rx.tid] # {}]
       \/ InputStale(rx.tid, rx.n) /\ rx' = RxIdle
       \/ InputNoBa(rx.tid, rx.n) /\ rx' = RxIdle
    /\ UNCHANGED <<up, sta, tm, usr, timer, stack>>

\* Mutant: the frame goes into the buffer without _rxBaLock.
RxInputUnlocked ==
    /\ rx.pc = "input"
    /\ rxBa' = [rxBa EXCEPT ![rx.tid] = Store(@, rx.n)]
    /\ rx' = RxIdle
    /\ UNCHANGED <<peer, headAbs, lastRel, out, flush, up, sta, tm, usr, timer, stack>>

\* rxReorderInput: the locked section, or one of its early returns.
RxInput ==
    /\ rx.pc = "input"
    /\ \/ /\ Input(rx.tid, rx.n)
          /\ rx' = [rx EXCEPT !.pc = "deliver", !.q = OutSeq(out'),
                              !.arm = rxBa'[rx.tid].stored > 0]
       \/ InputStale(rx.tid, rx.n) /\ rx' = RxIdle
       \/ InputNoBa(rx.tid, rx.n) /\ rx' = RxIdle
    /\ UNCHANGED <<up, sta, tm, usr, timer, stack>>

\* Its delivery loop, with the lock dropped: one frame.
RxDeliver ==
    /\ rx.pc = "deliver" /\ rx.q # <<>>
    /\ stack' = [stack EXCEPT ![Head(rx.q)[1]] = Append(@, Head(rx.q)[2])]
    /\ rx' = [rx EXCEPT !.q = Tail(@)]
    /\ UNCHANGED <<rvars, up, sta, tm, usr, timer>>

\* ... and rxReorderArmTimer, which replaces an earlier deadline.
RxArm ==
    /\ rx.pc = "deliver" /\ rx.q = <<>> /\ rx.arm
    /\ timer' = "set"
    /\ rx' = RxIdle
    /\ UNCHANGED <<rvars, up, sta, tm, usr, stack>>

RxReturn ==
    /\ rx.pc = "deliver" /\ rx.q = <<>> /\ ~rx.arm
    /\ rx' = RxIdle
    /\ UNCHANGED <<rvars, up, sta, tm, usr, timer, stack>>

\* processRxMgmt checks _state, then acts: ADDBA request, DELBA from the
\* originator, deauthentication.
RxMgmt(kind, t, req) ==
    /\ rx.pc = "idle" /\ up
    /\ kind = "deauth" => t = 0
    /\ kind # "addba" => req = 0
    /\ rx' = [RxIdle EXCEPT !.pc = kind, !.tid = t, !.n = req]
    /\ UNCHANGED <<rvars, up, sta, tm, usr, timer, stack>>

RxAddba ==
    /\ rx.pc = "addba"
    /\ RxBaSetup(rx.tid, rx.n) \/ RxBaSetupNoMem(rx.tid)
    /\ rx' = RxIdle
    /\ UNCHANGED <<up, sta, tm, usr, timer, stack>>

RxDelba ==
    /\ rx.pc = "delba"
    /\ RxBaTeardown(rx.tid)
    /\ rx' = RxIdle
    /\ UNCHANGED <<up, sta, tm, usr, timer, stack>>

\* rxBaTeardownAll, one TID; then _state = IDLE.  _sta is kept.
RxDeauth ==
    /\ rx.pc = "deauth" /\ rx.tid < NumTid
    /\ RxBaTeardown(rx.tid)
    /\ rx' = [rx EXCEPT !.tid = @ + 1]
    /\ UNCHANGED <<up, sta, tm, usr, timer, stack>>

RxDeauthEnd ==
    /\ rx.pc = "deauth" /\ rx.tid = NumTid
    /\ up' = FALSE
    /\ rx' = RxIdle
    /\ UNCHANGED <<rvars, sta, tm, usr, timer, stack>>

-----------------------------------------------------------------------------
(* The flush timer.                                                        *)

\* The deadline passes; until the callback starts it can still be replaced.
TmDue ==
    /\ timer = "set"
    /\ timer' = "due"
    /\ UNCHANGED <<rvars, up, sta, rx, tm, usr, stack>>

TmFire ==
    /\ timer = "due" /\ tm.pc = "idle"
    /\ timer' = "off"
    /\ tm' = [tm EXCEPT !.pc = "lock"]
    /\ UNCHANGED <<rvars, up, sta, rx, usr, stack>>

TmLock ==
    /\ tm.pc = "lock"
    /\ FlushBegin
    /\ tm' = [tm EXCEPT !.pc = "loop"]
    /\ UNCHANGED <<up, sta, rx, usr, timer, stack>>

TmTid(t) ==
    /\ tm.pc = "loop"
    /\ FlushTid(t)
    /\ tm' = [tm EXCEPT !.again = @ \/ rxBa'[t].stored > 0]
    /\ UNCHANGED <<up, sta, rx, usr, timer, stack>>

TmUnlock ==
    /\ tm.pc = "loop"
    /\ FlushEnd
    /\ tm' = [tm EXCEPT !.pc = "deliver", !.q = OutSeq(out)]
    /\ UNCHANGED <<up, sta, rx, usr, timer, stack>>

TmDeliver ==
    /\ tm.pc = "deliver" /\ tm.q # <<>>
    /\ stack' = [stack EXCEPT ![Head(tm.q)[1]] = Append(@, Head(tm.q)[2])]
    /\ tm' = [tm EXCEPT !.q = Tail(@)]
    /\ UNCHANGED <<rvars, up, sta, rx, usr, timer>>

\* Mutant: the callback leaves without arming the timer again.
TmReturnNoRearm ==
    /\ tm.pc = "deliver" /\ tm.q = <<>>
    /\ tm' = TmIdle
    /\ UNCHANGED <<rvars, up, sta, rx, usr, timer, stack>>

TmReturn ==
    /\ tm.pc = "deliver" /\ tm.q = <<>>
    /\ timer' = IF tm.again THEN "set" ELSE timer
    /\ tm' = TmIdle
    /\ UNCHANGED <<rvars, up, sta, rx, usr, stack>>

-----------------------------------------------------------------------------
(* A user client: doDisconnect, or cmdConnect.                             *)

\* Both call releaseSta, which returns at once if there is no _sta and
\* otherwise drops it and tears every agreement down.
UsrBegin(goal) ==
    /\ usr.pc = "idle"
    /\ up = (goal = "down")
    /\ usr' = [pc |-> IF sta THEN "unlink" ELSE "set", tid |-> 0, goal |-> goal]
    /\ sta' = FALSE
    /\ UNCHANGED <<rvars, up, rx, tm, timer, stack>>

\* rxBaTeardown: unlink under the lock.  Whoever loaded the pointer keeps it.
UsrUnlink ==
    /\ usr.pc = "unlink"
    /\ RxBaTeardown(usr.tid)
    /\ usr' = [usr EXCEPT !.pc = "free"]
    /\ rx' = [rx EXCEPT !.ptr = IF @ = "live" /\ rx.tid = usr.tid THEN "unlinked" ELSE @]
    /\ UNCHANGED <<up, sta, tm, timer, stack>>

\* Mutant: the loop of rxBaTeardownAll runs one TID too far.
UsrFreeOneMore ==
    /\ usr.pc = "free"
    /\ rx' = [rx EXCEPT !.ptr = IF @ = "unlinked" THEN "freed" ELSE @]
    /\ usr' = [usr EXCEPT !.pc  = IF usr.tid = NumTid THEN "set" ELSE "unlink",
                          !.tid = IF usr.tid = NumTid THEN 0 ELSE @ + 1]
    /\ UNCHANGED <<rvars, up, sta, tm, timer, stack>>

\* ... IOFree with the lock dropped, and on to the next TID.
UsrFree ==
    /\ usr.pc = "free"
    /\ rx' = [rx EXCEPT !.ptr = IF @ = "unlinked" THEN "freed" ELSE @]
    /\ usr' = [usr EXCEPT !.pc  = IF usr.tid = NumTid - 1 THEN "set" ELSE "unlink",
                          !.tid = IF usr.tid = NumTid - 1 THEN 0 ELSE @ + 1]
    /\ UNCHANGED <<rvars, up, sta, tm, timer, stack>>

\* _state = IDLE at the end of doDisconnect; a new association otherwise.
UsrSet ==
    /\ usr.pc = "set"
    /\ up' = (usr.goal = "up")
    /\ sta' = (usr.goal = "up" \/ sta)
    /\ usr' = UsrIdle
    /\ UNCHANGED <<rvars, rx, tm, timer, stack>>

-----------------------------------------------------------------------------
RxWork == RxDeref \/ RxDirect \/ RxInput \/ RxDeliver \/ RxArm \/ RxReturn
             \/ RxAddba \/ RxDelba \/ RxDeauth \/ RxDeauthEnd
TmWork == TmLock \/ (\E t \in Tids : TmTid(t)) \/ TmUnlock \/ TmDeliver \/ TmReturn
UsrWork == UsrUnlink \/ UsrFree \/ UsrSet

PNext ==
    \/ \E t \in Tids :
         \/ \E n \in Arrivals(t) : RxData(t, n)
         \/ \E kind \in {"addba", "delba", "deauth"}, req \in BufReqs \cup {0} :
              (kind = "addba" => req \in BufReqs) /\ RxMgmt(kind, t, req)
    \/ RxWork
    \/ TmDue \/ TmFire \/ TmWork
    \/ \E goal \in {"up", "down"} : UsrBegin(goal)
    \/ UsrWork

\* A thread waits only for work or for _rxBaLock.
RxReady  == rx.pc # "idle" /\ (rx.pc \notin {"deref", "deliver"} => LockFree)
TmReady  == tm.pc # "idle" /\ (tm.pc = "lock" => LockFree)
UsrReady == usr.pc # "idle" /\ (usr.pc = "unlink" => LockFree)

\* Threads that have work go on (weak fairness, with the enabling conditions
\* written out); a deadline passes, and the callback runs if
\* it stays due.  Nothing makes frames, commands or user clients come.
PSpec ==
    /\ PInit /\ [][PNext]_vars
    /\ []<>~RxReady  \/ []<><<RxWork>>_vars
    /\ []<>~TmReady  \/ []<><<TmWork>>_vars
    /\ []<>~UsrReady \/ []<><<UsrWork>>_vars
    /\ WF_vars(TmDue) /\ WF_vars(TmFire)

-----------------------------------------------------------------------------
Pending(q) == {q[i] : i \in 1 .. Len(q)}
Buffered   == UNION {{<<t, rxBa[t].buf[i]>> : i \in Occupied(rxBa[t])} : t \in Tids}
Given      == UNION {{<<t, stack[t][i]>> : i \in 1 .. Len(stack[t])} : t \in Tids}

\* The types of the buffers and of the threads.
PTypeOK ==
    /\ up \in BOOLEAN /\ sta \in BOOLEAN
    /\ rx.pc \in {"idle", "deref", "direct", "input", "deliver", "addba", "delba", "deauth"}
    /\ rx.tid \in 0 .. NumTid /\ rx.n \in Nat /\ rx.arm \in BOOLEAN
    /\ rx.ptr \in {"null", "live", "unlinked", "freed"}
    /\ tm.pc \in {"idle", "lock", "loop", "deliver"} /\ tm.again \in BOOLEAN
    /\ usr.pc \in {"idle", "unlink", "free", "set"} /\ usr.tid \in Tids
    /\ timer \in {"off", "set", "due"}
    /\ (tm.pc = "loop") = flush.on

\* A frame that went through the buffer is in one place only, and reaches
\* injectRxFrame at most once, whichever of the two threads took it out
\* (rxReorderInput and rxReorderFlushStale clear the slot under _rxBaLock).
DeliveredOnce ==
    /\ Buffered \cap (Pending(rx.q) \cup Pending(tm.q) \cup Given) = {}
    /\ Pending(rx.q) \cap (Pending(tm.q) \cup Given) = {}
    /\ Pending(tm.q) \cap Given = {}
    /\ \A t \in Tids : SE!IsInjective(stack[t])

\* No wakeup is lost: while a TID holds a frame, the flush timer is armed or a
\* thread is on its way to flush that TID or to arm the timer.  needTimer must
\* survive the unlock in rxReorderInput, and a TID that rxReorderFlushStale
\* could not empty must be remembered in "again".
HoleHasTimer ==
    \A t \in Stored : \/ timer # "off"
                      \/ rx.pc = "deliver" /\ rx.arm
                      \/ tm.pc = "lock"
                      \/ tm.pc = "loop" /\ (tm.again \/ t >= flush.tid)
                      \/ tm.pc = "deliver" /\ tm.again

\* A buffered frame does not stay: once the receive thread stops pushing the
\* deadline back (every RxArm does), the timer empties every buffer.
HoleIsFlushed == (<>[][~RxArm]_vars) => (Stored # {} ~> Stored = {})

\* The comment on _rxBa: it is shared by the work loops, "so guarded by
\* _rxBaLock" (src/src/kext/RTW88IEEE80211.hpp:242); so nobody follows a
\* pointer to a buffer that rxBaTeardown has freed.
NoUseAfterFree == ~(rx.pc = "deref" /\ rx.ptr = "freed")
=============================================================================
