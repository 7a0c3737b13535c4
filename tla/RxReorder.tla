----------------------------- MODULE RxReorder -----------------------------
(***************************************************************************)
(* The per-TID receive reorder buffer of RTW88IEEE80211 (rxBaSetup,        *)
(* rxBaTeardown, rxReorderInput, rxReorderFlushStale), at the granularity  *)
(* of its lock: each section the code runs under _rxBaLock is one action,  *)
(* except that the flush loop takes one step per TID with the lock held.   *)
(*                                                                         *)
(* A frame is the absolute number n the peer gave it (0, 1, 2, ...); what  *)
(* the driver sees of it is its 12-bit sequence number Sn(n).  headAbs,    *)
(* lastRel and out are history: the code never reads them.  They let the   *)
(* properties compare the wrapped arithmetic with the real numbering.      *)
(***************************************************************************)
EXTENDS Integers, FiniteSets, FiniteSetsExt

CONSTANTS
    SeqMod,     \* size of the sequence number space (4096: the mask 0xFFF)
    MaxBuf,     \* kRxBaMaxBuf, the slots of one buffer (64)
    NumTid,     \* kRxBaNumTid (8)
    BufReqs,    \* buffer sizes an ADDBA request may ask for (0 .. 1023)
    Ahead,      \* most frames the peer gives up on in a row
    FirstSns,   \* absolute numbers a TID may start from
    MaxSn       \* bound: the largest absolute number

Tids  == 0 .. NumTid - 1
Slots == 0 .. MaxBuf - 1
Half  == SeqMod \div 2
Empty == -1     \* a null entry of buf[]

ASSUME ReorderAssumption ==
    /\ MaxBuf \in Nat \ {0} /\ NumTid \in Nat \ {0}
    /\ SeqMod \in Nat
    /\ SeqMod = (SeqMod \div MaxBuf) * MaxBuf   \* 4096 = 64 * 64
    /\ Ahead \in Nat
    /\ MaxBuf + Ahead < Half                  \* the peer never runs half the space ahead
    /\ BufReqs \subseteq Nat
    /\ MaxSn \in Nat
    /\ FirstSns \subseteq 0 .. MaxSn

VARIABLES
    rxBa,       \* _rxBa[tid]; active = FALSE stands for the null pointer
    peer,       \* the next number the AP will use (external)
    headAbs,    \* history: the absolute number of headSn
    lastRel,    \* history: largest number released under this agreement
    out,        \* the frames the last locked section put into out[]
    flush       \* the flush timer's locked section: idle, or its loop variables

rvars == <<rxBa, peer, headAbs, lastRel, out, flush>>

-----------------------------------------------------------------------------
(* Sequence-number arithmetic and the buffer.                              *)

Sn(n)          == n % SeqMod
Rel(sn, head)  == (sn - head) % SeqMod
Slot(sn)       == sn % MaxBuf
SlotAt(r, d)   == Slot((r.headSn + d) % SeqMod)

Occupied(r)    == {i \in Slots : r.buf[i] # Empty}

NoBa == [active |-> FALSE, headSn |-> 0, bufSize |-> 1, stored |-> 0,
         buf |-> [i \in Slots |-> Empty]]

ClampBuf(req) == IF req = 0 \/ req > MaxBuf THEN MaxBuf ELSE req

NewBa(sn, req) == [active |-> TRUE, headSn |-> sn, bufSize |-> ClampBuf(req),
                   stored |-> 0, buf |-> [i \in Slots |-> Empty]]

\* The occupied slots the head passes when it moves k numbers up.
PassedSlots(r, k) == {SlotAt(r, d) : d \in 0 .. k - 1} \cap Occupied(r)
Passed(r, k)      == {r.buf[i] : i \in PassedSlots(r, k)}

\* Mutant: the head is advanced without the 0xFFF mask.
AdvanceUnmasked(r, k) ==
    [r EXCEPT !.headSn = @ + k,
              !.stored = @ - Cardinality(PassedSlots(r, k)),
              !.buf    = [i \in Slots |-> IF i \in PassedSlots(r, k) THEN Empty ELSE @[i]]]

\* Mutant: a released frame's slot is not cleared.
AdvanceKeepsSlot(r, k) ==
    [r EXCEPT !.headSn = (@ + k) % SeqMod,
              !.stored = @ - Cardinality(PassedSlots(r, k))]

\* Mutant: frames are released but the head is not moved.
AdvanceHeadStays(r, k) ==
    [r EXCEPT !.stored = @ - Cardinality(PassedSlots(r, k)),
              !.buf    = [i \in Slots |-> IF i \in PassedSlots(r, k) THEN Empty ELSE @[i]]]

\* The head moves up k numbers; what it passes leaves the buffer.
Advance(r, k) ==
    [r EXCEPT !.headSn = (@ + k) % SeqMod,
              !.stored = @ - Cardinality(PassedSlots(r, k)),
              !.buf    = [i \in Slots |-> IF i \in PassedSlots(r, k) THEN Empty ELSE @[i]]]

\* Mutants: newHead is one too low, or one too high.
SlideShort(r, sn) ==
    IF Rel(sn, r.headSn) < r.bufSize THEN 0
    ELSE Rel((sn - r.bufSize) % SeqMod, r.headSn)
SlideLong(r, sn) ==
    IF Rel(sn, r.headSn) < r.bufSize THEN 0
    ELSE Rel((sn + 2 - r.bufSize) % SeqMod, r.headSn)

\* How far the slide loop of rxReorderInput moves towards newHead: all the
\* way, unless out[] fills up first.
SlideLen(r, sn) ==
    LET want == Rel((sn + 1 - r.bufSize) % SeqMod, r.headSn)
        full == {k \in 0 .. want : Cardinality(PassedSlots(r, k)) >= MaxBuf}
    IN  IF Rel(sn, r.headSn) < r.bufSize THEN 0
        ELSE Min(full \cup {want})

\* The in-order run at the head, as far as out[] has room for it.
RunLen(r, room) ==
    Min({k \in 0 .. room : \/ k = room
                           \/ r.buf[SlotAt(r, k)] = Empty
                           \/ r.stored = Cardinality(PassedSlots(r, k))})

\* The holes in front of the first buffered frame (the loop's guard is 4096).
SkipLen(r) ==
    Min({d \in 0 .. SeqMod : d = SeqMod \/ r.buf[SlotAt(r, d)] # Empty})

\* Mutant: a duplicate is counted as stored.
StoreCountsDup(r, n) ==
    [r EXCEPT !.buf[Slot(Sn(n))] = n, !.stored = @ + 1]

\* A frame whose slot is taken is a duplicate and is dropped.
Store(r, n) ==
    LET i == Slot(Sn(n))
    IN  IF r.buf[i] # Empty THEN r
        ELSE [r EXCEPT !.buf[i] = n, !.stored = @ + 1]

-----------------------------------------------------------------------------
RInit ==
    /\ rxBa = [t \in Tids |-> NoBa]
    /\ peer \in [Tids -> FirstSns]
    /\ headAbs = [t \in Tids |-> 0]
    /\ lastRel = [t \in Tids |-> Empty]
    /\ out = [t \in Tids |-> {}]
    /\ flush = [on |-> FALSE, tid |-> 0, nout |-> 0]

LockFree == ~flush.on

NoOut == [t \in Tids |-> {}]

\* rxBaSetup, from an ADDBA request whose SSN is the AP's next number.
RxBaSetup(t, req) ==
    /\ LockFree
    /\ rxBa' = [rxBa EXCEPT ![t] = NewBa(Sn(peer[t]), req)]
    /\ headAbs' = [headAbs EXCEPT ![t] = peer[t]]
    /\ lastRel' = [lastRel EXCEPT ![t] = Empty]
    /\ out' = NoOut
    /\ UNCHANGED <<peer, flush>>

\* rxBaSetup when IOMallocZero fails: no buffer existed and none is made.
RxBaSetupNoMem(t) ==
    /\ LockFree
    /\ ~rxBa[t].active
    /\ out' = NoOut
    /\ UNCHANGED <<rxBa, peer, headAbs, lastRel, flush>>

\* The locked section of rxBaTeardown: unlink the buffer and its frames.
RxBaTeardown(t) ==
    /\ LockFree
    /\ rxBa' = [rxBa EXCEPT ![t] = NoBa]
    /\ lastRel' = [lastRel EXCEPT ![t] = Empty]
    /\ out' = NoOut
    /\ UNCHANGED <<peer, headAbs, flush>>

\* The frames the AP may put on the air: not further back than its own
\* window of MaxBuf frames, not further on than Ahead lost ones (external).
Arrivals(t) == {n \in (peer[t] - MaxBuf) .. (peer[t] + Ahead) : n \in 0 .. MaxSn}

Arrive(t, n) == peer' = [peer EXCEPT ![t] = IF n >= @ THEN n + 1 ELSE @]

ReleaseTo(t, frames) ==
    lastRel' = [lastRel EXCEPT ![t] = Max(frames \cup {@})]

\* rxReorderInput, the locked section.  The frame is older than the window:
InputStale(t, n) ==
    /\ LockFree
    /\ rxBa[t].active
    /\ Rel(Sn(n), rxBa[t].headSn) >= Half
    /\ Arrive(t, n)
    /\ out' = NoOut
    /\ UNCHANGED <<rxBa, headAbs, lastRel, flush>>

\* ... or it slides the window if it must, is stored unless its slot is
\* taken, and the run at the head is released.
Input(t, n) ==
    LET r     == rxBa[t]
        slide == SlideLen(r, Sn(n))
        slid  == Advance(r, slide)
        held  == Store(slid, n)
        nout  == Cardinality(PassedSlots(r, slide))
        run   == RunLen(held, MaxBuf - nout)
        fr    == Passed(r, slide) \cup Passed(held, run)
    IN  /\ LockFree
        /\ r.active
        /\ Rel(Sn(n), r.headSn) < Half
        /\ Arrive(t, n)
        /\ rxBa' = [rxBa EXCEPT ![t] = Advance(held, run)]
        /\ headAbs' = [headAbs EXCEPT ![t] = @ + slide + run]
        /\ out' = [NoOut EXCEPT ![t] = fr]
        /\ ReleaseTo(t, fr)
        /\ UNCHANGED flush

\* rxReorderInput finds the agreement torn down: it delivers the frame itself.
InputNoBa(t, n) ==
    /\ LockFree
    /\ ~rxBa[t].active
    /\ Arrive(t, n)
    /\ out' = [NoOut EXCEPT ![t] = {n}]
    /\ UNCHANGED <<rxBa, headAbs, lastRel, flush>>

\* rxReorderFlushStale: take the lock ...
FlushBegin ==
    /\ LockFree
    /\ flush' = [on |-> TRUE, tid |-> 0, nout |-> 0]
    /\ out' = NoOut
    /\ UNCHANGED <<rxBa, peer, headAbs, lastRel>>

\* ... skip the holes of the next TID and release its run (out[] is shared
\* by all TIDs) ...
FlushTid(t) ==
    LET r    == rxBa[t]
        skip == SkipLen(r)
        past == Advance(r, skip)
        run  == RunLen(past, MaxBuf - flush.nout)
        fr   == Passed(past, run)
    IN  /\ flush.on /\ flush.tid = t
        /\ \/ /\ r.active /\ r.stored > 0
              /\ rxBa' = [rxBa EXCEPT ![t] = Advance(past, run)]
              /\ headAbs' = [headAbs EXCEPT ![t] = @ + skip + run]
              /\ out' = [out EXCEPT ![t] = fr]
              /\ ReleaseTo(t, fr)
              /\ flush' = [flush EXCEPT !.tid = t + 1, !.nout = @ + run]
           \/ /\ ~r.active \/ r.stored = 0
              /\ flush' = [flush EXCEPT !.tid = t + 1]
              /\ UNCHANGED <<rxBa, headAbs, out, lastRel>>
        /\ UNCHANGED peer

\* ... and drop the lock.
FlushEnd ==
    /\ flush.on /\ flush.tid = NumTid
    /\ flush' = [on |-> FALSE, tid |-> 0, nout |-> 0]
    /\ UNCHANGED <<rxBa, peer, headAbs, lastRel, out>>

RNext ==
    \/ \E t \in Tids :
         \/ \E req \in BufReqs : RxBaSetup(t, req)
         \/ RxBaSetupNoMem(t)
         \/ RxBaTeardown(t)
         \/ \E n \in Arrivals(t) :
              InputStale(t, n) \/ Input(t, n) \/ InputNoBa(t, n)
         \/ FlushTid(t)
    \/ FlushBegin
    \/ FlushEnd

RSpec == RInit /\ [][RNext]_rvars

-----------------------------------------------------------------------------
Reorder == [active : BOOLEAN, headSn : 0 .. SeqMod - 1, bufSize : 1 .. MaxBuf,
            stored : 0 .. MaxBuf, buf : [Slots -> Nat \cup {Empty}]]

\* The types of the buffer and of its histories.
RTypeOK ==
    /\ rxBa \in [Tids -> Reorder]
    /\ peer \in [Tids -> Nat]
    /\ headAbs \in [Tids -> Nat]
    /\ lastRel \in [Tids -> Nat \cup {Empty}]
    /\ out \in [Tids -> SUBSET Nat]
    /\ flush \in [on : BOOLEAN, tid : 0 .. NumTid, nout : 0 .. MaxBuf]

\* Every buffered frame sits in the slot of its sequence number and inside
\* the window [head, head + bufSize) of real numbers, although the code only
\* ever compares wrapped sequence numbers (rxReorderInput, rxReorderFlushStale).
WindowInv ==
    \A t \in Tids : \A i \in Occupied(rxBa[t]) :
        LET n == rxBa[t].buf[i]
        IN  /\ Slot(Sn(n)) = i
            /\ headAbs[t] <= n /\ n < headAbs[t] + rxBa[t].bufSize

\* headSn is the real head reduced to 12 bits, and it stays within one window
\* of the newest number the AP used: the difference rxReorderInput takes never
\* wraps the wrong way.
HeadTracksPeer ==
    \A t \in Tids : rxBa[t].active =>
        /\ rxBa[t].headSn = Sn(headAbs[t])
        /\ headAbs[t] <= peer[t]
        /\ peer[t] <= headAbs[t] + rxBa[t].bufSize

\* stored counts the occupied slots, and one slot of the window is always
\* free: out[kRxBaMaxBuf] cannot run out of room in rxReorderInput.
StoredExact ==
    \A t \in Tids : /\ rxBa[t].stored = Cardinality(Occupied(rxBa[t]))
                    /\ rxBa[t].stored < rxBa[t].bufSize

\* Frames leave the buffer in the AP's order and at most once: whatever a
\* locked section puts into out[] is newer than all that left before it.
InOrderRelease ==
    [][\A t \in Tids : LockFree \/ flush.tid = t =>
            \A n \in out'[t] : lastRel[t] < n]_rvars

\* rxReorderInput gives up on a missing frame only when it has left the window
\* that rxBaSetup recorded: it is bufSize or more behind the newest one.
InputSkipsOnlyExpired ==
    [][\A t \in Tids : (\E n \in Arrivals(t) : Input(t, n)) =>
            \A m \in headAbs[t] .. headAbs'[t] - 1 :
                m \in out'[t] \/ m < peer'[t] - rxBa[t].bufSize]_rvars

-----------------------------------------------------------------------------
(* The inductive invariant behind the properties above.                    *)

\* Buffer r is well formed with real head h.
RecOK(r, h) ==
    /\ r \in Reorder
    /\ r.headSn = h % SeqMod
    /\ \A i \in Slots : r.buf[i] # Empty =>
          /\ r.buf[i] % MaxBuf = i
          /\ h <= r.buf[i] /\ r.buf[i] < h + r.bufSize
    /\ r.stored = Cardinality(Occupied(r))

\* What holds of one TID: buffer r, real head h, the AP's next number p and
\* the newest released number l.
TidInv(r, h, p, l) ==
    IF r.active
    THEN /\ RecOK(r, h)
         /\ r.stored < r.bufSize
         /\ h <= p /\ p <= h + r.bufSize
         /\ l < h
         /\ \A i \in Slots : r.buf[i] # Empty => r.buf[i] < p
    ELSE r = NoBa /\ l = Empty

\* While the flush loop runs, the TIDs it has not reached released nothing.
FlushPending == flush.on => \A t \in Tids : t >= flush.tid => out[t] = {}

RInv == RTypeOK /\ \A t \in Tids : TidInv(rxBa[t], headAbs[t], peer[t], lastRel[t])
=============================================================================
