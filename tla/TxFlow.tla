------------------------------- MODULE TxFlow -------------------------------
(***************************************************************************)
(* Transmit flow control of RTW88PCIDevice.  outputPacket runs under the   *)
(* gate of an IOGatedOutputQueue.  When few descriptors are free it sets   *)
(* _txStalled and tells the queue to hold the packet; resumeTxIfStalled    *)
(* clears _txStalled and has the queue serviced.  It runs on the interrupt *)
(* thread after tx_isr, and on the one-second debug timer of the device's  *)
(* own work loop: neither is under the gate of the queue, nor do they      *)
(* exclude each other.  The receive thread puts EAPOL frames into the same *)
(* ring, past the queue and its gate.                                      *)
(***************************************************************************)
EXTENDS Integers

CONSTANTS
    Ring,           \* descriptors of the BE ring
    StallAvail,     \* kRTW88TxStallAvail (96)
    ResumeAvail,    \* kRTW88TxResumeAvail (160)
    MaxHeld,        \* bound: packets in the output queue (256)
    MaxEapol        \* bound: EAPOL frames in the ring at once

\* An access point repeats each of its two messages a few times: the answers
\* in the ring are fewer than the 95 descriptors the threshold leaves.
ASSUME TxAssumption ==
    /\ Ring \in Nat /\ StallAvail \in Nat \ {0} /\ ResumeAvail \in Nat
    /\ MaxHeld \in Nat /\ MaxEapol \in Nat
    /\ StallAvail <= ResumeAvail /\ ResumeAvail <= Ring
    /\ MaxEapol < StallAvail

VARIABLES
    enabled,    \* _enabled
    txStalled,  \* _txStalled
    used, sent, \* the queue's frames in the ring; those the chip is done with (external)
    eapol, esent,   \* the receive thread's frames in the ring, likewise (external)
    nospc,      \* rtw_tx found the ring full and freed a frame (history)
    intr,       \* the chip's interrupt is raised (external)
    held,       \* packets in the output queue (external)
    qrun,       \* the queue is started (external)
    qstall,     \* the queue was told to hold its packet (external)
    svc,        \* an asynchronous service is due once the gate is free (external)
    out,        \* where outputPacket is
    at          \* where the threads that resume the queue are

ring == <<used, sent, eapol, esent, nospc, intr>>
queue == <<held, qrun, qstall, svc>>
tvars == <<enabled, txStalled, ring, queue, out, at>>

\* The interrupt thread and the debug timer.
Threads == {"irq", "timer"}
Places == {"idle", "look", "resume", "clear", "service"}

Avail == Ring - used - eapol        \* rtw88_be_tx_avail

TInit ==
    /\ enabled = FALSE /\ txStalled = FALSE
    /\ used = 0 /\ sent = 0 /\ eapol = 0 /\ esent = 0 /\ nospc = FALSE /\ intr = FALSE
    /\ held = 0 /\ qrun = FALSE /\ qstall = FALSE /\ svc = FALSE
    /\ out = "idle" /\ at = [th \in Threads |-> "idle"]

GateFree == out = "idle"

Move(th, from, to) == at[th] = from /\ at' = [at EXCEPT ![th] = to]

-----------------------------------------------------------------------------
(* The interface.                                                          *)

\* enable: power on, start the queue, enable the interrupt.
Enable ==
    /\ ~enabled /\ ~qrun /\ GateFree
    /\ enabled' = TRUE /\ qrun' = TRUE
    /\ UNCHANGED <<txStalled, ring, held, qstall, svc, out, at>>

\* disable: _enabled first ...
Disable ==
    /\ enabled
    /\ enabled' = FALSE
    /\ UNCHANGED <<txStalled, ring, queue, out, at>>

\* ... then the interrupt goes off, the queue is stopped and flushed, and the
\* chip is powered off.  _txStalled is kept.
DisableEnd ==
    /\ ~enabled /\ qrun /\ GateFree
    /\ qrun' = FALSE /\ held' = 0
    /\ used' = 0 /\ sent' = 0 /\ eapol' = 0 /\ esent' = 0 /\ intr' = FALSE
    /\ UNCHANGED <<enabled, txStalled, nospc, qstall, svc, out, at>>

\* The stack hands a packet to the queue (external).
Send ==
    /\ enabled /\ held < MaxHeld
    /\ held' = held + 1
    /\ UNCHANGED <<enabled, txStalled, ring, qrun, qstall, svc, out, at>>

-----------------------------------------------------------------------------
(* The frames: outputPacket under the gate, sendEAPOLKey past it.          *)

Dispatch == GateFree /\ qrun /\ ~qstall /\ held > 0

\* The interface has been disabled: the packet is dropped.
OutputDrop ==
    /\ Dispatch /\ ~enabled
    /\ held' = held - 1
    /\ UNCHANGED <<enabled, txStalled, ring, qrun, qstall, svc, out, at>>

\* Mutant: one descriptor fewer is kept free.
OutputLate ==
    /\ Dispatch /\ enabled /\ Avail >= StallAvail - 1
    /\ out' = "put"
    /\ UNCHANGED <<enabled, txStalled, ring, queue, at>>

\* Room enough ...
Output ==
    /\ Dispatch /\ enabled /\ Avail >= StallAvail
    /\ out' = "put"
    /\ UNCHANGED <<enabled, txStalled, ring, queue, at>>

\* ... and some time later the packet goes into the ring, or is freed when
\* there is no descriptor left (external: rtw_tx).
OutputPut ==
    /\ out = "put" /\ out' = "idle"
    /\ held' = held - 1
    /\ used' = IF Avail > 0 THEN used + 1 ELSE used
    /\ nospc' = (nospc \/ Avail = 0)
    /\ UNCHANGED <<enabled, txStalled, sent, eapol, esent, intr, qrun, qstall, svc, at>>

\* sendEAPOLKey on the receive thread: into the same ring, with no look at it.
SendEapol ==
    /\ qrun /\ eapol < MaxEapol
    /\ eapol' = IF Avail > 0 THEN eapol + 1 ELSE eapol
    /\ nospc' = (nospc \/ Avail = 0)
    /\ UNCHANGED <<enabled, txStalled, used, sent, esent, intr, queue, out, at>>

\* Too little room ...
OutputLow ==
    /\ Dispatch /\ enabled /\ Avail < StallAvail
    /\ out' = "stall"
    /\ UNCHANGED <<enabled, txStalled, ring, queue, at>>

\* Mutant: the packet is held and nobody is told.
OutputStallSilent ==
    /\ out = "stall"
    /\ out' = "return"
    /\ UNCHANGED <<enabled, txStalled, ring, queue, at>>

\* ... _txStalled, some time after the ring was looked at ...
OutputStall ==
    /\ out = "stall"
    /\ txStalled' = TRUE
    /\ out' = "return"
    /\ UNCHANGED <<enabled, ring, queue, at>>

\* ... and the queue holds the packet (external: kIOReturnOutputStall).
OutputReturn ==
    /\ out = "return"
    /\ qstall' = TRUE
    /\ out' = "idle"
    /\ UNCHANGED <<enabled, txStalled, ring, held, qrun, svc, at>>

\* A service asked for runs under the gate, so after the return (external).
QueueService ==
    /\ svc /\ GateFree
    /\ svc' = FALSE /\ qstall' = FALSE
    /\ UNCHANGED <<enabled, txStalled, ring, held, qrun, out, at>>

-----------------------------------------------------------------------------
(* The chip, the interrupt thread and the timer.                           *)

\* The chip is done with a frame of the queue, or with an EAPOL frame.
ChipSends ==
    /\ sent < used
    /\ sent' = sent + 1 /\ intr' = TRUE
    /\ UNCHANGED <<enabled, txStalled, used, eapol, esent, nospc, queue, out, at>>

ChipSendsEapol ==
    /\ esent < eapol
    /\ esent' = esent + 1 /\ intr' = TRUE
    /\ UNCHANGED <<enabled, txStalled, used, sent, eapol, nospc, queue, out, at>>

\* Mutant: tx_isr counts the same descriptors again.
IrqRunAgain ==
    /\ Move("irq", "idle", "resume") /\ intr
    /\ intr' = FALSE
    /\ used' = used - sent /\ eapol' = eapol - esent
    /\ UNCHANGED <<enabled, txStalled, sent, esent, nospc, queue, out>>

\* The wrapper: tx_isr frees descriptors (external) and resumeTxIfStalled
\* follows.
IrqRun ==
    /\ Move("irq", "idle", "resume") /\ intr
    /\ intr' = FALSE
    /\ used' = used - sent /\ sent' = 0
    /\ eapol' = eapol - esent /\ esent' = 0
    /\ UNCHANGED <<enabled, txStalled, nospc, queue, out>>

\* debugTimerFired, every second: it reads the ring first.  With too little
\* room it goes no further ...
TimerFired ==
    /\ Move("timer", "idle", "look") /\ Avail >= ResumeAvail
    /\ UNCHANGED <<enabled, txStalled, ring, queue, out>>

\* Mutant: the timer only dumps the ring's state.
TimerOnlyDumps ==
    /\ Move("timer", "look", "idle")
    /\ UNCHANGED <<enabled, txStalled, ring, queue, out>>

\* ... then _txStalled, and with both it calls resumeTxIfStalled.
TimerLook ==
    /\ Move("timer", "look", IF txStalled THEN "resume" ELSE "idle")
    /\ UNCHANGED <<enabled, txStalled, ring, queue, out>>

\* resumeTxIfStalled, on either thread: look at both again ...
Resume(th) ==
    /\ Move(th, "resume", IF txStalled /\ Avail >= ResumeAvail THEN "clear" ELSE "idle")
    /\ UNCHANGED <<enabled, txStalled, ring, queue, out>>

\* ... clear ...
Clear(th) ==
    /\ Move(th, "clear", "service")
    /\ txStalled' = FALSE
    /\ UNCHANGED <<enabled, ring, queue, out>>

\* ... and ask for service.
Service(th) ==
    /\ Move(th, "service", "idle")
    /\ svc' = TRUE
    /\ UNCHANGED <<enabled, txStalled, ring, held, qrun, qstall, out>>

-----------------------------------------------------------------------------
OutWork == OutputDrop \/ Output \/ OutputPut \/ OutputLow \/ OutputStall \/ OutputReturn
           \/ QueueService
ResumeWork(th) == Resume(th) \/ Clear(th) \/ Service(th)

TNext == \/ Enable \/ Disable \/ DisableEnd \/ Send \/ SendEapol
         \/ ChipSends \/ ChipSendsEapol
         \/ OutWork \/ IrqRun \/ TimerFired \/ TimerLook
         \/ \E th \in Threads : ResumeWork(th)

\* The queue and the threads run, disable() returns, the timer fires again
\* and again, and the chip, which takes the ring in order, sends all in it.
TSpec ==
    /\ TInit /\ [][TNext]_tvars
    /\ WF_tvars(OutputPut \/ OutputStall \/ OutputReturn) /\ WF_tvars(QueueService)
    /\ WF_tvars(DisableEnd) /\ WF_tvars(ChipSends) /\ WF_tvars(ChipSendsEapol)
    /\ WF_tvars(IrqRun) /\ WF_tvars(TimerFired) /\ WF_tvars(TimerLook)
    /\ \A th \in Threads : WF_tvars(ResumeWork(th))

-----------------------------------------------------------------------------

\* The types of the ring, the queue and the threads.
TTypeOK ==
    /\ enabled \in BOOLEAN /\ txStalled \in BOOLEAN /\ intr \in BOOLEAN /\ nospc \in BOOLEAN
    /\ qrun \in BOOLEAN /\ qstall \in BOOLEAN /\ svc \in BOOLEAN
    /\ used \in 0 .. Ring /\ sent \in 0 .. used /\ held \in 0 .. MaxHeld
    /\ eapol \in 0 .. MaxEapol /\ esent \in 0 .. eapol
    /\ out \in {"idle", "put", "stall", "return"}
    /\ at \in [Threads -> Places]

\* A queue that holds its packet is not forgotten: _txStalled says so, or its
\* service is on the way.  outputPacket and the two threads that run
\* resumeTxIfStalled read and write _txStalled without a lock.
HeldIsKnown ==
    qstall \/ out = "return" => txStalled \/ svc \/ \E th \in Threads : at[th] = "service"

\* The comment in outputPacket: the threshold "leaves headroom so rtw_tx never
\* actually hits -ENOSPC", although the ring is filled some time after it was
\* looked at and the receive thread fills it without looking.
Headroom == ~nospc

\* A held packet is not held for good: even when the interrupt thread looked
\* just before outputPacket set _txStalled, and no interrupt will come again,
\* the queue is serviced.
StallEnds == qstall ~> ~qstall
=============================================================================
