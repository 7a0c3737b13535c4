---------------------------- MODULE TxFlowProofs ----------------------------
(***************************************************************************)
(* The flow control of TxFlow for every ring size and every pair of        *)
(* thresholds.  TInv is inductive as it stands.                            *)
(***************************************************************************)
EXTENDS TxFlow, TLAPS

\* The frames of the queue stop StallAvail short of the end, less the one on
\* its way after a look; what is left is more than the EAPOL frames.  The
\* packet on its way is still counted in the queue.
RoomInv ==
    /\ Headroom
    /\ used <= Ring - StallAvail + 1
    /\ out = "put" => used <= Ring - StallAvail /\ held > 0

TInv == TTypeOK /\ HeldIsKnown /\ RoomInv

\* The flow control starts with the types and the room it keeps.
LEMMA InitTInv == TInit => TInv
<1> SUFFICES ASSUME TInit PROVE TInv
  OBVIOUS
<1>1. used \in 0 .. Ring /\ sent \in 0 .. used /\ held \in 0 .. MaxHeld
      /\ eapol \in 0 .. MaxEapol /\ esent \in 0 .. eapol
  BY TxAssumption DEF TInit
<1>2. at \in [Threads -> Places]
  BY DEF TInit, Threads, Places
<1>3. TTypeOK
  BY <1>1, <1>2, Zenon DEF TInit, TTypeOK
<1>4. HeldIsKnown
  BY DEF TInit, HeldIsKnown
<1>5. RoomInv
  BY TxAssumption DEF TInit, RoomInv, Headroom
<1> QED
  BY <1>3, <1>4, <1>5, Zenon DEF TInv

\* A move of one thread keeps the places, and only a thread that leaves
\* "service" may stop being there.
LEMMA MovePlaces ==
  ASSUME at \in [Threads -> Places], NEW th \in Threads, NEW f, NEW t \in Places,
         Move(th, f, t)
  PROVE  /\ at' \in [Threads -> Places]
         /\ (f # "service" /\ (\E u \in Threads : at[u] = "service"))
              => \E u \in Threads : at'[u] = "service"
         /\ t = "service" => \E u \in Threads : at'[u] = "service"
BY DEF Move

\* Every step of the threads keeps the ring, the flags and the room.
LEMMA StepTInv == TInv /\ [TNext]_tvars => TInv'
<1> SUFFICES ASSUME TInv, [TNext]_tvars PROVE TInv'
  OBVIOUS
<1> USE TxAssumption DEF TInv, TTypeOK, HeldIsKnown, RoomInv, Headroom, Avail, GateFree,
        ring, queue
<1>1. CASE Enable
  BY <1>1 DEF Enable
<1>2. CASE Disable
  BY <1>2 DEF Disable
<1>3. CASE DisableEnd
  <2>1. (used \in 0 .. Ring /\ sent \in 0 .. used /\ held \in 0 .. MaxHeld
         /\ eapol \in 0 .. MaxEapol /\ esent \in 0 .. eapol)'
    BY <1>3 DEF DisableEnd
  <2>2. HeldIsKnown' /\ RoomInv'
    BY <1>3 DEF DisableEnd
  <2>3. TTypeOK'
    BY <2>1, <1>3, Zenon DEF DisableEnd
  <2> QED
    BY <2>2, <2>3, Zenon
<1>4. CASE Send
  BY <1>4 DEF Send
<1>5. CASE SendEapol
  <2>1. (used \in 0 .. Ring /\ sent \in 0 .. used /\ held \in 0 .. MaxHeld
         /\ eapol \in 0 .. MaxEapol /\ esent \in 0 .. eapol)' /\ Avail > 0
    BY <1>5 DEF SendEapol
  <2>2. nospc' = FALSE
    BY <1>5, <2>1 DEF SendEapol
  <2>3. HeldIsKnown' /\ RoomInv'
    BY <1>5, <2>1, <2>2 DEF SendEapol
  <2>4. TTypeOK'
    BY <2>1, <2>2, <1>5, Zenon DEF SendEapol
  <2> QED
    BY <2>3, <2>4, Zenon
<1>6. CASE ChipSends
  BY <1>6 DEF ChipSends
<1>7. CASE ChipSendsEapol
  BY <1>7 DEF ChipSendsEapol
<1>8. CASE OutputDrop
  BY <1>8 DEF OutputDrop, Dispatch
<1>9. CASE Output
  BY <1>9 DEF Output, Dispatch
<1>10. CASE OutputPut
  <2>1. (used \in 0 .. Ring /\ sent \in 0 .. used /\ held \in 0 .. MaxHeld
         /\ eapol \in 0 .. MaxEapol /\ esent \in 0 .. eapol)' /\ Avail > 0
    BY <1>10 DEF OutputPut
  <2>2. nospc' = FALSE
    BY <1>10, <2>1 DEF OutputPut
  <2>3. HeldIsKnown' /\ RoomInv'
    BY <1>10, <2>1, <2>2 DEF OutputPut
  <2>4. TTypeOK'
    BY <2>1, <2>2, <1>10, Zenon DEF OutputPut
  <2> QED
    BY <2>3, <2>4, Zenon
<1>11. CASE OutputLow
  BY <1>11 DEF OutputLow, Dispatch
<1>12. CASE OutputStall
  BY <1>12 DEF OutputStall
<1>13. CASE OutputReturn
  BY <1>13 DEF OutputReturn
<1>14. CASE QueueService
  BY <1>14 DEF QueueService
<1>15. CASE IrqRun
  <2>1. (used \in 0 .. Ring /\ sent \in 0 .. used /\ held \in 0 .. MaxHeld
         /\ eapol \in 0 .. MaxEapol /\ esent \in 0 .. eapol)' /\ used' <= used
    BY <1>15 DEF IrqRun
  <2>2. at' \in [Threads -> Places] /\ HeldIsKnown'
    BY <1>15, MovePlaces DEF IrqRun, Threads, Places
  <2>3. RoomInv'
    BY <1>15, <2>1 DEF IrqRun
  <2>4. TTypeOK'
    BY <2>1, <2>2, <1>15, Zenon DEF IrqRun
  <2> QED
    BY <2>2, <2>3, <2>4, Zenon
<1>16. CASE TimerFired
  BY <1>16, MovePlaces DEF TimerFired, Threads, Places
<1>17. CASE TimerLook
  BY <1>17, MovePlaces DEF TimerLook, Threads, Places
<1>18. ASSUME NEW th \in Threads, Resume(th) PROVE TInv'
  BY <1>18, MovePlaces DEF Resume, Places
<1>19. ASSUME NEW th \in Threads, Clear(th) PROVE TInv'
  BY <1>19, MovePlaces DEF Clear, Places
<1>20. ASSUME NEW th \in Threads, Service(th) PROVE TInv'
  BY <1>20, MovePlaces DEF Service, Places
<1>21. CASE UNCHANGED tvars
  BY <1>21 DEF tvars
<1> QED
  BY <1>1, <1>2, <1>3, <1>4, <1>5, <1>6, <1>7, <1>8, <1>9, <1>10, <1>11, <1>12, <1>13,
     <1>14, <1>15, <1>16, <1>17, <1>18, <1>19, <1>20, <1>21
     DEF TNext, OutWork, ResumeWork

\* The invariant holds in every state of the flow control.
THEOREM FlowInvariant == TSpec => []TInv
  BY InitTInv, StepTInv, PTL DEF TSpec

\* The ring never holds more than Ring descriptors, nor the queue more packets
\* than it may, whatever the interrupt thread and disable() do meanwhile.
THEOREM FlowTypes == TSpec => []TTypeOK
<1>1. TInv => TTypeOK
  BY DEF TInv
<1> QED
  BY <1>1, FlowInvariant, PTL

\* A queue that outputPacket told to hold its packet is never forgotten, for
\* every ring and threshold, although three threads write _txStalled and
\* nothing orders them.
THEOREM FlowHeldIsKnown == TSpec => []HeldIsKnown
<1>1. TInv => HeldIsKnown
  BY DEF TInv
<1> QED
  BY <1>1, FlowInvariant, PTL

\* rtw_tx finds a free descriptor for every frame of the queue and for every
\* EAPOL frame beside it, as long as those are fewer than StallAvail.
THEOREM FlowHeadroom == TSpec => []Headroom
<1>1. TInv => Headroom
  BY DEF TInv, RoomInv
<1> QED
  BY <1>1, FlowInvariant, PTL
=============================================================================
