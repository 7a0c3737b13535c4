---------------------------- MODULE DeviceProofs ----------------------------
(***************************************************************************)
(* The life of the device for any set of physical addresses, any firmware  *)
(* and any log.  DmaInv is what the two lists of bounce buffers and the    *)
(* allocator say of each other, and HoldInv which thread has the buffers   *)
(* that are off both lists.  LifeInv says what each phase of a start that  *)
(* has not failed has installed, and with it which activations may be      *)
(* left.  LogInv is what the log ring and what was printed say of each     *)
(* other.                                                                  *)
(***************************************************************************)
EXTENDS Device, WellFoundedInduction, TLAPS

DmaInv ==
    /\ PhysOf(dmaList) \cap PhysOf(pendingFree) = {}
    /\ PhysOf(limbo) \cap PhysOf(dmaList \cup pendingFree) = {}
    /\ PhysOf(dmaList) \cup PhysOf(pendingFree) \cup PhysOf(limbo) = used
    /\ \A e, f \in dmaList \cup pendingFree \cup limbo : e.phys = f.phys => e = f
    /\ holder = "none" <=> limbo = {}

\* Addresses of a union are the union of the addresses.
LEMMA PhysUnion == \A A, B : PhysOf(A \cup B) = PhysOf(A) \cup PhysOf(B)
  BY DEF PhysOf

\* Entries with addresses of their own take them along when they leave a list.
LEMMA PhysMinus ==
    ASSUME NEW A, NEW G \in SUBSET A,
           \A e, f \in A : e.phys = f.phys => e = f
    PROVE  PhysOf(A \ G) = PhysOf(A) \ PhysOf(G)
  BY DEF PhysOf

\* What a step makes of the addresses is what it makes of the lists.
LEMMA PhysPrime ==
    /\ PhysOf(dmaList)' = PhysOf(dmaList') /\ PhysOf(pendingFree)' = PhysOf(pendingFree')
    /\ PhysOf(limbo)' = PhysOf(limbo')
    /\ PhysOf(dmaList \cup pendingFree)' = PhysOf(dmaList') \cup PhysOf(pendingFree')
  BY DEF PhysOf

\* A step that leaves the lists alone keeps what they say of each other.
LEMMA SameDma == DmaInv /\ UNCHANGED dma => DmaInv'
  BY DEF dma, inHand, DmaInv, PhysOf

\* A buffer unmapped while preemption was off leaves its list, and is of a thread.
LEMMA DeferKeeps ==
    ASSUME DmaInv, NEW gone \in SUBSET dmaList, NEW t \in {"isr", "life", "ctl"},
           FreeDeferred(gone, t)
    PROVE  DmaInv'
<1>1. \A e, f \in dmaList : e.phys = f.phys => e = f
  BY DEF DmaInv
<1>2. PhysOf(dmaList') = PhysOf(dmaList) \ PhysOf(gone)
  BY <1>1, PhysMinus DEF FreeDeferred
<1>3. limbo = {} /\ limbo' = gone /\ pendingFree' = pendingFree /\ used' = used
  BY DEF DmaInv, FreeDeferred
<1>4. PhysOf(gone) \subseteq PhysOf(dmaList) /\ PhysOf(limbo) = {}
  BY <1>3 DEF PhysOf
<1>5. \A e, f \in dmaList' \cup pendingFree' \cup limbo' : e.phys = f.phys => e = f
  BY <1>3 DEF DmaInv, FreeDeferred
<1>6. holder' = "none" <=> limbo' = {}
  BY DEF FreeDeferred
<1>7. PhysOf(limbo') = PhysOf(gone) /\ PhysOf(pendingFree') = PhysOf(pendingFree)
  BY <1>3
<1>8. /\ PhysOf(dmaList) \cap PhysOf(pendingFree) = {}
      /\ PhysOf(dmaList) \cup PhysOf(pendingFree) = used
  BY <1>4 DEF DmaInv
<1>9. /\ PhysOf(dmaList') \cap PhysOf(pendingFree') = {}
      /\ PhysOf(limbo') \cap (PhysOf(dmaList') \cup PhysOf(pendingFree')) = {}
      /\ PhysOf(dmaList') \cup PhysOf(pendingFree') \cup PhysOf(limbo') = used'
  BY <1>2, <1>3, <1>4, <1>7, <1>8
<1> QED
  BY <1>5, <1>6, <1>9, PhysPrime DEF DmaInv

\* It comes to the list of deferred releases.
LEMMA LinkKeeps ==
    ASSUME DmaInv, NEW e \in limbo, LinkDeferred(e)
    PROVE  DmaInv'
<1>1. pendingFree' = pendingFree \cup {e} /\ limbo' = limbo \ {e} /\ dmaList' = dmaList
      /\ used' = used
  BY DEF LinkDeferred
<1>2. PhysOf(pendingFree') = PhysOf(pendingFree) \cup PhysOf({e})
  BY <1>1, PhysUnion
<1>3. PhysOf(limbo') = PhysOf(limbo) \ PhysOf({e}) /\ PhysOf({e}) \subseteq PhysOf(limbo)
  <2>1. \A f, h \in limbo : f.phys = h.phys => f = h
    BY DEF DmaInv
  <2>2. {e} \in SUBSET limbo
    OBVIOUS
  <2>3. PhysOf(limbo \ {e}) = PhysOf(limbo) \ PhysOf({e})
    BY <2>1, <2>2, PhysMinus
  <2>4. PhysOf({e}) \subseteq PhysOf(limbo)
    BY DEF PhysOf
  <2> QED BY <1>1, <2>3, <2>4
<1>4. \A f, h \in dmaList' \cup pendingFree' \cup limbo' : f.phys = h.phys => f = h
  BY <1>1 DEF DmaInv
<1>5. holder' = "none" <=> limbo' = {}
  BY DEF LinkDeferred, DmaInv
<1>6. /\ PhysOf(dmaList) \cap PhysOf(pendingFree) = {}
      /\ PhysOf(limbo) \cap (PhysOf(dmaList) \cup PhysOf(pendingFree)) = {}
      /\ PhysOf(dmaList) \cup PhysOf(pendingFree) \cup PhysOf(limbo) = used
  BY PhysUnion DEF DmaInv
<1>7. /\ PhysOf(dmaList') \cap PhysOf(pendingFree') = {}
      /\ PhysOf(limbo') \cap (PhysOf(dmaList') \cup PhysOf(pendingFree')) = {}
      /\ PhysOf(dmaList') \cup PhysOf(pendingFree') \cup PhysOf(limbo') = used'
  BY <1>1, <1>2, <1>3, <1>6
<1> QED
  BY <1>4, <1>5, <1>7, PhysPrime DEF DmaInv

\* A buffer given back at once leaves the list, and its address is free.
LEMMA FreeKeeps ==
    ASSUME DmaInv, NEW gone \in SUBSET dmaList, FreeAtOnce(gone)
    PROVE  DmaInv'
<1>1. \A e, f \in dmaList : e.phys = f.phys => e = f
  BY DEF DmaInv
<1>2. PhysOf(dmaList') = PhysOf(dmaList) \ PhysOf(gone)
  BY <1>1, PhysMinus DEF FreeAtOnce
<1>3. PhysOf(gone) \subseteq PhysOf(dmaList)
  BY DEF PhysOf
<1>4. pendingFree' = pendingFree /\ limbo' = limbo /\ holder' = holder
      /\ used' = used \ PhysOf(gone) /\ dmaList' = dmaList \ gone
  BY DEF FreeAtOnce, inHand
<1>5. \A e, f \in dmaList' \cup pendingFree' \cup limbo' : e.phys = f.phys => e = f
  BY <1>4 DEF DmaInv
<1>6. /\ PhysOf(dmaList) \cap PhysOf(pendingFree) = {}
      /\ PhysOf(limbo) \cap (PhysOf(dmaList) \cup PhysOf(pendingFree)) = {}
      /\ PhysOf(dmaList) \cup PhysOf(pendingFree) \cup PhysOf(limbo) = used
  BY PhysUnion DEF DmaInv
<1>7. /\ PhysOf(dmaList') \cap PhysOf(pendingFree') = {}
      /\ PhysOf(limbo') \cap (PhysOf(dmaList') \cup PhysOf(pendingFree')) = {}
      /\ PhysOf(dmaList') \cup PhysOf(pendingFree') \cup PhysOf(limbo') = used'
  BY <1>2, <1>3, <1>4, <1>6
<1>8. holder' = "none" <=> limbo' = {}
  BY <1>4 DEF DmaInv
<1> QED
  BY <1>5, <1>7, <1>8, PhysPrime DEF DmaInv

\* The deferred releases give back the addresses of their list and no other.
LEMMA DrainKeeps == ASSUME DmaInv, DrainPendingFree PROVE DmaInv'
<1>1. /\ pendingFree' = {} /\ used' = used \ PhysOf(pendingFree)
      /\ dmaList' = dmaList /\ limbo' = limbo /\ holder' = holder
  BY DEF DrainPendingFree, Drained, inHand
<1>2. PhysOf(pendingFree') = {}
  BY <1>1 DEF PhysOf
<1>3. \A e, f \in dmaList' \cup pendingFree' \cup limbo' : e.phys = f.phys => e = f
  BY <1>1 DEF DmaInv
<1> QED BY <1>1, <1>2, <1>3, PhysPrime, PhysUnion DEF DmaInv

\* What is in use once the deferred releases are done is mapped or in hand.
LEMMA DrainedIsMapped == DmaInv => Drained = PhysOf(dmaList) \cup PhysOf(limbo)
  BY PhysUnion DEF DmaInv, Drained

\* New entries with addresses of their own, which the allocator had free.
LEMMA AddKeeps ==
    ASSUME DmaInv, NEW new, PhysOf(new) \cap used = {},
           \A e, f \in new : e.phys = f.phys => e = f,
           dmaList' = dmaList \cup new, used' = used \cup PhysOf(new),
           UNCHANGED <<pendingFree, inHand>>
    PROVE  DmaInv'
<1>1. PhysOf(dmaList') = PhysOf(dmaList) \cup PhysOf(new)
  BY PhysUnion
<1>2. ASSUME NEW e \in dmaList' \cup pendingFree' \cup limbo',
             NEW f \in dmaList' \cup pendingFree' \cup limbo', e.phys = f.phys
      PROVE  e = f
  <2>1. \A x \in new : x.phys \notin used
    BY DEF PhysOf
  <2>2. \A x \in dmaList \cup pendingFree \cup limbo : x.phys \in used
    BY DEF DmaInv, PhysOf
  <2>3. CASE e \in new /\ f \in new
    BY <1>2, <2>3
  <2>4. CASE e \in dmaList \cup pendingFree \cup limbo /\ f \in dmaList \cup pendingFree \cup limbo
    BY <1>2, <2>4 DEF DmaInv
  <2> QED
    BY <1>2, <2>1, <2>2, <2>3, <2>4 DEF inHand
<1>3. pendingFree' = pendingFree /\ limbo' = limbo /\ holder' = holder
  BY DEF inHand
<1> QED
  BY <1>1, <1>2, <1>3, PhysPrime, PhysUnion DEF DmaInv

\* Mapping one frame for transmission, or none without a device.
LEMMA MapTxKeeps ==
    ASSUME DmaInv, NEW p, p \notin used,
           dmaList' = dmaList \cup compat_dma_map(p, "tx"),
           used' = used \cup PhysOf(compat_dma_map(p, "tx")),
           UNCHANGED <<pendingFree, inHand>>
    PROVE  DmaInv'
<1>1. PhysOf(compat_dma_map(p, "tx")) \cap used = {}
  BY DEF compat_dma_map, PhysOf
<1>2. \A e, f \in compat_dma_map(p, "tx") : e.phys = f.phys => e = f
  BY DEF compat_dma_map
<1> QED
  BY <1>1, <1>2, AddKeeps

\* Turning the chip off releases what is in flight.
LEMMA PowerOffKeeps ==
    ASSUME DmaInv, NEW t \in {"isr", "life", "ctl"}, PowerOff(t) PROVE DmaInv'
<1>1. StopReleases \in SUBSET dmaList
  BY DEF StopReleases, InFlight
<1> QED
  BY <1>1, DeferKeeps DEF PowerOff

\* What one step of the device does to the bounce buffers, whichever it is.
LEMMA StepDmaInv == DmaInv /\ [DNext]_dvars => DmaInv'
<1> SUFFICES ASSUME DmaInv, [DNext]_dvars PROVE DmaInv'
  OBVIOUS
<1>1. CASE UNCHANGED dvars
  BY <1>1, SameDma DEF dvars
<1>2. CASE StartMap \/ StartCreate \/ StartAttach \/ StartFails \/ Enable
  BY <1>2, SameDma DEF StartMap, StartCreate, StartAttach, StartFails, Enable
<1>3. CASE HandleInterrupt \/ TriggerEnd \/ IrqThread \/ IsrEnd \/ ResumeEnd \/ NapiPoll
           \/ SyncCopied
  BY <1>3, SameDma DEF HandleInterrupt, TriggerEnd, IrqThread, IsrEnd, ResumeEnd, NapiPoll, SyncCopied
<1>4. CASE Quiesce \/ NapiDel \/ FreeIrq \/ FreeHw \/ Release80211 \/ CompatExit
           \/ TeardownEnd \/ Rematch \/ Printk
  BY <1>4, SameDma DEF Quiesce, NapiDel, FreeIrq, FreeHw, Release80211, CompatExit,
                       TeardownEnd, Rematch, Printk
<1>5. CASE StartProbe
  <2>1. PICK p \in Phys, q \in Phys :
            p # q /\ Allocate(compat_dma_alloc(p) \cup compat_dma_map(q, "rx"))
    BY <1>5 DEF StartProbe
  <2>2. \A e, f \in compat_dma_alloc(p) \cup compat_dma_map(q, "rx") :
            e.phys = f.phys => e = f
    BY <2>1 DEF compat_dma_alloc, compat_dma_map
  <2> QED
    BY <2>1, <2>2, AddKeeps DEF Allocate
<1>6. CASE OutputPacket
  <2>1. CASE \E p \in Phys \ Drained :
                /\ used' = Drained \cup PhysOf(compat_dma_map(p, "tx"))
                /\ dmaList' = dmaList \cup compat_dma_map(p, "tx")
    <3>1. PICK p \in Phys \ Drained :
                /\ used' = Drained \cup PhysOf(compat_dma_map(p, "tx"))
                /\ dmaList' = dmaList \cup compat_dma_map(p, "tx")
      BY <2>1
    <3>2. PhysOf(dmaList') = PhysOf(dmaList) \cup PhysOf(compat_dma_map(p, "tx"))
      BY <3>1, PhysUnion
    <3>3. \A e \in dmaList \cup limbo : e.phys # p
      BY DrainedIsMapped DEF PhysOf
    <3>4. \A e \in compat_dma_map(p, "tx") : e = [phys |-> p, orig |-> "tx"]
      BY DEF compat_dma_map
    <3>5. pendingFree' = {} /\ limbo' = limbo /\ holder' = holder
      BY <1>6 DEF OutputPacket, inHand
    <3>6. \A e, f \in dmaList' \cup pendingFree' \cup limbo' : e.phys = f.phys => e = f
      BY <3>1, <3>3, <3>4, <3>5 DEF DmaInv
    <3>7. PhysOf(pendingFree') = {} /\ p \notin PhysOf(dmaList) \cup PhysOf(limbo)
          /\ PhysOf(compat_dma_map(p, "tx")) \subseteq {p}
      BY <3>1, <3>4, <3>5, DrainedIsMapped DEF PhysOf
    <3>8. PhysOf(limbo) \cap PhysOf(dmaList) = {}
      BY PhysUnion DEF DmaInv
    <3>9. /\ PhysOf(limbo') \cap (PhysOf(dmaList') \cup PhysOf(pendingFree')) = {}
          /\ PhysOf(dmaList') \cup PhysOf(pendingFree') \cup PhysOf(limbo') = used'
      BY <3>1, <3>2, <3>5, <3>7, <3>8, DrainedIsMapped
    <3>10. holder' = "none" <=> limbo' = {}
      BY <3>5 DEF DmaInv
    <3> QED
      BY <3>6, <3>7, <3>9, <3>10, PhysPrime DEF DmaInv
  <2>2. CASE used' = Drained /\ UNCHANGED dmaList
    BY <1>6, <2>2, DrainKeeps DEF OutputPacket, DrainPendingFree, inHand
  <2> QED
    BY <1>6, <2>1, <2>2 DEF OutputPacket
<1>7. CASE TxMgmtFrame
  <2>1. PICK p \in Phys \ used : Allocate(compat_dma_map(p, "tx"))
    BY <1>7 DEF TxMgmtFrame
  <2> QED
    BY <2>1, MapTxKeeps DEF Allocate
<1>8. CASE IsrUnmap
  <2>1. PICK e \in StopReleases : FreeDeferred(compat_dma_unmap({e}), "isr")
    BY <1>8 DEF IsrUnmap
  <2>2. compat_dma_unmap({e}) \in SUBSET dmaList
    BY DEF compat_dma_unmap, StopReleases, InFlight
  <2> QED
    BY <2>1, <2>2, DeferKeeps
<1>9. CASE NapiGive
  BY <1>9, SameDma, DrainKeeps DEF NapiGive, ieee80211_rx_irqsafe
<1>10. CASE Disable \/ Stop80211
  BY <1>10, PowerOffKeeps DEF Disable, Stop80211
<1>11. CASE TeardownOff
  BY <1>11, SameDma, PowerOffKeeps DEF TeardownOff
<1>12. CASE UnmapRings
  BY <1>12, FreeKeeps DEF UnmapRings, compat_dma_free, compat_dma_unmap
<1>13. CASE DeviceFree \/ TeardownDrain
  BY <1>13, DrainKeeps DEF DeviceFree, TeardownDrain
<1>14. CASE Main
  BY <1>14, SameDma, PowerOffKeeps
     DEF Main, NewUserClient, ClientClose, cmd_power, cmd_log, cmd_debug, externalMethod,
         sPower, sGetLog, sSetDebug, CmdPowerOn, CmdPowerOff
<1>15. CASE \E e \in limbo : LinkDeferred(e)
  BY <1>15, LinkKeeps
<1> QED
  BY <1>1, <1>2, <1>3, <1>4, <1>5, <1>6, <1>7, <1>8, <1>9, <1>10, <1>11, <1>12, <1>13,
     <1>14, <1>15 DEF DNext

\* The thread that has unmapped a buffer with irq_lock held has not gone on.
HoldInv ==
    /\ holder \in {"none", "isr", "life", "ctl"}
    /\ holder = "isr" => "isr" \in irq
    /\ holder = "life" => phase \in {"up", "off", "stopped"}
    /\ holder = "ctl" => client
    /\ client => phase = "up"

\* What one step does to who holds a buffer.
LEMMA StepHold == HoldInv /\ [DNext]_dvars => HoldInv'
<1> SUFFICES ASSUME HoldInv, [DNext]_dvars PROVE HoldInv'
  OBVIOUS
<1> USE DEF HoldInv
<1>1. CASE UNCHANGED dvars
  BY <1>1 DEF dvars, dma, inHand, threads
<1>2. CASE StartMap \/ StartCreate \/ StartAttach \/ StartFails
  <2>1. UNCHANGED <<holder, irq, client>> /\ phase \in {"new", "mapped", "made", "probed"}
    BY <1>2 DEF StartMap, StartCreate, StartAttach, StartFails, dma, inHand, threads
  <2> QED BY <2>1
<1>3. CASE StartProbe
  BY <1>3 DEF StartProbe, Allocate, inHand, threads
<1>4. CASE Enable
  BY <1>4 DEF Enable, dma, inHand, threads
<1>5. CASE OutputPacket \/ TxMgmtFrame
  BY <1>5 DEF OutputPacket, TxMgmtFrame, Allocate, inHand, threads
<1>6. CASE HandleInterrupt \/ TriggerEnd \/ IrqThread \/ IsrEnd \/ ResumeEnd
  BY <1>6 DEF HandleInterrupt, TriggerEnd, IrqThread, IsrEnd, ResumeEnd, dma, inHand
<1>7. CASE NapiPoll \/ SyncCopied
  BY <1>7 DEF NapiPoll, SyncCopied, dma, inHand
<1>8. CASE NapiGive
  BY <1>8 DEF NapiGive, ieee80211_rx_irqsafe, DrainPendingFree, dma, inHand
<1>9. CASE Disable
  BY <1>9 DEF Disable, PowerOff, FreeDeferred, threads
<1>10. CASE IsrUnmap
  BY <1>10 DEF IsrUnmap, FreeDeferred, threads
<1>11. CASE \E e \in limbo : LinkDeferred(e)
  BY <1>11 DEF LinkDeferred, threads
<1>12. CASE Quiesce
  BY <1>12 DEF Quiesce, dma, inHand, threads
<1>13. CASE TeardownOff
  BY <1>13 DEF TeardownOff, PowerOff, FreeDeferred, dma, inHand, threads
<1>14. CASE Stop80211
  BY <1>14 DEF Stop80211, PowerOff, FreeDeferred, threads
<1>15. CASE TeardownDrain \/ DeviceFree
  BY <1>15 DEF TeardownDrain, DeviceFree, DrainPendingFree, inHand, threads
<1>16. CASE NapiDel
  BY <1>16 DEF NapiDel, dma, inHand
<1>17. CASE FreeIrq
  BY <1>17 DEF FreeIrq, CancelWait, dma, inHand
<1>18. CASE UnmapRings
  BY <1>18 DEF UnmapRings, FreeAtOnce, inHand, threads
<1>19. CASE FreeHw \/ Release80211 \/ CompatExit \/ TeardownEnd \/ Rematch
  <2>1. UNCHANGED <<holder, irq, client>>
    BY <1>19 DEF FreeHw, Release80211, CompatExit, TeardownEnd, Rematch, dma, inHand, threads
  <2>2. phase \in {"irqless", "hwless", "released", "exited", "freed"}
    BY <1>19 DEF FreeHw, Release80211, CompatExit, TeardownEnd, Rematch
  <2> QED BY <2>1, <2>2
<1>22. CASE Printk
  BY <1>22 DEF Printk, dma, inHand, threads
<1>20. CASE NewUserClient \/ ClientClose \/ cmd_log \/ cmd_debug
  BY <1>20 DEF NewUserClient, ClientClose, cmd_log, cmd_debug, externalMethod, sGetLog,
               sSetDebug, dma, inHand, threads
<1>21. CASE cmd_power
  BY <1>21 DEF cmd_power, externalMethod, sPower, CmdPowerOn, CmdPowerOff, PowerOff,
               FreeDeferred, dma, inHand, threads
<1> QED
  BY <1>1, <1>2, <1>3, <1>4, <1>5, <1>6, <1>7, <1>8, <1>9, <1>10, <1>11, <1>12, <1>13,
     <1>14, <1>15, <1>16, <1>17, <1>18, <1>19, <1>20, <1>21, <1>22 DEF DNext, Main

-----------------------------------------------------------------------------
(* What a start that has not failed has installed, phase by phase.          *)

HasG    == {"mapped", "made", "probed", "up", "quiet", "off", "drained", "stopped",
            "napiless", "unmapped", "irqless", "hwless", "released", "exited"}
HasCbs  == HasG \ {"mapped", "exited"}
HasObj  == HasCbs \ {"released"}
HasHw   == HasObj \ {"made", "hwless"}
HasIrq  == HasHw \ {"irqless"}
HasNapi == HasIrq \ {"napiless", "unmapped"}
HasDma  == HasNapi \cup {"napiless"}

\* The bytes of a firmware on the heap.
FwBytes == 0 - release_firmware(fw)

Installed ==
    /\ phase \in Phases \ {"failed"}
    /\ g <=> phase \in HasG
    /\ cbs => phase \in HasCbs
    /\ resumeCb => phase = "up"
    /\ intr => phase = "up"
    /\ irqReg => phase \in HasIrq
    /\ napiReg => phase \in HasNapi
    /\ phase \in HasHw => hw
    /\ phase \in HasObj => ieee
    /\ phase \notin HasDma => dmaList = {}
    /\ phase = "freed" /\ ~raced => pendingFree = {}

Memory ==
    /\ heap = FwBytes /\ release_firmware(fw) \in Int
    /\ phase \notin HasHw => fw = NoFirmware

Activations ==
    ~raced =>
       /\ hdl \/ irq # {} => phase \in HasIrq
       /\ napi # {} => phase \in HasNapi
       /\ "copy" \in napi => \E e \in dmaList : e.orig = "rx"

LifeInv == ~failed => Installed /\ Memory /\ Activations

\* A fresh device has nothing of it.
LEMMA InitLifeInv == DInit => DmaInv /\ HoldInv /\ LifeInv
  BY DEF DInit, DmaInv, HoldInv, PhysOf, LifeInv, Installed, Memory, Activations, Phases, HasG,
         HasCbs, HasObj, HasHw, HasIrq, HasNapi, HasDma, FwBytes, NoFirmware, release_firmware

\* A step undoes no failure, and forgets no race.
LEMMA HistoryGrows == [DNext]_dvars => (failed => failed') /\ (raced => raced')
<1>1. CASE UNCHANGED dvars
  BY <1>1 DEF dvars, history
<1>2. CASE StartMap \/ StartCreate \/ StartProbe \/ StartAttach \/ StartFails
  BY <1>2 DEF StartMap, StartCreate, StartProbe, StartAttach, StartFails, history
<1>3. CASE Enable \/ Disable \/ OutputPacket \/ TxMgmtFrame
  BY <1>3 DEF Enable, Disable, OutputPacket, TxMgmtFrame, history
<1>4. CASE HandleInterrupt \/ TriggerEnd \/ IrqThread \/ IsrUnmap \/ IsrEnd
           \/ ResumeEnd \/ (\E e \in limbo : LinkDeferred(e))
  BY <1>4 DEF HandleInterrupt, TriggerEnd, IrqThread, IsrUnmap, IsrEnd, ResumeEnd,
              LinkDeferred, history
<1>5. CASE NapiPoll \/ SyncCopied \/ NapiGive
  BY <1>5 DEF NapiPoll, SyncCopied, NapiGive, history
<1>6. CASE Quiesce \/ TeardownOff \/ TeardownDrain \/ Stop80211 \/ NapiDel \/ UnmapRings
           \/ FreeIrq
  BY <1>6 DEF Quiesce, TeardownOff, TeardownDrain, Stop80211, NapiDel, UnmapRings, FreeIrq,
              history
<1>7. CASE FreeHw \/ Release80211 \/ CompatExit \/ TeardownEnd \/ DeviceFree \/ Rematch
  BY <1>7 DEF FreeHw, Release80211, CompatExit, TeardownEnd, DeviceFree, Rematch, history
<1>8. CASE Printk \/ Main
  BY <1>8 DEF Printk, Main, NewUserClient, ClientClose, cmd_power, cmd_log, cmd_debug,
              externalMethod, history
<1> QED
  BY <1>1, <1>2, <1>3, <1>4, <1>5, <1>6, <1>7, <1>8 DEF DNext

\* start and teardown register and unregister in the order of the phases.
LEMMA StepInstalled ==
    ASSUME DmaInv, HoldInv, LifeInv, [DNext]_dvars, ~failed'
    PROVE  Installed'
<1> ~failed /\ Installed /\ Activations /\ (raced => raced')
  BY HistoryGrows DEF LifeInv
<1> USE DEF Installed, Phases, HasG, HasCbs, HasObj, HasHw, HasIrq, HasNapi, HasDma
<1>1. CASE UNCHANGED dvars
  BY <1>1 DEF dvars, globals, objects, power, dma, history
<1>2. CASE StartMap \/ StartCreate
  BY <1>2 DEF StartMap, StartCreate, SetHwCallbacks, setupInterrupt, objects, power, dma
<1>3. CASE StartProbe
  BY <1>3 DEF StartProbe
<1>4. CASE StartAttach
  BY <1>4 DEF StartAttach, objects, dma
<1>5. CASE StartFails
  BY <1>5 DEF StartFails
<1>6. CASE Enable
  BY <1>6 DEF Enable, globals, objects, dma
<1>7. CASE Disable \/ OutputPacket \/ TxMgmtFrame
  BY <1>7 DEF Disable, OutputPacket, TxMgmtFrame, globals, objects, power
<1>8. CASE HandleInterrupt \/ TriggerEnd \/ IrqThread \/ IsrEnd \/ ResumeEnd \/ NapiPoll
           \/ SyncCopied
  BY <1>8 DEF HandleInterrupt, TriggerEnd, IrqThread, IsrEnd, ResumeEnd, NapiPoll, SyncCopied,
              globals, objects, power, dma
<1>9. CASE IsrUnmap
  <2>1. PICK e \in StopReleases : FreeDeferred(compat_dma_unmap({e}), "isr")
    BY <1>9 DEF IsrUnmap
  <2>2. dmaList' \subseteq dmaList /\ pendingFree' = pendingFree
    BY <2>1 DEF FreeDeferred
  <2> QED
    BY <1>9, <2>2 DEF IsrUnmap, globals, objects, power
<1>10. CASE NapiGive
  BY <1>10 DEF NapiGive, ieee80211_rx_irqsafe, DrainPendingFree, globals, objects, power, dma
<1>11. CASE Quiesce
  BY <1>11 DEF Quiesce, objects, dma
<1>12. CASE TeardownOff \/ TeardownDrain \/ Stop80211
  BY <1>12 DEF TeardownOff, TeardownDrain, Stop80211, globals, objects, power
<1>13. CASE NapiDel
  BY <1>13 DEF NapiDel, objects, power, dma
<1>14. CASE UnmapRings
  <2>1. dmaList' = {}
    BY <1>14 DEF UnmapRings, FreeAtOnce, compat_dma_free, compat_dma_unmap
  <2> QED
    BY <1>14, <2>1 DEF UnmapRings, globals, objects, power
<1>15. CASE FreeIrq \/ FreeHw \/ Release80211
  BY <1>15 DEF FreeIrq, FreeHw, Release80211, globals, objects, power, dma
<1>16. CASE CompatExit \/ TeardownEnd
  BY <1>16 DEF CompatExit, TeardownEnd, SetHwCallbacks, globals, objects, power, dma
<1>17. CASE DeviceFree
  BY <1>17 DEF DeviceFree, DrainPendingFree, globals, objects, power
<1>18. CASE Rematch \/ Printk
  BY <1>18 DEF Rematch, Printk, globals, objects, power, dma
<1>19. CASE NewUserClient \/ ClientClose
  BY <1>19 DEF NewUserClient, ClientClose, globals, objects, power, dma
<1>20. CASE cmd_log \/ cmd_debug
  BY <1>20 DEF cmd_log, cmd_debug, externalMethod, sGetLog, sSetDebug, globals, objects,
               power, dma
<1>21. CASE cmd_power
  <2>1. UNCHANGED <<phase, globals, objects, intr>>
    BY <1>21 DEF cmd_power, externalMethod, sPower, CmdPowerOn, CmdPowerOff
  <2>2. dmaList' \subseteq dmaList /\ pendingFree' = pendingFree
    BY <1>21 DEF cmd_power, externalMethod, sPower, CmdPowerOn, CmdPowerOff, PowerOff,
                 FreeDeferred, dma
  <2> QED
    BY <1>21, <2>1, <2>2 DEF cmd_power, externalMethod, globals, objects
<1>22. CASE \E e \in limbo : LinkDeferred(e)
  <2>1. holder # "none"
    BY <1>22 DEF DmaInv
  <2>2. phase = "freed" => raced
    BY <2>1 DEF HoldInv, Activations
  <2> QED
    BY <1>22, <2>2 DEF LinkDeferred, globals, objects, power, history
<1> QED
  BY <1>1, <1>2, <1>3, <1>4, <1>5, <1>6, <1>7, <1>8, <1>9, <1>10, <1>11, <1>12, <1>13,
     <1>14, <1>15, <1>16, <1>17, <1>18, <1>19, <1>20, <1>21, <1>22 DEF DNext, Main

\* What a look-up has put on the heap is what a release takes off it.
LEMMA LoadedSize ==
    ASSUME NEW name, load_fw_from_blob(Blobs, name).fw # NoFirmware
    PROVE  LET l == load_fw_from_blob(Blobs, name)
           IN  l.heap = 0 - release_firmware(l.fw)
<1>1. name \in DOMAIN Blobs
  BY DEF load_fw_from_blob
<1>2. Blobs[name].comp \in Nat /\ Blobs[name].plain \in Nat
  BY <1>1, BlobsAssumption
<1> QED
  BY <1>1, <1>2 DEF load_fw_from_blob, release_firmware, rtw88_decompress, rtw88_zcalloc,
                    rtw88_zcfree, ZState, ZHeader, FwStruct, NoFirmware

\* The heap holds the firmware, as long as there is a hw to release it.
LEMMA StepMemory ==
    ASSUME LifeInv, [DNext]_dvars, ~failed'
    PROVE  Memory'
<1> ~failed /\ Installed /\ Memory
  BY HistoryGrows DEF LifeInv
<1> USE DEF Memory, HasG, HasCbs, HasObj, HasHw
<1> DEFINE Same == fw' = fw /\ heap' = heap
<1>1. CASE UNCHANGED dvars
  BY <1>1 DEF dvars, objects, FwBytes
<1>2. CASE StartMap \/ StartCreate \/ StartAttach \/ StartFails
  BY <1>2 DEF StartMap, StartCreate, StartAttach, StartFails, objects, FwBytes
<1>3. CASE StartProbe
  <2>1. PICK name \in FwNames :
            LET l == load_fw_from_blob(Blobs, name)
            IN  l.fw # NoFirmware /\ fw' = l.fw /\ heap' = heap + l.heap
    BY <1>3 DEF StartProbe
  <2>2. heap = 0
    BY <1>3 DEF StartProbe, FwBytes, release_firmware
  <2>3. load_fw_from_blob(Blobs, name).heap = 0 - release_firmware(fw')
    BY <2>1, LoadedSize
  <2>4. release_firmware(fw') \in Int
    <3>1. name \in DOMAIN Blobs
      BY <2>1 DEF load_fw_from_blob
    <3> QED
      BY <2>1, <3>1, BlobsAssumption DEF load_fw_from_blob, release_firmware, FwStruct,
                                         NoFirmware, rtw88_decompress
  <2>5. phase' = "probed"
    BY <1>3 DEF StartProbe
  <2> QED
    BY <2>1, <2>2, <2>3, <2>4, <2>5 DEF FwBytes
<1>4. CASE Enable \/ Disable \/ OutputPacket \/ TxMgmtFrame
  BY <1>4 DEF Enable, Disable, OutputPacket, TxMgmtFrame, objects, FwBytes
<1>5. CASE HandleInterrupt \/ TriggerEnd \/ IrqThread \/ IsrUnmap \/ IsrEnd \/ ResumeEnd
           \/ NapiPoll \/ SyncCopied \/ NapiGive \/ (\E e \in limbo : LinkDeferred(e))
  BY <1>5 DEF HandleInterrupt, TriggerEnd, IrqThread, IsrUnmap, IsrEnd, ResumeEnd, NapiPoll,
              SyncCopied, NapiGive, LinkDeferred, objects, FwBytes
<1>6. CASE Quiesce \/ TeardownOff \/ TeardownDrain \/ Stop80211 \/ NapiDel \/ UnmapRings
           \/ FreeIrq
  BY <1>6 DEF Quiesce, TeardownOff, TeardownDrain, Stop80211, NapiDel, UnmapRings, FreeIrq, objects, FwBytes
<1>7. CASE FreeHw
  <2>1. fw' = NoFirmware /\ heap' = heap + release_firmware(fw)
    BY <1>7 DEF FreeHw
  <2>2. heap \in Int /\ release_firmware(fw) = 0 - heap
    BY DEF FwBytes
  <2> QED
    BY <2>1, <2>2 DEF FwBytes, release_firmware
<1>8. CASE Release80211 \/ CompatExit \/ TeardownEnd \/ DeviceFree \/ Rematch
  BY <1>8 DEF Release80211, CompatExit, TeardownEnd, DeviceFree, Rematch, objects, FwBytes
<1>9. CASE Printk \/ Main
  BY <1>9 DEF Printk, Main, NewUserClient, ClientClose, cmd_power, cmd_log, cmd_debug,
              externalMethod, objects, FwBytes
<1> QED
  BY <1>1, <1>2, <1>3, <1>4, <1>5, <1>6, <1>7, <1>8, <1>9 DEF DNext

\* An activation that is left is one the phase still allows, unless a wait ended
\* too early.
LEMMA StepActivations ==
    ASSUME DmaInv, LifeInv, [DNext]_dvars, ~failed'
    PROVE  Activations'
<1> SUFFICES ASSUME ~raced' PROVE Activations'
  BY DEF Activations
<1> ~failed /\ ~raced /\ Installed /\ Activations
  BY HistoryGrows DEF LifeInv
<1> USE DEF Activations, HasG, HasCbs, HasObj, HasHw, HasIrq, HasNapi
<1>1. CASE UNCHANGED dvars
  BY <1>1 DEF dvars, threads, dma
<1>2. CASE StartMap \/ StartCreate \/ StartAttach \/ StartFails
  BY <1>2 DEF StartMap, StartCreate, StartAttach, StartFails, threads, dma
<1>3. CASE StartProbe
  BY <1>3 DEF StartProbe, Allocate, threads
<1>4. CASE Enable
  BY <1>4 DEF Enable, threads, dma
<1>5. CASE OutputPacket \/ TxMgmtFrame
  BY <1>5 DEF OutputPacket, TxMgmtFrame, Allocate, threads
<1>6. CASE Disable
  BY <1>6 DEF Disable, PowerOff, FreeDeferred, StopReleases, InFlight, threads
<1>7. CASE HandleInterrupt \/ TriggerEnd \/ IrqThread \/ IsrEnd \/ ResumeEnd
  BY <1>7 DEF HandleInterrupt, TriggerEnd, IrqThread, IsrEnd, ResumeEnd, NapiSchedule,
              Installed, dma
<1>8. CASE IsrUnmap \/ (\E e \in limbo : LinkDeferred(e))
  BY <1>8 DEF IsrUnmap, LinkDeferred, FreeDeferred, compat_dma_unmap, StopReleases, InFlight,
              threads
<1>9. CASE NapiPoll
  BY <1>9 DEF NapiPoll, compat_dma_sync_cpu, dma
<1>10. CASE SyncCopied
  BY <1>10 DEF SyncCopied, dma
<1>11. CASE NapiGive
  BY <1>11 DEF NapiGive, ieee80211_rx_irqsafe, DrainPendingFree, NapiSchedule, Installed, dma
<1>12. CASE Quiesce
  BY <1>12 DEF Quiesce, threads, dma
<1>13. CASE TeardownOff \/ TeardownDrain
  BY <1>13 DEF TeardownOff, TeardownDrain, PowerOff, FreeDeferred, DrainPendingFree,
               StopReleases, InFlight, threads, dma
<1>14. CASE Stop80211
  BY <1>14 DEF Stop80211, PowerOff, FreeDeferred, StopReleases, InFlight, threads
<1>15. CASE NapiDel
  BY <1>15 DEF NapiDel, dma
<1>16. CASE UnmapRings
  BY <1>16 DEF UnmapRings, threads
<1>17. CASE FreeIrq
  BY <1>17 DEF FreeIrq, dma
<1>18. CASE FreeHw \/ Release80211 \/ CompatExit \/ TeardownEnd \/ Rematch \/ Printk
  BY <1>18 DEF FreeHw, Release80211, CompatExit, TeardownEnd, Rematch, Printk, threads, dma
<1>19. CASE DeviceFree
  BY <1>19 DEF DeviceFree, DrainPendingFree, threads
<1>20. CASE NewUserClient \/ ClientClose \/ cmd_log \/ cmd_debug
  BY <1>20 DEF NewUserClient, ClientClose, cmd_log, cmd_debug, externalMethod, sGetLog,
               sSetDebug, threads, dma
<1>21. CASE cmd_power
  <2>1. UNCHANGED <<phase, threads>>
    BY <1>21 DEF cmd_power, externalMethod
  <2>2. \A e \in dmaList : e.orig = "rx" => e \in dmaList'
    BY <1>21 DEF cmd_power, sPower, CmdPowerOn, CmdPowerOff, PowerOff, FreeDeferred,
                 StopReleases, InFlight, dma
  <2> QED
    BY <2>1, <2>2 DEF threads
<1> QED
  BY <1>1, <1>2, <1>3, <1>4, <1>5, <1>6, <1>7, <1>8, <1>9, <1>10, <1>11, <1>12, <1>13,
     <1>14, <1>15, <1>16, <1>17, <1>18, <1>19, <1>20, <1>21 DEF DNext, Main

-----------------------------------------------------------------------------
\* The life of the device keeps the lists, the registrations, the memory and the
\* activations together.
THEOREM DeviceInvariant == DSpec => [](DmaInv /\ HoldInv /\ LifeInv)
<1>1. DInit => DmaInv /\ HoldInv /\ LifeInv
  BY InitLifeInv
<1>2. (DmaInv /\ HoldInv /\ LifeInv) /\ [DNext]_dvars => (DmaInv /\ HoldInv /\ LifeInv)'
  BY StepDmaInv, StepHold, StepInstalled, StepMemory, StepActivations DEF LifeInv
<1> QED
  BY <1>1, <1>2, PTL DEF DSpec

\* A callback of the interrupt or of NAPI never finds what teardown has taken
\* away, when start succeeded and the bounded waits were long enough.
THEOREM DeviceNoStaleActivation == DSpec => []NoStaleActivation
<1>1. DmaInv /\ LifeInv => NoStaleActivation
  BY DEF LifeInv, Installed, Activations, NoStaleActivation, HasG, HasCbs, HasObj, HasHw,
         HasIrq, HasNapi
<1> QED
  BY <1>1, DeviceInvariant, PTL

\* The bounce buffers and the allocator agree, and after a whole life of the
\* device both they and the heap are back to nothing.
THEOREM DeviceBouncesReturned == DSpec => []BouncesReturned
<1>1. DmaInv /\ HoldInv /\ LifeInv => BouncesReturned
  <2> SUFFICES ASSUME DmaInv, HoldInv, LifeInv PROVE BouncesReturned
    OBVIOUS
  <2>1. ASSUME phase = "freed", ~failed, ~raced PROVE used = {} /\ heap = 0
    <3>1. irq = {} /\ dmaList = {} /\ pendingFree = {} /\ fw = NoFirmware /\ heap = FwBytes
      BY <2>1 DEF LifeInv, Installed, Memory, Activations, HasHw, HasObj, HasCbs, HasG, HasIrq,
                  HasNapi, HasDma
    <3>2. limbo = {}
      BY <2>1, <3>1 DEF HoldInv, DmaInv
    <3>3. used = {}
      BY <3>1, <3>2 DEF DmaInv, PhysOf
    <3> QED BY <3>1, <3>3 DEF FwBytes, release_firmware, NoFirmware
  <2> QED BY <2>1 DEF DmaInv, BouncesReturned
<1> QED
  BY <1>1, DeviceInvariant, PTL
-----------------------------------------------------------------------------
(* The ring of the log.                                                     *)

\* Induction: a set of numbers with 0 and with the successor of each of its
\* members has them all.
LEMMA Induction ==
    ASSUME NEW S \in SUBSET Nat, 0 \in S, \A n \in S : n + 1 \in S
    PROVE  S = Nat
<1> SUFFICES ASSUME Nat \ S # {} PROVE FALSE
  OBVIOUS
<1> DEFINE R == {ss \in Nat \X Nat : ss[1] < ss[2]}
<1>1. IsWellFoundedOn(R, Nat)
  BY NatLessThanWellFounded DEF OpToRel
<1>2. \A i, j \in Nat : <<j, i>> \in R <=> j < i
  OBVIOUS
<1> HIDE DEF R
<1>3. PICK i \in Nat \ S : \A j \in Nat \ S : <<j, i>> \notin R
  BY <1>1, WFMin
<1>4. i # 0 /\ i - 1 \in Nat /\ i - 1 < i
  BY <1>3
<1>5. i - 1 \in S
  BY <1>2, <1>3, <1>4
<1>6. (i - 1) + 1 = i
  BY <1>3
<1> QED BY <1>3, <1>5, <1>6

Ring == [cell : [Slots -> Nat], head : Slots, tail : Slots]

\* The remainders the ring takes.
LEMMA Wraps ==
    /\ LogSize \in Nat /\ LogSize > 1
    /\ \A x \in Nat : x < 2 * LogSize => x % LogSize = IF x < LogSize THEN x ELSE x - LogSize
<1>1. LogSize \in Nat /\ LogSize > 1
  BY LogSizeAssumption
<1>2. ASSUME NEW q \in Int, NEW r \in Int, 0 <= r, r < LogSize
      PROVE  (q * LogSize + r) % LogSize = r
  BY <1>1, <1>2
<1>3. ASSUME NEW x \in Nat, x < LogSize PROVE x % LogSize = x
  <2>1. x = 0 * LogSize + x
    BY <1>1
  <2> QED BY <1>2, <1>3, <2>1
<1>4. ASSUME NEW x \in Nat, ~(x < LogSize), x < 2 * LogSize PROVE x % LogSize = x - LogSize
  <2> DEFINE y == x - LogSize
  <2>1. x = 1 * LogSize + y /\ y \in Int /\ 0 <= y /\ y < LogSize
    BY <1>1, <1>4
  <2> HIDE DEF y
  <2>2. (1 * LogSize + y) % LogSize = y
    BY <1>2, <2>1
  <2> QED BY <2>1, <2>2 DEF y
<1> QED BY <1>1, <1>3, <1>4

\* An index of the ring counts modulo its size.
LEMMA WrapsAt ==
    ASSUME NEW x \in Nat, x < 2 * LogSize
    PROVE  x % LogSize = IF x < LogSize THEN x ELSE x - LogSize
  BY Wraps

\* How much rtw88_read_log can still read, by the order of head and tail.
LEMMA UnreadIs ==
    ASSUME NEW r \in Ring
    PROVE  /\ Unread(r) = IF r.head >= r.tail THEN r.head - r.tail ELSE r.head - r.tail + LogSize
           /\ Unread(r) \in 0 .. LogSize - 1
<1>1. r.head \in 0 .. LogSize - 1 /\ r.tail \in 0 .. LogSize - 1 /\ LogSize \in Nat
  BY Wraps DEF Ring, Slots
<1> DEFINE x == r.head + LogSize - r.tail
<1>2. x \in Nat /\ x < 2 * LogSize /\ Unread(r) = x % LogSize
  BY <1>1 DEF Unread
<1>3. x % LogSize = IF x < LogSize THEN x ELSE x - LogSize
  <2> HIDE DEF x
  <2> QED BY <1>2, Wraps
<1>4. /\ Unread(r) = IF x < LogSize THEN x ELSE x - LogSize
  BY <1>2, <1>3
<1> QED BY <1>1, <1>4

\* What one can read from a ring.
LEMMA ContentsType ==
    ASSUME NEW r \in Ring
    PROVE  /\ Contents(r) \in Seq(Nat) /\ Len(Contents(r)) = Unread(r)
           /\ \A i \in 1 .. Unread(r) :
                 /\ (r.tail + i - 1) % LogSize \in Slots
                 /\ Contents(r)[i] = r.cell[(r.tail + i - 1) % LogSize]
<1>1. /\ Unread(r) \in Nat /\ Unread(r) < LogSize
  BY UnreadIs, Wraps
<1>2. ASSUME NEW i \in 1 .. Unread(r)
      PROVE  (r.tail + i - 1) % LogSize \in Slots
  <2>1. r.tail \in 0 .. LogSize - 1
    BY DEF Ring, Slots
  <2>2. r.tail + i - 1 \in Nat /\ r.tail + i - 1 < 2 * LogSize
    BY <1>1, <2>1, Wraps
  <2> QED BY <2>2, Wraps DEF Slots
<1>3. r.cell \in [Slots -> Nat]
  BY DEF Ring
<1>4. \A i \in 1 .. Unread(r) : r.cell[(r.tail + i - 1) % LogSize] \in Nat
  BY <1>2, <1>3
<1>5. Contents(r) \in [1 .. Unread(r) -> Nat]
  BY <1>4 DEF Contents
<1>6. Contents(r) \in Seq(Nat) /\ Len(Contents(r)) = Unread(r)
  BY <1>1, <1>5
<1> QED BY <1>2, <1>6 DEF Contents

\* The end of a sequence.
LEMMA SubSeqOK ==
    ASSUME NEW s \in Seq(Nat), NEW m \in 1 .. Len(s) + 1
    PROVE  /\ SubSeq(s, m, Len(s)) \in Seq(Nat)
           /\ Len(SubSeq(s, m, Len(s))) = Len(s) - m + 1
           /\ \A i \in 1 .. Len(s) - m + 1 : SubSeq(s, m, Len(s))[i] = s[m + i - 1]
<1>1. Len(s) \in Nat /\ m \in Nat
  OBVIOUS
<1> QED BY <1>1

\* Of a message only the newest characters stay, also when it comes in parts.
LEMMA NewestAppend ==
    ASSUME NEW s \in Seq(Nat), NEW c \in Nat
    PROVE  /\ Newest(s) \in Seq(Nat) /\ Len(Newest(s)) < LogSize
           /\ Newest(Append(Newest(s), c)) = Newest(Append(s, c))
<1>1. LogSize \in Nat /\ LogSize > 1
  BY Wraps
<1>2. CASE Len(s) < LogSize
  BY <1>1, <1>2 DEF Newest
<1>3. CASE ~(Len(s) < LogSize)
  <2> DEFINE k == Len(s) - LogSize + 2
             t == SubSeq(s, k, Len(s))
           u == Append(s, c)
           v == Append(t, c)
  <2>1. Newest(s) = t /\ k \in 1 .. Len(s) + 1 /\ Len(s) \in Nat /\ Len(s) - k + 1 = LogSize - 1
    BY <1>1, <1>3 DEF Newest
  <2>2. t \in Seq(Nat) /\ Len(t) = LogSize - 1 /\ \A i \in 1 .. LogSize - 1 : t[i] = s[k + i - 1]
    BY <2>1, SubSeqOK
  <2>3. /\ u \in Seq(Nat) /\ Len(u) = Len(s) + 1
        /\ \A i \in 1 .. Len(u) : u[i] = IF i = Len(u) THEN c ELSE s[i]
    BY <2>1
  <2> HIDE DEF t
  <2>4. /\ v \in Seq(Nat) /\ Len(v) = LogSize
        /\ \A i \in 1 .. Len(v) : v[i] = IF i = Len(v) THEN c ELSE t[i]
    BY <1>1, <2>2
  <2> HIDE DEF u, v, k
  <2>5. Newest(v) = SubSeq(v, 2, Len(v)) /\ Newest(u) = SubSeq(u, k + 1, Len(u))
    <3>1. ~(Len(v) < LogSize) /\ ~(Len(u) < LogSize)
      BY <1>1, <1>3, <2>3, <2>4
    <3>2. Len(v) - LogSize + 2 = 2 /\ Len(u) - LogSize + 2 = k + 1
      BY <1>1, <2>1, <2>3, <2>4 DEF k
    <3> QED BY <3>1, <3>2 DEF Newest
  <2> DEFINE a == SubSeq(v, 2, Len(v))
             b == SubSeq(u, k + 1, Len(u))
  <2>6. 2 \in 1 .. Len(v) + 1 /\ k + 1 \in 1 .. Len(u) + 1
    BY <1>1, <2>1, <2>3, <2>4
  <2>7. /\ a \in Seq(Nat) /\ Len(a) = LogSize - 1
        /\ \A i \in 1 .. LogSize - 1 : a[i] = v[i + 1]
    <3>1. /\ a \in Seq(Nat) /\ Len(a) = Len(v) - 2 + 1
          /\ \A i \in 1 .. Len(v) - 2 + 1 : a[i] = v[2 + i - 1]
      BY <2>4, <2>6, SubSeqOK
    <3>2. \A i \in Int : 2 + i - 1 = i + 1
      OBVIOUS
    <3> QED BY <1>1, <2>4, <3>1, <3>2
  <2>8. /\ b \in Seq(Nat) /\ Len(b) = LogSize - 1
        /\ \A i \in 1 .. LogSize - 1 : b[i] = u[k + i]
    <3>1. /\ b \in Seq(Nat) /\ Len(b) = Len(u) - (k + 1) + 1
          /\ \A i \in 1 .. Len(u) - (k + 1) + 1 : b[i] = u[k + 1 + i - 1]
      BY <2>3, <2>6, SubSeqOK
    <3>2. \A i \in Int : k + 1 + i - 1 = k + i
      BY <2>1
    <3>3. Len(u) - (k + 1) + 1 = LogSize - 1
      BY <1>1, <2>1, <2>3
    <3>4. ASSUME NEW i \in 1 .. LogSize - 1 PROVE b[i] = u[k + i]
      <4>1. b[i] = u[k + 1 + i - 1] /\ i \in Int
        BY <3>1, <3>3
      <4> QED BY <3>2, <4>1
    <3> HIDE DEF b
    <3>5. Len(b) = LogSize - 1
      BY <3>1, <3>3
    <3> QED BY <3>1, <3>4, <3>5
  <2> HIDE DEF a, b
  <2>9. ASSUME NEW i \in 1 .. LogSize - 1 PROVE a[i] = b[i]
    <3>1. a[i] = v[i + 1] /\ b[i] = u[k + i]
      BY <2>7, <2>8
    <3>2. i + 1 \in 1 .. Len(v) /\ k + i \in 1 .. Len(u) /\ i \in Int /\ k \in Int
      BY <1>1, <2>1, <2>3, <2>4
    <3>3. v[i + 1] = IF i = LogSize - 1 THEN c ELSE t[i + 1]
      BY <1>1, <2>4, <3>2
    <3>4. u[k + i] = IF i = LogSize - 1 THEN c ELSE s[k + i]
      <4> DEFINE l == Len(u)
      <4>1. l \in Int /\ l - k = LogSize - 1 /\ LogSize \in Int /\ i \in Int /\ k \in Int
        BY <1>1, <2>1, <2>3, <3>2
      <4> HIDE DEF l
      <4>2. k + i = l <=> i = LogSize - 1
        BY <4>1
      <4>3. u[k + i] = IF k + i = Len(u) THEN c ELSE s[k + i]
        BY <2>3, <3>2
      <4> QED BY <4>2, <4>3 DEF l
    <3>5. i # LogSize - 1 => t[i + 1] = s[k + (i + 1) - 1] /\ k + (i + 1) - 1 = k + i
      BY <1>1, <2>2, <3>2
    <3> QED BY <3>1, <3>3, <3>4, <3>5
  <2>10. a = b
    BY <2>7, <2>8, <2>9
  <2>11. Newest(v) = Newest(u)
    BY <2>5, <2>10 DEF a, b
  <2>12. Len(Newest(s)) < LogSize
    BY <1>1, <2>1, <2>2
  <2> QED BY <2>1, <2>2, <2>11, <2>12 DEF u, v
<1> QED BY <1>2, <1>3

\* One character more: the ring keeps it and, if there was no room, loses the
\* oldest one.
LEMMA PutKeeps ==
    ASSUME NEW r \in Ring, NEW c \in Nat
    PROVE  /\ PutChar(r, c) \in Ring
           /\ Contents(PutChar(r, c)) = Newest(Append(Contents(r), c))
<1> DEFINE q == PutChar(r, c)
           h == (r.head + 1) % LogSize
           U == Unread(r)
           s == Append(Contents(r), c)
<1>1. LogSize \in Nat /\ LogSize > 1 /\ r.head \in 0 .. LogSize - 1 /\ r.tail \in 0 .. LogSize - 1
  BY Wraps DEF Ring, Slots
<1>2. h = IF r.head + 1 < LogSize THEN r.head + 1 ELSE r.head + 1 - LogSize
  BY <1>1, Wraps
<1>3. (r.tail + 1) % LogSize = IF r.tail + 1 < LogSize THEN r.tail + 1 ELSE r.tail + 1 - LogSize
  BY <1>1, Wraps
<1>4. /\ U = IF r.head >= r.tail THEN r.head - r.tail ELSE r.head - r.tail + LogSize
      /\ U \in 0 .. LogSize - 1
  BY UnreadIs
<1>5. q.head = h /\ q.cell = [r.cell EXCEPT ![r.head] = c]
      /\ q.tail = IF h = r.tail THEN (r.tail + 1) % LogSize ELSE r.tail
  BY DEF PutChar
<1>6. q \in Ring
  <2>1. h \in Slots /\ (r.tail + 1) % LogSize \in Slots
    BY <1>1, <1>2, <1>3 DEF Slots
  <2> QED BY <2>1 DEF PutChar, Ring
<1>7. /\ s \in Seq(Nat) /\ Len(s) = U + 1 /\ s[U + 1] = c
      /\ \A i \in 1 .. U : s[i] = r.cell[(r.tail + i - 1) % LogSize]
  <2> DEFINE C == Contents(r)
  <2>1. /\ C \in Seq(Nat) /\ Len(C) = U
        /\ \A i \in 1 .. U : C[i] = r.cell[(r.tail + i - 1) % LogSize]
    BY ContentsType
  <2> HIDE DEF C, U
  <2>2. /\ Append(C, c) \in Seq(Nat) /\ Len(Append(C, c)) = U + 1
        /\ Append(C, c)[U + 1] = c /\ \A i \in 1 .. U : Append(C, c)[i] = C[i]
    BY <1>4, <2>1
  <2> QED BY <2>1, <2>2 DEF C
<1> HIDE DEF q, h, U, s
\* Where the characters are.
<1>8. \A i \in 0 .. U : (r.tail + i) % LogSize \in Slots /\ ((r.tail + i) % LogSize = r.head <=> i = U)
  <2> TAKE i \in 0 .. U
  <2> DEFINE x == r.tail + i
  <2>1. x \in Nat /\ x < 2 * LogSize
    BY <1>1, <1>4
  <2>2. x % LogSize = IF x < LogSize THEN x ELSE x - LogSize
    <3> HIDE DEF x
    <3> QED BY <2>1, WrapsAt
  <2> QED BY <1>1, <1>4, <2>2 DEF Slots
<1>9. \A i \in 0 .. U : q.cell[(r.tail + i) % LogSize] = s[i + 1]
  <2> TAKE i \in 0 .. U
  <2>1. r.cell \in [Slots -> Nat]
    BY DEF Ring
  <2>2. CASE i = U
    BY <1>5, <1>7, <1>8, <2>1, <2>2
  <2>3. CASE i # U
    <3>1. q.cell[(r.tail + i) % LogSize] = r.cell[(r.tail + i) % LogSize]
      BY <1>5, <1>8, <2>1, <2>3
    <3>2. i + 1 \in 1 .. U /\ r.tail + (i + 1) - 1 = r.tail + i
      BY <1>1, <1>4, <2>3
    <3> QED BY <1>7, <3>1, <3>2
  <2> QED BY <2>2, <2>3
<1>10. CASE h # r.tail
  <2>1. q.tail = r.tail /\ Unread(q) = U + 1 /\ U + 1 < LogSize
    BY <1>1, <1>2, <1>4, <1>5, <1>6, <1>10, UnreadIs
  <2>2. Newest(s) = s
    BY <1>7, <2>1 DEF Newest
  <2>3. Contents(q) \in Seq(Nat) /\ Len(Contents(q)) = U + 1
    BY <1>6, <2>1, ContentsType
  <2>4. ASSUME NEW i \in 1 .. U + 1 PROVE Contents(q)[i] = s[i]
    <3>1. Contents(q)[i] = q.cell[(r.tail + i - 1) % LogSize]
      BY <1>6, <2>1, ContentsType
    <3>2. i - 1 \in 0 .. U /\ r.tail + (i - 1) = r.tail + i - 1 /\ (i - 1) + 1 = i
      BY <1>1, <1>4
    <3> QED BY <1>9, <3>1, <3>2
  <2>5. Contents(q) = s
    BY <1>7, <2>3, <2>4
  <2> QED BY <1>6, <2>2, <2>5 DEF q, s
<1>11. CASE h = r.tail
  <2>1. U = LogSize - 1
    BY <1>1, <1>2, <1>4, <1>11
  <2>2. q.tail = (r.tail + 1) % LogSize /\ Unread(q) = LogSize - 1
    BY <1>1, <1>2, <1>3, <1>5, <1>6, <1>11, UnreadIs
  <2>3. Newest(s) = SubSeq(s, 2, Len(s))
    <3>1. ~(Len(s) < LogSize) /\ Len(s) - LogSize + 2 = 2
      BY <1>1, <1>7, <2>1
    <3> QED BY <3>1 DEF Newest
  <2>4. Contents(q) \in Seq(Nat) /\ Len(Contents(q)) = LogSize - 1
    BY <1>6, <2>2, ContentsType
  <2>5. /\ Newest(s) \in Seq(Nat) /\ Len(Newest(s)) = LogSize - 1
        /\ \A i \in 1 .. LogSize - 1 : Newest(s)[i] = s[i + 1]
    <3>1. 2 \in 1 .. Len(s) + 1 /\ Len(s) - 2 + 1 = LogSize - 1
      BY <1>1, <1>7, <2>1
    <3>2. /\ Newest(s) \in Seq(Nat) /\ Len(Newest(s)) = LogSize - 1
          /\ \A i \in 1 .. LogSize - 1 : Newest(s)[i] = s[2 + i - 1]
      BY <1>7, <2>3, <3>1, SubSeqOK
    <3>3. \A i \in Int : 2 + i - 1 = i + 1
      OBVIOUS
    <3> QED BY <1>1, <3>2, <3>3
  <2>6. ASSUME NEW i \in 1 .. LogSize - 1 PROVE Contents(q)[i] = s[i + 1]
    <3>1. /\ (q.tail + i - 1) % LogSize \in Slots
          /\ Contents(q)[i] = q.cell[(q.tail + i - 1) % LogSize]
      BY <1>6, <2>2, ContentsType
    <3> DEFINE x == q.tail + i - 1
               y == r.tail + i
    <3>2. /\ x \in Nat /\ x < 2 * LogSize /\ y \in Nat /\ y < 2 * LogSize
          /\ x = y \/ x = y - LogSize
      BY <1>1, <1>3, <2>2
    <3>3. x % LogSize = y % LogSize
      <4> HIDE DEF x, y
      <4>1. x % LogSize = IF x < LogSize THEN x ELSE x - LogSize
        BY <3>2, WrapsAt
      <4>2. y % LogSize = IF y < LogSize THEN y ELSE y - LogSize
        BY <3>2, WrapsAt
      <4> QED BY <1>1, <3>2, <4>1, <4>2
    <3>4. i \in 0 .. U
      BY <1>1, <2>1
    <3> QED BY <1>9, <3>1, <3>3, <3>4
  <2>7. Contents(q) = Newest(s)
    BY <2>4, <2>5, <2>6
  <2> QED BY <1>6, <2>7 DEF q, s
<1> QED BY <1>10, <1>11

\* A whole message: the ring ends with its newest characters.
LEMMA AppendKeeps ==
    ASSUME NEW r \in Ring, NEW u \in Seq(Nat), NEW msg \in Seq(Nat), Contents(r) = Newest(u)
    PROVE  /\ rtw88_log_append(r, msg) \in Ring
           /\ Contents(rtw88_log_append(r, msg)) = Newest(u \o msg)
<1> DEFINE N == Len(msg)
           Upto(n) == u \o SubSeq(msg, 1, n)
           Round(f, n) == IF n = 0 THEN r ELSE PutChar(f[n - 1], msg[n])
           Runs(f, m) == f = [n \in 0 .. m |-> Round(f, n)]
           ring == CHOOSE f : Runs(f, N)
<1>1. N \in Nat
  OBVIOUS
<1>2. rtw88_log_append(r, msg) = ring[N]
  BY DEF rtw88_log_append
<1>3. \A m \in Nat : \E f : Runs(f, m)
  <2> DEFINE S == {m \in Nat : \E f : Runs(f, m)}
  <2>1. 0 \in S
    <3>1. Runs([n \in 0 .. 0 |-> r], 0)
      OBVIOUS
    <3> QED BY <3>1
  <2>2. ASSUME NEW m \in S PROVE m + 1 \in S
    <3>1. PICK f : Runs(f, m)
      OBVIOUS
    <3> DEFINE f2 == [n \in 0 .. m + 1 |-> IF n = m + 1 THEN PutChar(f[m], msg[m + 1]) ELSE f[n]]
    <3>2. ASSUME NEW n \in 0 .. m + 1 PROVE f2[n] = Round(f2, n)
      <4>1. CASE n = m + 1
        <5>1. n # 0 /\ n - 1 = m /\ m \in 0 .. m + 1 /\ m # m + 1
          BY <4>1
        <5> QED BY <4>1, <5>1
      <4>2. CASE n # m + 1
        <5>1. n \in 0 .. m /\ f2[n] = f[n]
          BY <4>2
        <5>2. f[n] = Round(f, n)
          BY <3>1, <5>1
        <5>3. n # 0 => n - 1 \in 0 .. m + 1 /\ n - 1 # m + 1
          BY <5>1
        <5>4. n # 0 => f2[n - 1] = f[n - 1]
          BY <5>3
        <5> HIDE DEF f2
        <5> QED BY <5>1, <5>2, <5>4
      <4> QED BY <4>1, <4>2
    <3>3. Runs(f2, m + 1)
      <4>1. f2 = [n \in 0 .. m + 1 |-> f2[n]]
        OBVIOUS
      <4> HIDE DEF f2, Round
      <4> QED BY <3>2, <4>1
    <3>4. \E f3 : Runs(f3, m + 1)
      <4> HIDE DEF f2, Runs
      <4> QED BY <3>3
    <3>5. m + 1 \in Nat
      OBVIOUS
    <3> HIDE DEF Runs
    <3> QED BY <3>4, <3>5
  <2> HIDE DEF Runs
  <2>3. S = Nat
    <3> HIDE DEF S
    <3>1. S \in SUBSET Nat
      BY DEF S
    <3> QED BY <2>1, <2>2, <3>1, Induction
  <2> QED BY <2>3
<1>4. Runs(ring, N)
  <2> HIDE DEF Runs
  <2> QED BY <1>1, <1>3
<1>5. ring[0] = r /\ \A n \in 1 .. N : ring[n] = PutChar(ring[n - 1], msg[n])
  <2> HIDE DEF ring
  <2>1. \A n \in 0 .. N : ring[n] = Round(ring, n)
    BY <1>4
  <2> QED BY <1>1, <2>1
<1> HIDE DEF ring, Runs, Round
<1>6. \A n \in Nat : n <= N => ring[n] \in Ring /\ Contents(ring[n]) = Newest(Upto(n))
  <2> DEFINE S == {n \in Nat : n <= N => ring[n] \in Ring /\ Contents(ring[n]) = Newest(Upto(n))}
  <2>1. 0 \in S
    <3>1. Upto(0) = u
      OBVIOUS
    <3> HIDE DEF Upto
    <3> QED BY <1>5, <3>1
  <2>2. ASSUME NEW n \in S PROVE n + 1 \in S
    <3> SUFFICES ASSUME n + 1 <= N
                 PROVE  ring[n + 1] \in Ring /\ Contents(ring[n + 1]) = Newest(Upto(n + 1))
      OBVIOUS
    <3>1. n + 1 \in 1 .. N /\ (n + 1) - 1 = n /\ n <= N /\ n \in Nat
      BY <1>1
    <3>2. ring[n] \in Ring /\ Contents(ring[n]) = Newest(Upto(n))
      BY <3>1
    <3>3. ring[n + 1] = PutChar(ring[n], msg[n + 1]) /\ msg[n + 1] \in Nat
      BY <1>5, <3>1
    <3>4. Upto(n) \in Seq(Nat) /\ Upto(n + 1) = Append(Upto(n), msg[n + 1])
      BY <3>1
    <3> HIDE DEF Upto
    <3>5. /\ ring[n + 1] \in Ring
          /\ Contents(ring[n + 1]) = Newest(Append(Contents(ring[n]), msg[n + 1]))
      BY <3>2, <3>3, PutKeeps
    <3>6. Newest(Append(Newest(Upto(n)), msg[n + 1])) = Newest(Append(Upto(n), msg[n + 1]))
      BY <3>3, <3>4, NewestAppend
    <3> QED BY <3>2, <3>4, <3>5, <3>6
  <2>3. S = Nat
    <3> HIDE DEF S
    <3>1. S \in SUBSET Nat
      BY DEF S
    <3> QED BY <2>1, <2>2, <3>1, Induction
  <2> QED BY <2>3
<1>7. Upto(N) = u \o msg
  <2>1. SubSeq(msg, 1, N) = msg
    OBVIOUS
  <2> QED BY <2>1
<1> HIDE DEF Upto
<1>8. ring[N] \in Ring /\ Contents(ring[N]) = Newest(Upto(N))
  BY <1>1, <1>6
<1> QED BY <1>2, <1>7, <1>8

\* A read takes characters from the front.
LEMMA ReadKeeps ==
    ASSUME NEW r \in Ring, NEW max \in Nat
    PROVE  LET n == IF max < Unread(r) THEN max ELSE Unread(r)
           IN  /\ rtw88_read_log(r, max) \in Ring
               /\ Contents(rtw88_read_log(r, max)) = SubSeq(Contents(r), 1 + n, Len(Contents(r)))
<1> DEFINE n == IF max < Unread(r) THEN max ELSE Unread(r)
           q == rtw88_read_log(r, max)
           U == Unread(r)
<1>1. LogSize \in Nat /\ LogSize > 1 /\ r.head \in 0 .. LogSize - 1 /\ r.tail \in 0 .. LogSize - 1
  BY Wraps DEF Ring, Slots
<1>2. /\ U = IF r.head >= r.tail THEN r.head - r.tail ELSE r.head - r.tail + LogSize
      /\ U \in 0 .. LogSize - 1
  BY UnreadIs
<1>3. n \in 0 .. U /\ ReadCount(r, max) = n
  BY <1>2 DEF ReadCount
<1> HIDE DEF n
<1> DEFINE e == r.tail + n
<1>4. e \in Nat /\ e < 2 * LogSize /\ e = r.tail + n
  BY <1>1, <1>2, <1>3
<1>5. q = [r EXCEPT !.tail = (@ + n) % LogSize] /\ (r.tail + n) % LogSize = e % LogSize
  BY <1>3 DEF rtw88_read_log
<1> HIDE DEF e
<1>6. e % LogSize = IF e < LogSize THEN e ELSE e - LogSize
  BY <1>4, WrapsAt
<1>7. q \in Ring /\ q.tail = e % LogSize /\ q.head = r.head /\ q.cell = r.cell
  <2>1. e % LogSize \in Slots
    BY <1>1, <1>4, <1>6 DEF Slots
  <2> QED BY <1>5, <2>1 DEF Ring
<1> HIDE DEF q, U
<1>8. Unread(q) = U - n
  BY <1>1, <1>2, <1>3, <1>4, <1>6, <1>7, UnreadIs
<1>9. Contents(q) \in Seq(Nat) /\ Len(Contents(q)) = U - n
  BY <1>7, <1>8, ContentsType
<1>10. Contents(r) \in Seq(Nat) /\ Len(Contents(r)) = U
  BY ContentsType DEF U
<1> DEFINE t == SubSeq(Contents(r), 1 + n, Len(Contents(r)))
<1>11. /\ t \in Seq(Nat) /\ Len(t) = U - n
       /\ \A i \in 1 .. U - n : t[i] = Contents(r)[n + i]
  <2>1. 1 + n \in 1 .. Len(Contents(r)) + 1 /\ Len(Contents(r)) - (1 + n) + 1 = U - n
    BY <1>2, <1>3, <1>10
  <2>2. /\ t \in Seq(Nat) /\ Len(t) = U - n
        /\ \A i \in 1 .. U - n : t[i] = Contents(r)[1 + n + i - 1]
    BY <1>10, <2>1, SubSeqOK
  <2>3. \A i \in Int : 1 + n + i - 1 = n + i
    BY <1>3
  <2> HIDE DEF t
  <2>4. ASSUME NEW i \in 1 .. U - n PROVE t[i] = Contents(r)[n + i]
    <3>1. t[i] = Contents(r)[1 + n + i - 1] /\ i \in Int
      BY <2>2
    <3> QED BY <2>3, <3>1
  <2> QED BY <2>2, <2>4
<1> HIDE DEF t
<1>12. ASSUME NEW i \in 1 .. U - n PROVE Contents(q)[i] = t[i]
  <2>1. Contents(q)[i] = r.cell[(q.tail + i - 1) % LogSize]
    BY <1>7, <1>8, ContentsType
  <2>2. n + i \in 1 .. U /\ i \in Int /\ n \in Int
    BY <1>2, <1>3
  <2>3. Contents(r)[n + i] = r.cell[(r.tail + (n + i) - 1) % LogSize]
    BY <2>2, ContentsType DEF U
  <2>4. (q.tail + i - 1) % LogSize = (r.tail + (n + i) - 1) % LogSize
    <3> DEFINE x == q.tail + i - 1
               y == r.tail + (n + i) - 1
    <3>1. q.tail \in Nat /\ q.tail < LogSize /\ q.tail \in {r.tail + n, r.tail + n - LogSize}
      BY <1>1, <1>2, <1>3, <1>4, <1>6, <1>7
    <3>2. i <= U /\ 1 <= i
      BY <1>2, <1>3, <2>2
    <3>3. x \in Nat /\ y \in Nat /\ (x = y \/ x = y - LogSize)
      BY <1>1, <2>2, <3>1, <3>2
    <3>4. x < 2 * LogSize /\ y < 2 * LogSize
      BY <1>1, <1>2, <2>2, <3>1, <3>2
    <3> HIDE DEF x, y
    <3>5. x % LogSize = y % LogSize
      <4>1. x % LogSize = IF x < LogSize THEN x ELSE x - LogSize
        BY <3>3, <3>4, WrapsAt
      <4>2. y % LogSize = IF y < LogSize THEN y ELSE y - LogSize
        BY <3>3, <3>4, WrapsAt
      <4> QED BY <1>1, <3>3, <3>4, <4>1, <4>2
    <3> QED BY <3>5 DEF x, y
  <2> QED BY <1>11, <2>1, <2>3, <2>4
<1>13. Contents(q) = t
  BY <1>9, <1>11, <1>12
<1> QED BY <1>7, <1>13 DEF q, n, t

-----------------------------------------------------------------------------
(* The log and the types.                                                   *)

LogInv ==
    /\ log \in Ring /\ serial \in Nat
    /\ unread \in Seq(Nat) /\ Contents(log) = unread

\* The log starts empty.
LEMMA InitLog == DInit => LogInv
<1> SUFFICES ASSUME DInit PROVE LogInv
  OBVIOUS
<1>1. EmptyRing \in Ring /\ EmptyRing.head = 0 /\ EmptyRing.tail = 0
  BY Wraps DEF EmptyRing, Ring, Slots
<1>2. Unread(EmptyRing) = 0
  BY <1>1, UnreadIs
<1>3. Contents(EmptyRing) \in Seq(Nat) /\ Len(Contents(EmptyRing)) = 0
  BY <1>1, <1>2, ContentsType
<1>4. Contents(EmptyRing) = <<>>
  BY <1>3
<1> QED BY <1>1, <1>4 DEF DInit, LogInv

\* Printing and reading keep the ring and what was printed together; nothing else touches it.
LEMMA StepLog == LogInv /\ [DNext]_dvars => LogInv'
<1> SUFFICES ASSUME LogInv, [DNext]_dvars PROVE LogInv'
  OBVIOUS
<1>1. ASSUME UNCHANGED <<log, serial, unread>> PROVE LogInv'
  BY <1>1 DEF LogInv, Contents, Unread
<1>2. CASE UNCHANGED dvars
  BY <1>1, <1>2 DEF dvars, logs
<1>3. CASE StartMap \/ StartCreate \/ StartProbe \/ StartAttach \/ StartFails
  BY <1>1, <1>3 DEF StartMap, StartCreate, StartProbe, StartAttach, StartFails, logs
<1>4. CASE Enable \/ Disable \/ OutputPacket \/ TxMgmtFrame
  BY <1>1, <1>4 DEF Enable, Disable, OutputPacket, TxMgmtFrame, logs
<1>5. CASE HandleInterrupt \/ TriggerEnd \/ IrqThread \/ IsrUnmap \/ IsrEnd \/ ResumeEnd
           \/ NapiPoll \/ SyncCopied \/ NapiGive \/ (\E e \in limbo : LinkDeferred(e))
  BY <1>1, <1>5 DEF HandleInterrupt, TriggerEnd, IrqThread, IsrUnmap, IsrEnd, ResumeEnd,
                    NapiPoll, SyncCopied, NapiGive, LinkDeferred, logs
<1>6. CASE Quiesce \/ TeardownOff \/ TeardownDrain \/ Stop80211 \/ NapiDel \/ UnmapRings
           \/ FreeIrq
  BY <1>1, <1>6 DEF Quiesce, TeardownOff, TeardownDrain, Stop80211, NapiDel, UnmapRings, FreeIrq, logs
<1>7. CASE FreeHw \/ Release80211 \/ CompatExit \/ TeardownEnd \/ DeviceFree \/ Rematch
  BY <1>1, <1>7 DEF FreeHw, Release80211, CompatExit, TeardownEnd, DeviceFree, Rematch, logs
<1>8. CASE Printk
  <2>1. PICK n \in MsgLens :
          LET msg == [i \in 1 .. n |-> (serial + i) % CharMod]
          IN  /\ log' = rtw88_log_append(log, msg)
              /\ serial' = (serial + n) % CharMod
              /\ unread' = Newest(unread \o msg)
    BY <1>8 DEF Printk
  <2> DEFINE msg == [i \in 1 .. n |-> (serial + i) % CharMod]
  <2>2. n \in Nat /\ CharMod \in Nat \ {0} /\ serial \in Nat
    BY LogAssumption DEF LogInv
  <2>3. msg \in Seq(Nat) /\ serial' \in Nat
    BY <2>1, <2>2
  <2>4. log' = rtw88_log_append(log, msg) /\ unread' = Newest(unread \o msg)
    BY <2>1
  <2> HIDE DEF msg
  <2>5. log \in Ring /\ unread \in Seq(Nat) /\ Contents(log) = Newest(unread)
    <3>1. log \in Ring /\ unread \in Seq(Nat) /\ Contents(log) = unread
      BY DEF LogInv
    <3>2. Len(unread) < LogSize
      <4>1. Len(Contents(log)) = Unread(log) /\ Unread(log) \in 0 .. LogSize - 1
        BY <3>1, ContentsType, UnreadIs
      <4> QED BY <3>1, <4>1, Wraps
    <3> QED BY <3>1, <3>2 DEF Newest
  <2>6. /\ rtw88_log_append(log, msg) \in Ring
        /\ Contents(rtw88_log_append(log, msg)) = Newest(unread \o msg)
    BY <2>3, <2>5, AppendKeeps
  <2>7. Newest(unread \o msg) \in Seq(Nat)
    <3>1. unread \o msg \in Seq(Nat)
      BY <2>3, <2>5
    <3> QED BY <3>1, NewestAppend, Wraps
  <2>8. Contents(log') = unread' /\ log' \in Ring
    BY <2>4, <2>6
  <2>9. Contents(log)' = Contents(log')
    BY DEF Contents, Unread
  <2> QED BY <2>3, <2>4, <2>7, <2>8, <2>9 DEF LogInv
<1>9. CASE cmd_log
  <2>1. PICK max \in ReadLens : externalMethod /\ sGetLog(max)
    BY <1>9 DEF cmd_log
  <2>2. /\ log' = rtw88_read_log(log, max) /\ serial' = serial
        /\ unread' = SubSeq(unread, 1 + (IF max < Len(unread) THEN max ELSE Len(unread)),
                            Len(unread))
    BY <2>1 DEF sGetLog
  <2>3. log \in Ring /\ max \in Nat /\ unread \in Seq(Nat) /\ Contents(log) = unread
        /\ Len(unread) = Unread(log) /\ serial \in Nat
    <3>1. log \in Ring /\ unread \in Seq(Nat) /\ Contents(log) = unread /\ serial \in Nat
      BY DEF LogInv
    <3>2. Len(Contents(log)) = Unread(log)
      BY <3>1, ContentsType
    <3> QED BY <3>1, <3>2, LogAssumption
  <2>4. /\ rtw88_read_log(log, max) \in Ring
        /\ Contents(rtw88_read_log(log, max)) =
              SubSeq(Contents(log), 1 + (IF max < Unread(log) THEN max ELSE Unread(log)),
                     Len(Contents(log)))
    BY <2>3, ReadKeeps
  <2>5. log' \in Ring /\ Contents(log') = unread'
    BY <2>2, <2>3, <2>4
  <2>6. unread' \in Seq(Nat)
    BY <2>5, ContentsType
  <2>7. Contents(log)' = Contents(log')
    BY DEF Contents, Unread
  <2> QED BY <2>2, <2>3, <2>5, <2>6, <2>7 DEF LogInv
<1>10. CASE NewUserClient \/ ClientClose \/ cmd_power \/ cmd_debug
  BY <1>1, <1>10 DEF NewUserClient, ClientClose, cmd_power, cmd_debug, externalMethod, sPower,
                     CmdPowerOn, CmdPowerOff, sSetDebug, logs
<1> QED
  BY <1>2, <1>3, <1>4, <1>5, <1>6, <1>7, <1>8, <1>9, <1>10 DEF DNext, Main

\* However messages and reads alternate, for a ring and messages of any length,
\* the log has what was written since the last read, or the newest of it.
THEOREM DeviceLog == DSpec => []LogIsNewest
<1>1. LogInv => LogIsNewest
  BY DEF LogInv, LogIsNewest
<1> QED BY <1>1, InitLog, StepLog, PTL DEF DSpec

\* The types of what is not the log.
DevFlags ==
    /\ g \in BOOLEAN /\ cbs \in BOOLEAN /\ resumeCb \in BOOLEAN /\ irqReg \in BOOLEAN
    /\ napiReg \in BOOLEAN /\ ieee \in BOOLEAN /\ hw \in BOOLEAN /\ btcoex \in BOOLEAN
    /\ enabled \in BOOLEAN /\ powered \in BOOLEAN /\ intr \in BOOLEAN /\ hdl \in BOOLEAN
    /\ failed \in BOOLEAN /\ raced \in BOOLEAN /\ client \in BOOLEAN

\* A start that failed is at its end.
DevSets ==
    /\ phase \in Phases /\ (failed => phase \in {"failed", "freed"})
    /\ irq \subseteq {"queued", "isr", "resume"} /\ napi \subseteq {"queued", "copy", "give"}
    /\ dmaList \subseteq Entry /\ pendingFree \subseteq Entry /\ limbo \subseteq Entry
    /\ heap \in Nat /\ level \in Levels

\* The device starts with the types it keeps.
LEMMA InitTypes == DInit => DevFlags /\ DevSets
<1>1. Max(Levels) \in Levels
  <2>1. PICK m \in Levels : \A n \in Levels : m >= n
    BY LogAssumption
  <2> QED BY <2>1 DEF Max
<1>2. DInit => DevFlags
  BY DEF DInit, DevFlags
<1>3. DInit => DevSets
  BY <1>1 DEF DInit, DevSets, Phases
<1> QED BY <1>2, <1>3

\* Every step leaves the flags truth values.
LEMMA StepFlags == DevFlags /\ [DNext]_dvars => DevFlags'
<1> SUFFICES ASSUME DevFlags, [DNext]_dvars PROVE DevFlags'
  OBVIOUS
<1> USE DEF DevFlags, globals, objects, power, threads, dma, history, logs
<1>1. CASE UNCHANGED dvars
  BY <1>1 DEF dvars
<1>2. CASE StartMap
  BY <1>2 DEF StartMap
<1>3. CASE StartAttach
  BY <1>3 DEF StartAttach
<1>4. CASE StartCreate
  BY <1>4 DEF StartCreate, SetHwCallbacks, setupInterrupt, ForceWifiOnly
<1>5. CASE StartProbe
  BY <1>5 DEF StartProbe, RequestThreadedIrq, NapiAdd
<1>6. CASE StartFails
  BY <1>6 DEF StartFails
<1>7. CASE Enable
  BY <1>7 DEF Enable, PowerOn
<1>8. CASE Disable
  BY <1>8 DEF Disable, PowerOff
<1>9. CASE Stop80211
  <2>1. powered' \in BOOLEAN
    BY <1>9 DEF Stop80211, PowerOff
  <2>2. UNCHANGED <<g, cbs, resumeCb, irqReg, napiReg, ieee, hw, btcoex, enabled, intr,
                    hdl, failed, raced, client>>
    BY <1>9 DEF Stop80211, PowerOff
  <2> QED BY <2>1, <2>2
<1>10. CASE OutputPacket \/ TxMgmtFrame
  BY <1>10 DEF OutputPacket, TxMgmtFrame
<1>11. CASE HandleInterrupt
  BY <1>11 DEF HandleInterrupt
<1>12. CASE TriggerEnd
  <2>1. hdl' \in BOOLEAN
    BY <1>12 DEF TriggerEnd
  <2>2. UNCHANGED <<g, cbs, resumeCb, irqReg, napiReg, ieee, hw, btcoex, enabled, powered,
                    intr, failed, raced, client>>
    BY <1>12 DEF TriggerEnd
  <2> QED BY <2>1, <2>2
<1>13. CASE IrqThread \/ IsrUnmap \/ IsrEnd \/ ResumeEnd \/ (\E e \in limbo : LinkDeferred(e))
  BY <1>13 DEF IrqThread, IsrUnmap, IsrEnd, ResumeEnd, LinkDeferred
<1>14. CASE NapiPoll \/ SyncCopied \/ NapiGive
  BY <1>14 DEF NapiPoll, SyncCopied, NapiGive
<1>15. CASE Quiesce
  BY <1>15 DEF Quiesce
<1>16. CASE TeardownOff
  <2>1. enabled' \in BOOLEAN
    BY <1>16 DEF TeardownOff
  <2>2. powered' \in BOOLEAN
    BY <1>16 DEF TeardownOff, PowerOff
  <2>3. UNCHANGED <<g, cbs, resumeCb, irqReg, napiReg, ieee, hw, btcoex, intr, hdl, failed,
                    raced, client>>
    BY <1>16 DEF TeardownOff
  <2> QED BY <2>1, <2>2, <2>3
<1>29. CASE TeardownDrain
  BY <1>29 DEF TeardownDrain
<1>17. CASE NapiDel
  <2>1. napiReg' \in BOOLEAN
    BY <1>17 DEF NapiDel
  <2>2. raced' \in BOOLEAN
    BY <1>17 DEF NapiDel
  <2>3. UNCHANGED <<g, cbs, resumeCb, irqReg, ieee, hw, btcoex, enabled, powered, intr,
                    hdl, failed, client>>
    BY <1>17 DEF NapiDel
  <2> QED BY <2>1, <2>2, <2>3
<1>18. CASE FreeIrq
  <2>1. irqReg' \in BOOLEAN
    BY <1>18 DEF FreeIrq
  <2>2. raced' \in BOOLEAN
    BY <1>18 DEF FreeIrq
  <2>3. UNCHANGED <<g, cbs, resumeCb, napiReg, ieee, hw, btcoex, enabled, powered, intr,
                    hdl, failed, client>>
    BY <1>18 DEF FreeIrq
  <2> QED BY <2>1, <2>2, <2>3
<1>19. CASE UnmapRings
  BY <1>19 DEF UnmapRings
<1>20. CASE FreeHw
  <2>1. hw' \in BOOLEAN
    BY <1>20 DEF FreeHw
  <2>2. btcoex' \in BOOLEAN
    BY <1>20 DEF FreeHw
  <2>3. UNCHANGED <<g, cbs, resumeCb, irqReg, napiReg, ieee, enabled, powered, intr, hdl,
                    failed, raced, client>>
    BY <1>20 DEF FreeHw
  <2> QED BY <2>1, <2>2, <2>3
<1>21. CASE Release80211
  <2>1. ieee' \in BOOLEAN
    BY <1>21 DEF Release80211
  <2>2. UNCHANGED <<g, cbs, resumeCb, irqReg, napiReg, hw, btcoex, enabled, powered, intr,
                    hdl, failed, raced, client>>
    BY <1>21 DEF Release80211
  <2> QED BY <2>1, <2>2
<1>22. CASE CompatExit
  BY <1>22 DEF CompatExit, SetHwCallbacks
<1>23. CASE TeardownEnd
  <2>1. g' \in BOOLEAN
    BY <1>23 DEF TeardownEnd
  <2>2. UNCHANGED <<cbs, resumeCb, irqReg, napiReg, ieee, hw, btcoex, enabled, powered,
                    intr, hdl, failed, raced, client>>
    BY <1>23 DEF TeardownEnd
  <2> QED BY <2>1, <2>2
<1>24. CASE DeviceFree \/ Rematch \/ Printk
  BY <1>24 DEF DeviceFree, Rematch, Printk
<1>25. CASE NewUserClient
  BY <1>25 DEF NewUserClient
<1>26. CASE ClientClose
  <2>1. client' \in BOOLEAN
    BY <1>26 DEF ClientClose
  <2>2. UNCHANGED <<g, cbs, resumeCb, irqReg, napiReg, ieee, hw, btcoex, enabled, powered,
                    intr, hdl, failed, raced>>
    BY <1>26 DEF ClientClose
  <2> QED BY <2>1, <2>2
<1>27. CASE cmd_power
  <2>1. powered' \in BOOLEAN
    BY <1>27 DEF cmd_power, externalMethod, sPower, CmdPowerOn, CmdPowerOff, PowerOn, PowerOff
  <2>2. UNCHANGED <<g, cbs, resumeCb, irqReg, napiReg, ieee, hw, btcoex, enabled, intr,
                    hdl, failed, raced, client>>
    BY <1>27 DEF cmd_power, externalMethod, sPower, CmdPowerOn, CmdPowerOff, PowerOn, PowerOff
  <2> QED BY <2>1, <2>2
<1>28. CASE cmd_log \/ cmd_debug
  BY <1>28 DEF cmd_log, cmd_debug, externalMethod, sGetLog, sSetDebug
<1> QED
  BY <1>1, <1>2, <1>3, <1>4, <1>5, <1>6, <1>7, <1>8, <1>9, <1>10, <1>11, <1>12, <1>13,
     <1>14, <1>15, <1>16, <1>17, <1>18, <1>19, <1>20, <1>21, <1>22, <1>23, <1>24,
     <1>25, <1>26, <1>27, <1>28, <1>29 DEF DNext, Main

\* Every step leaves the sets, the counters and the log in their types.
LEMMA StepSets == LifeInv /\ DevSets /\ [DNext]_dvars => DevSets'
<1> SUFFICES ASSUME LifeInv, DevSets, [DNext]_dvars PROVE DevSets'
  OBVIOUS
<1> USE DEF DevSets, Phases, globals, objects, power, threads, inHand, dma, history, logs
<1>1. CASE UNCHANGED dvars
  BY <1>1 DEF dvars
<1>2. CASE StartMap
  BY <1>2 DEF StartMap
<1>3. CASE StartCreate
  BY <1>3 DEF StartCreate
<1>4. CASE StartAttach
  BY <1>4 DEF StartAttach
<1>5. CASE StartFails
  BY <1>5 DEF StartFails
<1>6. CASE StartProbe
  <2>1. heap' \in Nat
    <3>1. PICK name \in FwNames :
             LET l == load_fw_from_blob(Blobs, name)
             IN  l.fw # NoFirmware /\ fw' = l.fw /\ heap' = heap + l.heap
      BY <1>6 DEF StartProbe
    <3>2. name \in DOMAIN Blobs
      BY <3>1 DEF load_fw_from_blob
    <3>3. Blobs[name].comp \in Nat /\ Blobs[name].plain \in Nat
      BY <3>2, BlobsAssumption
    <3>4. load_fw_from_blob(Blobs, name).heap \in Nat
      BY <3>1, <3>2, <3>3 DEF load_fw_from_blob, rtw88_decompress, rtw88_zcalloc,
                              rtw88_zcfree, ZState, ZHeader, FwStruct, NoFirmware
    <3> QED BY <3>1, <3>4
  <2>2. dmaList' \subseteq Entry /\ pendingFree' = pendingFree /\ limbo' = limbo
    <3>1. PICK p \in Phys, q \in Phys :
              p # q /\ Allocate(compat_dma_alloc(p) \cup compat_dma_map(q, "rx"))
      BY <1>6 DEF StartProbe
    <3> QED BY <3>1 DEF Allocate, compat_dma_alloc, compat_dma_map, Entry
  <2> QED BY <1>6, <2>1, <2>2 DEF StartProbe, RequestThreadedIrq, NapiAdd
<1>7. CASE Enable
  BY <1>7 DEF Enable
<1>8. CASE Disable
  BY <1>8 DEF Disable, PowerOff, FreeDeferred, StopReleases, InFlight
<1>9. CASE Stop80211
  BY <1>9 DEF Stop80211, PowerOff, FreeDeferred, StopReleases, InFlight
<1>10. CASE OutputPacket
  <2>1. pendingFree' = {} /\ UNCHANGED <<limbo, phase, objects, threads, failed, level>>
    BY <1>10 DEF OutputPacket
  <2>2. dmaList' \subseteq Entry
    <3>1. CASE UNCHANGED dmaList
      BY <3>1
    <3>2. CASE ~UNCHANGED dmaList
      <4>1. PICK p \in Phys \ Drained : dmaList' = dmaList \cup compat_dma_map(p, "tx")
        BY <1>10, <3>2 DEF OutputPacket
      <4> QED BY <4>1 DEF compat_dma_map, Entry
    <3> QED BY <3>1, <3>2
  <2> QED BY <2>1, <2>2
<1>11. CASE TxMgmtFrame
  <2>1. dmaList' \subseteq Entry /\ pendingFree' = pendingFree /\ limbo' = limbo
    BY <1>11 DEF TxMgmtFrame, Allocate, compat_dma_map, Entry
  <2> QED BY <1>11, <2>1 DEF TxMgmtFrame
<1>12. CASE HandleInterrupt
  BY <1>12 DEF HandleInterrupt
<1>13. CASE TriggerEnd
  BY <1>13 DEF TriggerEnd
<1>14. CASE IrqThread
  BY <1>14 DEF IrqThread
<1>15. CASE ResumeEnd
  BY <1>15 DEF ResumeEnd
<1>16. CASE IsrUnmap
  <2>1. PICK e \in StopReleases : FreeDeferred(compat_dma_unmap({e}), "isr")
    BY <1>16 DEF IsrUnmap
  <2>2. dmaList' \subseteq Entry /\ limbo' \subseteq Entry /\ pendingFree' = pendingFree
    BY <2>1 DEF FreeDeferred, compat_dma_unmap, StopReleases, InFlight
  <2> QED BY <1>16, <2>2 DEF IsrUnmap
<1>36. CASE IsrEnd
  <2>1. napi' \subseteq {"queued", "copy", "give"}
    BY <1>36 DEF IsrEnd, NapiSchedule
  <2> QED BY <1>36, <2>1 DEF IsrEnd
<1>37. CASE \E e \in limbo : LinkDeferred(e)
  BY <1>37 DEF LinkDeferred
<1>17. CASE NapiPoll
  BY <1>17 DEF NapiPoll
<1>18. CASE SyncCopied
  BY <1>18 DEF SyncCopied
<1>19. CASE NapiGive
  <2>1. dmaList' \subseteq Entry /\ pendingFree' \subseteq Entry /\ limbo' = limbo
    BY <1>19 DEF NapiGive, ieee80211_rx_irqsafe, DrainPendingFree
  <2> QED BY <1>19, <2>1 DEF NapiGive, NapiSchedule
<1>20. CASE Quiesce
  BY <1>20 DEF Quiesce
<1>21. CASE TeardownOff
  BY <1>21 DEF TeardownOff, PowerOff, FreeDeferred, StopReleases, InFlight
<1>38. CASE TeardownDrain
  BY <1>38 DEF TeardownDrain, DrainPendingFree
<1>22. CASE NapiDel
  BY <1>22 DEF NapiDel, CancelWait
<1>23. CASE FreeIrq
  BY <1>23 DEF FreeIrq, CancelWait
<1>24. CASE UnmapRings
  BY <1>24 DEF UnmapRings, FreeAtOnce
<1>25. CASE FreeHw
  <2>1. ~failed /\ Memory
    BY <1>25 DEF FreeHw, LifeInv
  <2>2. heap' = 0
    BY <1>25, <2>1 DEF FreeHw, Memory, FwBytes
  <2>3. phase' = "hwless" /\ UNCHANGED <<threads, dma, failed, level>>
    BY <1>25 DEF FreeHw
  <2> QED BY <2>1, <2>2, <2>3
<1>26. CASE Release80211
  BY <1>26 DEF Release80211
<1>27. CASE CompatExit
  BY <1>27 DEF CompatExit
<1>28. CASE TeardownEnd
  BY <1>28 DEF TeardownEnd
<1>29. CASE DeviceFree
  BY <1>29 DEF DeviceFree, DrainPendingFree
<1>30. CASE Rematch
  BY <1>30 DEF Rematch
<1>31. CASE Printk
  BY <1>31 DEF Printk
<1>32. CASE NewUserClient
  BY <1>32 DEF NewUserClient
<1>33. CASE ClientClose
  BY <1>33 DEF ClientClose
<1>34. CASE cmd_power
  <2>1. UNCHANGED <<phase, objects, threads, failed, level>>
    BY <1>34 DEF cmd_power, externalMethod, sPower, CmdPowerOn, CmdPowerOff
  <2>2. dmaList' \subseteq Entry /\ pendingFree' \subseteq Entry /\ limbo' \subseteq Entry
    BY <1>34 DEF cmd_power, externalMethod, sPower, CmdPowerOn, CmdPowerOff, PowerOff,
             FreeDeferred, StopReleases, InFlight
  <2> QED BY <2>1, <2>2
<1>35. CASE cmd_log \/ cmd_debug
  <2>1. UNCHANGED <<phase, objects, threads, dma, failed>> /\ level' \in Levels
    BY <1>35 DEF cmd_log, cmd_debug, externalMethod, sGetLog, sSetDebug
  <2> QED BY <2>1
<1> QED
  BY <1>1, <1>2, <1>3, <1>4, <1>5, <1>6, <1>7, <1>8, <1>9, <1>10, <1>11, <1>12, <1>13,
     <1>14, <1>15, <1>16, <1>17, <1>18, <1>19, <1>20, <1>21, <1>22, <1>23, <1>24,
     <1>25, <1>26, <1>27, <1>28, <1>29, <1>30, <1>31, <1>32, <1>33, <1>34, <1>35, <1>36,
     <1>37, <1>38 DEF DNext, Main

\* The types of the device, for any firmware, addresses and log.
THEOREM DeviceTypes == DSpec => []DTypeOK
<1>1. DSpec => [](DevFlags /\ DevSets)
  <2>1. LifeInv /\ DevFlags /\ DevSets /\ [DNext]_dvars => DevFlags' /\ DevSets'
    BY StepFlags, StepSets
  <2> QED BY <2>1, DeviceInvariant, InitTypes, PTL DEF DSpec
<1>2. DSpec => []LogInv
  BY InitLog, StepLog, PTL DEF DSpec
<1>3. DmaInv /\ HoldInv /\ DevFlags /\ DevSets /\ LogInv => DTypeOK
  <2> SUFFICES ASSUME DmaInv, HoldInv, DevFlags, DevSets, LogInv PROVE DTypeOK
    OBVIOUS
  <2>1. used \subseteq Phys
    BY DEF DmaInv, DevSets, PhysOf, Entry
  <2>3. limbo \subseteq Entry /\ holder \in {"none", "isr", "life", "ctl"}
    BY DEF HoldInv, DevSets
  <2>2. log.head \in Slots /\ log.tail \in Slots
    BY DEF LogInv, Ring
  <2> QED BY <2>1, <2>2, <2>3 DEF DevFlags, DevSets, DTypeOK
<1> QED BY <1>1, <1>2, <1>3, DeviceInvariant, PTL
=============================================================================
