------------------------------- MODULE Device -------------------------------
(***************************************************************************)
(* The life of the PCI device: RTW88PCIDevice::start, enable, disable, stop *)
(* and free, the globals they install in the compat layer, the threads that *)
(* use them (interrupt handler, interrupt thread call, NAPI thread call),   *)
(* the list of DMA bounce buffers with its deferred releases, the firmware  *)
(* and the log.  The rtw88 driver itself is external; it appears through    *)
(* the calls it makes into the compat layer.                                *)
(***************************************************************************)
EXTENDS Integers, FiniteSets, LogRing, Firmware

CONSTANTS Phys,        \* physical addresses the allocator can hand out
          Blobs,       \* the embedded firmware: name -> [comp, plain]
          FwNames,     \* the names a chip may ask for
          Levels, MsgLens, ReadLens, CharMod   \* what is written and read

\* The table of blobs holds sizes.
ASSUME BlobsAssumption == \A n \in DOMAIN Blobs : Blobs[n].comp \in Nat /\ Blobs[n].plain \in Nat

\* There is a highest level, KERN_DEBUG, at which rtw88_log_level starts.
ASSUME LogAssumption ==
    /\ \E m \in Levels : \A n \in Levels : m >= n
    /\ MsgLens \cup ReadLens \subseteq Nat /\ CharMod \in Nat \ {0}

VARIABLES phase,       \* how far start or teardown has come
          g,           \* g_pci_dev_instance, the io and the dma ops are set
          cbs,         \* g_hw_cbs and g_kext_hw are set
          resumeCb,    \* g_tx_resume_cb is set
          irqReg,      \* g_irq_handler, g_irq_thread_fn and g_irq_dev_id are set
          napiReg,     \* napi->poll and napi->thread_call are set
          ieee,        \* the RTW88IEEE80211 object exists
          hw,          \* the ieee80211_hw of the probe exists
          btcoex,      \* efuse.btcoex of that hw, which rtw_power_on reads
          enabled, powered, intr,
          hdl,         \* handleInterrupt runs on the work loop
          irq,         \* the interrupt thread call: queued, isr, resume
          napi,        \* the NAPI thread call: queued, copy, give
          dmaList, pendingFree,   \* _dmaList and _dmaPendingFree
          limbo,       \* entries off the first that have still to get on the second
          holder,      \* whose they are: of the interrupt thread ("isr"), the thread
                       \* of stop and disable ("life"), the client ("ctl") or none
          used,        \* the addresses the allocator has handed out
          fw, heap,    \* the firmware in use, and the bytes IOMalloc has given
          failed,      \* history: a step of start returned false
          raced,       \* history: a wait ended while its callback was running
          log, level, serial, unread,  \* ring, level; history: what was written
          client       \* an rtw88ctl has a connection open

globals == <<g, cbs, resumeCb, irqReg, napiReg>>
objects == <<ieee, hw, btcoex, fw, heap>>
power   == <<enabled, powered, intr>>
threads == <<hdl, irq, napi>>
inHand  == <<limbo, holder>>
dma     == <<dmaList, pendingFree, inHand, used>>
history == <<failed, raced>>
logs    == <<log, level, serial, unread>>
dvars   == <<phase, globals, objects, power, threads, dma, history, logs, client>>

Phases == {"new", "mapped", "made", "probed", "up", "quiet", "off", "drained", "stopped",
           "napiless", "unmapped", "irqless", "hwless", "released", "exited",
           "gone", "failed", "freed"}

Entry == [phys : Phys, orig : {"none", "rx", "tx"}]

DInit ==
    /\ phase = "new"
    /\ g = FALSE /\ cbs = FALSE /\ resumeCb = FALSE /\ irqReg = FALSE /\ napiReg = FALSE
    /\ ieee = FALSE /\ hw = FALSE /\ btcoex = FALSE /\ fw = NoFirmware /\ heap = 0
    /\ enabled = FALSE /\ powered = FALSE /\ intr = FALSE
    /\ hdl = FALSE /\ irq = {} /\ napi = {}
    /\ dmaList = {} /\ pendingFree = {} /\ limbo = {} /\ holder = "none" /\ used = {}
    /\ failed = FALSE /\ raced = FALSE
    /\ log = EmptyRing /\ level = Max(Levels) /\ serial = 0 /\ unread = <<>>
    /\ client = FALSE

-----------------------------------------------------------------------------
(* The bounce buffers.                                                      *)

PhysOf(E) == {e.phys : e \in E}

\* The entries of transmit frames the chip has not finished with.
InFlight == {e \in dmaList : e.orig = "tx"}

\* The operations behind dma_alloc_coherent, dma_map_single, dma_free_coherent,
\* dma_unmap_single and dma_sync_single_for_cpu: the entries each adds or takes
\* off, none without a device.  Only a mapped buffer has an original to copy to.
compat_dma_alloc(p)    == IF g THEN {[phys |-> p, orig |-> "none"]} ELSE {}
compat_dma_map(p, dir) == IF g THEN {[phys |-> p, orig |-> dir]} ELSE {}
compat_dma_free(E)     == IF g THEN {e \in E : e.orig = "none"} ELSE {}
compat_dma_unmap(E)    == IF g THEN {e \in E : e.orig # "none"} ELSE {}
compat_dma_sync_cpu    == g /\ \E e \in dmaList : e.orig = "rx"

\* allocCoherent and, for a mapped frame, setBounceOrigVA: every entry of new
\* has an address of its own that the allocator had free.
Allocate(new) ==
    /\ PhysOf(new) \cap used = {}
    /\ Cardinality(PhysOf(new)) = Cardinality(new)
    /\ used' = used \cup PhysOf(new)
    /\ dmaList' = dmaList \cup new
    /\ UNCHANGED <<pendingFree, inHand>>

\* freeCoherent and freeCoherentByPhys with preemption enabled.  Nobody looks for
\* the entry between its leaving the list and its release.
FreeAtOnce(gone) ==
    /\ dmaList' = dmaList \ gone
    /\ used' = used \ PhysOf(gone)
    /\ UNCHANGED <<pendingFree, inHand>>

\* The same by thread t with a spinlock held, the driver's irq_lock in every case
\* here: complete() and release() may block, so the entry goes to the list of
\* deferred releases.  First it leaves _dmaList, under _dmaLock ...
FreeDeferred(gone, t) ==
    /\ holder = "none"
    /\ dmaList' = dmaList \ gone /\ limbo' = gone
    /\ holder' = IF gone = {} THEN "none" ELSE t
    /\ UNCHANGED <<pendingFree, used>>

\* ... and then, when another thread may have drained that list, it is linked to
\* it, under _pendingFreeLock.
LinkDeferred(e) ==
    /\ pendingFree' = pendingFree \cup {e} /\ limbo' = limbo \ {e}
    /\ holder' = IF limbo = {e} THEN "none" ELSE holder
    /\ UNCHANGED <<dmaList, used, phase, globals, objects, power, threads, history, logs,
                   client>>

\* drainPendingFree.
Drained == used \ PhysOf(pendingFree)

DrainPendingFree ==
    /\ pendingFree' = {}
    /\ used' = Drained
    /\ UNCHANGED <<dmaList, inHand>>

\* The driver's ops->stop releases the frames in flight with irq_lock held.
StopReleases == IF powered THEN InFlight ELSE {}

-----------------------------------------------------------------------------
(* The compat layer's registrations and thread calls.                       *)

SetHwCallbacks(set) == cbs' = set
RequestThreadedIrq  == irqReg' = TRUE
NapiAdd             == napiReg' = TRUE

\* thread_call_cancel_wait drops an activation that is queued and gives a
\* running one 500 microseconds; then the caller goes on all the same.
CancelWait(calls) == calls \ {"queued"}

\* rtw88_napi_schedule
NapiSchedule(calls) == IF napiReg THEN calls \cup {"queued"} ELSE calls

\* RTW88IEEE80211::powerOn (hw->ops->start may fail) and powerOff.
\* Its mutex keeps hw->ops->start and hw->ops->stop apart.
PowerOn     == holder \in {"none", "isr"} /\ powered' \in IF powered THEN {TRUE} ELSE BOOLEAN
PowerOff(t) == powered' = FALSE /\ FreeDeferred(StopReleases, t)

-----------------------------------------------------------------------------
(* start, step by step; each step may fail, and start then returns false    *)
(* without undoing what the earlier ones installed.                         *)

StartMap ==
    /\ phase = "new" /\ phase' = "mapped"
    /\ g' = TRUE
    /\ UNCHANGED <<cbs, resumeCb, irqReg, napiReg, objects, power, threads,
                   dma, history, logs, client>>

\* rtw88_force_wifi_only looks for the hw of an earlier probe.  (g_rtw88_hw is
\* never cleared: in a second life it is the freed hw of the first.)
ForceWifiOnly == btcoex' = (btcoex /\ ~hw)

\* The interrupt source exists, but is not enabled.
setupInterrupt == intr' = FALSE

\* pci_dev, work loop, gate, interrupt source, RTW88IEEE80211::create, and
\* rtw88_force_wifi_only.
StartCreate ==
    /\ phase = "mapped" /\ phase' = "made"
    /\ ieee' = TRUE /\ SetHwCallbacks(TRUE)
    /\ setupInterrupt /\ ForceWifiOnly
    /\ UNCHANGED <<g, resumeCb, irqReg, napiReg, hw, fw, heap, enabled, powered, threads, dma,
                   history, logs, client>>

\* RTW88IEEE80211::start: the probe asks for the firmware, the interrupt, NAPI
\* and the rings; hw->ops->start may fail, which only leaves _powered clear.
StartProbe ==
    /\ phase = "made" /\ phase' = "probed"
    /\ hw' = TRUE /\ RequestThreadedIrq /\ NapiAdd
    /\ \E name \in FwNames :
          LET l == load_fw_from_blob(Blobs, name)
          IN  l.fw # NoFirmware /\ fw' = l.fw /\ heap' = heap + l.heap
    /\ \E p, q \in Phys :
          p # q /\ Allocate(compat_dma_alloc(p) \cup compat_dma_map(q, "rx"))
    /\ powered' \in BOOLEAN /\ btcoex' \in BOOLEAN
    /\ UNCHANGED <<g, cbs, resumeCb, ieee, enabled, intr, threads, history,
                   logs, client>>

\* attachDevice, the resume callback, the interrupt source and the timer.
StartAttach ==
    /\ phase = "probed" /\ phase' = "up"
    /\ resumeCb' = TRUE /\ intr' = TRUE
    /\ UNCHANGED <<g, cbs, irqReg, napiReg, objects, enabled, powered, threads,
                   dma, history, logs, client>>

\* A step fails.  create() installs the callbacks before its own last steps:
\* when one of those fails they keep pointing at the object it releases.  A
\* failing probe undoes its own work; a firmware that is not there is one.
StartFails ==
    /\ phase \in {"new", "mapped", "made", "probed"} /\ phase' = "failed"
    /\ failed' = TRUE
    /\ cbs' \in IF phase = "mapped" THEN BOOLEAN ELSE {cbs}
    /\ UNCHANGED <<g, resumeCb, irqReg, napiReg, objects, power, threads, dma,
                   raced, logs, client>>

-----------------------------------------------------------------------------
(* enable, disable and the frames that are sent.                            *)

Enable ==
    /\ phase = "up" /\ ~enabled /\ ieee
    /\ PowerOn
    /\ enabled' = powered'
    /\ intr' = (intr \/ powered')
    /\ UNCHANGED <<phase, globals, objects, threads, dma, history, logs, client>>

Disable ==
    /\ phase = "up" /\ enabled
    /\ enabled' = FALSE /\ intr' = FALSE
    /\ PowerOff("life")
    /\ UNCHANGED <<phase, globals, objects, threads, history, logs, client>>

\* outputPacket, under the gate that enable and disable are called with: the
\* deferred releases first; the frame is mapped when the
\* interface is up and the allocator has an address, and dropped otherwise.
OutputPacket ==
    /\ phase = "up" /\ holder # "life"
    /\ pendingFree' = {}
    /\ \/ /\ enabled /\ ieee /\ powered
          /\ \E p \in Phys \ Drained :
                /\ used' = Drained \cup PhysOf(compat_dma_map(p, "tx"))
                /\ dmaList' = dmaList \cup compat_dma_map(p, "tx")
       \/ /\ ~(enabled /\ ieee /\ powered) \/ Phys = Drained
          /\ used' = Drained
          /\ UNCHANGED dmaList
    /\ UNCHANGED <<inHand, phase, globals, objects, power, threads, history, logs, client>>

\* txMgmtFrame and its like: frames of the driver's own, which need no
\* interface, only power.  They go on until RTW88IEEE80211::stop.
TxMgmtFrame ==
    /\ phase \in {"up", "quiet", "off", "drained"} /\ ieee /\ powered
    /\ \E p \in Phys \ used : Allocate(compat_dma_map(p, "tx"))
    /\ UNCHANGED <<phase, globals, objects, power, threads, history, logs, client>>

-----------------------------------------------------------------------------
(* The threads.                                                             *)

\* handleInterrupt and rtw88_trigger_interrupt up to the driver's handler.
HandleInterrupt ==
    /\ intr /\ ieee /\ irqReg /\ ~hdl
    /\ hdl' = TRUE
    /\ UNCHANGED <<phase, globals, objects, power, irq, napi, dma, history,
                   logs, client>>

\* The handler wants its thread: thread_call_enter, if there still is one.
TriggerEnd ==
    /\ hdl /\ hdl' = FALSE
    /\ irq' = IF irqReg THEN irq \cup {"queued"} ELSE irq
    /\ UNCHANGED <<phase, globals, objects, power, napi, dma, history, logs,
                   client>>

\* rtw88_irq_thread_wrapper begins.
IrqThread ==
    /\ "queued" \in irq
    /\ irq' = (irq \ {"queued"}) \cup
              (IF irqReg THEN {"isr"} ELSE IF resumeCb THEN {"resume"} ELSE {})
    /\ UNCHANGED <<phase, globals, objects, power, hdl, napi, dma, history,
                   logs, client>>

\* The driver's thread function: tx_isr unmaps finished frames, one after the
\* other, with irq_lock held ...
IsrUnmap ==
    /\ "isr" \in irq
    /\ \E e \in StopReleases : FreeDeferred(compat_dma_unmap({e}), "isr")
    /\ UNCHANGED <<phase, globals, objects, power, threads, history, logs, client>>

\* ... and NAPI is scheduled.
IsrEnd ==
    /\ "isr" \in irq /\ holder # "isr"
    /\ napi' \in {napi, IF powered THEN NapiSchedule(napi) ELSE napi}
    /\ irq' = (irq \ {"isr"}) \cup (IF resumeCb THEN {"resume"} ELSE {})
    /\ UNCHANGED <<phase, globals, objects, power, hdl, dma, history, logs, client>>

\* rtw88_tx_resume_trampoline returns from resumeTxIfStalled.
ResumeEnd ==
    /\ "resume" \in irq
    /\ irq' = irq \ {"resume"}
    /\ UNCHANGED <<phase, globals, objects, power, hdl, napi, dma, history,
                   logs, client>>

\* rtw88_napi_thread_wrapper calls the poll function; for a received frame
\* syncBounceForCpu looks its entry up under the lock and copies after it.
NapiPoll ==
    /\ "queued" \in napi
    /\ napi' \in {napi \ {"queued"}}
                 \cup (IF napiReg /\ compat_dma_sync_cpu
                       THEN {(napi \ {"queued"}) \cup {"copy"}} ELSE {})
    /\ UNCHANGED <<phase, globals, objects, power, hdl, irq, dma, history,
                   logs, client>>

SyncCopied ==
    /\ "copy" \in napi
    /\ napi' = (napi \ {"copy"}) \cup {"give"}
    /\ UNCHANGED <<phase, globals, objects, power, hdl, irq, dma, history,
                   logs, client>>

\* The frame is freed when there are no callbacks; a data frame that rxFrame is
\* given may reach injectRxFrame, which drains.
ieee80211_rx_irqsafe == (cbs /\ DrainPendingFree) \/ UNCHANGED dma

\* A poll that used up its budget is entered again.
NapiGive ==
    /\ "give" \in napi
    /\ napi' \in {napi \ {"give"}, NapiSchedule(napi \ {"give"})}
    /\ ieee80211_rx_irqsafe
    /\ UNCHANGED <<phase, globals, objects, power, hdl, irq, history, logs, client>>

-----------------------------------------------------------------------------
(* teardown, step by step.  stop() runs on a thread of IOKit's, so that the *)
(* threads above go on while it works; its clients it has terminated before. *)

Quiesce ==
    /\ phase = "up" /\ phase' = "quiet" /\ holder \notin {"life", "ctl"}
    /\ resumeCb' = FALSE
    /\ intr' = FALSE
    /\ client' = FALSE
    /\ UNCHANGED <<g, cbs, irqReg, napiReg, objects, enabled, powered, threads,
                   dma, history, logs>>

\* disable, if the interface is enabled ...
TeardownOff ==
    /\ phase = "quiet" /\ phase' = "off"
    /\ enabled' = FALSE
    /\ \/ enabled /\ PowerOff("life")
       \/ ~enabled /\ UNCHANGED <<powered, dma>>
    /\ UNCHANGED <<globals, objects, intr, threads, history, logs, client>>

\* ... and drainPendingFree.
TeardownDrain ==
    /\ phase = "off" /\ phase' = "drained" /\ holder # "life"
    /\ DrainPendingFree
    /\ UNCHANGED <<globals, objects, power, threads, history, logs, client>>

\* RTW88IEEE80211::stop up to rtw_pci_remove.
Stop80211 ==
    /\ phase = "drained" /\ phase' = "stopped"
    /\ PowerOff("life")
    /\ UNCHANGED <<globals, objects, enabled, intr, threads, history, logs, client>>

\* A plausible mistake: a queued activation is left alone.
NapiDelNoCancel ==
    /\ phase = "stopped" /\ phase' = "napiless" /\ holder # "life"
    /\ napiReg' = FALSE
    /\ raced' = (raced \/ napi \cap {"copy", "give"} # {})
    /\ UNCHANGED <<g, cbs, resumeCb, irqReg, objects, power, threads, dma,
                   failed, logs, client>>

\* rtw_pci_remove: rtw88_netif_napi_del ...
NapiDel ==
    /\ phase = "stopped" /\ phase' = "napiless" /\ holder # "life"
    /\ napiReg' = FALSE
    /\ napi' = CancelWait(napi)
    /\ raced' = (raced \/ napi' # {})
    /\ UNCHANGED <<g, cbs, resumeCb, irqReg, objects, power, hdl, irq, dma,
                   failed, logs, client>>

\* ... the rings ...
UnmapRings ==
    /\ phase = "napiless" /\ phase' = "unmapped"
    /\ FreeAtOnce(compat_dma_free(dmaList) \cup compat_dma_unmap(dmaList))
    /\ UNCHANGED <<globals, objects, power, threads, history, logs, client>>

\* ... rtw88_devm_free_irq ...
FreeIrq ==
    /\ phase = "unmapped" /\ phase' = "irqless"
    /\ irqReg' = FALSE
    /\ irq' = CancelWait(irq)
    /\ raced' = (raced \/ irq' # {} \/ hdl)
    /\ UNCHANGED <<g, cbs, resumeCb, napiReg, objects, power, hdl, napi, dma,
                   failed, logs, client>>

\* ... release_firmware and ieee80211_free_hw.
FreeHw ==
    /\ phase = "irqless" /\ phase' = "hwless"
    /\ hw' = FALSE
    /\ heap' = heap + release_firmware(fw)
    /\ fw' = NoFirmware /\ btcoex' = FALSE
    /\ UNCHANGED <<globals, ieee, power, threads, dma, history, logs, client>>

\* The last reference: RTW88IEEE80211::free.
Release80211 ==
    /\ phase = "hwless" /\ phase' = "released"
    /\ ieee' = FALSE
    /\ UNCHANGED <<globals, hw, btcoex, fw, heap, power, threads, dma, history,
                   logs, client>>

\* rtw88_compat_exit.
CompatExit ==
    /\ phase = "released" /\ phase' = "exited"
    /\ SetHwCallbacks(FALSE) /\ resumeCb' = FALSE /\ irqReg' = FALSE
    /\ UNCHANGED <<g, napiReg, objects, power, threads, dma, history, logs, client>>

\* removeEventSource closes the gate: the handler has returned after it.
TeardownEnd ==
    /\ phase = "exited" /\ phase' = "gone"
    /\ ~hdl
    /\ g' = FALSE
    /\ UNCHANGED <<cbs, resumeCb, irqReg, napiReg, objects, power, threads,
                   dma, history, logs, client>>

\* A plausible mistake: the deferred releases are forgotten.
DeviceFreeNoDrain ==
    /\ phase \in {"gone", "failed"} /\ phase' = "freed"
    /\ UNCHANGED <<globals, objects, power, threads, dma, history, logs, client>>

DeviceFree ==
    /\ phase \in {"gone", "failed"} /\ phase' = "freed"
    /\ DrainPendingFree
    /\ UNCHANGED <<globals, objects, power, threads, history, logs, client>>

\* The device is matched again: a new object, the same globals.
Rematch ==
    /\ phase = "freed" /\ phase' = "new"
    /\ ~failed /\ ~raced
    /\ UNCHANGED <<globals, objects, power, threads, dma, history, logs, client>>

-----------------------------------------------------------------------------
(* The log: it exists between rtw88_compat_init and rtw88_compat_exit.      *)

LogLock == g /\ phase # "exited"

Newest(s) == IF Len(s) < LogSize THEN s
             ELSE SubSeq(s, Len(s) - LogSize + 2, Len(s))

Printk ==
    /\ LogLock
    /\ \E lv \in Levels, n \in MsgLens :
          LET msg == [i \in 1 .. n |-> (serial + i) % CharMod]
          IN  /\ Passes(lv, level)
              /\ log' = rtw88_log_append(log, msg)
              /\ serial' = (serial + n) % CharMod
              /\ unread' = Newest(unread \o msg)
    /\ UNCHANGED <<phase, globals, objects, power, threads, dma, history,
                   level, client>>

-----------------------------------------------------------------------------
(* rtw88ctl and the user client: a process opens the device, makes a call    *)
(* and closes it.  (The commands that are not here are actions of Control.) *)

\* newUserClient binds the task, attaches the client and starts it.
NewUserClient ==
    /\ phase = "up" /\ ~client
    /\ client' = TRUE
    /\ UNCHANGED <<phase, globals, objects, power, threads, dma, history, logs>>

ClientClose ==
    /\ client /\ holder # "ctl"
    /\ client' = FALSE
    /\ UNCHANGED <<phase, globals, objects, power, threads, dma, history, logs>>

\* A call arrives through an open connection and leaves it open.
externalMethod == client /\ holder # "ctl" /\ UNCHANGED <<client, phase, globals, objects, threads, history>>

CmdPowerOn  == PowerOn /\ UNCHANGED <<enabled, intr, dma, logs>>
CmdPowerOff == PowerOff("ctl") /\ UNCHANGED <<enabled, intr, logs>>

\* sPowerOn and sPowerOff: the object must exist.
sPower(on) == ieee /\ IF on THEN CmdPowerOn ELSE CmdPowerOff

sGetLog(max) ==
    /\ log' = rtw88_read_log(log, max)
    /\ unread' = SubSeq(unread, 1 + (IF max < Len(unread) THEN max ELSE Len(unread)),
                        Len(unread))
    /\ UNCHANGED <<power, dma, level, serial>>

sSetDebug(lv) ==
    /\ level' = lv
    /\ UNCHANGED <<power, dma, log, serial, unread>>

\* The commands: the buffer of cmd_log may be smaller than what is unread.
cmd_power == \E on \in BOOLEAN : externalMethod /\ sPower(on)
cmd_log   == \E max \in ReadLens : externalMethod /\ sGetLog(max)
cmd_debug == \E lv \in Levels : externalMethod /\ sSetDebug(lv)

\* main: open_kext, the command, and IOServiceClose whatever it returned; a
\* command line that does not parse closes without a call.
Main == NewUserClient \/ cmd_power \/ cmd_log \/ cmd_debug \/ ClientClose

-----------------------------------------------------------------------------
DNext ==
    \/ StartMap \/ StartCreate \/ StartProbe \/ StartAttach \/ StartFails
    \/ Enable \/ Disable \/ OutputPacket \/ TxMgmtFrame
    \/ HandleInterrupt \/ TriggerEnd \/ IrqThread \/ IsrUnmap \/ IsrEnd \/ ResumeEnd
    \/ (\E e \in limbo : LinkDeferred(e))
    \/ NapiPoll \/ SyncCopied \/ NapiGive
    \/ Quiesce \/ TeardownOff \/ TeardownDrain \/ Stop80211 \/ NapiDel \/ UnmapRings \/ FreeIrq
    \/ FreeHw \/ Release80211 \/ CompatExit \/ TeardownEnd \/ DeviceFree \/ Rematch
    \/ Printk \/ Main

DSpec == DInit /\ [][DNext]_dvars

-----------------------------------------------------------------------------
\* Type invariant.
DTypeOK ==
    /\ phase \in Phases
    /\ {g, cbs, resumeCb, irqReg, napiReg, ieee, hw, btcoex} \subseteq BOOLEAN
    /\ {enabled, powered, intr, hdl, failed, raced, client} \subseteq BOOLEAN
    /\ irq \subseteq {"queued", "isr", "resume"}
    /\ napi \subseteq {"queued", "copy", "give"}
    /\ dmaList \subseteq Entry /\ pendingFree \subseteq Entry /\ used \subseteq Phys
    /\ limbo \subseteq Entry /\ holder \in {"none", "isr", "life", "ctl"}
    /\ heap \in Nat
    /\ log.head \in Slots /\ log.tail \in Slots /\ level \in Levels

\* teardown takes the device apart while its callbacks may be queued or
\* running: as long as the 500 microseconds of thread_call_cancel_wait were
\* enough and start had succeeded, the handler and the interrupt thread find the
\* hw, a poll finds the hw, its napi structure, the 802.11 object and (while it
\* copies) its bounce buffer, and nothing is left to be called when free() runs.
NoStaleActivation ==
    ~failed /\ ~raced =>
       /\ hdl \/ "isr" \in irq => hw
       /\ napi # {} => hw /\ ieee
       /\ "copy" \in napi => \E e \in dmaList : e.orig = "rx"
       /\ phase = "freed" => /\ irq = {} /\ napi = {} /\ ~hdl
                             /\ ~g /\ ~cbs /\ ~irqReg /\ ~napiReg /\ ~resumeCb

\* The two lists of bounce buffers, and what a thread is moving from one to the
\* other, never share an address and together hold exactly what the allocator has
\* handed out, whatever thread releases a buffer, whether or not it could block, and
\* whoever drains the second list meanwhile; after a whole life of the device (start,
\* stop, free) the allocator and the heap have everything back.
BouncesReturned ==
    /\ PhysOf(dmaList) \cap PhysOf(pendingFree) = {}
    /\ PhysOf(limbo) \cap PhysOf(dmaList \cup pendingFree) = {}
    /\ PhysOf(dmaList) \cup PhysOf(pendingFree) \cup PhysOf(limbo) = used
    /\ \A e, f \in dmaList \cup pendingFree \cup limbo : e.phys = f.phys => e = f
    /\ phase = "freed" /\ ~failed /\ ~raced => used = {} /\ heap = 0

\* However messages and reads of the log alternate, the ring holds, in order,
\* what was written since the last read, or the newest LogSize - 1 characters.
LogIsNewest == Contents(log) = unread

\* start says that it overrides the eFuse so that "the coex driver initialises
\* with wifi_only=true": whenever rtw_core_start has powered the chip on, the
\* hw it read has btcoex cleared.
WifiOnly == powered => ~btcoex
=============================================================================
