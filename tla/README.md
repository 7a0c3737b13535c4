# A TLA+ verification of the Feixiao (rtw88) macOS driver

The repository ports Linux's rtw88 Wi-Fi driver to macOS as a kernel extension.
The rtw88 sources themselves are fetched at build time and are external here;
the repository's own code is what surrounds them:

* `src/src/kext/RTW88IEEE80211.cpp`: a small 802.11 station (MLME, WPA2, data path);
* `src/src/kext/RTW88PCIDevice.cpp`: the IOKit Ethernet controller (queues, interrupts, DMA);
* `src/src/compat/`: Linux kernel APIs (workqueues, timers, completions, IRQ/NAPI) on IOKit;
* `src/src/kext/RTW88UserClient.cpp`, `src/ctl/main.c`: the command interface and its tool.

## 1. Inventory

### Components, state, operations

| component | state | operations | modules |
|---|---|---|---|
| RX reorder buffer | `_rxBa[8]` (headSn, bufSize, stored, 64 slots) under `_rxBaLock` | rxBaSetup, rxBaTeardown, rxReorderInput, rxReorderFlushStale | `RxReorder` |
| RX data path | `_reorderTimer`, out[] of each thread, what the stack was given | processRxData, handleBackAction, reorderTimerFired, releaseSta | `RxPath` |
| connection state machine | `_state`, `_timer`, `_sta`, keys, link status, scan flags, thread calls | cmdScan/Connect/Disconnect/PowerOff, doAuthenticate, doAssociate, processRxMgmt, handleEAPOL, onTimer, runManualScan | `Link`, `Control` |
| four-way handshake, keys | `_pmk`, `_ptk`, `_ptkConf`, `_gtkConf`, `_ccmpTxPn` | handleEAPOL, sendEAPOLKey, installKey, clearKeys, derivePTK, extract_gtk_from_kde | `Handshake`, `PacketNumber`, `AuthLink` |
| TX data path | `_dataSeq`, `_txBaActive`, buffers under construction | outputPacket, txDataFrame, txMgmtFrame, ADDBA and DELBA as originator | `Handshake`, `SkBuff` |
| BSS table | `_bssList`, `_scanGeneration`, `_targetBSS`, `_connChanWidth` | processScanResult, scanDone's ageing, setConnectedChandef, buildAssocReq, cmdGetBSSList | `Bss`, `Control` |
| user client, rtw88ctl | the open connection; the tool keeps nothing | scan, list, connect, disconnect, log, debug, power | `Control`, `Device` |
| TX flow control | `_txStalled`, `_enabled`, the ring's free slots, the gated queue | enable, disable, outputPacket, resumeTxIfStalled, debugTimerFired | `TxFlow` |
| workqueue, timers | wq list, `pending`, `running`, `done`, timer `active` and thread call | queue_work, queue_delayed_work, cancel_*, destroy_workqueue, wq_thread_fn, mod_timer, timer_call_fn | `WorkQueue` |
| completion | `done`, `lock` | complete, complete_all, reinit, the waits | `Completion` |
| IRQ and NAPI dispatch | handler, thread call, `napi_struct`, NAPI thread call | request_irq, free_irq, the trampolines, napi_schedule, poll, del | `Device` |
| DMA and bounce buffers | `_dmaList`, `_pendingFree`, the bounce pages | compat_dma_map, allocCoherent, the two ways of freeing, drainPendingFree, syncBounceForCpu | `Device` |
| device life cycle | the instance pointer, callbacks, hw, work loop, what start built | start step by step, enable, disable, power, stop, teardown, free | `Device` |
| firmware store | blob table, inflated images | request_firmware, rtw88_decompress, release_firmware | `Firmware`, `Device` |
| log ring | 8192-byte ring, head, tail, level | rtw88_printk, rtw88_log_append, rtw88_read_log | `LogRing`, `Device` |
| USB device | - | - | not modelled: left out of the build |

### Threads and how they interact

* the **receive thread**: a thread call entered by the interrupt or by NAPI; runs
  the driver's RX and ends in `rxFrame`, so in processRxMgmt, processRxData, handleEAPOL;
* the **output queue's thread**: outputPacket, under the gate of the queue, down to txDataFrame;
* the **parent's work loop**: interrupt source, reorder timer; it is also the output queue's;
* the **device's own work loop** (RTW88PCIDevice.cpp:349): the 1 s debug timer, which therefore
  runs outside the queue's gate;
* the **station's work loop** `_wl`: `_timer`, i.e. onTimer;
* thread calls `_connectTC` (doAuthenticate, with sleeps) and `_manualScanTC` (runManualScan);
* **user clients**: every `cmd*` runs on the caller's thread;
* the **workqueue** threads, and IOKit's thread that starts, stops and frees the device.

`_state` and most of the station's fields are written by five of these without a
lock. `_rxBaLock` protects the reorder buffers, `_bssLock` the BSS table, `_dmaLock`
the two lists of bounce buffers, `wq->lock` a queue; the timers of the shim have none.

### What is hard

Interleavings around unlocked `_state`; keys and stations released while a frame is
being built; pointers and decisions that outlive a lock; late timeouts against late
frames; EAPOL frames lost, repeated and out of order; sequence numbers, packet numbers
and generations that wrap; wakeups that could be lost; cancelled work that is still
linked; teardown that races with callbacks already queued; buffers sized in one place
and filled in another. `PROJECT.json` lists them at their lines under "hazards", each
with the properties that would catch it, or with the reason why none does.

## 2. How the modules fit together

* Receive: `RxReorder` (what each locked section does) <- `RxPath` (the threads around it; it
  implements `RxReorder`).
* Connection: `Link` (who writes `_state`, and when), `Handshake` (what a link is worth: keys,
  packet numbers, protection; it implements `AuthLink`), `Control` (which network, with
  what parameters). They share `_state` but each keeps only what its properties need;
  `Link` splits a handler where it uses `_state` again, `Handshake` where it uses `_state`, a key
  or a number again.
* Transmit: `Handshake` (output thread), `SkBuff` (sizes), `TxFlow` (ring and queue).
* Device: `Device` with `LogRing` and `Firmware`, `WorkQueue`, `Completion`.

Pure algorithms are operators of modules without state: `PacketNumber`, `SkBuff`, `Bss`,
`LogRing`, `Firmware`. A module `MC...` gives an instance the constants a .cfg cannot write;
`...Proofs` holds the theorems of a module.

What a further step could be: composing `Device` with `_state` (hazard at
RTW88PCIDevice.cpp:575), several user clients at once, or an abstract specification of the
device's life cycle that `Device` would implement.

## 3. Modules

**RxReorder.** One action per section under `_rxBaLock`. A frame is the real number
the access point gave it; the driver sees it modulo `SeqMod` (4096). `rxBa[t]` is the
C struct (`active = FALSE` is the null pointer). `SlideLen`, `RunLen` and `SkipLen` say
how far the three `while` loops move the head, `Advance` what moving it does to slots,
counter and out[]. The history variables headAbs, lastRel and out relate the wrapped
arithmetic to real numbers. The access point is external: it repeats frames of its
last window, loses frames, and jumps at most `Ahead` past it. The flush takes one step
per TID with the lock held.

**RxPath** extends RxReorder with the receive thread (`rx`), the flush timer (`tm`) and a
client in doDisconnect or cmdConnect (`usr`). What the code does outside the lock –
the unlocked load of `_rxBa[tid]`, delivery, arming the timer, freeing – are steps of
their own. A freed buffer's `active` may read as anything.

**Link.** A handler that reads `_state` and writes it after a transmission, a sleep or a
driver call takes several steps. `saw` records the state a thread acts on and `raced`
whether any thread has written over a state that changed meanwhile; both are history.
The access point's answers, late or repeated, are the set `air`. `RTW88_STATE_DISCONNECTING` is
never set by the code, and is no state here. Check and set of
`_state` in cmdScan and cmdConnect are one step, and there is one user client. A thread
call entered again while it runs starts again afterwards. The deauthentication case is three
steps after the transmission before it: the keys go, then `_state`, then the link status.

**TxFlow.** outputPacket under the gate in four steps (look at the ring, set `_txStalled` or
fill the ring some time after the look, return). resumeTxIfStalled runs on two threads that
neither share the gate nor exclude each other: the interrupt thread after it has taken the
chip's frames out of the ring, and the debug timer, each in the steps look, resume, clear and
service. The receive thread puts EAPOL frames into the same ring past the queue (`SendEapol`);
`nospc` records that the driver found no room. IOGatedOutputQueue is external; the model relies
on one fact of it: an asynchronous service asked for while outputPacket is in progress runs
when the gate is free again, and is not lost. A timer fires again only after its callback has
returned.

**WorkQueue.** Sections under `wq->lock` are actions; timer_call_fn, which takes no lock,
is test, clear, fire. Linking a linked work sets `torn`, after which nothing is claimed.
A timer's new thread call does not start before its old callback has returned
(delays are at least a millisecond). Delaying a work again enters its thread call anew, with a
new deadline and without a look at `pending`, so it can be pushed back again and again.
destroy_workqueue is called with no timer pending or firing, i.e. after cancellations whose
500 µs wait was long enough, and nothing is queued once it has begun: queue_work does not test
`running`, so that is what the model expects of the queue's users.

**Handshake** has three threads without a lock between them. The receive thread runs the
supplicant: message 1 in two steps (`RxM1`, `RxM1Reply`), message 3 in five - the MIC (`RxM3`), the
copy of `_ptk` (`RxM3Slot`), the driver's pairwise key (`RxM3Ptk`), the group key and message 4
(`RxM3Answer`), `_state = CONNECTED` (`RxM3Up`); then, as after a connection to an open network, the
starting number of the aggregation is read (`RxAgg`). The teardown clears the keys (`TdClear`),
releases the station (`TdRelease`) and writes `_state` (`TdEnd`); it may fall between any two of the others' steps.
The output thread decides to protect (`OutStart`), takes the numbers (`OutSeal`), and reads
`_ptkConf`, `_txBaActive` and `_sta` again to call the driver (`OutGive`). The access point is
external; what either side sends stays in `air` for good, so it may be lost, repeated and
reordered. Cryptography is symbolic: a PTK is the triple of the PMK and the two nonces, and a
MIC passes exactly under the key it was made with. Lengths are kept where the code compares
them: the GTK KDE against installKey's 16 or 32, the wrapped key data against the 32 blocks of
aes_unwrap_128. Three histories say what a teardown met: `overlap` a transmission, `crossed`
message 3 between its MIC and its end, `stray` a BlockAck response after the station was gone.
A property says for each of them exactly what it still claims. A new cmdConnect that overtakes a
receive handler is left to `Link`, and the memory of `_ptkConf`, `_gtkConf` and `_sta` (used by
one thread, freed by another) is not modelled: a key in a slot is its value.

**AuthLink** is the abstract link: it comes up only with a key its access point holds, no key
serves twice, packet numbers under one key only grow. `Void` suspends the promise until `Renew`
sets it up anew: a teardown in the middle of a transmission or of message 3 voids it for this
association, a new association renews it. Handshake's `AL` maps `up` to "CONNECTED on a WPA2
network with a key in the slot".

**PacketNumber** is the six-byte counter with its carry, and the order a receiver compares by.
**SkBuff** is the arithmetic of `sk_buff` (head, data, tail, end) and the size that each of the
station's frames is allocated and filled with, the fixed ones of scanning included.

**Bss** parses a beacon's elements (RSN selection, HT and VHT operation, the cache of 512
bytes), decides the channel definition and the association request, and encodes and
decodes an entry of the list. A loop is a recursive function of the number of its rounds:
`KeepIe(ReadIe(...))` is a round of the walk over the elements, `PutEntry` one of cmdGetBSSList,
`TakeEntry` one of cmd_list. Elements are records, not bytes; lengths are kept where a
loop or a buffer ends by them. **Control** has the table's users: beacons parsed outside
`_bssLock` and entered under it, scans and their generation, rtw88ctl's commands, and
doAuthenticate, which tunes to the target and is overtaken by answers to an older attempt.
setConnectedChandef writes 20 first (`Tune`) and a wider one later (`Tune40`, `Tune80`), without
a lock: that an association request or a station was made in between is recorded in `early`. `Agreed` compares the station's width with what the request of
that connection advertised and with what the access point allows, and names the two cases in
which the driver forces 40 MHz on 2.4 GHz. **MCControl** is an instance with two access points of
one SSID that change their elements between beacons.

**Device** follows one PCI function from match to free: `start` in the steps that can fail
apart, the interrupt's handler and thread call, NAPI with its deferred poll and the copy out
of a bounce buffer after the lock was dropped, sending, both ways of releasing DMA memory,
the user client, the log and the firmware; then stop and teardown step by step while the
callbacks run. IOKit terminates user clients before stop(), so `Quiesce` closes the client.
Releasing a bounce buffer for later is two sections under `_dmaLock`, which is dropped in
between (`FreeDeferred`, `LinkDeferred`): `limbo` has the entries that are on neither list, `holder`
the thread they belong to. Releasing at once, and draining, are one step, since nobody looks
for such an entry in between. The 500 microseconds that thread_call_cancel_wait waits may not be
enough; `raced` records it.
`failed` records a start that failed half-way. A second match after free starts over.
**LogRing** and **Firmware** are its pure parts; **MCDevice** an instance.

**Completion.** Calls and their locked sections; the counter has `Width` bits and `~0u`
is its largest value, so complete() after complete_all() wraps to 0 as in C.

Definitions with a comment "Mutant:" are deliberately wrong variants of the
definition after them; no specification uses them. They show that the property they
are paired with in `PROJECT.json` can fail.

## 4. Runs

| run | states | shows |
|---|---|---|
| `rx_reorder` | 56 136 | with a wrap at 16 and windows of 4 and 3: buffered frames are in their slot and window (WindowInv), the head tracks the access point (HeadTracksPeer), the counter is exact and out[] has room (StoredExact), release is in order and once (InOrderRelease), the input path gives up only on frames outside the window (InputSkipsOnlyExpired) |
| `rx_path` | 390 008 | the threads implement RxReorder (RSpec), a frame is delivered at most once (DeliveredOnce), a hole has its timer (HoleHasTimer) and is flushed (HoleIsFlushed) |
| `link` | 324 819 | a connected WPA2 link has its key whatever the threads do, but while a teardown clears it and where message 3 ends over a link torn down meanwhile (ConnectedHasKeys); absent a race on `_state`, link status, timer and state agree (LinkMatchesState, WaitingHasTimer); scans, associations and handshakes end (AttemptsEnd) |
| `handshake` | 2.1 million | the station implements AuthLink (LinkPromise); both ends hold the same key unless a teardown fell into message 3, and then there is no station to send with (ConnectedAgrees); frames of a WPA2 link are protected (DataIsProtected) and aggregated only by agreement (AmpduAccepted), teardown overlaps apart; every buffer is filled exactly (SkbExact) |
| `control` | 1.1 million | across a wrap of the generation: the table is what was last heard (TableIsCurrent), rtw88ctl prints it (ListRoundTrip), the station entry fits the association request, and is no wider than that advertised and the access point allows (NegotiatedWidth), what is not heard again goes (OldOnesGo) |
| `device` | 681 160 | no callback outlives what it uses (NoStaleActivation), every bounce buffer and image is given back once (BouncesReturned), the log holds the newest characters in order (LogIsNewest) |
| `txflow` | 130 117 | the frames of the queue leave room for those that go past it: the driver never answers -ENOSPC (Headroom); a held packet is known (HeldIsKnown) and released (StallEnds), with both threads that resume the queue at once |
| `workqueue` | 226 248 | list and pending agree except for cancelled works (LinkedOnce); what is queued runs (QueuedRuns), and what is delayed, unless it is delayed again for ever (DelayedRuns); destroy drains (DestroyDrains) |

Four runs end in a violation; each states something the repository says of itself which
the code does not do:

| run | statement | what happens |
|---|---|---|
| `rx_path_use_after_free` | `_rxBa` is "guarded by _rxBaLock" | processRxData follows it without the lock while a client frees it |
| `link_disconnect` | rtw88ctl: "Disconnected" | doAuthenticate, asleep meanwhile, writes AUTHENTICATING afterwards |
| `completion` | "safe from any calling context" | a timed-out wait returns with the lock; complete() then never returns |
| `device_wifi_only` | the override for Wi-Fi-only cards | it looks for a hw that the probe, called later, has still to allocate, so it never applies |

Definitions that the runs do not share fall to their run: a property is checked in the module
that has the two sides it relates, so the same line may appear in two modules (clearKeys
in `Link` and in `Handshake`), each with the part its properties tell apart.

### Observations without a run of their own

Seen while modelling; the models have the steps, no run is named for them.

* The reorder timer and the receive thread deliver outside the lock and can overtake each
  other, so frames need not reach the stack in order, although each is released in order.
* An ADDBA request handled between releaseSta and `_state = IDLE` leaves a reorder buffer that
  the next connection inherits.
* doDisconnect cancels the timer after it wrote IDLE, and can cancel the timer of the attempt
  another thread has begun meanwhile. These are among the races `Link` counts.
* rtw88ctl prints "Connection failed" after its own timeout while the driver may still connect.
* cmdScan wants IDLE, so `_scanReturnState` is never CONNECTED, and the return to the connected
  channel with its null-data frames is never reached. Disconnecting during a manual scan
  leaves its channel loop running.
* Networks with TKIP only are associated with as open ones, WPA3-only ones are listed as "Open".
* The packet number wraps after 2^48 frames without a new key; the models stop there.
* A teardown between the MIC of message 3 and `_state = CONNECTED` leaves the station CONNECTED
  with no key, or with one installed from the zeroed `_ptk`. Its station is gone, so nothing is
  sent; the link status says "active" until the next command.
* A BlockAck response handled between releaseSta and `_state = IDLE` leaves `_txBaActive` set for
  the next association.
* `_state` is CONNECTED before startTxAggregation reads the starting number: a frame numbered in
  between can be marked for aggregation just below the start of the agreement.
* Message 2 and message 4 go to the ring on the receive thread, past the gate, while
  outputPacket may be filling it; the comment at RTW88PCIDevice.cpp:588 relies on one sender.
* Where the driver forces 40 MHz on 2.4 GHz (a chip whose band lacks the 40 MHz bit, lines 1631
  and 1637, or a D723 beside an access point without it, 1670) the station entry's bandwidth is
  40 (2187). The missing bit is missing in the association request as well (2355), so it was not
  advertised, and the access point of a D723 may not even allow it: not what the comment at 2192
  asks for. NegotiatedWidth exempts exactly these two cases.
* A retry of doAuthenticate writes the width 20 again (1609) while a late answer to the attempt
  before may make the association request or the station entry of it.
* After a start that failed, or a stop whose wait was too short, the global pointers may name
  what was freed; `Device` excludes these two from its claims by `failed` and `raced`.

### Bounds

* `rx_reorder`: SeqMod 16, windows 4 and 3, numbers 13..17: the window, the slots and the
  sequence space each wrap; the jump past the window is reachable (Ahead 2); two TIDs so
  that the flush loop has a next one. The proofs cover all sizes.
* `rx_path`: one TID, window 4, numbers 10..13 over a wrap at 12: enough for a hole, a frame
  behind it, a flush and a later frame at once.
* `link`: MaxCmds 2 lets any command follow any other and both race with frames. The proofs
  cover any number.
* `handshake`: two associations (keys and frames of the first are late in the second), three
  frames of the access point and two SNonces (a repeated message 1 while message 3 is under
  way), packet numbers of two binary digits (a carry and the last number), three data frames.
  The proofs cover all of them.
* `control`: the generation starts at 63 of 64, so it wraps to 0, which is skipped, in the first
  scan; MaxAge 1 in place of 3 saves two scans, and the comparison is the same; four commands are
  enough for a network to vanish, age and go; the buffer sizes of GetBSSList lie below, at and
  above one and two entries. A beacon has one SSID element.
* `device`: four addresses are what a life cycle uses at once; a log of three places wraps with
  every second message; one image that inflates within four times its size and one that
  does not. `device_wifi_only` is the same with other message lengths.
* `txflow`: ring 6, thresholds 3 and 4 keep the order of 96 < 160, and two EAPOL frames are fewer
  than the threshold, as the handful an access point asks for is fewer than 96. StallEnds needs
  room for them above the second threshold (2 <= 6 - 4; 96 of 256 in the code): a ring that only
  EAPOL frames fill would never be resumed. The proofs cover all sizes.
* `workqueue`: two works distinguish "the work" from "another one"; the proofs cover any set.
* Deadlock checking is off where the system may stop for good: `link`, `handshake` and `control`
  (an idle station, or the bound on commands), `device` (freed), `workqueue` (destroyed or
  torn) and `completion` (a violation run about blocking).

## 5. Fairness

Threads that have work go on: a thread call, work loop or kernel thread is not starved
(weak fairness, in `Link` and `RxPath` written out per thread as "idle infinitely often or
stepping infinitely often"). A set deadline passes. The one-second timer fires again and
again, on a work loop that nothing else keeps; disable() returns; the chip transmits what is
in its ring. No fairness is assumed of the access point, the firmware's scan report, user
commands, or frames. HoleIsFlushed assumes that the receive thread eventually stops
pushing the deadline back, since every buffered frame re-arms the same timer;
AttemptsEnd that the access point eventually stops repeating message 1, which
re-arms the handshake timer. A timer of the work queue shim fires unless it is set anew for
ever: queue_delayed_work pushes an armed one back, so the fairness is of "the timer starts, or the
work is delayed again", and DelayedRuns speaks of works that are not delayed again and again. Authentication retries without limit in the code, so
nothing is claimed about its end.

## 6. Proofs

Theorems hold for every value of the constants that satisfies the named assumptions.

* `RxReorderProofs`: the invariant RInv - per TID, the buffer is well formed relative to the
  real head, the head is at most one window behind the access point, one slot is free,
  everything released is below the head, and every buffered frame has been sent. WindowInv
  alone is not inductive: that a 12-bit difference below one half is the real one needs
  HeadTracksPeer, and that out[] never stops a loop early needs StoredExact. From RInv follow
  ReorderType, ReorderWindow, ReorderHead, ReorderStored and the action properties
  ReorderInOrder and ReorderSkips (InputMoves gives the head after rxReorderInput: the
  expired end of the window, then as far as the run of stored frames goes). Assumptions (`ReorderAssumption`): the slots divide the sequence space,
  and window plus jump stay below half of it - 64 and 4096 in the code.
* `RxPathProofs`: PathImplementsReorder (each step of a thread is a step of RxReorder or leaves
  it alone, for any number of TIDs), hence PathWindow; PathTimer (HoleHasTimer) by an
  invariant on the program counters and the timer; PathTypes. DeliveredOnce is not inductive:
  a frame could be late in a thread's out[] and be taken out of a slot again. OnceInv adds
  what forbids it: what left the buffer lies behind the front of its TID (the head, or where
  there is no agreement the next new frame of the access point), nothing comes back in front of it,
  and the two queues, the stack and the flush in progress share no frame. OutSeqOK says that
  the queue a locked section hands to its thread has each released frame once, lowest first.
  PathDeliversOnce follows.
* `LinkProofs`: LInv. LinkMatchesState and WaitingHasTimer speak of `_state` as it is now, but a
  thread writes it from what it read before; so the invariant says for each place of each thread
  which value of `_state` it acts on there (Fits), and that nothing connects while a scan is
  being started (ScanPlace). Every other write then counts in `raced`. That message 3 is handled
  under installed keys unless a teardown is on its way or has passed over it (M3Installed) gives
  ConnectedHasKeys without `raced`. LinkTypes, LinkTold, LinkKeyed and LinkTimed follow, for any
  number of commands.
* `HandshakeProofs`: HInv. AirInv says that a message 3 whose MIC the current PTK passes is the
  access point's answer in this association, because the SNonce in the PTK was drawn last;
  M3Inv that the copy message 3 installs is that PTK, from the MIC to the last step, unless a
  teardown crossed it; TdInv what each step of a teardown leaves behind; KeyInv that a key which served has an older nonce; SendInv what the output thread relies on
  while no teardown met it: its frame belongs to the link that is up, and its number is above
  the last. From it HandshakeTypes, HandshakeAgrees, HandshakeProtects, and
  HandshakeKeepsPromise: the initial state and each step map to AuthLink's or to a stutter.
  BaInv (the agreement the station remembers is the one made, and the next sequence number is
  not below its start) gives HandshakeAggregates. HandshakeBuffers: Filled says
  how many bytes of a buffer are in and how many are to come, each skb_put moves from one to
  the other (PutFills), and none is to come when the descriptor is pushed (PushExact). The lemmas on `PacketNumber` are
  here as well: PnGrows, the increment with carry is the next number in the receiver's order,
  from the lowest digit that is not full (found by well-founded induction on the numbers);
  that order is irreflexive and transitive.
* `TxFlowProofs`: TInv (types, HeldIsKnown, RoomInv) is inductive for any ring and thresholds
  with StallAvail <= ResumeAvail <= Ring and fewer EAPOL frames than StallAvail; RoomInv adds
  to Headroom how far the queue's own frames go, the one between look and ring included. FlowTypes, FlowHeldIsKnown and FlowHeadroom follow.
* `WorkQueueProofs`: QInv for any set of works: QTypeOK, LinkedOnce and what destroy_workqueue
  waits for; the list is a sequence without repetition, Append and Tail by cases on the index.
  QueueTypes, QueueLinkedOnce and QueueDestroyDrains follow.
* `DeviceProofs`: DmaInv (the two lists of bounce buffers and what is between them are disjoint,
  injective and exactly what is allocated), HoldInv (whose the entries in between are, and that
  this thread has not gone on) and LifeInv (in each phase of start and
  teardown, which globals are set and which callbacks can still run): DeviceNoStaleActivation
  and DeviceBouncesReturned, for any set of addresses and firmware. LogInv relates the ring
  to what was printed: PutKeeps says what one character does to the readable part, which is a
  suffix of the old one with the new character (NewestAppend), AppendKeeps what a whole
  message does, by induction on its characters, ReadKeeps what a read takes away. DeviceLog
  and DeviceTypes follow, for any size of the ring. `LogAssumption`: there is a highest level.
* `ControlProofs`: ControlInv (CTypeOK, a connection has a target, and a record being parsed is at
  most MaxLag scans old) gives ControlTypes. TableIsCurrent says nothing of the generations
  stored in the table, on which ageing depends; TableInv adds for each entry that by its
  generation it is no older than it is, and that where it seems younger the generation wrapped
  since (EntryInv). EnterOK and SublistOK say what entering a beacon and dropping entries do to a
  table; ControlTable and the action property ControlOldGo follow. TuneInv (once tuned, the
  width is the target's, whatever stood there between the writes), WidthInv (a request and a
  station made since are made for it) and ChosenAgreed (what setConnectedChandef chooses is
  Agreed) give ControlWidth. ControlList: BssShaped says which fields any beacon's record has, by induction on
  its elements; RowOfWire that the two bytes of the signal are put together again with their
  sign; PutAll that the reply is a sequence of whole entries that fits, and that the next one
  would not fit, by induction on the table; TakeAll that cmd_list reads such a reply to its end.
  Assumptions: MaxCmds scans and MaxAge more stay below the modulus of the generation (2^32 in
  the code), a beacon is parsed within MaxAge scans, 40 MHz is a capability of a band with HT
  (`ControlAssumption`); signals are 16-bit, lengths and channels bytes (`BeaconAssumption`).

Loops over data are recursive functions. That such a function exists and what it returns after
n rounds needs induction over n; the lemma Induction of `ControlProofs` and `DeviceProofs` derives
it for sets of numbers from the well-foundedness of <, so that each use names its own set.

Only model-checked: the liveness properties (HoleIsFlushed, AttemptsEnd, QueuedRuns,
DelayedRuns, StallEnds), since the provers have no rule for fairness and ENABLED. Every
invariant and action property of the passing runs has its theorem.

## 7. Not modelled

* The rtw88 driver, the chip, IOKit and the access point: external, present as
  nondeterministic steps.
* SHA-1, HMAC, PBKDF2 and AES: symbolic. The layout of frames, logging and wording.
* Splitting an A-MSDU and decapsulation: pure functions of one frame without state.
* The USB device: the Makefile leaves it out of the build (line 183). RTW88Kext.cpp, which
  registers a service without state of its own.
* The debug dump of the user client, rtw88ctl's status display and its polling loops: they read.
* Several user clients at once: two rtw88ctl processes would share `_state`; the models have one.
* The wait in free() for a manual scan that still runs: the code has none; `Device` has no scan.
* The header-only parts of the Linux API in `src/src/compat` that compute nothing for the
  station (bit macros, lists, printing), and the mbuf conversions mbufToSkb and skbToMbuf,
  which nothing calls.
