-------------------------------- MODULE Link --------------------------------
(***************************************************************************)
(* The connection state machine of RTW88IEEE80211: _state, its timer, the  *)
(* scan, and what each of the threads that write _state does to it without *)
(* a lock:                                                                 *)
(*   usr  a user client (cmdScan, cmdConnect, cmdDisconnect, cmdPowerOff)  *)
(*   rx   the receive thread (processRxMgmt, handleEAPOL)                  *)
(*   tc   _connectTC, which runs doAuthenticate                            *)
(*   wl   the work loop that runs onTimer                                  *)
(*   ms   _manualScanTC, which runs runManualScan                          *)
(* A handler that reads _state and writes it later, after a transmission,  *)
(* a sleep or a call into the driver, takes several steps.                 *)
(***************************************************************************)
EXTENDS Integers, FiniteSets

CONSTANT MaxCmds    \* bound: commands a user client gives

ASSUME MaxCmdsAssumption == MaxCmds \in Nat

Threads == {"usr", "rx", "tc", "wl", "ms"}
\* RTW88_STATE_DISCONNECTING is declared, and never set.
States  == {"IDLE", "SCANNING", "AUTHENTICATING", "ASSOCIATING", "HANDSHAKING", "CONNECTED"}
Active  == States \ {"IDLE", "SCANNING"}

VARIABLES
    state,      \* _state (_scanReturnState is IDLE throughout: cmdScan wants IDLE)
    timer,      \* _timer: "off", "set", or "due" (its deadline passed)
    wpa2,       \* _wpa2, of the BSS in _targetBSS
    sta,        \* _sta is not null
    keys,       \* "none", "ptk" (_ptk derived), or "installed" (_ptkConf set)
    link,       \* the link status last given to the interface is active
    manual,     \* _manualScanChannelCount # 0
    abort,      \* _manualScanAbort
    hwscan,     \* the firmware has a scan to report on (external)
    air,        \* answers the AP may send from now on, late or repeated (external)
    pend,       \* thread calls entered and not yet started
    cmds,       \* commands given so far
    pc, goal,   \* where each thread is; what the user client wants
    saw,        \* history: the value of _state a thread acts on
    raced,      \* history: a thread acted on a _state that had changed since
    over        \* history: message 3 wrote CONNECTED over another _state

lvars == <<state, timer, wpa2, sta, keys, link, manual, abort, hwscan, air, pend, cmds,
           pc, goal, saw, raced, over>>
scanvars == <<manual, abort, hwscan>>
connvars == <<wpa2, sta, keys>>

LInit ==
    /\ state = "IDLE" /\ timer = "off" /\ wpa2 = FALSE /\ sta = FALSE /\ keys = "none"
    /\ link = FALSE /\ manual = FALSE /\ abort = FALSE /\ hwscan = FALSE
    /\ air = {} /\ pend = {} /\ cmds = 0
    /\ pc = [t \in Threads |-> "idle"] /\ goal = "none"
    /\ saw = [t \in Threads |-> "IDLE"] /\ raced = FALSE /\ over = FALSE

\* Thread t goes on to l, acting on _state as it saw it; idle, on nothing.
Acting(t, l, s) ==
    /\ pc' = [pc EXCEPT ![t] = l]
    /\ saw' = [saw EXCEPT ![t] = IF l = "idle" THEN "IDLE" ELSE s]
Goto(t, l) == Acting(t, l, saw[t])

\* A user client gives its next command.
Command ==
    /\ pc["usr"] = "idle" /\ cmds < MaxCmds
    /\ cmds' = cmds + 1

\* Thread t read _state just now and goes on to l.
Check(t, l) == Acting(t, l, state) /\ UNCHANGED raced

\* Thread t writes _state, having read it a while ago.
SetState(t, s) == state' = s /\ raced' = (raced \/ state # saw[t])

-----------------------------------------------------------------------------
(* cmdScan and the scans.                                                  *)

CmdScan ==
    /\ Command /\ state = "IDLE"
    /\ state' = "SCANNING"
    /\ goal' = "scan"
    /\ Goto("usr", "scan")
    /\ UNCHANGED <<timer, connvars, link, scanvars, air, pend, raced, over>>

\* The firmware takes the scan, or runManualScan is queued in its place.
CmdScanStart ==
    /\ pc["usr"] = "scan"
    /\ \/ hwscan' = TRUE /\ UNCHANGED <<manual, abort, pend>>
       \/ manual' = TRUE /\ abort' = FALSE /\ pend' = pend \cup {"ms"} /\ UNCHANGED hwscan
    /\ timer' = "set"
    /\ Goto("usr", "idle")
    /\ UNCHANGED <<state, connvars, link, air, cmds, goal, raced, over>>

\* No enabled channel, or no thread call to fall back on.
CmdScanFail ==
    /\ pc["usr"] = "scan"
    /\ state' = "IDLE"
    /\ Goto("usr", "idle")
    /\ UNCHANGED <<timer, connvars, link, scanvars, air, pend, cmds, goal, raced, over>>

\* scanDone: whoever set SCANNING, it goes back to IDLE.
ScanDone == state' = IF state = "SCANNING" THEN "IDLE" ELSE state

HwScanDone ==
    /\ hwscan
    /\ hwscan' = FALSE
    /\ ScanDone
    /\ UNCHANGED <<timer, connvars, link, manual, abort, air, pend, cmds, pc, goal, saw,
                   raced, over>>

MsStart ==
    /\ "ms" \in pend /\ pc["ms"] = "idle"
    /\ pend' = pend \ {"ms"}
    /\ Goto("ms", "loop")
    /\ UNCHANGED <<state, timer, connvars, link, scanvars, air, cmds, goal, raced, over>>

\* The channel loop ends, by itself or on _manualScanAbort: scanDone ...
MsFinish ==
    /\ pc["ms"] = "loop"
    /\ ScanDone
    /\ Goto("ms", "tail")
    /\ UNCHANGED <<timer, connvars, link, scanvars, air, pend, cmds, goal, raced, over>>

\* ... and the two flags, whatever a new cmdScan has put there by now.
MsTail ==
    /\ pc["ms"] = "tail"
    /\ abort' = FALSE /\ manual' = FALSE
    /\ raced' = (raced \/ state = "SCANNING")
    /\ Goto("ms", "idle")
    /\ UNCHANGED <<state, timer, connvars, link, hwscan, air, pend, cmds, goal, over>>

-----------------------------------------------------------------------------
(* doDisconnect, from cmdDisconnect, cmdPowerOff or onTimer.               *)

\* clearKeys, and the deauthentication frame.
ClearKeys(t) ==
    /\ pc[t] = "clear"
    /\ keys' = "none"
    /\ Goto(t, "release")
    /\ UNCHANGED <<state, timer, wpa2, sta, link, scanvars, air, pend, cmds, goal, raced, over>>

ReleaseSta(t) ==
    /\ pc[t] = "release"
    /\ sta' = FALSE
    /\ Goto(t, "down")
    /\ UNCHANGED <<state, timer, wpa2, keys, link, scanvars, air, pend, cmds, goal, raced,
                   over>>

\* Mutant: the state is left at DISCONNECTING.
DownStaysDisconnecting(t) ==
    /\ pc[t] = "down"
    /\ SetState(t, "DISCONNECTING")
    /\ Acting(t, "cancel", "IDLE")
    /\ UNCHANGED <<timer, connvars, link, scanvars, air, pend, cmds, goal, over>>

Down(t) ==
    /\ pc[t] = "down"
    /\ SetState(t, "IDLE")
    /\ Acting(t, "cancel", "IDLE")
    /\ UNCHANGED <<timer, connvars, link, scanvars, air, pend, cmds, goal, over>>

\* cancelTimeout and setLinkStatus.
Cancel(t) ==
    /\ pc[t] = "cancel"
    /\ timer' = "off" /\ link' = FALSE
    /\ raced' = (raced \/ state # saw[t])
    /\ Goto(t, IF t = "usr" /\ goal = "poweroff" THEN "off" ELSE "idle")
    /\ UNCHANGED <<state, connvars, scanvars, air, pend, cmds, goal, over>>

CmdDisconnect ==
    /\ Command /\ state # "IDLE"
    /\ goal' = "disconnect"
    /\ Check("usr", "clear")
    /\ UNCHANGED <<state, timer, connvars, link, scanvars, air, pend, over>>

-----------------------------------------------------------------------------
(* cmdConnect and cmdPowerOff; both first stop a scan (abortActiveScan).   *)

CmdStart(g) ==
    /\ Command
    /\ goal' = g
    /\ IF state = "SCANNING"
       THEN Goto("usr", "abort") /\ abort' = (abort \/ manual)
       ELSE Goto("usr", g) /\ UNCHANGED abort
    /\ UNCHANGED <<state, timer, connvars, link, manual, hwscan, air, pend, raced, over>>

\* The scan stopped within the two seconds ...
AbortDone ==
    /\ pc["usr"] = "abort" /\ state # "SCANNING"
    /\ Goto("usr", goal)
    /\ UNCHANGED <<state, timer, connvars, link, scanvars, air, pend, cmds, goal, raced, over>>

\* ... or it did not: a manual scan makes cmdConnect fail, a firmware scan
\* is forgotten.
AbortTimeout ==
    /\ pc["usr"] = "abort" /\ state = "SCANNING"
    /\ IF manual
       THEN UNCHANGED state /\ Goto("usr", IF goal = "connect" THEN "idle" ELSE goal)
       ELSE state' = "IDLE" /\ Goto("usr", goal)
    /\ UNCHANGED <<timer, connvars, link, scanvars, air, pend, cmds, goal, raced, over>>

\* The rest of cmdConnect: busy, unknown SSID, or on to doAuthenticate.
Connect ==
    /\ pc["usr"] = "connect"
    /\ Goto("usr", "idle")
    /\ \/ state # "IDLE" /\ UNCHANGED <<state, connvars, pend>>
       \/ /\ state = "IDLE"
          /\ keys' = "none" /\ sta' = FALSE
          /\ \/ UNCHANGED <<state, wpa2, pend>>
             \/ /\ state' = "AUTHENTICATING"
                /\ wpa2' \in BOOLEAN
                /\ pend' = pend \cup {"tc"}
    /\ UNCHANGED <<timer, link, scanvars, air, cmds, goal, raced, over>>

PowerOff ==
    /\ pc["usr"] = "poweroff"
    /\ \/ state \in Active /\ Check("usr", "clear") /\ UNCHANGED <<keys, sta>>
       \/ state \notin Active /\ Check("usr", "off") /\ keys' = "none" /\ sta' = FALSE
    /\ UNCHANGED <<state, timer, wpa2, link, scanvars, air, pend, cmds, goal, over>>

PowerOffEnd ==
    /\ pc["usr"] = "off"
    /\ SetState("usr", "IDLE")
    /\ link' = FALSE
    /\ Goto("usr", "idle")
    /\ UNCHANGED <<timer, connvars, scanvars, air, pend, cmds, goal, over>>

-----------------------------------------------------------------------------
(* doAuthenticate, on _connectTC or on the timer's work loop.              *)

TcStart ==
    /\ "tc" \in pend /\ pc["tc"] = "idle"
    /\ pend' = pend \ {"tc"}
    /\ Acting("tc", "settle", "AUTHENTICATING")
    /\ UNCHANGED <<state, timer, connvars, link, scanvars, air, cmds, goal, raced, over>>

\* Wait for the scan flag, sleep half a second, set the channel, transmit ...
AuthTx(t) ==
    /\ pc[t] = "settle"
    /\ air' = air \cup {"auth"}
    /\ Goto(t, "authset")
    /\ UNCHANGED <<state, timer, connvars, link, scanvars, pend, cmds, goal, raced, over>>

\* Mutant: the auth timeout is not armed.
AuthSetNoTimer(t) ==
    /\ pc[t] = "authset"
    /\ SetState(t, "AUTHENTICATING")
    /\ Goto(t, "idle")
    /\ UNCHANGED <<timer, connvars, link, scanvars, air, pend, cmds, goal, over>>

\* ... and only then _state, whatever it is by now, and the timer.
AuthSet(t) ==
    /\ pc[t] = "authset"
    /\ SetState(t, "AUTHENTICATING")
    /\ timer' = "set"
    /\ Goto(t, "idle")
    /\ UNCHANGED <<connvars, link, scanvars, air, pend, cmds, goal, over>>

-----------------------------------------------------------------------------
(* The receive thread.                                                     *)

RxAuth ==
    /\ pc["rx"] = "idle" /\ state = "AUTHENTICATING"
    /\ "auth" \in air
    /\ Check("rx", "assoctx")
    /\ UNCHANGED <<state, timer, connvars, link, scanvars, air, pend, cmds, goal, over>>

RxAuthRefused ==
    /\ pc["rx"] = "idle" /\ state = "AUTHENTICATING"
    /\ "auth" \in air
    /\ state' = "IDLE"
    /\ UNCHANGED <<timer, connvars, link, scanvars, air, pend, cmds, pc, goal, saw, raced,
                   over>>

\* doAssociate
RxAssocTx ==
    /\ pc["rx"] = "assoctx"
    /\ air' = air \cup {"assoc"}
    /\ SetState("rx", "ASSOCIATING")
    /\ timer' = "set"
    /\ Goto("rx", "idle")
    /\ UNCHANGED <<connvars, link, scanvars, pend, cmds, goal, over>>

RxAssoc ==
    /\ pc["rx"] = "idle" /\ state = "ASSOCIATING"
    /\ "assoc" \in air
    /\ Check("rx", "assocd")
    /\ UNCHANGED <<state, timer, connvars, link, scanvars, air, pend, cmds, goal, over>>

RxAssocRefused ==
    /\ pc["rx"] = "idle" /\ state = "ASSOCIATING"
    /\ "assoc" \in air
    /\ state' = "IDLE"
    /\ UNCHANGED <<timer, connvars, link, scanvars, air, pend, cmds, pc, goal, saw, raced,
                   over>>

\* The rest of processAssocResponse; _sta may fail to be allocated.  _state
\* comes first; derivePMK or setLinkStatus, and the timer, after it.
RxAssocd ==
    /\ pc["rx"] = "assocd"
    /\ sta' \in {TRUE, sta}
    /\ \/ wpa2 /\ SetState("rx", "HANDSHAKING") /\ Acting("rx", "pmk", "HANDSHAKING")
       \/ ~wpa2 /\ SetState("rx", "CONNECTED") /\ Acting("rx", "up", "CONNECTED")
    /\ UNCHANGED <<timer, wpa2, keys, link, scanvars, air, pend, cmds, goal, over>>

RxPmk ==
    /\ pc["rx"] = "pmk"
    /\ timer' = "set"
    /\ Goto("rx", "idle")
    /\ UNCHANGED <<state, connvars, link, scanvars, air, pend, cmds, goal, raced, over>>

\* Once CONNECTED: cancelTimeout and setLinkStatus.
RxUp ==
    /\ pc["rx"] = "up"
    /\ timer' = "off" /\ link' = TRUE
    /\ raced' = (raced \/ state # saw["rx"])
    /\ Goto("rx", "idle")
    /\ UNCHANGED <<state, connvars, scanvars, air, pend, cmds, goal, over>>

\* handleEAPOL, message 1: derive the PTK, answer, and five more seconds.
RxM1 ==
    /\ pc["rx"] = "idle" /\ state = "HANDSHAKING"
    /\ timer' = "set"
    /\ keys' = IF keys = "installed" THEN keys ELSE "ptk"
    /\ UNCHANGED <<state, wpa2, sta, link, scanvars, air, pend, cmds, pc, goal, saw, raced,
                   over>>

\* Mutant: a key that could not be installed is taken for installed.
RxM3IgnoresFailure ==
    /\ pc["rx"] = "idle" /\ state = "HANDSHAKING" /\ keys # "none"
    /\ keys' \in {"ptk", "installed"} /\ Check("rx", "m3")
    /\ UNCHANGED <<state, timer, wpa2, sta, link, scanvars, air, pend, cmds, goal, over>>

\* Message 3, whose MIC only the PTK can pass: install the keys.  If one
\* fails, handleEAPOL returns here.
RxM3 ==
    /\ pc["rx"] = "idle" /\ state = "HANDSHAKING" /\ keys # "none"
    /\ \/ keys' = "installed" /\ Check("rx", "m3")
       \/ keys' \in {"ptk", "installed"} /\ UNCHANGED <<pc, saw, raced>>
    /\ UNCHANGED <<state, timer, wpa2, sta, link, scanvars, air, pend, cmds, goal, over>>

RxM3Done ==
    /\ pc["rx"] = "m3"
    /\ SetState("rx", "CONNECTED")
    /\ over' = (state # saw["rx"])
    /\ Acting("rx", "up", "CONNECTED")
    /\ UNCHANGED <<timer, connvars, link, scanvars, air, pend, cmds, goal>>

\* Deauthentication or disassociation by the AP ...
RxDeauth ==
    /\ pc["rx"] = "idle" /\ state \in {"HANDSHAKING", "CONNECTED"}
    /\ Check("rx", "deauth")
    /\ UNCHANGED <<state, timer, connvars, link, scanvars, air, pend, cmds, goal, over>>

\* ... clears the keys (and the BlockAck agreements) ...
RxDeauthClear ==
    /\ pc["rx"] = "deauth"
    /\ keys' = "none"
    /\ Goto("rx", "deauthset")
    /\ UNCHANGED <<state, timer, wpa2, sta, link, scanvars, air, pend, cmds, goal, raced, over>>

\* ... then leaves the state, but neither _sta nor the timer ...
RxDeauthed ==
    /\ pc["rx"] = "deauthset"
    /\ SetState("rx", "IDLE")
    /\ Acting("rx", "deauthlink", "IDLE")
    /\ UNCHANGED <<timer, connvars, link, scanvars, air, pend, cmds, goal, over>>

\* Mutant: the link status is left active.
RxDeauthKeepsLink ==
    /\ pc["rx"] = "deauthlink"
    /\ Goto("rx", "idle")
    /\ UNCHANGED <<state, timer, connvars, link, scanvars, air, pend, cmds, goal, raced, over>>

\* ... and tells the interface.
RxDeauthLink ==
    /\ pc["rx"] = "deauthlink"
    /\ link' = FALSE
    /\ raced' = (raced \/ state # saw["rx"])
    /\ Goto("rx", "idle")
    /\ UNCHANGED <<state, timer, connvars, scanvars, air, pend, cmds, goal, over>>

-----------------------------------------------------------------------------
(* The timer.                                                              *)

TimerDue ==
    /\ timer = "set"
    /\ timer' = "due"
    /\ UNCHANGED <<state, connvars, link, scanvars, air, pend, cmds, pc, goal, saw, raced,
                   over>>

\* Mutant: a firmware scan that timed out is left to cancel_hw_scan.
OnTimerTrustsCancel ==
    /\ timer = "due" /\ pc["wl"] = "idle"
    /\ timer' = "off"
    /\ \/ /\ state = "SCANNING"
          /\ abort' = (abort \/ manual) /\ UNCHANGED <<state, pc, saw, raced>>
       \/ state = "ASSOCIATING" /\ state' = "IDLE" /\ UNCHANGED <<abort, pc, saw, raced>>
       \/ state = "AUTHENTICATING" /\ Check("wl", "settle") /\ UNCHANGED <<state, abort>>
       \/ state = "HANDSHAKING" /\ Check("wl", "clear") /\ UNCHANGED <<state, abort>>
       \/ state \in {"IDLE", "CONNECTED"} /\ UNCHANGED <<state, abort, pc, saw, raced>>
    /\ UNCHANGED <<connvars, link, manual, hwscan, air, pend, cmds, goal, over>>

\* onTimer
OnTimer ==
    /\ timer = "due" /\ pc["wl"] = "idle"
    /\ timer' = "off"
    /\ \/ /\ state = "SCANNING" /\ manual
          /\ abort' = TRUE /\ UNCHANGED <<state, pc, saw, raced>>
       \/ state = "SCANNING" /\ ~manual /\ Check("wl", "scanend") /\ UNCHANGED <<state, abort>>
       \/ state = "ASSOCIATING" /\ state' = "IDLE" /\ UNCHANGED <<abort, pc, saw, raced>>
       \/ state = "AUTHENTICATING" /\ Check("wl", "settle") /\ UNCHANGED <<state, abort>>
       \/ state = "HANDSHAKING" /\ Check("wl", "clear") /\ UNCHANGED <<state, abort>>
       \/ state \in {"IDLE", "CONNECTED"} /\ UNCHANGED <<state, abort, pc, saw, raced>>
    /\ UNCHANGED <<connvars, link, manual, hwscan, air, pend, cmds, goal, over>>

\* After cancel_hw_scan.
OnTimerScan ==
    /\ pc["wl"] = "scanend"
    /\ SetState("wl", "IDLE")
    /\ Goto("wl", "idle")
    /\ UNCHANGED <<timer, connvars, link, scanvars, air, pend, cmds, goal, over>>

-----------------------------------------------------------------------------
DoDisconnect(t) == ClearKeys(t) \/ ReleaseSta(t) \/ Down(t) \/ Cancel(t)
DoAuthenticate(t) == AuthTx(t) \/ AuthSet(t)

UsrWork == CmdScanStart \/ CmdScanFail \/ AbortDone \/ AbortTimeout \/ Connect
              \/ PowerOff \/ PowerOffEnd \/ DoDisconnect("usr")
TcWork == TcStart \/ DoAuthenticate("tc")
WlWork == OnTimer \/ OnTimerScan \/ DoAuthenticate("wl") \/ DoDisconnect("wl")
MsWork == MsStart \/ MsFinish \/ MsTail
RxWork == RxAssocTx \/ RxAssocd \/ RxPmk \/ RxUp \/ RxM3Done
              \/ RxDeauthClear \/ RxDeauthed \/ RxDeauthLink

LNext ==
    \/ CmdScan \/ CmdDisconnect \/ CmdStart("connect") \/ CmdStart("poweroff")
    \/ UsrWork \/ TcWork \/ WlWork \/ MsWork \/ RxWork
    \/ HwScanDone \/ TimerDue
    \/ RxAuth \/ RxAuthRefused \/ RxAssoc \/ RxAssocRefused
    \/ RxM1 \/ RxM3 \/ RxDeauth

TcIdle == pc["tc"] = "idle" /\ "tc" \notin pend
MsIdle == pc["ms"] = "idle" /\ "ms" \notin pend
WlIdle == pc["wl"] = "idle" /\ timer # "due"

\* A thread with work goes on (weak fairness, with the enabling conditions
\* written out), and a deadline passes.  Commands, the AP and the firmware owe
\* nothing.
LSpec ==
    /\ LInit /\ [][LNext]_lvars
    /\ []<>(pc["usr"] = "idle") \/ []<><<UsrWork>>_lvars
    /\ []<>(pc["rx"] = "idle")  \/ []<><<RxWork>>_lvars
    /\ []<>TcIdle \/ []<><<TcWork>>_lvars
    /\ []<>MsIdle \/ []<><<MsWork>>_lvars
    /\ []<>WlIdle \/ []<><<WlWork>>_lvars
    /\ WF_lvars(TimerDue)

-----------------------------------------------------------------------------
\* Where the threads may be.
Pcs == {"idle", "scan", "abort", "connect", "poweroff", "off", "clear", "release", "down",
        "cancel", "settle", "authset", "scanend", "assoctx", "assocd",
        "pmk", "up", "m3", "deauth", "deauthset", "deauthlink", "loop", "tail"}

\* The types of the variables.
LTypeOK ==
    /\ state \in States /\ timer \in {"off", "set", "due"}
    /\ {wpa2, sta, link, manual, abort, hwscan, raced, over} \subseteq BOOLEAN
    /\ keys \in {"none", "ptk", "installed"}
    /\ air \subseteq {"auth", "assoc"} /\ pend \subseteq {"tc", "ms"}
    /\ cmds \in 0 .. MaxCmds
    /\ pc \in [Threads -> Pcs] /\ saw \in [Threads -> States]
    /\ goal \in {"none", "scan", "connect", "poweroff", "disconnect"}

Dropping == \E t \in {"usr", "wl"} : pc[t] \in {"release", "down", "cancel", "off"}

\* A thread has cleared the keys and has still to leave the state.
Clearing == (\E t \in {"usr", "wl"} : pc[t] \in {"release", "down"}) \/ pc["rx"] = "deauthset"

\* Unless two threads raced on _state, the interface is told "active" exactly
\* while the station is connected: every path in and out of CONNECTED calls
\* setLinkStatus (processAssocResponse, handleEAPOL, doDisconnect, the
\* deauthentication case, cmdPowerOff).
LinkMatchesState ==
    ~raced => link = (state = "CONNECTED") \/ Dropping \/ pc["rx"] \in {"up", "deauthlink"}

\* A connected WPA2 link has its pairwise key, so txDataFrame protects what it
\* sends, whatever the threads do to each other; but for two cases.  A teardown
\* clears the keys before it leaves CONNECTED (doDisconnect, and the
\* deauthentication case), and message 3 may be finished over a link that was
\* torn down since its MIC was checked: handleEAPOL writes CONNECTED unasked.
ConnectedHasKeys ==
    state = "CONNECTED" /\ wpa2 => keys = "installed" \/ Clearing \/ over

\* Unless two threads raced on _state, a state that waits for the AP has its
\* timer, or a thread that will arm it: a lost answer cannot hang the station.
WaitingHasTimer ==
    ~raced /\ state \in {"AUTHENTICATING", "ASSOCIATING", "HANDSHAKING"} =>
        timer # "off" \/ "tc" \in pend \/ pc["tc"] # "idle" \/ pc["wl"] # "idle"
            \/ pc["rx"] = "pmk"

\* Without such a race, and when the AP stops repeating message 1, a scan, an
\* association and a handshake end, whatever the AP and the firmware do.
AttemptsEnd ==
    [](~raced) /\ <>[][~RxM1]_lvars =>
        \A s \in {"SCANNING", "ASSOCIATING", "HANDSHAKING"} : state = s ~> state # s

\* rtw88ctl prints "Disconnected" when cmdDisconnect returns
\* (src/ctl/main.c:254): the driver then does not go on connecting.
DisconnectSticks == goal = "disconnect" /\ pc["usr"] = "idle" => state \notin Active
=============================================================================
