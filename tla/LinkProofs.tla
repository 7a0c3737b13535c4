----------------------------- MODULE LinkProofs -----------------------------
(***************************************************************************)
(* The connection state machine, for any number of commands.  The threads  *)
(* write _state without a lock; what makes the properties inductive is     *)
(* where each thread may be and which value of _state it acts on there     *)
(* (Fits): a write over a value that has changed since counts as a race.   *)
(***************************************************************************)
EXTENDS Link, TLAPS

Flags == {wpa2, sta, link, manual, abort, hwscan, raced, over} \subseteq BOOLEAN

Values ==
    /\ state \in States /\ timer \in {"off", "set", "due"}
    /\ keys \in {"none", "ptk", "installed"}
    /\ air \subseteq {"auth", "assoc"} /\ pend \subseteq {"tc", "ms"}
    /\ goal \in {"none", "scan", "connect", "poweroff", "disconnect"}

\* Where thread t may be ...
Places(t) ==
    CASE t = "usr" -> {"idle", "scan", "abort", "connect", "poweroff", "off", "clear",
                       "release", "down", "cancel"}
      [] t = "rx" -> {"idle", "assoctx", "assocd", "pmk", "up", "m3", "deauth",
                      "deauthset", "deauthlink"}
      [] t = "tc" -> {"idle", "settle", "authset"}
      [] t = "wl" -> {"idle", "settle", "authset", "clear", "release", "down", "cancel",
                      "scanend"}
      [] t = "ms" -> {"idle", "loop", "tail"}

\* ... and the value s of _state it acts on at place l.
Fits(t, l, s) ==
    /\ l \in Places(t)
    /\ l \in {"cancel", "deauthlink"} => s = "IDLE"
    /\ l \in {"settle", "authset", "assoctx"} => s = "AUTHENTICATING"
    /\ l = "scanend" => s = "SCANNING"
    /\ l = "assocd" => s = "ASSOCIATING"
    /\ l = "m3" => s = "HANDSHAKING"
    /\ l = "up" => s = "CONNECTED"

Positions ==
    /\ pc \in [Threads -> Pcs] /\ saw \in [Threads -> States]
    /\ \A t \in Threads : Fits(t, pc[t], saw[t])
    /\ pc["usr"] = "abort" => goal \in {"connect", "poweroff"}

\* Message 3 is handled under installed keys, or a teardown is on its way.
M3Installed == pc["rx"] = "m3" /\ state = "HANDSHAKING" => keys = "installed" \/ Clearing

\* While a scan is being started, nothing connects.
ScanPlace == ~raced /\ pc["usr"] = "scan" => state \in {"SCANNING", "IDLE"}

Promise ==
    LinkMatchesState /\ ConnectedHasKeys /\ WaitingHasTimer /\ M3Installed /\ ScanPlace
LInv == Flags /\ Values /\ Positions /\ cmds \in 0 .. MaxCmds /\ Promise

\* Nothing runs at first.
LEMMA InitLInv == LInit => LInv
<1> SUFFICES ASSUME LInit PROVE LInv
  OBVIOUS
<1>1. Flags /\ Values /\ Promise
  BY DEF LInit, Flags, Values, Promise, LinkMatchesState, ConnectedHasKeys, WaitingHasTimer,
         M3Installed, ScanPlace, States, Threads
<1>2. Positions
  BY DEF LInit, Positions, Fits, Places, Threads, States, Pcs
<1>3. cmds \in 0 .. MaxCmds
  BY MaxCmdsAssumption DEF LInit
<1> QED
  BY <1>1, <1>2, <1>3 DEF LInv

\* The bound on the commands.
LEMMA StepCmds == cmds \in 0 .. MaxCmds /\ [LNext]_lvars => cmds' \in 0 .. MaxCmds
<1> SUFFICES ASSUME cmds \in 0 .. MaxCmds, [LNext]_lvars PROVE cmds' \in 0 .. MaxCmds
  OBVIOUS
<1>1. cmds' = cmds \/ (cmds < MaxCmds /\ cmds' = cmds + 1)
  BY DEF LNext, lvars, scanvars, connvars, UsrWork, TcWork, WlWork, MsWork, RxWork,
     DoDisconnect, DoAuthenticate, CmdScan, Command, CmdDisconnect, CmdStart, CmdScanStart,
     CmdScanFail, AbortDone, AbortTimeout, Connect, PowerOff, PowerOffEnd, ClearKeys,
     ReleaseSta, Down, Cancel, TcStart, AuthTx, AuthSet, OnTimer, OnTimerScan, MsStart,
     MsFinish, MsTail, HwScanDone, TimerDue, RxAuth, RxAuthRefused, RxAssocTx, RxAssoc,
     RxAssocRefused, RxAssocd, RxPmk, RxUp, RxM1, RxM3, RxM3Done, RxDeauth, RxDeauthClear,
     RxDeauthed, RxDeauthLink
<1> QED
  BY <1>1, MaxCmdsAssumption

\* A thread that moves to a place that fits what it acts on.
LEMMA Moves ==
    ASSUME Positions, NEW t \in Threads, NEW l, NEW s \in States, Acting(t, l, s), Fits(t, l, s),
           IF t = "usr" THEN l = "abort" => goal' \in {"connect", "poweroff"} ELSE goal' = goal
    PROVE  Positions'
<1>1. l \in Pcs
  BY DEF Fits, Places, Pcs, Threads
<1>2. pc' = [pc EXCEPT ![t] = l] /\ saw' \in [Threads -> States]
      /\ pc' \in [Threads -> Pcs]
  BY <1>1 DEF Acting, Positions, States
<1>3. ASSUME NEW x \in Threads PROVE Fits(x, pc'[x], saw'[x])
  <2>1. CASE x # t
    BY <1>3, <2>1 DEF Acting, Positions
  <2>2. CASE x = t
    <3>1. pc'[x] = l /\ saw'[x] = IF l = "idle" THEN "IDLE" ELSE s
      BY <1>2, <2>2 DEF Acting, Positions
    <3> QED
      BY <2>2, <3>1 DEF Fits
  <2> QED
    BY <2>1, <2>2
<1>4. pc'["usr"] = "abort" => goal' \in {"connect", "poweroff"}
  BY <1>2 DEF Positions, Threads
<1> QED
  BY <1>2, <1>3, <1>4 DEF Positions

\* The flags, action by action.
LEMMA StepFlags == Flags /\ [LNext]_lvars => Flags'
<1> SUFFICES ASSUME Flags, [LNext]_lvars PROVE Flags'
  OBVIOUS
<1> USE DEF Flags
<1>0. CASE UNCHANGED lvars
  BY <1>0 DEF lvars
<1>1. CASE CmdScan
  BY <1>1 DEF CmdScan, Command, Goto, Acting, scanvars, connvars
<1>2. CASE CmdDisconnect
  BY <1>2 DEF CmdDisconnect, Command, Check, Acting, scanvars, connvars
<1>3. ASSUME NEW g \in {"connect", "poweroff"}, CmdStart(g) PROVE Flags'
  BY <1>3 DEF CmdStart, Command, Goto, Acting, scanvars, connvars
<1>4. CASE CmdScanStart
  BY <1>4 DEF CmdScanStart, Goto, Acting, scanvars, connvars
<1>5. CASE CmdScanFail
  BY <1>5 DEF CmdScanFail, Goto, Acting, scanvars, connvars
<1>6. CASE AbortDone
  BY <1>6 DEF AbortDone, Goto, Acting, scanvars, connvars
<1>7. CASE AbortTimeout
  BY <1>7 DEF AbortTimeout, Goto, Acting, scanvars, connvars
<1>8. CASE Connect
  BY <1>8 DEF Connect, Goto, Acting, scanvars, connvars
<1>9. CASE PowerOff
  BY <1>9 DEF PowerOff, Check, Acting, scanvars, connvars
<1>10. CASE PowerOffEnd
  BY <1>10 DEF PowerOffEnd, SetState, Goto, Acting, scanvars, connvars
<1>11. ASSUME NEW t \in {"usr", "wl"}, ClearKeys(t) PROVE Flags'
  BY <1>11 DEF ClearKeys, Goto, Acting, scanvars, connvars
<1>12. ASSUME NEW t \in {"usr", "wl"}, ReleaseSta(t) PROVE Flags'
  BY <1>12 DEF ReleaseSta, Goto, Acting, scanvars, connvars
<1>13. ASSUME NEW t \in {"usr", "wl"}, Down(t) PROVE Flags'
  BY <1>13 DEF Down, SetState, Acting, scanvars, connvars
<1>14. ASSUME NEW t \in {"usr", "wl"}, Cancel(t) PROVE Flags'
  BY <1>14 DEF Cancel, Goto, Acting, scanvars, connvars
<1>15. CASE TcStart
  BY <1>15 DEF TcStart, Acting, scanvars, connvars
<1>16. ASSUME NEW t \in {"tc", "wl"}, AuthTx(t) PROVE Flags'
  BY <1>16 DEF AuthTx, Goto, Acting, scanvars, connvars
<1>17. ASSUME NEW t \in {"tc", "wl"}, AuthSet(t) PROVE Flags'
  BY <1>17 DEF AuthSet, SetState, Goto, Acting, scanvars, connvars
<1>18. CASE OnTimer
  BY <1>18 DEF OnTimer, Check, Acting, scanvars, connvars
<1>19. CASE OnTimerScan
  BY <1>19 DEF OnTimerScan, SetState, Goto, Acting, scanvars, connvars
<1>20. CASE MsStart
  BY <1>20 DEF MsStart, Goto, Acting, scanvars, connvars
<1>21. CASE MsFinish
  BY <1>21 DEF MsFinish, ScanDone, Goto, Acting, scanvars, connvars
<1>22. CASE MsTail
  BY <1>22 DEF MsTail, Goto, Acting, scanvars, connvars
<1>23. CASE HwScanDone
  BY <1>23 DEF HwScanDone, ScanDone, Acting, scanvars, connvars
<1>24. CASE TimerDue
  BY <1>24 DEF TimerDue, Acting, scanvars, connvars
<1>25. CASE RxAuth
  BY <1>25 DEF RxAuth, Check, Acting, scanvars, connvars
<1>26. CASE RxAuthRefused
  BY <1>26 DEF RxAuthRefused, Acting, scanvars, connvars
<1>27. CASE RxAssocTx
  BY <1>27 DEF RxAssocTx, SetState, Goto, Acting, scanvars, connvars
<1>28. CASE RxAssoc
  BY <1>28 DEF RxAssoc, Check, Acting, scanvars, connvars
<1>29. CASE RxAssocRefused
  BY <1>29 DEF RxAssocRefused, Acting, scanvars, connvars
<1>30. CASE RxAssocd
  BY <1>30 DEF RxAssocd, SetState, Acting, scanvars, connvars
<1>31. CASE RxPmk
  BY <1>31 DEF RxPmk, Goto, Acting, scanvars, connvars
<1>32. CASE RxUp
  BY <1>32 DEF RxUp, Goto, Acting, scanvars, connvars
<1>33. CASE RxM1
  BY <1>33 DEF RxM1, Acting, scanvars, connvars
<1>34. CASE RxM3
  BY <1>34 DEF RxM3, Check, Acting, scanvars, connvars
<1>35. CASE RxM3Done
  BY <1>35 DEF RxM3Done, SetState, Acting, scanvars, connvars
<1>36. CASE RxDeauth
  BY <1>36 DEF RxDeauth, Check, Acting, scanvars, connvars
<1>37. CASE RxDeauthed
  BY <1>37 DEF RxDeauthed, SetState, Acting, scanvars, connvars
<1>38. CASE RxDeauthClear
  BY <1>38 DEF RxDeauthClear, Goto, Acting, scanvars, connvars
<1>39. CASE RxDeauthLink
  BY <1>39 DEF RxDeauthLink, Goto, Acting, scanvars, connvars
<1> QED
  BY <1>0, <1>1, <1>2, <1>3, <1>4, <1>5, <1>6, <1>7, <1>8, <1>9, <1>10, <1>11, <1>12, <1>13,
     <1>14, <1>15, <1>16, <1>17, <1>18, <1>19, <1>20, <1>21, <1>22, <1>23, <1>24, <1>25, <1>26,
     <1>27, <1>28, <1>29, <1>30, <1>31, <1>32, <1>33, <1>34, <1>35, <1>36, <1>37, <1>38,
     <1>39 DEF LNext,
     UsrWork, TcWork, WlWork, MsWork, RxWork, DoDisconnect, DoAuthenticate

\* The other values, action by action.
LEMMA StepValues == Values /\ [LNext]_lvars => Values'
<1> SUFFICES ASSUME Values, [LNext]_lvars PROVE Values'
  OBVIOUS
<1> USE DEF Values, States
<1>0. CASE UNCHANGED lvars
  BY <1>0 DEF lvars
<1>1. CASE CmdScan
  BY <1>1 DEF CmdScan, Command, Goto, scanvars, connvars
<1>2. CASE CmdDisconnect
  BY <1>2 DEF CmdDisconnect, Command, Check, scanvars, connvars
<1>3. ASSUME NEW g \in {"connect", "poweroff"}, CmdStart(g) PROVE Values'
  BY <1>3 DEF CmdStart, Command, Goto, scanvars, connvars
<1>4. CASE CmdScanStart
  BY <1>4 DEF CmdScanStart, Goto, scanvars, connvars
<1>5. CASE CmdScanFail
  BY <1>5 DEF CmdScanFail, Goto, scanvars, connvars
<1>6. CASE AbortDone
  BY <1>6 DEF AbortDone, Goto, scanvars, connvars
<1>7. CASE AbortTimeout
  BY <1>7 DEF AbortTimeout, Goto, scanvars, connvars
<1>8. CASE Connect
  BY <1>8 DEF Connect, Goto, scanvars, connvars
<1>9. CASE PowerOff
  BY <1>9 DEF PowerOff, Check, scanvars, connvars
<1>10. CASE PowerOffEnd
  BY <1>10 DEF PowerOffEnd, SetState, Goto, scanvars, connvars
<1>11. ASSUME NEW t \in {"usr", "wl"}, ClearKeys(t) PROVE Values'
  BY <1>11 DEF ClearKeys, Goto, scanvars, connvars
<1>12. ASSUME NEW t \in {"usr", "wl"}, ReleaseSta(t) PROVE Values'
  BY <1>12 DEF ReleaseSta, Goto, scanvars, connvars
<1>13. ASSUME NEW t \in {"usr", "wl"}, Down(t) PROVE Values'
  BY <1>13 DEF Down, SetState, scanvars, connvars
<1>14. ASSUME NEW t \in {"usr", "wl"}, Cancel(t) PROVE Values'
  BY <1>14 DEF Cancel, Goto, scanvars, connvars
<1>15. CASE TcStart
  BY <1>15 DEF TcStart, scanvars, connvars
<1>16. ASSUME NEW t \in {"tc", "wl"}, AuthTx(t) PROVE Values'
  BY <1>16 DEF AuthTx, Goto, scanvars, connvars
<1>17. ASSUME NEW t \in {"tc", "wl"}, AuthSet(t) PROVE Values'
  BY <1>17 DEF AuthSet, SetState, Goto, scanvars, connvars
<1>18. CASE OnTimer
  BY <1>18 DEF OnTimer, Check, scanvars, connvars
<1>19. CASE OnTimerScan
  BY <1>19 DEF OnTimerScan, SetState, Goto, scanvars, connvars
<1>20. CASE MsStart
  BY <1>20 DEF MsStart, Goto, scanvars, connvars
<1>21. CASE MsFinish
  BY <1>21 DEF MsFinish, ScanDone, Goto, scanvars, connvars
<1>22. CASE MsTail
  BY <1>22 DEF MsTail, Goto, scanvars, connvars
<1>23. CASE HwScanDone
  BY <1>23 DEF HwScanDone, ScanDone, scanvars, connvars
<1>24. CASE TimerDue
  BY <1>24 DEF TimerDue, scanvars, connvars
<1>25. CASE RxAuth
  BY <1>25 DEF RxAuth, Check, scanvars, connvars
<1>26. CASE RxAuthRefused
  BY <1>26 DEF RxAuthRefused, scanvars, connvars
<1>27. CASE RxAssocTx
  BY <1>27 DEF RxAssocTx, SetState, Goto, scanvars, connvars
<1>28. CASE RxAssoc
  BY <1>28 DEF RxAssoc, Check, scanvars, connvars
<1>29. CASE RxAssocRefused
  BY <1>29 DEF RxAssocRefused, scanvars, connvars
<1>30. CASE RxAssocd
  BY <1>30 DEF RxAssocd, SetState, scanvars, connvars
<1>31. CASE RxPmk
  BY <1>31 DEF RxPmk, Goto, scanvars, connvars
<1>32. CASE RxUp
  BY <1>32 DEF RxUp, Goto, scanvars, connvars
<1>33. CASE RxM1
  BY <1>33 DEF RxM1, scanvars, connvars
<1>34. CASE RxM3
  BY <1>34 DEF RxM3, Check, scanvars, connvars
<1>35. CASE RxM3Done
  BY <1>35 DEF RxM3Done, SetState, scanvars, connvars
<1>36. CASE RxDeauth
  BY <1>36 DEF RxDeauth, Check, scanvars, connvars
<1>37. CASE RxDeauthed
  BY <1>37 DEF RxDeauthed, SetState, scanvars, connvars
<1>38. CASE RxDeauthClear
  BY <1>38 DEF RxDeauthClear, Goto, scanvars, connvars
<1>39. CASE RxDeauthLink
  BY <1>39 DEF RxDeauthLink, Goto, scanvars, connvars
<1> QED
  BY <1>0, <1>1, <1>2, <1>3, <1>4, <1>5, <1>6, <1>7, <1>8, <1>9, <1>10, <1>11, <1>12, <1>13,
     <1>14, <1>15, <1>16, <1>17, <1>18, <1>19, <1>20, <1>21, <1>22, <1>23, <1>24, <1>25, <1>26,
     <1>27, <1>28, <1>29, <1>30, <1>31, <1>32, <1>33, <1>34, <1>35, <1>36, <1>37, <1>38,
     <1>39 DEF LNext,
     UsrWork, TcWork, WlWork, MsWork, RxWork, DoDisconnect, DoAuthenticate

\* The places, action by action.
LEMMA StepPositions == Values /\ Positions /\ [LNext]_lvars => Positions'
<1> SUFFICES ASSUME Values /\ Positions, [LNext]_lvars PROVE Positions'
  OBVIOUS
<1> USE DEF Values
<1>0. CASE UNCHANGED lvars
  BY <1>0 DEF lvars, Positions
<1>1. CASE CmdScan
  <2>1. Acting("usr", "scan", saw["usr"]) /\ saw["usr"] \in States
    BY <1>1 DEF CmdScan, Command, Goto, Positions, Values, Threads
  <2>2. Fits("usr", "scan", saw["usr"])
    BY <1>1 DEF CmdScan, Command, Goto, Positions, Fits, Places, Threads
  <2> QED
    BY <2>1, <2>2, Moves DEF Threads
<1>2. CASE CmdDisconnect
  <2>1. Acting("usr", "clear", state) /\ state \in States
    BY <1>2 DEF CmdDisconnect, Command, Check, Positions, Values, Threads
  <2>2. Fits("usr", "clear", state)
    BY <1>2 DEF CmdDisconnect, Command, Check, Positions, Fits, Places, Threads
  <2> QED
    BY <2>1, <2>2, Moves DEF Threads
<1>3. ASSUME NEW g \in {"connect", "poweroff"}, CmdStart(g) PROVE Positions'
  <2>1. CASE state = "SCANNING"
    <3>1. Acting("usr", "abort", saw["usr"]) /\ saw["usr"] \in States /\ goal' \in {"connect", "poweroff"}
      BY <1>3, <2>1 DEF CmdStart, Command, Goto, Positions, Values, Threads
    <3>2. Fits("usr", "abort", saw["usr"])
      BY <1>3, <2>1 DEF CmdStart, Command, Goto, Positions, Fits, Places, Threads
    <3> QED
      BY <3>1, <3>2, Moves DEF Threads
  <2>2. CASE state # "SCANNING"
    <3>1. Acting("usr", g, saw["usr"]) /\ saw["usr"] \in States
      BY <1>3, <2>2 DEF CmdStart, Command, Goto, Positions, Values, Threads
    <3>2. Fits("usr", g, saw["usr"]) /\ g # "abort"
      BY <1>3, <2>2 DEF CmdStart, Command, Goto, Positions, Fits, Places, Threads
    <3> QED
      BY <3>1, <3>2, Moves DEF Threads
  <2> QED
    BY <1>3, <2>1, <2>2 DEF CmdStart, Command, Goto
<1>4. CASE CmdScanStart
  <2>1. Acting("usr", "idle", saw["usr"]) /\ saw["usr"] \in States
    BY <1>4 DEF CmdScanStart, Goto, Positions, Values, Threads
  <2>2. Fits("usr", "idle", saw["usr"])
    BY <1>4 DEF CmdScanStart, Goto, Positions, Fits, Places, Threads
  <2> QED
    BY <2>1, <2>2, Moves DEF Threads
<1>5. CASE CmdScanFail
  <2>1. Acting("usr", "idle", saw["usr"]) /\ saw["usr"] \in States
    BY <1>5 DEF CmdScanFail, Goto, Positions, Values, Threads
  <2>2. Fits("usr", "idle", saw["usr"])
    BY <1>5 DEF CmdScanFail, Goto, Positions, Fits, Places, Threads
  <2> QED
    BY <2>1, <2>2, Moves DEF Threads
<1>6. CASE AbortDone
  <2>1. Acting("usr", goal, saw["usr"]) /\ saw["usr"] \in States
    BY <1>6 DEF AbortDone, Goto, Positions, Values, Threads
  <2>2. Fits("usr", goal, saw["usr"]) /\ goal # "abort"
    BY <1>6 DEF AbortDone, Goto, Positions, Fits, Places, Threads
  <2> QED
    BY <2>1, <2>2, Moves DEF Threads
<1>7. CASE AbortTimeout
  <2>1. CASE manual /\ goal = "connect"
    <3>1. Acting("usr", "idle", saw["usr"]) /\ saw["usr"] \in States
      BY <1>7, <2>1 DEF AbortTimeout, Goto, Positions, Values, Threads
    <3>2. Fits("usr", "idle", saw["usr"])
      BY <1>7, <2>1 DEF AbortTimeout, Goto, Positions, Fits, Places, Threads
    <3> QED
      BY <3>1, <3>2, Moves DEF Threads
  <2>2. CASE ~(manual /\ goal = "connect")
    <3>1. Acting("usr", goal, saw["usr"]) /\ saw["usr"] \in States
      BY <1>7, <2>2 DEF AbortTimeout, Goto, Positions, Values, Threads
    <3>2. Fits("usr", goal, saw["usr"]) /\ goal # "abort"
      BY <1>7, <2>2 DEF AbortTimeout, Goto, Positions, Fits, Places, Threads
    <3> QED
      BY <3>1, <3>2, Moves DEF Threads
  <2> QED
    BY <1>7, <2>1, <2>2 DEF AbortTimeout, Goto
<1>8. CASE Connect
  <2>1. Acting("usr", "idle", saw["usr"]) /\ saw["usr"] \in States
    BY <1>8 DEF Connect, Goto, Positions, Values, Threads
  <2>2. Fits("usr", "idle", saw["usr"])
    BY <1>8 DEF Connect, Goto, Positions, Fits, Places, Threads
  <2> QED
    BY <2>1, <2>2, Moves DEF Threads
<1>9. CASE PowerOff
  <2>1. CASE state \in Active
    <3>1. Acting("usr", "clear", state) /\ state \in States
      BY <1>9, <2>1 DEF PowerOff, Check, Positions, Values, Threads
    <3>2. Fits("usr", "clear", state)
      BY <1>9, <2>1 DEF PowerOff, Check, Positions, Fits, Places, Threads
    <3> QED
      BY <3>1, <3>2, Moves DEF Threads
  <2>2. CASE state \notin Active
    <3>1. Acting("usr", "off", state) /\ state \in States
      BY <1>9, <2>2 DEF PowerOff, Check, Positions, Values, Threads
    <3>2. Fits("usr", "off", state)
      BY <1>9, <2>2 DEF PowerOff, Check, Positions, Fits, Places, Threads
    <3> QED
      BY <3>1, <3>2, Moves DEF Threads
  <2> QED
    BY <1>9, <2>1, <2>2 DEF PowerOff, Check
<1>10. CASE PowerOffEnd
  <2>1. Acting("usr", "idle", saw["usr"]) /\ saw["usr"] \in States
    BY <1>10 DEF PowerOffEnd, SetState, Goto, Positions, Values, Threads
  <2>2. Fits("usr", "idle", saw["usr"])
    BY <1>10 DEF PowerOffEnd, SetState, Goto, Positions, Fits, Places, Threads
  <2> QED
    BY <2>1, <2>2, Moves DEF Threads
<1>11. ASSUME NEW t \in {"usr", "wl"}, ClearKeys(t) PROVE Positions'
  <2>1. Acting(t, "release", saw[t]) /\ saw[t] \in States /\ (t # "usr" => goal' = goal)
    BY <1>11 DEF ClearKeys, Goto, Positions, Values, Threads
  <2>2. Fits(t, "release", saw[t])
    BY <1>11 DEF ClearKeys, Goto, Positions, Fits, Places, Threads
  <2> QED
    BY <2>1, <2>2, Moves DEF Threads
<1>12. ASSUME NEW t \in {"usr", "wl"}, ReleaseSta(t) PROVE Positions'
  <2>1. Acting(t, "down", saw[t]) /\ saw[t] \in States /\ (t # "usr" => goal' = goal)
    BY <1>12 DEF ReleaseSta, Goto, Positions, Values, Threads
  <2>2. Fits(t, "down", saw[t])
    BY <1>12 DEF ReleaseSta, Goto, Positions, Fits, Places, Threads
  <2> QED
    BY <2>1, <2>2, Moves DEF Threads
<1>13. ASSUME NEW t \in {"usr", "wl"}, Down(t) PROVE Positions'
  <2>1. Acting(t, "cancel", "IDLE") /\ "IDLE" \in States /\ (t # "usr" => goal' = goal)
    BY <1>13 DEF Down, SetState, Positions, Values, Threads, States
  <2>2. Fits(t, "cancel", "IDLE")
    BY <1>13 DEF Down, SetState, Positions, Fits, Places, Threads
  <2> QED
    BY <2>1, <2>2, Moves DEF Threads
<1>14. ASSUME NEW t \in {"usr", "wl"}, Cancel(t) PROVE Positions'
  <2>1. CASE t = "usr" /\ goal = "poweroff"
    <3>1. Acting(t, "off", saw[t]) /\ saw[t] \in States /\ (t # "usr" => goal' = goal)
      BY <1>14, <2>1 DEF Cancel, Goto, Positions, Values, Threads
    <3>2. Fits(t, "off", saw[t])
      BY <1>14, <2>1 DEF Cancel, Goto, Positions, Fits, Places, Threads
    <3> QED
      BY <3>1, <3>2, Moves DEF Threads
  <2>2. CASE ~(t = "usr" /\ goal = "poweroff")
    <3>1. Acting(t, "idle", saw[t]) /\ saw[t] \in States /\ (t # "usr" => goal' = goal)
      BY <1>14, <2>2 DEF Cancel, Goto, Positions, Values, Threads
    <3>2. Fits(t, "idle", saw[t])
      BY <1>14, <2>2 DEF Cancel, Goto, Positions, Fits, Places, Threads
    <3> QED
      BY <3>1, <3>2, Moves DEF Threads
  <2> QED
    BY <1>14, <2>1, <2>2 DEF Cancel, Goto
<1>15. CASE TcStart
  <2>1. Acting("tc", "settle", "AUTHENTICATING") /\ "AUTHENTICATING" \in States /\ goal' = goal
    BY <1>15 DEF TcStart, Positions, Values, Threads, States
  <2>2. Fits("tc", "settle", "AUTHENTICATING")
    BY <1>15 DEF TcStart, Positions, Fits, Places, Threads
  <2> QED
    BY <2>1, <2>2, Moves DEF Threads
<1>16. ASSUME NEW t \in {"tc", "wl"}, AuthTx(t) PROVE Positions'
  <2>1. Acting(t, "authset", saw[t]) /\ saw[t] \in States /\ (t # "usr" => goal' = goal)
    BY <1>16 DEF AuthTx, Goto, Positions, Values, Threads
  <2>2. Fits(t, "authset", saw[t])
    BY <1>16 DEF AuthTx, Goto, Positions, Fits, Places, Threads
  <2> QED
    BY <2>1, <2>2, Moves DEF Threads
<1>17. ASSUME NEW t \in {"tc", "wl"}, AuthSet(t) PROVE Positions'
  <2>1. Acting(t, "idle", saw[t]) /\ saw[t] \in States /\ (t # "usr" => goal' = goal)
    BY <1>17 DEF AuthSet, SetState, Goto, Positions, Values, Threads
  <2>2. Fits(t, "idle", saw[t])
    BY <1>17 DEF AuthSet, SetState, Goto, Positions, Fits, Places, Threads
  <2> QED
    BY <2>1, <2>2, Moves DEF Threads
<1>18. CASE OnTimer
  <2>1. CASE UNCHANGED <<pc, saw>>
    <3>1. goal' = goal
      BY <1>18 DEF OnTimer
    <3> QED
      BY <2>1, <3>1 DEF Positions
  <2>2. CASE state = "SCANNING" /\ ~manual
    <3>1. Acting("wl", "scanend", state) /\ Fits("wl", "scanend", state) /\ goal' = goal
      BY <1>18, <2>2 DEF OnTimer, Check, Fits, Places
    <3> QED
      BY <3>1, Moves DEF Threads
  <2>3. CASE state = "AUTHENTICATING"
    <3>1. Acting("wl", "settle", state) /\ Fits("wl", "settle", state) /\ goal' = goal
      BY <1>18, <2>3 DEF OnTimer, Check, Fits, Places
    <3> QED
      BY <3>1, Moves DEF Threads
  <2>4. CASE state = "HANDSHAKING"
    <3>1. Acting("wl", "clear", state) /\ Fits("wl", "clear", state) /\ goal' = goal
      BY <1>18, <2>4 DEF OnTimer, Check, Fits, Places
    <3> QED
      BY <3>1, Moves DEF Threads
  <2> QED
    BY <1>18, <2>1, <2>2, <2>3, <2>4 DEF OnTimer
<1>19. CASE OnTimerScan
  <2>1. Acting("wl", "idle", saw["wl"]) /\ saw["wl"] \in States /\ goal' = goal
    BY <1>19 DEF OnTimerScan, SetState, Goto, Positions, Values, Threads
  <2>2. Fits("wl", "idle", saw["wl"])
    BY <1>19 DEF OnTimerScan, SetState, Goto, Positions, Fits, Places, Threads
  <2> QED
    BY <2>1, <2>2, Moves DEF Threads
<1>20. CASE MsStart
  <2>1. Acting("ms", "loop", saw["ms"]) /\ saw["ms"] \in States /\ goal' = goal
    BY <1>20 DEF MsStart, Goto, Positions, Values, Threads
  <2>2. Fits("ms", "loop", saw["ms"])
    BY <1>20 DEF MsStart, Goto, Positions, Fits, Places, Threads
  <2> QED
    BY <2>1, <2>2, Moves DEF Threads
<1>21. CASE MsFinish
  <2>1. Acting("ms", "tail", saw["ms"]) /\ saw["ms"] \in States /\ goal' = goal
    BY <1>21 DEF MsFinish, ScanDone, Goto, Positions, Values, Threads
  <2>2. Fits("ms", "tail", saw["ms"])
    BY <1>21 DEF MsFinish, ScanDone, Goto, Positions, Fits, Places, Threads
  <2> QED
    BY <2>1, <2>2, Moves DEF Threads
<1>22. CASE MsTail
  <2>1. Acting("ms", "idle", saw["ms"]) /\ saw["ms"] \in States /\ goal' = goal
    BY <1>22 DEF MsTail, Goto, Positions, Values, Threads
  <2>2. Fits("ms", "idle", saw["ms"])
    BY <1>22 DEF MsTail, Goto, Positions, Fits, Places, Threads
  <2> QED
    BY <2>1, <2>2, Moves DEF Threads
<1>23. CASE HwScanDone
  <2>1. UNCHANGED <<pc, saw, goal>>
    BY <1>23 DEF HwScanDone, ScanDone
  <2> QED
    BY <2>1 DEF Positions
<1>24. CASE TimerDue
  <2>1. UNCHANGED <<pc, saw, goal>>
    BY <1>24 DEF TimerDue
  <2> QED
    BY <2>1 DEF Positions
<1>25. CASE RxAuth
  <2>1. Acting("rx", "assoctx", state) /\ state \in States /\ goal' = goal
    BY <1>25 DEF RxAuth, Check, Positions, Values, Threads
  <2>2. Fits("rx", "assoctx", state)
    BY <1>25 DEF RxAuth, Check, Positions, Fits, Places, Threads
  <2> QED
    BY <2>1, <2>2, Moves DEF Threads
<1>26. CASE RxAuthRefused
  <2>1. UNCHANGED <<pc, saw, goal>>
    BY <1>26 DEF RxAuthRefused
  <2> QED
    BY <2>1 DEF Positions
<1>27. CASE RxAssocTx
  <2>1. Acting("rx", "idle", saw["rx"]) /\ saw["rx"] \in States /\ goal' = goal
    BY <1>27 DEF RxAssocTx, SetState, Goto, Positions, Values, Threads
  <2>2. Fits("rx", "idle", saw["rx"])
    BY <1>27 DEF RxAssocTx, SetState, Goto, Positions, Fits, Places, Threads
  <2> QED
    BY <2>1, <2>2, Moves DEF Threads
<1>28. CASE RxAssoc
  <2>1. Acting("rx", "assocd", state) /\ state \in States /\ goal' = goal
    BY <1>28 DEF RxAssoc, Check, Positions, Values, Threads
  <2>2. Fits("rx", "assocd", state)
    BY <1>28 DEF RxAssoc, Check, Positions, Fits, Places, Threads
  <2> QED
    BY <2>1, <2>2, Moves DEF Threads
<1>29. CASE RxAssocRefused
  <2>1. UNCHANGED <<pc, saw, goal>>
    BY <1>29 DEF RxAssocRefused
  <2> QED
    BY <2>1 DEF Positions
<1>30. CASE RxAssocd
  <2>1. CASE wpa2
    <3>1. Acting("rx", "pmk", "HANDSHAKING") /\ "HANDSHAKING" \in States /\ goal' = goal
      BY <1>30, <2>1 DEF RxAssocd, SetState, Positions, Values, Threads, States
    <3>2. Fits("rx", "pmk", "HANDSHAKING")
      BY <1>30, <2>1 DEF RxAssocd, SetState, Positions, Fits, Places, Threads
    <3> QED
      BY <3>1, <3>2, Moves DEF Threads
  <2>2. CASE ~wpa2
    <3>1. Acting("rx", "up", "CONNECTED") /\ "CONNECTED" \in States /\ goal' = goal
      BY <1>30, <2>2 DEF RxAssocd, SetState, Positions, Values, Threads, States
    <3>2. Fits("rx", "up", "CONNECTED")
      BY <1>30, <2>2 DEF RxAssocd, SetState, Positions, Fits, Places, Threads
    <3> QED
      BY <3>1, <3>2, Moves DEF Threads
  <2> QED
    BY <1>30, <2>1, <2>2 DEF RxAssocd, SetState
<1>31. CASE RxPmk
  <2>1. Acting("rx", "idle", saw["rx"]) /\ saw["rx"] \in States /\ goal' = goal
    BY <1>31 DEF RxPmk, Goto, Positions, Values, Threads
  <2>2. Fits("rx", "idle", saw["rx"])
    BY <1>31 DEF RxPmk, Goto, Positions, Fits, Places, Threads
  <2> QED
    BY <2>1, <2>2, Moves DEF Threads
<1>32. CASE RxUp
  <2>1. Acting("rx", "idle", saw["rx"]) /\ saw["rx"] \in States /\ goal' = goal
    BY <1>32 DEF RxUp, Goto, Positions, Values, Threads
  <2>2. Fits("rx", "idle", saw["rx"])
    BY <1>32 DEF RxUp, Goto, Positions, Fits, Places, Threads
  <2> QED
    BY <2>1, <2>2, Moves DEF Threads
<1>33. CASE RxM1
  <2>1. UNCHANGED <<pc, saw, goal>>
    BY <1>33 DEF RxM1
  <2> QED
    BY <2>1 DEF Positions
<1>34. CASE RxM3
  <2>1. CASE UNCHANGED <<pc, saw>>
    <3>1. goal' = goal
      BY <1>34 DEF RxM3
    <3> QED
      BY <2>1, <3>1 DEF Positions
  <2>2. CASE Check("rx", "m3")
    <3>1. Acting("rx", "m3", state) /\ Fits("rx", "m3", state) /\ goal' = goal
      BY <1>34, <2>2 DEF RxM3, Check, Fits, Places
    <3> QED
      BY <3>1, Moves DEF Threads, States
  <2> QED
    BY <1>34, <2>1, <2>2 DEF RxM3
<1>35. CASE RxM3Done
  <2>1. Acting("rx", "up", "CONNECTED") /\ "CONNECTED" \in States /\ goal' = goal
    BY <1>35 DEF RxM3Done, SetState, Positions, Values, Threads, States
  <2>2. Fits("rx", "up", "CONNECTED")
    BY <1>35 DEF RxM3Done, SetState, Positions, Fits, Places, Threads
  <2> QED
    BY <2>1, <2>2, Moves DEF Threads
<1>36. CASE RxDeauth
  <2>1. Acting("rx", "deauth", state) /\ state \in States /\ goal' = goal
    BY <1>36 DEF RxDeauth, Check, Positions, Values, Threads
  <2>2. Fits("rx", "deauth", state)
    BY <1>36 DEF RxDeauth, Check, Positions, Fits, Places, Threads
  <2> QED
    BY <2>1, <2>2, Moves DEF Threads
<1>37. CASE RxDeauthed
  <2>1. Acting("rx", "deauthlink", "IDLE") /\ "IDLE" \in States /\ goal' = goal
    BY <1>37 DEF RxDeauthed, SetState, Positions, Values, Threads, States
  <2>2. Fits("rx", "deauthlink", "IDLE")
    BY <1>37 DEF RxDeauthed, SetState, Positions, Fits, Places, Threads
  <2> QED
    BY <2>1, <2>2, Moves DEF Threads
<1>38. CASE RxDeauthClear
  <2>1. Acting("rx", "deauthset", saw["rx"]) /\ saw["rx"] \in States /\ goal' = goal
    BY <1>38 DEF RxDeauthClear, Goto, Positions, Values, Threads
  <2>2. Fits("rx", "deauthset", saw["rx"])
    BY <1>38 DEF RxDeauthClear, Goto, Positions, Fits, Places, Threads
  <2> QED
    BY <2>1, <2>2, Moves DEF Threads
<1>39. CASE RxDeauthLink
  <2>1. Acting("rx", "idle", saw["rx"]) /\ saw["rx"] \in States /\ goal' = goal
    BY <1>39 DEF RxDeauthLink, Goto, Positions, Values, Threads
  <2>2. Fits("rx", "idle", saw["rx"])
    BY <1>39 DEF RxDeauthLink, Goto, Positions, Fits, Places, Threads
  <2> QED
    BY <2>1, <2>2, Moves DEF Threads
<1> QED
  BY <1>0, <1>1, <1>2, <1>3, <1>4, <1>5, <1>6, <1>7, <1>8, <1>9, <1>10, <1>11, <1>12, <1>13,
     <1>14, <1>15, <1>16, <1>17, <1>18, <1>19, <1>20, <1>21, <1>22, <1>23, <1>24, <1>25, <1>26,
     <1>27, <1>28, <1>29, <1>30, <1>31, <1>32, <1>33, <1>34, <1>35, <1>36, <1>37, <1>38,
     <1>39 DEF LNext,
     UsrWork, TcWork, WlWork, MsWork, RxWork, DoDisconnect, DoAuthenticate

\* The promises, action by action.
LEMMA StepPromise == LInv /\ [LNext]_lvars => Promise'
<1> SUFFICES ASSUME LInv, [LNext]_lvars PROVE Promise'
  OBVIOUS
<1> Flags /\ Values /\ Positions /\ Promise
  BY DEF LInv
<1> USE DEF Values, Positions, Fits, Places, States, Active, Threads
<1> USE DEF Promise, LinkMatchesState, ConnectedHasKeys, WaitingHasTimer, M3Installed,
            ScanPlace,
            Dropping, Clearing
<1>0. CASE UNCHANGED lvars
  BY <1>0 DEF lvars
<1>1. CASE CmdScan
  BY <1>1 DEF CmdScan, Command, Goto, Acting, scanvars, connvars
<1>2. CASE CmdDisconnect
  BY <1>2 DEF CmdDisconnect, Command, Check, Acting, scanvars, connvars
<1>3. ASSUME NEW g \in {"connect", "poweroff"}, CmdStart(g) PROVE Promise'
  BY <1>3 DEF CmdStart, Command, Goto, Acting, scanvars, connvars
<1>4. CASE CmdScanStart
  BY <1>4 DEF CmdScanStart, Goto, Acting, scanvars, connvars
<1>5. CASE CmdScanFail
  BY <1>5 DEF CmdScanFail, Goto, Acting, scanvars, connvars
<1>6. CASE AbortDone
  BY <1>6 DEF AbortDone, Goto, Acting, scanvars, connvars
<1>7. CASE AbortTimeout
  BY <1>7 DEF AbortTimeout, Goto, Acting, scanvars, connvars
<1>8. CASE Connect
  BY <1>8 DEF Connect, Goto, Acting, scanvars, connvars
<1>9. CASE PowerOff
  BY <1>9 DEF PowerOff, Check, Acting, scanvars, connvars
<1>10. CASE PowerOffEnd
  BY <1>10 DEF PowerOffEnd, SetState, Goto, Acting, scanvars, connvars
<1>11. ASSUME NEW t \in {"usr", "wl"}, ClearKeys(t) PROVE Promise'
  BY <1>11 DEF ClearKeys, Goto, Acting, scanvars, connvars
<1>12. ASSUME NEW t \in {"usr", "wl"}, ReleaseSta(t) PROVE Promise'
  BY <1>12 DEF ReleaseSta, Goto, Acting, scanvars, connvars
<1>13. ASSUME NEW t \in {"usr", "wl"}, Down(t) PROVE Promise'
  BY <1>13 DEF Down, SetState, Acting, scanvars, connvars
<1>14. ASSUME NEW t \in {"usr", "wl"}, Cancel(t) PROVE Promise'
  <2>1. /\ pc[t] = "cancel" /\ saw[t] = "IDLE" /\ timer' = "off" /\ link' = FALSE
        /\ raced' = (raced \/ state # "IDLE")
        /\ UNCHANGED <<state, keys, wpa2, pend, over>>
    BY <1>14 DEF Cancel, connvars
  <2>2. /\ pc' \in [Threads -> Pcs] /\ pc'[t] \in {"idle", "off"}
        /\ \A u \in Threads \ {t} : pc'[u] = pc[u]
    BY <1>14 DEF Cancel, Goto, Acting, Pcs
  <2>3. Clearing' <=> Clearing
    BY <2>1, <2>2
  <2>4. ConnectedHasKeys' /\ M3Installed'
    BY <2>1, <2>2, <2>3
  <2>5. LinkMatchesState' /\ WaitingHasTimer' /\ ScanPlace'
    BY <2>1, <2>2
  <2> QED
    BY <2>4, <2>5
<1>15. CASE TcStart
  BY <1>15 DEF TcStart, Acting, scanvars, connvars
<1>16. ASSUME NEW t \in {"tc", "wl"}, AuthTx(t) PROVE Promise'
  BY <1>16 DEF AuthTx, Goto, Acting, scanvars, connvars
<1>17. ASSUME NEW t \in {"tc", "wl"}, AuthSet(t) PROVE Promise'
  BY <1>17 DEF AuthSet, SetState, Goto, Acting, scanvars, connvars
<1>18. CASE OnTimer
  BY <1>18 DEF OnTimer, Check, Acting, scanvars, connvars
<1>19. CASE OnTimerScan
  BY <1>19 DEF OnTimerScan, SetState, Goto, Acting, scanvars, connvars
<1>20. CASE MsStart
  BY <1>20 DEF MsStart, Goto, Acting, scanvars, connvars
<1>21. CASE MsFinish
  BY <1>21 DEF MsFinish, ScanDone, Goto, Acting, scanvars, connvars
<1>22. CASE MsTail
  <2>1. UNCHANGED <<state, timer, wpa2, keys, link, pend, over>> /\ (raced => raced')
        /\ \A t \in Threads \ {"ms"} : pc'[t] = pc[t]
    BY <1>22 DEF MsTail, Goto, Acting, connvars
  <2> QED
    BY <2>1
<1>23. CASE HwScanDone
  BY <1>23 DEF HwScanDone, ScanDone, Acting, scanvars, connvars
<1>24. CASE TimerDue
  BY <1>24 DEF TimerDue, Acting, scanvars, connvars
<1>25. CASE RxAuth
  BY <1>25 DEF RxAuth, Check, Acting, scanvars, connvars
<1>26. CASE RxAuthRefused
  BY <1>26 DEF RxAuthRefused, Acting, scanvars, connvars
<1>27. CASE RxAssocTx
  BY <1>27 DEF RxAssocTx, SetState, Goto, Acting, scanvars, connvars
<1>28. CASE RxAssoc
  BY <1>28 DEF RxAssoc, Check, Acting, scanvars, connvars
<1>29. CASE RxAssocRefused
  BY <1>29 DEF RxAssocRefused, Acting, scanvars, connvars
<1>30. CASE RxAssocd
  BY <1>30 DEF RxAssocd, SetState, Acting, scanvars, connvars
<1>31. CASE RxPmk
  BY <1>31 DEF RxPmk, Goto, Acting, scanvars, connvars
<1>32. CASE RxUp
  BY <1>32 DEF RxUp, Goto, Acting, scanvars, connvars
<1>33. CASE RxM1
  BY <1>33 DEF RxM1, Acting, scanvars, connvars
<1>34. CASE RxM3
  BY <1>34 DEF RxM3, Check, Acting, scanvars, connvars
<1>35. CASE RxM3Done
  BY <1>35 DEF RxM3Done, SetState, Acting, scanvars, connvars
<1>36. CASE RxDeauth
  BY <1>36 DEF RxDeauth, Check, Acting, scanvars, connvars
<1>37. CASE RxDeauthed
  BY <1>37 DEF RxDeauthed, SetState, Acting, scanvars, connvars
<1>38. CASE RxDeauthClear
  BY <1>38 DEF RxDeauthClear, Goto, Acting, scanvars, connvars
<1>39. CASE RxDeauthLink
  BY <1>39 DEF RxDeauthLink, Goto, Acting, scanvars, connvars
<1> QED
  BY <1>0, <1>1, <1>2, <1>3, <1>4, <1>5, <1>6, <1>7, <1>8, <1>9, <1>10, <1>11, <1>12, <1>13,
     <1>14, <1>15, <1>16, <1>17, <1>18, <1>19, <1>20, <1>21, <1>22, <1>23, <1>24, <1>25, <1>26,
     <1>27, <1>28, <1>29, <1>30, <1>31, <1>32, <1>33, <1>34, <1>35, <1>36, <1>37, <1>38,
     <1>39 DEF LNext,
     UsrWork, TcWork, WlWork, MsWork, RxWork, DoDisconnect, DoAuthenticate

\* The invariant of the connection state machine.
THEOREM LinkInvariant == LSpec => []LInv
<1>1. LInv /\ [LNext]_lvars => LInv'
  BY StepFlags, StepValues, StepPositions, StepCmds, StepPromise DEF LInv
<1> QED
  BY InitLInv, <1>1, PTL DEF LSpec

\* The types of the state, the timer and what the threads remember.
THEOREM LinkTypes == LSpec => []LTypeOK
<1>1. LInv => LTypeOK
  BY DEF LInv, LTypeOK, Flags, Values, Positions
<1> QED
  BY <1>1, LinkInvariant, PTL

\* The interface is told "active" exactly while _state is CONNECTED, unless two
\* threads raced on _state, however many commands the clients give.
THEOREM LinkTold == LSpec => []LinkMatchesState
<1>1. LInv => LinkMatchesState
  BY DEF LInv, Promise
<1> QED
  BY <1>1, LinkInvariant, PTL

\* A connected WPA2 link has its pairwise key whatever the threads do to each
\* other, but while a teardown is about to leave the state, and but for message 3
\* finished over a link that was torn down meanwhile.
THEOREM LinkKeyed == LSpec => []ConnectedHasKeys
<1>1. LInv => ConnectedHasKeys
  BY DEF LInv, Promise
<1> QED
  BY <1>1, LinkInvariant, PTL

\* A state that waits for the access point has its timer, or a thread that arms
\* it (doAuthenticate, doAssociate, handleEAPOL), unless two threads raced.
THEOREM LinkTimed == LSpec => []WaitingHasTimer
<1>1. LInv => WaitingHasTimer
  BY DEF LInv, Promise
<1> QED
  BY <1>1, LinkInvariant, PTL
=============================================================================
