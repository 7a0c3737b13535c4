------------------------------ MODULE Control -------------------------------
(***************************************************************************)
(* The BSS table and who uses it:                                          *)
(*   - the receive thread (processScanResult) reads the scan generation,   *)
(*     parses the beacon, and enters the record under _bssLock;            *)
(*   - rtw88ctl, through RTW88UserClient, scans, polls, lists, connects    *)
(*     and disconnects (one client at a time);                             *)
(*   - scanDone, from the firmware or the manual scan, drops old entries;  *)
(*   - doAuthenticate, on _connectTC or the timer, tunes to the target.    *)
(* Of the connection only what picks and uses the target is here; Link has *)
(* the rest.  _scanReturnState is IDLE throughout, as in Link.             *)
(***************************************************************************)
EXTENDS Bss, FiniteSets

CONSTANTS
    Beacon,     \* the beacons and probe responses that may be heard, by name
    Chips,      \* the chips the driver may find
    Lens,       \* buffer sizes a client may pass to GetBSSList
    GenMod,     \* _scanGeneration counts modulo GenMod (2^32)
    Starts,     \* values of _scanGeneration to start from, with an empty table
    MaxAge,     \* scans a BSS may miss before scanDone drops it (3)
    MaxCmds,    \* bound: scans and connection attempts
    MaxLag,     \* bound: scans that may start while a beacon is being parsed
    NoBss, NoSta

ASSUME ControlAssumption ==
    /\ GenMod \in Nat /\ GenMod > MaxCmds + MaxAge + 1 /\ Starts \subseteq 0 .. GenMod - 1
    /\ {MaxAge, MaxCmds, MaxLag} \subseteq Nat /\ Lens \subseteq Nat
    /\ MaxLag <= MaxAge        \* a beacon is parsed well within the age that drops it
    \* The wiphy's tables come from rtw88 (external): 40 MHz is a capability
    \* of a band that has HT at all.
    /\ \A c \in Chips : c.ht40 \subseteq c.ht

\* What the fields of a beacon can hold: a length and a channel are bytes, the
\* signal is an int16_t.
ASSUME BeaconAssumption ==
    \A f \in DOMAIN Beacon :
        LET ies == Beacon[f].ies IN
        /\ Beacon[f].rssi \in Int /\ -32768 <= Beacon[f].rssi /\ Beacon[f].rssi < 32768
        /\ Beacon[f].freq \in Nat
        /\ DOMAIN ies = 1 .. Len(ies) /\ Len(ies) \in Nat
        /\ \A i \in DOMAIN ies :
              /\ ies[i].len \in Nat /\ ies[i].len < 256
              /\ ies[i].id \in {"DS", "HT_OP"} =>
                    ies[i].channel \in Nat /\ ies[i].channel < 256

Frames == DOMAIN Beacon
Bssids == {Beacon[f].bssid : f \in Frames}

\* The records of the frames.  An entry of the table is the frame its record
\* was last filled from and last_seen_scan.
Bss == [f \in Frames |-> ParseBeacon(Beacon[f])]
Entries == [frame : Frames, seen : 0 .. GenMod - 1]
Addr == [f \in Frames |-> Beacon[f].bssid]      \* addr3, to which no element is written
Bssid(e) == Addr[e.frame]
Table(t) == [i \in DOMAIN t |-> Bss[t[i].frame]]

Long == MaxAge + 1      \* the cap of the ages, and "never"

VARIABLES
    chip,       \* the band tables of the wiphy
    table,      \* _bssList, first entry first
    gen,        \* _scanGeneration
    rxb,        \* the entry processScanResult is about to make
    state,      \* _state; LINKED is HANDSHAKING or CONNECTED
    scan,       \* a scan is running that has still to call scanDone
    target,     \* _targetBSS (the frame of its record)
    width,      \* _connChanWidth
    tc,         \* doAuthenticate: queued ("pend"), in setConnectedChandef ("tune",
                \* "wide"), before its last step ("sent")
    air,        \* APs that were sent an auth frame and may answer it (external)
    req,        \* the association request of this attempt
    sta,        \* _sta
    ctl,        \* "scan" while a cmdScan is between its two parts, else "idle"
    cmds,       \* scans and connection attempts so far
    tuned,      \* history: doAuthenticate has tuned to this target ("yes", "no"), or is
                \* about to, maybe once more ("half")
    early,      \* history: an association request was sent, or a station made, before that
    heard,      \* history: the last frame entered for each BSSID
    age,        \* history: scans begun since it was heard, up to Long; a wrap of
                \* the generation while its beacon was being parsed counts as two
    wrap        \* history: scans begun since the generation wrapped, up to Long

bvars == <<chip, table, gen, rxb, state, scan, target, width, tc, air, req, sta, ctl,
           cmds, tuned, early, heard, age, wrap>>
tablevars == <<table, gen, rxb, heard, age, wrap>>
linkvars == <<target, width, tc, air, req, sta, tuned, early>>

CInit ==
    /\ chip \in Chips
    /\ table = <<>> /\ gen \in Starts /\ rxb = NoBss
    /\ state = "IDLE" /\ scan = FALSE
    /\ target = NoBss /\ width = 20 /\ tc = {} /\ air = {} /\ req = NoSta /\ sta = NoSta
    /\ ctl = "idle" /\ cmds = 0 /\ tuned = "no" /\ early = FALSE
    /\ heard = [b \in Bssids |-> NoBss] /\ age = [b \in Bssids |-> Long] /\ wrap = Long

Older(n) == IF n = Long THEN n ELSE n + 1

-----------------------------------------------------------------------------
(* The receive thread.                                                     *)

\* processRxMgmt and processScanResult up to the lock.
RxBeacon(f) ==
    /\ state = "SCANNING" /\ rxb = NoBss
    /\ rxb' = [frame |-> f, seen |-> gen]
    /\ UNCHANGED <<chip, cmds, table, gen, state, scan, linkvars, ctl, heard, age, wrap>>

\* Mutant: a known BSSID is entered a second time.
EnterTwice(t, b) == <<b>> \o t

\* Under _bssLock: in place of the entry with this BSSID, or in front.
Enter(t, b) ==
    IF \E i \in DOMAIN t : Bssid(t[i]) = Bssid(b)
    THEN [i \in DOMAIN t |-> IF Bssid(t[i]) = Bssid(b) THEN b ELSE t[i]]
    ELSE <<b>> \o t

RxEnter ==
    /\ rxb # NoBss
    /\ table' = Enter(table, rxb)
    /\ heard' = [heard EXCEPT ![Bssid(rxb)] = rxb.frame]
    /\ age' = [age EXCEPT ![Bssid(rxb)] = (gen - rxb.seen) % GenMod]
    /\ rxb' = NoBss
    /\ UNCHANGED <<chip, cmds, gen, state, scan, linkvars, ctl, wrap>>

-----------------------------------------------------------------------------
(* Scans.                                                                  *)

\* cmdScan, first part: the next generation; 0 is skipped, and then every
\* entry is as if just seen.
CtlScan ==
    /\ ctl = "idle" /\ state = "IDLE"
    /\ cmds < MaxCmds /\ cmds' = cmds + 1
    /\ rxb # NoBss => (gen - rxb.seen) % GenMod < MaxLag
    /\ LET g == (gen + 1) % GenMod IN
         IF g # 0
         THEN gen' = g /\ wrap' = Older(wrap) /\ UNCHANGED table
         ELSE /\ gen' = 1 /\ wrap' = 0
              /\ table' = [i \in DOMAIN table |-> [table[i] EXCEPT !.seen = 1]]
    /\ age' = [b \in Bssids |-> Older(age[b])]
    /\ ctl' = "scan"
    /\ UNCHANGED <<chip, rxb, state, scan, linkvars, heard>>

\* The rest of cmdScan: the scan starts, or fails for want of a channel.
CtlScanStart ==
    /\ ctl = "scan"
    /\ ctl' = "idle"
    /\ \/ state' = "SCANNING" /\ scan' = TRUE
       \/ state' = "IDLE" /\ UNCHANGED scan
    /\ UNCHANGED <<chip, cmds, tablevars, linkvars>>

IsTarget(b) == state = "LINKED" /\ Bssid(b) = Addr[target]

\* Mutant: the network in use is dropped like any other.
StaleTarget(b) == (gen - b.seen) % GenMod > MaxAge
\* Mutant: an off-by-one in the age.
StaleSooner(b) == ~IsTarget(b) /\ (gen - b.seen) % GenMod >= MaxAge

Stale(b) == ~IsTarget(b) /\ (gen - b.seen) % GenMod > MaxAge

\* The entries of t at the positions K, in their order.
Sublist(t, K) ==
    [n \in 1 .. Cardinality(K) |->
        t[CHOOSE i \in K : Cardinality({j \in K : j < i}) = n - 1]]

\* scanDone, also of a scan the state machine no longer waits for.
ScanDone(aborted) ==
    /\ scan
    /\ scan' = FALSE
    /\ table' = IF aborted THEN table
                ELSE Sublist(table, {i \in DOMAIN table : ~Stale(table[i])})
    /\ state' = IF state = "SCANNING" THEN "IDLE" ELSE state
    /\ UNCHANGED <<chip, cmds, gen, rxb, linkvars, ctl, heard, age, wrap>>

\* onTimer, or the end of abortActiveScan: the scan is given up.
ScanTimeout ==
    /\ state = "SCANNING"
    /\ state' = "IDLE"
    /\ UNCHANGED <<chip, cmds, tablevars, scan, linkvars, ctl>>

-----------------------------------------------------------------------------
(* The connection, as far as it concerns the target.                       *)

Matches(s) == {i \in DOMAIN table : Bss[table[i].frame].ssid = s}

\* cmdConnect: the first entry with this SSID.
CtlConnect(s) ==
    /\ state = "IDLE" /\ Matches(s) # {}
    /\ cmds < MaxCmds /\ cmds' = cmds + 1
    /\ target' = table[CHOOSE i \in Matches(s) : \A j \in Matches(s) : i <= j].frame
    /\ state' = "AUTH" /\ tc' = tc \cup {"pend"}
    /\ sta' = NoSta /\ req' = NoSta /\ tuned' = "no" /\ early' = FALSE
    /\ UNCHANGED <<chip, tablevars, scan, width, air, ctl>>

Tuning == tc \cap {"tune", "wide", "sent"} # {}

\* The authentication frame goes out.
Transmit(from) == tc' = (tc \ {from}) \cup {"sent"} /\ air' = air \cup {Addr[target]}

\* Mutant: setConnectedChandef does not go back to 20 MHz first.
NarrowKept == UNCHANGED width

Narrow == width' = 20

\* doAuthenticate looks for the channel in the band tables.  If it is there,
\* setConnectedChandef begins with 20 MHz, and ends with it for a TKIP network.
Tune ==
    /\ "pend" \in tc /\ ~Tuning
    /\ \/ /\ ~Tunable(Bss[target], chip)
          /\ Transmit("pend") /\ UNCHANGED <<width, tuned>>
       \/ /\ Tunable(Bss[target], chip) /\ ~htAllowed(Bss[target])
          /\ Narrow /\ tuned' = "yes" /\ Transmit("pend")
       \/ /\ Tunable(Bss[target], chip) /\ htAllowed(Bss[target])
          /\ Narrow /\ tuned' = "half"
          /\ tc' = {"tune"} /\ UNCHANGED air
    /\ UNCHANGED <<chip, cmds, tablevars, state, scan, target, req, sta, early, ctl>>

\* The width is written a second and a third time, for what _targetBSS is by
\* then, while the receive thread may read it.
Tune40 ==
    /\ "tune" \in tc
    /\ width' = IF Widen40(Bss[target], chip) THEN 40 ELSE width
    /\ tc' = (tc \ {"tune"}) \cup {"wide"}
    /\ UNCHANGED <<chip, cmds, tablevars, state, scan, target, air, req, sta, tuned, early, ctl>>

Tune80 ==
    /\ "wide" \in tc
    /\ width' = IF Widen80(Bss[target], chip) THEN 80 ELSE width
    /\ tuned' = IF tuned = "half" THEN "yes" ELSE tuned
    /\ Transmit("wide")
    /\ UNCHANGED <<chip, cmds, tablevars, state, scan, target, req, sta, early, ctl>>

\* Its end, whatever the state is by now.
AuthSet ==
    /\ "sent" \in tc
    /\ tc' = tc \ {"sent"} /\ state' = "AUTH"
    /\ UNCHANGED <<chip, cmds, tablevars, scan, target, width, air, req, sta, tuned, early, ctl>>

AuthRetry ==
    /\ state = "AUTH" /\ tc = {}
    /\ tc' = {"pend"}
    /\ UNCHANGED <<chip, cmds, tablevars, state, scan, target, width, air, req, sta, tuned, early, ctl>>

\* The answer, on time or late, of the target: doAssociate.
RxAuth ==
    /\ state = "AUTH" /\ Addr[target] \in air
    /\ req' = AssocReq(Bss[target], chip, width)
    /\ early' = (early \/ tuned # "yes")
    /\ state' = "ASSOC"
    /\ UNCHANGED <<chip, cmds, tablevars, scan, target, width, tc, air, sta, tuned, ctl>>

\* processAssocResponse
RxAssoc ==
    /\ state = "ASSOC"
    /\ sta' = IF sta = NoSta THEN PeerSta(Bss[target], chip, width) ELSE sta
    /\ early' = (early \/ (sta = NoSta /\ tuned # "yes"))
    /\ state' = "LINKED"
    /\ UNCHANGED <<chip, cmds, tablevars, scan, target, width, tc, air, req, tuned, ctl>>

\* The AP refuses, a timer gives up, or a deauthentication: _sta stays.
LinkLost ==
    /\ state \in {"AUTH", "ASSOC", "LINKED"}
    /\ state' = "IDLE" /\ req' = NoSta
    /\ UNCHANGED <<chip, cmds, tablevars, scan, target, width, tc, air, sta, tuned, early, ctl>>

\* Mutant: RTW88_STATE_DISCONNECTING, declared and expected by cmdPowerOn, is set.
CtlDisconnecting ==
    /\ state # "IDLE"
    /\ state' = "DISCONNECTING" /\ sta' = NoSta /\ req' = NoSta
    /\ UNCHANGED <<chip, cmds, tablevars, scan, target, width, tc, air, tuned, early, ctl>>

\* cmdDisconnect
CtlDisconnect ==
    /\ state # "IDLE"
    /\ state' = "IDLE" /\ sta' = NoSta /\ req' = NoSta
    /\ UNCHANGED <<chip, cmds, tablevars, scan, target, width, tc, air, tuned, early, ctl>>

CNext ==
    \/ \E f \in Frames : RxBeacon(f)
    \/ \E i \in DOMAIN table : CtlConnect(Bss[table[i].frame].ssid)
    \/ \E a \in BOOLEAN : ScanDone(a)
    \/ RxEnter \/ CtlScan \/ CtlScanStart \/ ScanTimeout
    \/ Tune \/ Tune40 \/ Tune80 \/ AuthSet \/ AuthRetry \/ RxAuth \/ RxAssoc \/ LinkLost \/ CtlDisconnect

CSpec == CInit /\ [][CNext]_bvars

-----------------------------------------------------------------------------

\* The types of the table, the target and the clients.
CTypeOK ==
    /\ chip \in Chips /\ gen \in 0 .. GenMod - 1
    /\ table \in Seq(Entries) /\ rxb \in Entries \cup {NoBss}
    /\ target \in Frames \cup {NoBss}
    /\ state \in {"IDLE", "SCANNING", "AUTH", "ASSOC", "LINKED"}
    /\ {scan, early} \subseteq BOOLEAN /\ width \in {20, 40, 80} /\ tuned \in {"no", "half", "yes"}
    /\ tc \subseteq {"pend", "tune", "wide", "sent"} /\ air \subseteq Bssids
    /\ ctl \in {"idle", "scan"} /\ cmds \in 0 .. MaxCmds
    /\ heard \in [Bssids -> Frames \cup {NoBss}]
    /\ age \in [Bssids -> 0 .. Long] /\ wrap \in 0 .. Long

Listed(b) == \E i \in DOMAIN table : Bssid(table[i]) = b

\* The table has each BSSID at most once, with what its last beacon said, and
\* it has every BSS heard in the last MaxAge scans: processScanResult replaces
\* by BSSID, and scanDone drops by age, also when _scanGeneration wraps and
\* when a scan begins or ends while a beacon is being parsed.
TableIsCurrent ==
    /\ \A i, j \in DOMAIN table : Bssid(table[i]) = Bssid(table[j]) => i = j
    /\ \A i \in DOMAIN table : table[i].frame = heard[Bssid(table[i])]
    /\ \A b \in Bssids : age[b] <= MaxAge => Listed(b)

\* When a scan ends unaborted, no BSS is left that more than MaxAge scans
\* missed (scanDone), except the network in use, which always is, and what the
\* wrap of _scanGeneration made young again.
OldOnesGo ==
    [][ScanDone(FALSE) =>
         \A b \in Bssids :
            /\ Listed(b)' => age[b] <= MaxAge \/ wrap <= MaxAge \/ (state = "LINKED" /\ Addr[target] = b)
            /\ Listed(b) /\ state = "LINKED" /\ Addr[target] = b => Listed(b)']_bvars

\* rtw88ctl shows what cmdGetBSSList was asked for: whatever the buffer, the
\* reply fits it, and cmd_list reads back from it the first entries of the
\* table, unchanged, as many as fit.
ListRoundTrip ==
    \A len \in Lens :
        LET t     == Table(table)
            reply == cmdGetBSSList(t, len)
            rows  == cmd_list(reply)
            n     == Len(rows)
        IN /\ reply.len <= len /\ reply.len <= Inband
           /\ n <= Len(t) /\ rows = [i \in 1 .. n |-> AsRow(t[i])]
           /\ n < Len(t) /\ len <= Inband =>
                 reply.len + EntrySize(t[n + 1]) > len

\* What a link of width w needs, with the access point's beacon b and the request r
\* that the station sent it.  setConnectedChandef overrides both on 2.4 GHz: it takes
\* 40 MHz for a chip whose band table does not have it (lines 1631 and 1637), which
\* the request then does not advertise, and for an RTL8723D whatever the beacon says
\* (line 1670).
Agreed(w, b, c, r) ==
    /\ w >= 40 => r.ht40 \/ (Band(b) = "2" /\ "2" \notin c.ht40)
    /\ w = 40  => Allows40(b) \/ (Band(b) = "2" /\ c.d723)
    /\ w = 80  => r.vht /\ Allows80(b)

\* processAssocResponse: the peer station "MUST match what buildAssocReq()
\* advertised to the AP" (RTW88IEEE80211.cpp:2192), and is no wider than was
\* advertised and the access point allows, but for what the driver forces,
\* whichever connections, retries and late answers came before; unless the request
\* went out, or the station was made, while doAuthenticate had still to tune to the
\* target or was in the middle of it (early: a late answer to an older attempt, or
\* one that meets the retry).
NegotiatedWidth ==
    state = "LINKED" /\ sta # NoSta =>
        /\ sta.bssid = req.bssid /\ sta.vht = req.vht
        /\ ~early => sta.ht40 = req.ht40 /\ Agreed(sta.width, Bss[target], chip, req)
=============================================================================
