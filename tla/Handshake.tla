----------------------------- MODULE Handshake ------------------------------
(***************************************************************************)
(* The WPA2 supplicant (handleEAPOL, installKey, clearKeys) and the data   *)
(* path that uses its keys (outputPacket, txDataFrame, ADDBA), against an  *)
(* access point whose EAPOL frames may be lost, repeated and reordered.    *)
(* Three threads, none of which holds a lock: the receive thread, whose    *)
(* handlers are cut wherever they use _state, a key or a number again; a   *)
(* teardown (doDisconnect on a client or the timer), or a deauthentication *)
(* on the receive thread; and the output queue's thread, which reads the   *)
(* keys and _sta in three places.  Cryptography is symbolic: a MIC passes  *)
(* exactly under the PTK it was made with.                                 *)
(***************************************************************************)
EXTENDS PacketNumber, SkBuff, Sequences, SequencesExt

CONSTANTS
    MaxAssoc,   \* bound: associations
    MaxReplay,  \* bound: EAPOL frames the access point sends, over all associations
    MaxNonce,   \* bound: SNonces drawn, i.e. messages 1 taken
    MaxSeq      \* bound: QoS data frames of an association

ASSUME HBounds ==
    MaxAssoc \in Nat /\ MaxReplay \in Nat /\ MaxNonce \in Nat /\ MaxSeq \in Nat

\* Key data elements: "gtkN" is a GTK KDE with a key of N bytes, "vendor" a
\* vendor's element of the largest size.
ElemLen(e) == CASE e = "rsn" -> 22 [] e = "vendor" -> 257 [] e = "gtk16" -> 24
                [] e = "gtk32" -> 40 [] OTHER -> 48
GtkLen(e) == CASE e = "gtk16" -> 16 [] e = "gtk32" -> 32 [] e = "gtk40" -> 40 [] OTHER -> 0

\* The BSS in _targetBSS: wpa2, HT allowed, group cipher, key data of its message 3.
Networks ==
    {[wpa2 |-> FALSE, ht |-> TRUE,  group |-> "CCMP", kd |-> <<>>],
     [wpa2 |-> TRUE,  ht |-> TRUE,  group |-> "CCMP", kd |-> <<"rsn", "gtk16">>],
     [wpa2 |-> TRUE,  ht |-> FALSE, group |-> "TKIP", kd |-> <<"gtk40", "gtk32">>],
     [wpa2 |-> TRUE,  ht |-> TRUE,  group |-> "TKIP", kd |-> <<"rsn", "gtk16">>],
     [wpa2 |-> TRUE,  ht |-> TRUE,  group |-> "CCMP", kd |-> <<"vendor", "gtk16">>]}

Pmks  == {"right", "wrong"}     \* derivePMK of the right or of a wrong passphrase
NoKey == <<"none", 0, 0>>       \* an empty slot
ZeroPtk == <<"zero", 0, 0>>     \* a zeroed _ptk
derivePTK(pmk, anonce, snonce) == <<pmk, anonce, snonce>>
Keys == Pmks \X (1..MaxAssoc) \X (1..MaxNonce)

PayLens == {0, 2034}            \* bounds of txDataFrame: 14 <= total <= 2048
TxDesc  == 48                   \* what the driver pushes before a frame (external)

VARIABLES
    st,         \* _state: "IDLE", "HANDSHAKING" or "CONNECTED" (Link has the rest)
    net, pmk,   \* _targetBSS and _wpa2; _pmk
    ptk,        \* _ptk
    ptkConf, gtkConf,   \* the keys in the slots _ptkConf and _gtkConf
    pn,         \* _ccmpTxPn
    sta,        \* _sta # nullptr
    dataSeq,    \* _dataSeq
    txBa,       \* _txBaActive
    td,         \* a teardown under way: "no", "deauth", "leave", or "left" once _sta is gone
    rx,         \* the receive thread: "idle", or the place it has reached in a handler
    rxm, tk,    \* the message it is at, and its copy of the pairwise key
    out,        \* the output thread: pc, protected_frame, pn, sn
    stray,      \* history: _txBaActive was set when the station was gone
    overlap,    \* history: a teardown met a transmission of this association
    crossed,    \* history: a teardown met message 3 of this association
    last, past, \* history: packet number of the last frame under the key; keys used
    assoc, nonce,
    ap,         \* the access point (external)
    air,        \* EAPOL frames sent, either way, none of them ever gone
    act         \* BlockAck action frames of this association

hvars == <<st, net, pmk, ptk, ptkConf, gtkConf, pn, sta, dataSeq, txBa, td, rx, rxm, tk, out,
           stray, overlap, crossed, last, past, assoc, nonce, ap, air, act>>
keyvars  == <<ptk, ptkConf, gtkConf, pn>>
bavars   == <<txBa, stray>>
rxvars   == <<rx, rxm, tk>>
histvars == <<overlap, crossed, last, past>>

OutIdle == [pc |-> "idle", prot |-> FALSE, pn |-> ZeroPn, sn |-> 0, early |-> FALSE]
NoMsg   == [t |-> "none"]
ApIdle  == [ph |-> "off", r |-> 0, first |-> 0, ptk |-> NoKey, ba |-> FALSE, ssn |-> 0]

HInit ==
    /\ st = "IDLE" /\ net \in {n \in Networks : ~n.wpa2} /\ pmk = "wrong"
    /\ ptk = ZeroPtk /\ ptkConf = NoKey /\ gtkConf = NoKey /\ pn = ZeroPn
    /\ sta = FALSE /\ dataSeq = 0 /\ txBa = FALSE /\ td = "no"
    /\ rx = "idle" /\ rxm = NoMsg /\ tk = NoKey
    /\ out = OutIdle
    /\ stray = FALSE /\ overlap = FALSE /\ crossed = FALSE /\ last = ZeroPn /\ past = {}
    /\ assoc = 0 /\ nonce = 0 /\ ap = ApIdle /\ air = {} /\ act = {}

\* A teardown step while the output thread is at work, or the receive thread at
\* message 3.
InM3    == rx \in {"m3", "slot", "keyed", "up"}
Overlap == overlap' = (overlap \/ out.pc # "idle") /\ crossed' = (crossed \/ InM3)

\* The receive thread is between two frames.
RxFree == rx = "idle" /\ td # "deauth"

\* Its handler returns.
RxDone == rx' = "idle" /\ rxm' = NoMsg /\ tk' = NoKey

\* For an EAPOL frame txDataFrame takes a number of the QoS space.
EapolSn == dataSeq' = IF net.ht THEN dataSeq + 1 ELSE dataSeq

-----------------------------------------------------------------------------
(* Connecting: cmdConnect up to the end of processAssocResponse.           *)

\* Mutant: releaseSta leaves _txBaActive as it is.
ReleaseStaKeepsBa ==
    IF sta THEN dataSeq' = 0 /\ UNCHANGED bavars ELSE UNCHANGED <<bavars, dataSeq>>

\* releaseSta (its caller says what becomes of _sta).
ReleaseSta ==
    IF sta THEN txBa' = FALSE /\ stray' = FALSE /\ dataSeq' = 0 ELSE UNCHANGED <<bavars, dataSeq>>

\* The receive thread ends it; an open network is up before the uplink
\* agreement is asked for (RxAgg).
Connect(n, p) ==
    /\ st = "IDLE" /\ td = "no" /\ RxFree /\ assoc < MaxAssoc
    /\ net' = n /\ pmk' = IF n.wpa2 THEN p ELSE pmk
    /\ ptk' = ZeroPtk /\ ptkConf' = NoKey /\ gtkConf' = NoKey /\ pn' = ZeroPn
    /\ ReleaseSta /\ sta' \in BOOLEAN
    /\ IF n.wpa2 THEN st' = "HANDSHAKING" /\ UNCHANGED rx ELSE st' = "CONNECTED" /\ rx' = "agg"
    /\ assoc' = assoc + 1
    /\ ap' = [ApIdle EXCEPT !.ph = IF n.wpa2 THEN "m1" ELSE "done", !.r = ap.r, !.first = ap.r + 1]
    /\ act' = {}
    /\ overlap' = (out.pc # "idle") /\ crossed' = FALSE
    /\ last' = ZeroPn
    /\ UNCHANGED <<td, rxm, tk, out, past, nonce, air>>

\* startTxAggregation and sendAddbaRequest: the number of the next data frame is
\* the SSN, as it is by now.
StartTxAggregation ==
    IF ~txBa /\ net.ht /\ sta THEN {[t |-> "req", ssn |-> dataSeq]} ELSE {}

RxAgg ==
    /\ rx = "agg"
    /\ act' = act \cup StartTxAggregation
    /\ RxDone
    /\ UNCHANGED <<st, net, pmk, keyvars, sta, dataSeq, bavars, td, out, histvars, assoc, nonce,
                   ap, air>>

-----------------------------------------------------------------------------
(* handleEAPOL, which deliverDataFrame calls in HANDSHAKING only.          *)

\* eapol_mic_ok
MicOk(key, m) == m.mic = key

\* sendEAPOLKey through txDataFrame, which wants a station.
Reply(m) ==
    IF sta THEN air' = air \cup {m} /\ EapolSn ELSE UNCHANGED <<air, dataSeq>>

\* Any message 1, whatever is under way ...
RxM1(m) ==
    /\ RxFree /\ st = "HANDSHAKING" /\ m \in air /\ m.t = "M1"
    /\ nonce < MaxNonce
    /\ rx' = "m1" /\ rxm' = m
    /\ UNCHANGED <<st, net, pmk, keyvars, sta, dataSeq, bavars, td, tk, out, histvars, assoc,
                   nonce, ap, air, act>>

\* ... gets a new SNonce and a new PTK.  (A teardown before the reply could only
\* spoil its MIC, as if message 2 were lost.)
RxM1Reply ==
    /\ rx = "m1"
    /\ nonce' = nonce + 1
    /\ ptk' = derivePTK(pmk, rxm.nonce, nonce')
    /\ Reply([t |-> "M2", r |-> rxm.r, nonce |-> nonce', mic |-> ptk'])
    /\ RxDone
    /\ UNCHANGED <<st, net, pmk, ptkConf, gtkConf, pn, sta, bavars, td, out, histvars, assoc, ap, act>>

\* extract_gtk_from_kde: the length of the first GTK, none if it is too long.
ExtractGtk(kd) ==
    LET is == {i \in 1..Len(kd) : GtkLen(kd[i]) > 0}
    IN  IF is = {} THEN 0
        ELSE LET n == GtkLen(kd[CHOOSE i \in is : \A j \in is : i <= j])
             IN  IF n > 32 THEN 0 ELSE n

\* installKey's checks on the length of the key.
GtkFits(len) == len = (IF net.group = "TKIP" THEN 32 ELSE 16)

\* Key data as sent: padded to eight bytes, and eight more for the wrapping.
WrappedLen(kd) == 8 * ((FoldSeq(LAMBDA e, n : n + ElemLen(e), 0, kd) + 7) \div 8) + 8

\* The unwrapping takes up to 32 blocks of eight bytes.
aes_unwrap_128(len) == len >= 16 /\ len % 8 = 0 /\ len \div 8 - 1 \in 1..32

M3Good(m) == m \in air /\ m.t = "M3" /\ MicOk(ptk, m) /\ aes_unwrap_128(WrappedLen(m.kd))

\* Mutant: the MIC of message 3 is not looked at.
RxM3NoMic(m) ==
    /\ RxFree /\ st = "HANDSHAKING" /\ m \in air /\ m.t = "M3"
    /\ aes_unwrap_128(WrappedLen(m.kd))
    /\ rx' = "m3" /\ rxm' = m
    /\ UNCHANGED <<st, net, pmk, keyvars, sta, dataSeq, bavars, td, tk, out, histvars, assoc,
                   nonce, ap, air, act>>

\* Message 3 passes its checks.  What follows looks at neither _state nor the MIC
\* again.
RxM3(m) ==
    /\ RxFree /\ st = "HANDSHAKING" /\ M3Good(m)
    /\ rx' = "m3" /\ rxm' = m
    /\ UNCHANGED <<st, net, pmk, keyvars, sta, dataSeq, bavars, td, tk, out, histvars, assoc,
                   nonce, ap, air, act>>

\* installKey empties the slot and copies the pairwise key from _ptk, as it is by now.
RxM3Slot ==
    /\ rx = "m3"
    /\ ptkConf' = NoKey /\ tk' = ptk
    /\ rx' = "slot"
    /\ UNCHANGED <<st, net, pmk, ptk, gtkConf, pn, sta, dataSeq, bavars, td, rxm, out,
                   histvars, assoc, nonce, ap, air, act>>

\* Mutant: a pairwise key that the driver refused is taken for installed.
RxM3PtkIgnored ==
    /\ rx = "slot"
    /\ rx' = "keyed" /\ tk' = NoKey
    /\ UNCHANGED <<st, net, pmk, keyvars, sta, dataSeq, bavars, td, rxm, out, histvars, assoc,
                   nonce, ap, air, act>>

\* set_key refuses it, and the handshake waits on ...
RxM3NoPtk ==
    /\ rx = "slot"
    /\ RxDone
    /\ UNCHANGED <<st, net, pmk, keyvars, sta, dataSeq, bavars, td, out, histvars, assoc,
                   nonce, ap, air, act>>

\* ... or takes it: the slot is filled and the packet number starts again.
RxM3Ptk ==
    /\ rx = "slot"
    /\ ptkConf' = tk /\ pn' = ZeroPn
    /\ rx' = "keyed" /\ tk' = NoKey
    /\ UNCHANGED <<st, net, pmk, ptk, gtkConf, sta, dataSeq, bavars, td, rxm, out, histvars,
                   assoc, nonce, ap, air, act>>

\* The group key does not fit, or is refused ...
RxM3NoGtk ==
    /\ rx = "keyed"
    /\ ExtractGtk(rxm.kd) > 0
    /\ \/ GtkFits(ExtractGtk(rxm.kd)) /\ gtkConf' = NoKey
       \/ ~GtkFits(ExtractGtk(rxm.kd)) /\ UNCHANGED gtkConf
    /\ RxDone
    /\ UNCHANGED <<st, net, pmk, ptk, ptkConf, pn, sta, dataSeq, bavars, td, out, histvars,
                   assoc, nonce, ap, air, act>>

\* ... or all is well (also without any): message 4, its MIC under _ptk as it is
\* by now.  A group key is known by the message it came in.
RxM3Answer ==
    /\ rx = "keyed"
    /\ LET len == ExtractGtk(rxm.kd) IN
         \/ len = 0 /\ UNCHANGED gtkConf
         \/ len > 0 /\ GtkFits(len) /\ gtkConf' = rxm.mic
    /\ Reply([t |-> "M4", mic |-> ptk])
    /\ rx' = "up" /\ rxm' = NoMsg
    /\ UNCHANGED <<st, net, pmk, ptk, ptkConf, pn, sta, bavars, td, tk, out, histvars, assoc,
                   nonce, ap, act>>

\* CONNECTED, whatever _state is by now.
RxM3Up ==
    /\ rx = "up"
    /\ st' = "CONNECTED" /\ rx' = "agg"
    /\ past' = past \cup ({ptkConf} \cap Keys)
    /\ UNCHANGED <<net, pmk, keyvars, sta, dataSeq, bavars, td, rxm, tk, out, overlap,
                   crossed, last, assoc, nonce, ap, air, act>>

-----------------------------------------------------------------------------
(* Teardown: clearKeys, then the station, and a while later _state.        *)

\* doDisconnect (a client, or the handshake's timer), or a deauthentication,
\* which the receive thread handles.
TdClear(kind) ==
    /\ td = "no"
    /\ st # "IDLE"
    /\ kind = "deauth" => ap.ph = "gone" /\ RxFree
    /\ ptk' = ZeroPtk /\ ptkConf' = NoKey /\ gtkConf' = NoKey /\ pn' = ZeroPn
    /\ td' = kind
    /\ last' = ZeroPn
    /\ Overlap
    /\ UNCHANGED <<st, net, pmk, sta, dataSeq, bavars, rxvars, out, past, assoc, nonce,
                   ap, air, act>>

\* doDisconnect goes on to releaseSta.
TdRelease ==
    /\ td = "leave"
    /\ ReleaseSta /\ sta' = FALSE
    /\ td' = "left"
    /\ Overlap
    /\ UNCHANGED <<st, net, pmk, keyvars, rxvars, out, last, past, assoc, nonce, ap,
                   air, act>>

\* A deauthentication leaves the station, but ends the uplink agreement.
TdEnd ==
    /\ td \in {"left", "deauth"}
    /\ IF td = "deauth" THEN txBa' = FALSE /\ stray' = FALSE ELSE UNCHANGED bavars
    /\ st' = "IDLE" /\ td' = "no"
    /\ last' = ZeroPn
    /\ Overlap
    /\ UNCHANGED <<net, pmk, keyvars, sta, dataSeq, rxvars, out, past, assoc, nonce,
                   ap, air, act>>

-----------------------------------------------------------------------------
(* outputPacket and txDataFrame on the output thread.                      *)

\* outputPacket's test.  (It lets frames pass in a scan as well, on the home
\* channel; but cmdScan refuses to scan when CONNECTED.)
Connected == st = "CONNECTED" /\ sta

\* Up to the decision to protect the frame.
OutStart ==
    /\ out.pc = "idle" /\ Connected
    /\ out' = [OutIdle EXCEPT !.pc = "seal", !.prot = net.wpa2 /\ ptkConf # NoKey]
    /\ overlap' = (overlap \/ td # "no")
    /\ UNCHANGED <<st, net, pmk, keyvars, sta, dataSeq, bavars, td, rxvars, crossed, last,
                   past, assoc, nonce, ap, air, act>>

\* Sequence number and packet number.  Bounds: MaxSeq, and the 2^48 packet
\* numbers of a key are not used up.
OutSeal ==
    /\ out.pc = "seal" /\ dataSeq < MaxSeq
    /\ dataSeq' = IF net.ht THEN dataSeq + 1 ELSE dataSeq
    /\ IF out.prot THEN ~PnExhausted(pn) /\ pn' = PnInc(pn) ELSE UNCHANGED pn
    /\ out' = [out EXCEPT !.pc = "give", !.sn = dataSeq, !.early = rx = "agg",
                          !.pn = IF out.prot THEN PnInc(pn) ELSE @]
    /\ UNCHANGED <<st, net, pmk, ptk, ptkConf, gtkConf, sta, bavars, td, rxvars, histvars, assoc,
                   nonce, ap, air, act>>

\* The payload cannot be copied: the numbers are gone.
OutDrop ==
    /\ out.pc = "give"
    /\ out' = OutIdle
    /\ UNCHANGED <<st, net, pmk, keyvars, sta, dataSeq, bavars, td, rxvars, histvars, assoc,
                   nonce, ap, air, act>>

\* The frame under way, with _txBaActive and _ptkConf as they are by now.
Frame ==
    [prot |-> out.prot, key |-> ptkConf, sn |-> out.sn, ampdu |-> net.ht /\ txBa]

\* ops->tx gets it.
OutGive ==
    /\ out.pc = "give"
    /\ last' = IF out.prot THEN out.pn ELSE last
    /\ out' = OutIdle
    /\ UNCHANGED <<st, net, pmk, keyvars, sta, dataSeq, bavars, td, rxvars, overlap, crossed, past,
                   assoc, nonce, ap, air, act>>

-----------------------------------------------------------------------------
(* handleBackAction, as the originator of the uplink agreement.            *)

\* Any successful response: the dialog token is not compared.
RxAddbaResp ==
    /\ RxFree /\ st = "CONNECTED" /\ [t |-> "resp"] \in act
    /\ txBa' = TRUE /\ stray' = ~sta
    /\ UNCHANGED <<st, net, pmk, keyvars, sta, dataSeq, td, rxvars, out, histvars, assoc,
                   nonce, ap, air, act>>

RxDelba ==
    /\ RxFree /\ st = "CONNECTED" /\ [t |-> "delba"] \in act
    /\ txBa' = FALSE /\ stray' = FALSE
    /\ UNCHANGED <<st, net, pmk, keyvars, sta, dataSeq, td, rxvars, out, histvars, assoc,
                   nonce, ap, air, act>>

-----------------------------------------------------------------------------
(* The access point (external).                                            *)

ApSend(m) == air' = air \cup {m} /\ ap' = [ap EXCEPT !.r = @ + 1]
ApOnly == UNCHANGED <<st, net, pmk, keyvars, sta, dataSeq, bavars, td, rxvars, out, histvars,
                      assoc, nonce>>

\* Message 1, again and again until it is answered; the ANonce is the association's.
ApM1 ==
    /\ ap.ph = "m1" /\ ap.r < MaxReplay
    /\ ApSend([t |-> "M1", r |-> ap.r + 1, nonce |-> assoc])
    /\ ApOnly /\ UNCHANGED act

\* A message 2 to any message 1 of this association.
ApM2(m) ==
    /\ ap.ph = "m1" /\ m \in air /\ m.t = "M2" /\ ap.r < MaxReplay
    /\ m.r >= ap.first
    /\ LET key == derivePTK("right", assoc, m.nonce) IN
         /\ m.mic = key
         /\ air' = air \cup {[t |-> "M3", r |-> ap.r + 1, kd |-> net.kd, mic |-> key]}
         /\ ap' = [ap EXCEPT !.ph = "m3", !.ptk = key, !.r = @ + 1]
    /\ ApOnly /\ UNCHANGED act

ApM3 ==
    /\ ap.ph = "m3" /\ ap.r < MaxReplay
    /\ ApSend([t |-> "M3", r |-> ap.r + 1, kd |-> net.kd, mic |-> ap.ptk])
    /\ ApOnly /\ UNCHANGED act

ApM4(m) ==
    /\ ap.ph = "m3" /\ m \in air /\ m.t = "M4" /\ m.mic = ap.ptk
    /\ ap' = [ap EXCEPT !.ph = "done"]
    /\ ApOnly /\ UNCHANGED <<air, act>>

\* It gives up, or ends the link.
ApDeauth ==
    /\ ap.ph \in {"m1", "m3", "done"}
    /\ ap' = [ap EXCEPT !.ph = "gone"]
    /\ ApOnly /\ UNCHANGED <<air, act>>

ApAddba(m) ==
    /\ ap.ph \in {"m3", "done"} /\ m \in act /\ m.t = "req"
    /\ act' = act \cup {[t |-> "resp"]}
    /\ ap' = [ap EXCEPT !.ba = TRUE, !.ssn = m.ssn]
    /\ ApOnly /\ UNCHANGED air

ApDelba ==
    /\ ap.ph \in {"m3", "done"} /\ ap.ba
    /\ act' = act \cup {[t |-> "delba"]}
    /\ ApOnly /\ UNCHANGED <<ap, air>>

-----------------------------------------------------------------------------
HNext ==
    \/ \E n \in Networks, p \in Pmks : Connect(n, p)
    \/ \E m \in air : RxM1(m) \/ RxM3(m)
    \/ RxM1Reply
    \/ RxM3Slot \/ RxM3NoPtk \/ RxM3Ptk \/ RxM3NoGtk \/ RxM3Answer \/ RxM3Up
    \/ RxAgg
    \/ \E k \in {"leave", "deauth"} : TdClear(k)
    \/ TdRelease \/ TdEnd
    \/ OutStart \/ OutSeal \/ OutDrop \/ OutGive
    \/ RxAddbaResp \/ RxDelba
    \/ ApM1 \/ ApM3 \/ ApDeauth \/ ApDelba
    \/ \E m \in air : ApM2(m) \/ ApM4(m)
    \/ \E m \in act : ApAddba(m)

HSpec == HInit /\ [][HNext]_hvars

-----------------------------------------------------------------------------
(* Properties.                                                             *)

\* The types of the variables.
HTypeOK ==
    /\ st \in {"IDLE", "HANDSHAKING", "CONNECTED"} /\ net \in Networks /\ pmk \in Pmks
    /\ ptk \in Keys \cup {ZeroPtk} /\ {gtkConf, ap.ptk} \subseteq Keys \cup {NoKey}
    /\ {ptkConf, tk} \subseteq Keys \cup {NoKey, ZeroPtk}
    /\ pn \in Pn /\ last \in Pn /\ out.pn \in Pn
    /\ sta \in BOOLEAN /\ dataSeq \in Nat /\ txBa \in BOOLEAN
    /\ stray \in BOOLEAN /\ overlap \in BOOLEAN /\ crossed \in BOOLEAN
    /\ td \in {"no", "leave", "left", "deauth"} /\ past \subseteq Keys
    /\ rx \in {"idle", "m1", "m3", "slot", "keyed", "up", "agg"}
    /\ out.pc \in {"idle", "seal", "give"} /\ out.prot \in BOOLEAN
    /\ assoc \in 0..MaxAssoc /\ nonce \in 0..MaxNonce /\ ap.r \in 0..MaxReplay

\* A WPA2 link that is up uses the very key its access point derived, though
\* any number of messages 1 with other nonces were answered before, and a
\* message 3 may have failed half-way (handleEAPOL, line 2530).  A teardown
\* between message 3's MIC and line 2577 breaks that: CONNECTED is written over
\* its IDLE.  The link then has no station, so that nothing is sent on it.
ConnectedAgrees ==
    st = "CONNECTED" /\ net.wpa2 /\ td = "no" =>
        IF crossed THEN ~sta ELSE ptkConf = ap.ptk /\ ptkConf \in past

\* Unless a teardown met its transmission, a data frame given to the driver
\* on a WPA2 link is protected and under a key that was derived (line 2917: the
\* decision is taken from _ptkConf, which clearKeys empties while _state is
\* still CONNECTED).
DataIsProtected ==
    out.pc = "give" /\ net.wpa2 => overlap \/ (Frame.prot /\ Frame.key \in Keys)

\* A frame is marked for aggregation only if the access point accepted an
\* agreement in this association, and it lies in the agreed window's future
\* (line 3006); but for one that was numbered before the SSN was read (line
\* 2707) and marked after the answer, which lies just below it.  It does not hold
\* when a teardown met the transmission, or when _txBaActive was set again
\* between releaseSta and IDLE (line 2492) and outlived its association.
AmpduAccepted ==
    out.pc = "give" /\ Frame.ampdu =>
        \/ overlap \/ stray
        \/ ap.ba /\ Frame.sn + (IF out.early THEN 1 ELSE 0) >= ap.ssn

\* The buffers that the frame under way, an EAPOL reply (messages 4 and 2), an
\* ADDBA request, a deauthentication and the frames of fixed size that scanning
\* and the firmware's download send take now.
Buffers ==
    {DataSkb(net.ht, out.prot, len) : len \in PayLens}
      \cup {DataSkb(net.ht, FALSE, len) : len \in {99, 121}}
      \cup {MgmtSkb(33), MgmtSkb(26)} \cup FixedSkbs

\* Every buffer handed to the driver has its descriptor inside, is filled to
\* the size txDataFrame or txMgmtFrame computed for it, and keeps the slack of
\* alloc_skb: no skb_put went past what was asked for (line 2925).
SkbExact ==
    \A b \in {skb_push(f, TxDesc) : f \in Buffers} :
        /\ skb_headroom(b) >= 0 /\ b.len = b.tail - b.data
        /\ skb_tailroom(b) = Slack

\* What the link promises (AuthLink): with lost, repeated and late EAPOL
\* frames it comes up only under the access point's key, never twice under
\* one key, and packet numbers under a key only grow (lines 2503 and 2957).
ProtectedUp == st = "CONNECTED" /\ net.wpa2 /\ ptkConf # NoKey
AL == INSTANCE AuthLink WITH
        up   <- ProtectedUp, key <- IF ProtectedUp THEN ptkConf ELSE NoKey,
        peer <- ap.ptk, void <- overlap \/ crossed
LinkPromise == AL!ASpec
=============================================================================
