-------------------------------- MODULE Bss ---------------------------------
(***************************************************************************)
(* What a beacon tells RTW88IEEE80211, as functions: the RTW88BSS record   *)
(* processScanResult builds from the information elements, the channel     *)
(* width setConnectedChandef picks, the association request, and the list  *)
(* as cmdGetBSSList encodes it and rtw88ctl decodes it.                    *)
(*                                                                         *)
(* A frame is [bssid, ies, rssi, freq]; ies is the sequence of its         *)
(* complete elements, each with its id, its body length len and the fields *)
(* the driver reads.  An SSID and a BSSID are model values.                *)
(***************************************************************************)
EXTENDS Integers, SequencesExt

CONSTANTS
    IesCap,     \* sizeof(RTW88BSS::ies), 512
    Inband,     \* the longest reply of cmdGetBSSList, 4095
    NoSsid      \* the empty SSID

ASSUME BssAssumption == IesCap \in Nat /\ Inband \in Nat

-----------------------------------------------------------------------------
(* processScanResult                                                       *)

\* rtw88RsnSelectCcmpPsk: usable only with CCMP and PSK among what is offered;
\* a group cipher that is neither CCMP nor TKIP is taken for CCMP.
RsnSelect(b, e) ==
    IF e.whole /\ "CCMP" \in e.pairwise /\ "PSK" \in e.akm
    THEN [b EXCEPT !.cipher = "CCMP", !.akm = "PSK",
                   !.group = IF e.group \in {"CCMP", "TKIP"} THEN e.group ELSE "CCMP"]
    ELSE b

\* One element.  The DS channel wins over the HT one, RSN over WPA.
ReadIe(b, e) ==
    CASE e.id = "SSID" /\ e.len \in 1 .. 32  -> [b EXCEPT !.ssid = e.ssid, !.ssid_len = e.len]
      [] e.id = "DS" /\ e.len >= 1           -> [b EXCEPT !.channel = e.channel]
      [] e.id = "HT_OP" /\ e.len >= 1 /\ b.channel = 0
                                             -> [b EXCEPT !.channel = e.channel]
      [] e.id = "RSN"                        -> RsnSelect(b, e)
      [] e.id = "WPA" /\ e.len >= 8 /\ b.cipher = "none"
                                             -> [b EXCEPT !.cipher = "TKIP", !.group = "TKIP",
                                                          !.akm = "PSK"]
      [] OTHER                               -> b

\* An element that does not fit in ies is left out; a later one may fit.
KeepIe(b, e) ==
    IF b.ies_len + 2 + e.len < IesCap
    THEN [b EXCEPT !.ies = Append(@, e), !.ies_len = @ + 2 + e.len]
    ELSE b

ChannelOf(freq) ==
    CASE freq = 2484           -> 14
      [] freq \in 2412 .. 2472 -> (freq - 2407) \div 5
      [] freq \in 5000 .. 5900 -> (freq - 5000) \div 5
      [] OTHER                 -> 0

Blank(f) ==
    [bssid |-> f.bssid, ssid |-> NoSsid, ssid_len |-> 0, rssi |-> f.rssi, channel |-> 0,
     cipher |-> "none", group |-> "none", akm |-> "none", ies |-> <<>>, ies_len |-> 0]

\* The record of frame f, but for its last_seen_scan; bss[n] is what the first
\* n elements make of it.
ParseBeacon(f) ==
    LET N == Len(f.ies)
        bss[n \in 0 .. N] ==
            IF n = 0 THEN Blank(f) ELSE KeepIe(ReadIe(bss[n - 1], f.ies[n]), f.ies[n])
    IN [bss[N] EXCEPT !.channel = IF @ = 0 THEN ChannelOf(f.freq) ELSE @]

-----------------------------------------------------------------------------
(* setConnectedChandef, buildAssocReq and the peer station.                *)

\* A chip is [channels, ht, ht40, vht, d723]: ht and ht40 are the bands ("2",
\* "5") whose ht_cap has ht_supported and SUP_WIDTH_20_40.
Band(b) == IF b.channel > 14 THEN "5" ELSE "2"

htAllowed(b) == b.cipher # "TKIP"

Tunable(b, c) == b.channel \in c.channels

Elements(b, id, min) == SelectSeq(b.ies, LAMBDA e : e.id = id /\ e.len >= min)

\* The cached HT operation (the last one, if any) allows 40 MHz.
Allows40(b) ==
    LET ops == Elements(b, "HT_OP", 2)
    IN ops # <<>> /\ Last(ops).staWidth /\ Last(ops).sco \in {1, 3}

Allows80(b) ==
    LET ops == Elements(b, "VHT_OP", 3)
    IN ops # <<>> /\ Last(ops).width = 1 /\ Last(ops).seg0 # 0

Chip40(b, c) ==
    \/ Band(b) \in c.ht40
    \/ Band(b) = "2" /\ (c.d723 \/ "2" \in c.ht)       \* forced
Chip80(b, c) == Band(b) = "5" /\ "5" \in c.ht40 /\ c.vht

\* The two places where setConnectedChandef widens the channel.
Widen40(b, c) == Chip40(b, c) /\ (Allows40(b) \/ (c.d723 /\ Band(b) = "2"))
Widen80(b, c) == Chip80(b, c) /\ Allows80(b)

\* _connChanWidth after setConnectedChandef.
Chandef(b, c) ==
    IF htAllowed(b) /\ Widen80(b, c) THEN 80
    ELSE IF htAllowed(b) /\ Widen40(b, c) THEN 40 ELSE 20

\* The elements that say how wide the station is; the rest of the request
\* (rates, WME, the RSN element of rtw88BuildSelectedRsnIe) follows b.
AssocReq(b, c, w) ==
    [bssid |-> b.bssid,
     ht    |-> htAllowed(b) /\ Band(b) \in c.ht,
     ht40  |-> htAllowed(b) /\ Band(b) \in c.ht /\ Band(b) \in c.ht40 /\ w >= 40,
     vht   |-> htAllowed(b) /\ Band(b) = "5" /\ c.vht,
     rsn   |-> IF b.cipher = "CCMP" THEN IF b.group = "TKIP" THEN "TKIP" ELSE "CCMP"
                                    ELSE "none"]

\* _sta as processAssocResponse fills it in.
PeerSta(b, c, w) ==
    [bssid |-> b.bssid, width |-> w,
     ht40  |-> htAllowed(b) /\ Band(b) \in c.ht40 /\ w >= 40,
     vht   |-> htAllowed(b) /\ Band(b) = "5" /\ c.vht]

-----------------------------------------------------------------------------
(* cmdGetBSSList and rtw88ctl's cmd_list.                                  *)

\* Mutant: the channel byte is not counted.
EntrySizeNoChannel(b) == 1 + b.ssid_len + 6 + 2 + 4

EntrySize(b) == 1 + b.ssid_len + 6 + 2 + 1 + 4

\* The bytes of one entry, and how many they are.
Wire(b) ==
    [ssid_len |-> b.ssid_len, ssid |-> b.ssid, bssid |-> b.bssid,
     hi |-> (b.rssi \div 256) % 256, lo |-> b.rssi % 256,
     channel |-> b.channel % 256, cipher |-> b.cipher]
WireBytes(w) == 1 + w.ssid_len + 6 + 2 + 1 + 4

\* One entry, if it fits; the first that does not is the last one looked at.
PutEntry(r, b, max) ==
    IF r.full \/ r.written + EntrySize(b) > max
    THEN [written |-> r.written, full |-> TRUE, out |-> r.out]
    ELSE [written |-> r.written + WireBytes(Wire(b)), full |-> FALSE,
          out |-> Append(r.out, Wire(b))]

\* The reply to a buffer of len bytes: its length, the length written into its
\* first four bytes, and the entries; put[n] is the buffer after n of them.
cmdGetBSSList(table, len) ==
    LET max == IF len > Inband THEN Inband ELSE len
        N == Len(table)
        put[n \in 0 .. N] ==
            IF n = 0 THEN [written |-> 4, full |-> FALSE, out |-> <<>>]
                     ELSE PutEntry(put[n - 1], table[n], max)
        all == put[N]
    IN IF max < 4 THEN [len |-> 0, total |-> 0, out |-> <<>>]
                  ELSE [len |-> all.written, total |-> all.written, out |-> all.out]

\* An entry as cmd_list prints it.
Row(w) ==
    [ssid |-> w.ssid, bssid |-> w.bssid, channel |-> w.channel,
     rssi |-> LET u == w.hi * 256 + w.lo IN IF u >= 32768 THEN u - 65536 ELSE u,
     security |-> CASE w.cipher = "CCMP" -> "WPA2" [] w.cipher = "TKIP" -> "TKIP"
                    [] OTHER -> "Open"]

\* One entry of the reply, which stops at the first one that is cut short.
TakeEntry(a, w, end) ==
    IF a.cut \/ a.p + 1 > end \/ a.p + WireBytes(w) > end
    THEN [p |-> a.p, cut |-> TRUE, rows |-> a.rows]
    ELSE [p |-> a.p + WireBytes(w), cut |-> FALSE, rows |-> Append(a.rows, Row(w))]

\* cmd_list walks the reply; took[n] is where it stands after n entries.
cmd_list(reply) ==
    LET end == IF reply.len < 4 THEN 0
               ELSE IF reply.total > reply.len THEN reply.len ELSE reply.total
        N == Len(reply.out)
        took[n \in 0 .. N] ==
            IF n = 0 THEN [p |-> 4, cut |-> FALSE, rows |-> <<>>]
                     ELSE TakeEntry(took[n - 1], reply.out[n], end)
    IN took[N].rows

\* A table entry as a user should see it.
AsRow(b) ==
    [ssid |-> b.ssid, bssid |-> b.bssid, channel |-> b.channel, rssi |-> b.rssi,
     security |-> CASE b.cipher = "CCMP" -> "WPA2" [] b.cipher = "TKIP" -> "TKIP"
                    [] OTHER -> "Open"]
=============================================================================
