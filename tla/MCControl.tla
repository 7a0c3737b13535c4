----------------------------- MODULE MCControl ------------------------------
(***************************************************************************)
(* Two access points that share an SSID and are reconfigured between       *)
(* beacons, and two chips.                                                 *)
(***************************************************************************)
EXTENDS Control

CONSTANTS a, b, Home

Ssid(s, n)    == [id |-> "SSID", len |-> n, ssid |-> s]
Ds(c)         == [id |-> "DS", len |-> 1, channel |-> c]
HtOp(c, s)    == [id |-> "HT_OP", len |-> 22, channel |-> c, sco |-> s, staWidth |-> s # 0]
VhtOp(w, s)   == [id |-> "VHT_OP", len |-> 5, width |-> w, seg0 |-> s]
Rsn(g, p, k)  == [id |-> "RSN", len |-> 20, whole |-> TRUE, group |-> g, pairwise |-> p,
                  akm |-> k]
Wpa           == [id |-> "WPA", len |-> 22]
Vendor        == [id |-> "OTHER", len |-> 250]

\* A mixed-mode 2.4 GHz network; the same with WPA or SAE only and no channel
\* element; an 80 MHz network whose HT operation does not fit the cache.
MCBeacon ==
    [ a1 |-> [bssid |-> a, rssi |-> -40, freq |-> 2437,
       ies |-> <<Ssid(Home, 4), Ds(6), Wpa, Rsn("TKIP", {"TKIP", "CCMP"}, {"PSK"}), HtOp(6, 1)>>],
      a2 |-> [bssid |-> a, rssi |-> -41, freq |-> 2437,
       ies |-> <<Ssid(Home, 4), Rsn("CCMP", {"CCMP"}, {"SAE"}), Wpa>>],
      b1 |-> [bssid |-> b, rssi |-> -300, freq |-> 5180,
       ies |-> <<Ssid(Home, 4), Vendor, Rsn("GCMP", {"CCMP"}, {"PSK", "SAE"}), Vendor, HtOp(36, 1),
                 VhtOp(1, 42)>>] ]

Wide == [channels |-> {6, 36}, ht |-> {"2", "5"}, ht40 |-> {"2", "5"}, vht |-> TRUE, d723 |-> FALSE]
Old  == [channels |-> {6}, ht |-> {"2"}, ht40 |-> {}, vht |-> FALSE, d723 |-> FALSE]
D723 == [Old EXCEPT !.d723 = TRUE]
MCChips == {Wide, D723}
=============================================================================
