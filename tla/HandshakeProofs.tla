-------------------------- MODULE HandshakeProofs --------------------------
(***************************************************************************)
(* The handshake and the data path implement AuthLink, for any number of   *)
(* associations, messages and frames, and any packet number.  AirInv says  *)
(* what the messages under way know of the current key, M3Inv what holds   *)
(* between the steps of message 3 as long as no teardown crosses them,     *)
(* TdInv what a teardown leaves, KeyInv what the two ends have, SendInv    *)
(* what the output thread relies on as long as no teardown met it.         *)
(***************************************************************************)
EXTENDS Handshake, WellFoundedInduction, TLAPS

-----------------------------------------------------------------------------
(* The packet number.  Its increment, digit by digit with a carry, is the  *)
(* next number in the order a receiver compares by, for any number of      *)
(* digits of any base; and that order is one.                              *)

\* A nonempty set of numbers has a least one.
LEMMA Least ==
    ASSUME NEW S \in SUBSET Nat, S # {}
    PROVE  \E i \in S : \A k \in S : i <= k
<1> DEFINE R == {ss \in Nat \X Nat : ss[1] < ss[2]}
<1>1. IsWellFoundedOn(R, Nat)
  BY NatLessThanWellFounded DEF OpToRel
<1> HIDE DEF R
<1>2. PICK i \in S : \A k \in S : <<k, i>> \notin R
  BY <1>1, WFMin
<1> USE DEF R
<1>3. \A k \in S : ~(k < i)
  BY <1>2
<1> QED
  BY <1>3

\* A packet number that is not the last has a lowest digit that is not full.
LEMMA LowestFree ==
    ASSUME NEW p \in Pn, ~PnExhausted(p)
    PROVE  \E i \in 1..PnLen : p[i] # PnBase - 1 /\ \A k \in 1..(i-1) : p[k] = PnBase - 1
<1> DEFINE S == {i \in 1..PnLen : p[i] # PnBase - 1}
<1>1. S # {} /\ S \in SUBSET Nat
  BY PnAssumption DEF PnExhausted
<1> HIDE DEF S
<1>2. PICK i \in S : \A k \in S : i <= k
  BY <1>1, Least
<1> USE DEF S
<1>3. \A k \in 1..(i-1) : k \in 1..PnLen /\ k \notin S
  BY <1>2, PnAssumption
<1> QED
  BY <1>2, <1>3

\* The increment stays within the digits.
LEMMA PnIncType == \A p \in Pn : PnInc(p) \in Pn
  BY PnAssumption DEF Pn, PnInc

\* A digit that is not full does not wrap.
LEMMA SmallMod == \A m \in Nat \ {0} : \A x \in 0..m-1 : x % m = x
  OBVIOUS

\* txDataFrame's loop with its carry yields a larger number, except after the
\* last one, from which it starts again.
THEOREM PnGrows ==
    ASSUME NEW p \in Pn, ~PnExhausted(p)
    PROVE  PnInc(p) \in Pn /\ PnLess(p, PnInc(p))
<1>1. PICK i \in 1..PnLen : p[i] # PnBase - 1 /\ \A k \in 1..(i-1) : p[k] = PnBase - 1
  BY LowestFree
<1>2. p[i] \in 0..PnBase-1 /\ (p[i] + 1) % PnBase = p[i] + 1
  <2>1. p[i] \in 0..PnBase-1 /\ p[i] + 1 \in 0..PnBase-1
    BY <1>1, PnAssumption DEF Pn
  <2> QED
    BY <2>1, SmallMod, PnAssumption
<1>3. PnInc(p)[i] = p[i] + 1
  <2>1. PnInc(p)[i] = IF \A k \in 1..(i-1) : p[k] = PnBase - 1
                      THEN (p[i] + 1) % PnBase ELSE p[i]
    BY DEF PnInc
  <2> QED
    BY <1>1, <1>2, <2>1
<1>4. ASSUME NEW k \in (i+1)..PnLen PROVE PnInc(p)[k] = p[k]
  <2>1. k \in 1..PnLen /\ i \in 1..(k-1)
    BY <1>4, PnAssumption
  <2> QED
    BY <1>1, <2>1 DEF PnInc
<1> QED
  BY <1>2, <1>3, <1>4, PnIncType DEF PnLess

\* The order of packet numbers is strict ...
LEMMA PnIrreflexive == \A p \in Pn : ~PnLess(p, p)
  BY PnAssumption DEF Pn, PnLess

\* ... and transitive.
LEMMA PnTransitive ==
    ASSUME NEW p \in Pn, NEW q \in Pn, NEW r \in Pn, PnLess(p, q), PnLess(q, r)
    PROVE  PnLess(p, r)
<1>1. PICK i \in 1..PnLen : p[i] < q[i] /\ \A k \in (i+1)..PnLen : p[k] = q[k]
  BY DEF PnLess
<1>2. PICK j \in 1..PnLen : q[j] < r[j] /\ \A k \in (j+1)..PnLen : q[k] = r[k]
  BY DEF PnLess
<1>3. \A k \in 1..PnLen : p[k] \in Int /\ q[k] \in Int /\ r[k] \in Int
  BY PnAssumption DEF Pn
<1>4. CASE i < j
  <2>1. p[j] < r[j] /\ \A k \in (j+1)..PnLen : p[k] = r[k]
    BY <1>1, <1>2, <1>3, <1>4, PnAssumption
  <2> QED
    BY <2>1 DEF PnLess
<1>5. CASE i >= j
  <2>1. p[i] < r[i] /\ \A k \in (i+1)..PnLen : p[k] = r[k]
    BY <1>1, <1>2, <1>3, <1>5, PnAssumption
  <2> QED
    BY <2>1 DEF PnLess
<1> QED
  BY <1>4, <1>5, PnAssumption

-----------------------------------------------------------------------------
(* The inductive invariant.                                                *)

\* The messages on the air, as either end made them.  A message 3 whose MIC the
\* current PTK passes is the access point's answer in this association: the
\* SNonce in it was drawn last.
MsgOK(m) ==
    /\ m.t \in {"M1", "M2", "M3", "M4"}
    /\ m.t = "M1" => m.nonce \in 1..MaxAssoc
    /\ m.t = "M2" => m.nonce \in 1..nonce
    /\ m.t = "M3" => m.mic \in Keys /\ m.mic[3] <= nonce /\ (m.mic = ptk => ap.ptk = ptk)

AirInv == \A m \in air : MsgOK(m)

\* The message a handler is at was received.
RxMsg ==
    /\ rx = "m1" => rxm \in air /\ rxm.t = "M1"
    /\ rx \in {"m3", "slot", "keyed"} => rxm \in air /\ rxm.t = "M3"

\* A message 3 that no teardown met is handled in HANDSHAKING to its end, under the
\* key it was checked with, which is the access point's.
M3Inv ==
    ~crossed /\ InM3 =>
       /\ st = "HANDSHAKING" /\ ptk \in Keys /\ ap.ptk = ptk
       /\ rx = "slot" => tk = ptk
       /\ rx \in {"keyed", "up"} => ptkConf = ptk

\* The two threads that tear down; a link that came up across a teardown loses its
\* station.
TdInv ==
    /\ td = "deauth" => rx = "idle"
    /\ td = "left" => ~sta
    /\ crossed => ~sta \/ td = "leave"

KeyInv ==
    /\ ptk \in Keys => ptk[3] = nonce
    /\ ap.ph \in {"off", "m1"} => ap.ptk = NoKey
    /\ ap.ph = "m3" => ap.ptk # NoKey
    /\ ap.ptk # NoKey => ap.ptk[3] <= nonce
    /\ ap.ph # "off" => assoc \in 1..MaxAssoc
    /\ \A k \in past \cup ({ptkConf, tk} \cap Keys) : k[3] <= nonce
    /\ st = "HANDSHAKING" => net.wpa2 /\ ptk \notin past
    /\ ConnectedAgrees

SendInv ==
    ~overlap =>
       /\ out.pc # "idle" => /\ st = "CONNECTED" /\ td = "no" /\ sta /\ (out.prot <=> net.wpa2)
       /\ ~crossed =>
             /\ ~ProtectedUp => last = ZeroPn
             /\ ProtectedUp => last = pn \/ PnLess(last, pn)
             /\ out.pc = "give" /\ out.prot => out.pn = pn /\ PnLess(last, pn)
             /\ rx \in {"keyed", "up"} => pn = ZeroPn

\* The types, the flags apart from the numbers, and the shape of the two records.
Flags == {sta, txBa, stray, overlap, crossed, out.prot, out.early} \subseteq BOOLEAN

Values ==
    /\ st \in {"IDLE", "HANDSHAKING", "CONNECTED"} /\ net \in Networks /\ pmk \in Pmks
    /\ ptk \in Keys \cup {ZeroPtk} /\ {gtkConf, ap.ptk} \subseteq Keys \cup {NoKey}
    /\ {ptkConf, tk} \subseteq Keys \cup {NoKey, ZeroPtk}
    /\ pn \in Pn /\ last \in Pn /\ out.pn \in Pn /\ dataSeq \in Nat
    /\ td \in {"no", "leave", "left", "deauth"} /\ past \subseteq Keys
    /\ rx \in {"idle", "m1", "m3", "slot", "keyed", "up", "agg"}
    /\ out.pc \in {"idle", "seal", "give"}
    /\ assoc \in 0..MaxAssoc /\ nonce \in 0..MaxNonce /\ ap.r \in 0..MaxReplay
    /\ rx = "m1" => nonce < MaxNonce

Shapes ==
    /\ out = [pc |-> out.pc, prot |-> out.prot, pn |-> out.pn, sn |-> out.sn,
              early |-> out.early]
    /\ ap = [ph |-> ap.ph, r |-> ap.r, first |-> ap.first, ptk |-> ap.ptk, ba |-> ap.ba,
             ssn |-> ap.ssn]

HInv ==
    Values /\ Flags /\ Shapes /\ AirInv /\ RxMsg /\ M3Inv /\ TdInv /\ KeyInv /\ SendInv

\* A key is a triple, and neither the zeroed one nor an empty slot.
LEMMA KeyShape ==
    /\ NoKey \notin Keys /\ ZeroPtk \notin Keys /\ NoKey # ZeroPtk
    /\ \A k \in Keys : k = <<k[1], k[2], k[3]>> /\ k[3] \in 1..MaxNonce
  BY HBounds DEF Keys, NoKey, ZeroPtk, Pmks

\* The zero packet number is one.
LEMMA ZeroType == ZeroPn \in Pn
  BY PnAssumption DEF ZeroPn, Pn

\* The station starts without a network, a key or a frame.
LEMMA InitHInv == HInit => HInv
<1> SUFFICES ASSUME HInit PROVE HInv
  OBVIOUS
<1>1. Values /\ Shapes
  <2>1. Shapes
    BY DEF HInit, Shapes, OutIdle, ApIdle
  <2>2. out.pc = "idle" /\ out.pn = ZeroPn
    BY DEF HInit, OutIdle
  <2>3. ap.ptk = NoKey /\ ap.r = 0
    BY DEF HInit, ApIdle
  <2> QED
    BY <2>1, <2>2, <2>3, HBounds, ZeroType DEF HInit, Values, Pmks
<1>2. AirInv /\ RxMsg /\ M3Inv /\ TdInv
  BY DEF HInit, AirInv, RxMsg, M3Inv, TdInv, InM3
<1>3. KeyInv
  BY KeyShape DEF HInit, KeyInv, ApIdle, ConnectedAgrees
<1>4. SendInv
  BY DEF HInit, SendInv, OutIdle, ProtectedUp
<1>5. Flags
  BY DEF HInit, Flags, OutIdle
<1> QED
  BY <1>1, <1>2, <1>3, <1>4, <1>5 DEF HInv

\* The types, action by action.
LEMMA StepTypes == HInv /\ [HNext]_hvars => (Values /\ Shapes)'
<1> SUFFICES ASSUME HInv, [HNext]_hvars PROVE (Values /\ Shapes)'
  OBVIOUS
<1> Values /\ Shapes /\ AirInv /\ RxMsg /\ KeyInv
  BY DEF HInv
<1> USE DEF Values, Shapes
<1>1. CASE UNCHANGED hvars
  BY <1>1 DEF hvars
<1>2. ASSUME NEW n \in Networks, NEW p \in Pmks, Connect(n, p) PROVE (Values /\ Shapes)'
  <2>1. Shapes' /\ ap'.ptk = NoKey /\ ap'.r = ap.r /\ out' = out
    BY <1>2 DEF Connect, ApIdle
  <2>2. st' \in {"IDLE", "HANDSHAKING", "CONNECTED"} /\ net' \in Networks /\ pmk' \in Pmks
        /\ rx' \in {"idle", "agg"}
    BY <1>2 DEF Connect, RxFree
  <2>3. dataSeq' \in Nat /\ assoc' \in 0..MaxAssoc
    BY <1>2, HBounds DEF Connect, ReleaseSta
  <2>4. UNCHANGED <<td, tk, past, nonce>> /\ ptk' = ZeroPtk /\ ptkConf' = NoKey
        /\ gtkConf' = NoKey /\ pn' = ZeroPn /\ last' = ZeroPn
    BY <1>2 DEF Connect
  <2> QED
    BY <2>1, <2>2, <2>3, <2>4, ZeroType
<1>3. ASSUME NEW m \in air, RxM1(m) \/ RxM3(m) PROVE (Values /\ Shapes)'
  BY <1>3 DEF RxM1, RxM3, keyvars, histvars
<1>4. CASE RxM1Reply
  <2>1. ptk' \in Keys
    BY <1>4, HBounds DEF RxM1Reply, AirInv, RxMsg, MsgOK, Keys, derivePTK
  <2> QED
    BY <1>4, <2>1, HBounds DEF RxM1Reply, RxDone, Reply, EapolSn, histvars
<1>5. CASE RxM3Slot \/ RxM3NoPtk
  BY <1>5 DEF RxM3Slot, RxM3NoPtk, RxDone, keyvars, histvars
<1>6. CASE RxM3Ptk \/ RxM3NoGtk
  BY <1>6, ZeroType DEF RxM3Ptk, RxM3NoGtk, RxDone, histvars
<1>7. CASE RxM3Answer
  <2>1. rxm.mic \in Keys
    BY <1>7 DEF RxM3Answer, RxMsg, AirInv, MsgOK
  <2>2. gtkConf' \in Keys \cup {NoKey} /\ dataSeq' \in Nat /\ rx' = "up"
    BY <1>7, <2>1 DEF RxM3Answer, Reply, EapolSn
  <2> QED
    BY <1>7, <2>2 DEF RxM3Answer, histvars
<1>8. CASE RxM3Up \/ RxAgg
  BY <1>8 DEF RxM3Up, RxAgg, RxDone, keyvars, histvars
<1>9. ASSUME NEW k \in {"leave", "deauth"}, TdClear(k) PROVE (Values /\ Shapes)'
  BY <1>9, ZeroType DEF TdClear, Overlap, rxvars
<1>10. CASE TdRelease
  BY <1>10 DEF TdRelease, ReleaseSta, Overlap, keyvars, rxvars
<1>11. CASE TdEnd
  BY <1>11, ZeroType DEF TdEnd, Overlap, keyvars, rxvars
<1>12. CASE OutStart
  BY <1>12, ZeroType DEF OutStart, OutIdle, keyvars, rxvars
<1>13. CASE OutSeal
  <2>1. out'.pc = "give" /\ out'.pn \in Pn /\ pn' \in Pn /\ Shapes'
    <3>1. CASE out.prot
      BY <1>13, <3>1, PnIncType DEF OutSeal
    <3>2. CASE ~out.prot
      BY <1>13, <3>2 DEF OutSeal
    <3> QED
      BY <3>1, <3>2
  <2> QED
    BY <1>13, <2>1 DEF OutSeal, histvars, rxvars
<1>14. CASE OutDrop \/ OutGive
  BY <1>14, ZeroType DEF OutDrop, OutGive, OutIdle, keyvars, histvars, rxvars
<1>15. CASE RxAddbaResp \/ RxDelba
  BY <1>15 DEF RxAddbaResp, RxDelba, keyvars, histvars, rxvars
<1>16. CASE ApM1 \/ ApM3 \/ ApDeauth \/ ApDelba
  BY <1>16, HBounds DEF ApM1, ApM3, ApDeauth, ApDelba, ApSend, ApOnly, keyvars, histvars, rxvars
<1>17. ASSUME NEW m \in air, ApM2(m) \/ ApM4(m) PROVE (Values /\ Shapes)'
  <2>1. CASE ApM2(m)
    <3>1. derivePTK("right", assoc, m.nonce) \in Keys
      BY <2>1, HBounds DEF ApM2, AirInv, MsgOK, KeyInv, Keys, Pmks, derivePTK
    <3>2. ap'.ptk = derivePTK("right", assoc, m.nonce) /\ ap'.r \in 0..MaxReplay /\ Shapes'
      <4>1. ap' = [ap EXCEPT !.ph = "m3", !.ptk = derivePTK("right", assoc, m.nonce), !.r = @ + 1]
            /\ ap.r < MaxReplay
        BY <2>1 DEF ApM2
      <4>2. ap'.ptk = derivePTK("right", assoc, m.nonce) /\ ap'.r = ap.r + 1
        BY <4>1
      <4>3. Shapes'
        <5>1. out' = out
          BY <2>1 DEF ApM2, ApOnly
        <5> QED
          BY <4>1, <5>1
      <4> QED
        BY <4>1, <4>2, <4>3, HBounds
    <3> QED
      BY <2>1, <3>1, <3>2 DEF ApM2, ApOnly, keyvars, histvars, rxvars
  <2>2. CASE ApM4(m)
    BY <2>2 DEF ApM4, ApOnly, keyvars, histvars, rxvars
  <2> QED
    BY <1>17, <2>1, <2>2
<1>18. ASSUME NEW m \in act, ApAddba(m) PROVE (Values /\ Shapes)'
  BY <1>18 DEF ApAddba, ApOnly, keyvars, histvars, rxvars
<1> QED
  BY <1>1, <1>2, <1>3, <1>4, <1>5, <1>6, <1>7, <1>8, <1>9, <1>10, <1>11, <1>12, <1>13, <1>14,
     <1>15, <1>16, <1>17, <1>18 DEF HNext

\* The flags, apart from the numbers.
LEMMA StepFlags == Flags /\ Shapes /\ [HNext]_hvars => Flags'
<1> SUFFICES ASSUME Flags, Shapes, [HNext]_hvars PROVE Flags'
  OBVIOUS
<1> USE DEF Flags, Shapes
<1>1. CASE UNCHANGED hvars
  BY <1>1 DEF hvars
<1>2. ASSUME NEW n \in Networks, NEW p \in Pmks, Connect(n, p) PROVE Flags'
  BY <1>2 DEF Connect, ReleaseSta, bavars
<1>3. ASSUME NEW m \in air, RxM1(m) \/ RxM3(m) PROVE Flags'
  BY <1>3 DEF RxM1, RxM3, histvars, bavars
<1>4. CASE RxM1Reply \/ RxM3Slot \/ RxM3NoPtk \/ RxM3Ptk \/ RxM3NoGtk
  BY <1>4 DEF RxM1Reply, RxM3Slot, RxM3NoPtk, RxM3Ptk, RxM3NoGtk, histvars, bavars
<1>5. CASE RxM3Answer \/ RxM3Up \/ RxAgg
  BY <1>5 DEF RxM3Answer, RxM3Up, RxAgg, histvars, bavars
<1>6. ASSUME NEW k \in {"leave", "deauth"}, TdClear(k) PROVE Flags'
  BY <1>6 DEF TdClear, Overlap, bavars
<1>7. CASE TdRelease
  BY <1>7 DEF TdRelease, ReleaseSta, Overlap, bavars
<1>8. CASE TdEnd
  BY <1>8 DEF TdEnd, Overlap, bavars
<1>9. CASE OutStart
  <2>1. out'.prot \in BOOLEAN /\ out'.early \in BOOLEAN /\ overlap' \in BOOLEAN
        /\ UNCHANGED <<sta, txBa, stray, crossed>>
    BY <1>9 DEF OutStart, OutIdle, bavars
  <2> QED
    BY <2>1
<1>10. CASE OutSeal
  <2>1. out'.prot = out.prot /\ out'.early \in BOOLEAN
    BY <1>10 DEF OutSeal
  <2> QED
    BY <1>10, <2>1 DEF OutSeal, histvars, bavars
<1>11. CASE OutDrop \/ OutGive
  <2>1. out' = OutIdle /\ UNCHANGED <<sta, txBa, stray, overlap, crossed>>
    BY <1>11 DEF OutDrop, OutGive, histvars, bavars
  <2> QED
    BY <2>1 DEF OutIdle
<1>12. CASE RxAddbaResp \/ RxDelba
  BY <1>12 DEF RxAddbaResp, RxDelba, histvars
<1>13. CASE ApM1 \/ ApM3 \/ ApDeauth \/ ApDelba
  BY <1>13 DEF ApM1, ApM3, ApDeauth, ApDelba, ApOnly, histvars, bavars
<1>14. ASSUME NEW m \in air, ApM2(m) \/ ApM4(m) PROVE Flags'
  BY <1>14 DEF ApM2, ApM4, ApOnly, histvars, bavars
<1>15. ASSUME NEW m \in act, ApAddba(m) PROVE Flags'
  BY <1>15 DEF ApAddba, ApOnly, histvars, bavars
<1> QED
  BY <1>1, <1>2, <1>3, <1>4, <1>5, <1>6, <1>7, <1>8, <1>9, <1>10, <1>11, <1>12, <1>13, <1>14,
     <1>15 DEF HNext

-----------------------------------------------------------------------------
\* The messages stay what they were while keys and nonces do not change.
LEMMA SameAir ==
    ASSUME AirInv, UNCHANGED <<ptk, nonce>>, ap'.ptk = ap.ptk,
           NEW m, MsgOK(m)
    PROVE  MsgOK(m)'
  BY DEF MsgOK

\* Message 1 is answered under a new nonce, so no message 3 on the air passes.
LEMMA StepAir == HInv /\ [HNext]_hvars => AirInv'
<1> SUFFICES ASSUME HInv, [HNext]_hvars PROVE AirInv'
  OBVIOUS
<1> Values /\ Shapes /\ AirInv /\ RxMsg /\ KeyInv
  BY DEF HInv
<1> DEFINE Still == UNCHANGED <<air, ptk, nonce>> /\ ap'.ptk = ap.ptk
<1>0. Still => AirInv'
  BY SameAir DEF AirInv
<1>1. CASE UNCHANGED hvars
  BY <1>1, <1>0 DEF hvars
<1>2. ASSUME NEW n \in Networks, NEW p \in Pmks, Connect(n, p) PROVE AirInv'
  BY <1>2, KeyShape DEF Connect, AirInv, MsgOK
<1>3. ASSUME NEW m \in air, RxM1(m) \/ RxM3(m) PROVE AirInv'
  BY <1>3, <1>0 DEF RxM1, RxM3, keyvars
<1>4. CASE RxM1Reply
  <2>1. nonce \in Nat /\ nonce' = nonce + 1 /\ ptk'[3] = nonce + 1 /\ ap' = ap
    BY <1>4, HBounds DEF RxM1Reply, Values, derivePTK
  <2>2. ASSUME NEW x \in air PROVE MsgOK(x)'
    BY <2>1, <2>2, KeyShape DEF AirInv, MsgOK
  <2>3. \A x \in air' : x \in air \/ (x.t = "M2" /\ x.nonce = nonce')
    BY <1>4 DEF RxM1Reply, Reply
  <2>4. ASSUME NEW x \in air', x.t = "M2", x.nonce = nonce' PROVE MsgOK(x)'
    BY <2>1, <2>4 DEF MsgOK
  <2> QED
    BY <2>2, <2>3, <2>4 DEF AirInv
<1>5. CASE RxM3Slot \/ RxM3NoPtk \/ RxM3Ptk \/ RxM3NoGtk \/ RxM3Up \/ RxAgg
  BY <1>5, <1>0 DEF RxM3Slot, RxM3NoPtk, RxM3Ptk, RxM3NoGtk, RxM3Up, RxAgg, keyvars
<1>6. CASE RxM3Answer
  <2>1. UNCHANGED <<ptk, nonce, ap>>
    BY <1>6 DEF RxM3Answer
  <2>2. \A x \in air' : x \in air \/ x.t = "M4"
    BY <1>6 DEF RxM3Answer, Reply
  <2>3. \A x : x.t = "M4" => MsgOK(x)'
    BY DEF MsgOK
  <2> QED
    BY <2>1, <2>2, <2>3, SameAir DEF AirInv
<1>7. ASSUME NEW k \in {"leave", "deauth"}, TdClear(k) PROVE AirInv'
  BY <1>7, KeyShape DEF TdClear, AirInv, MsgOK
<1>8. CASE TdRelease \/ TdEnd
  BY <1>8, <1>0 DEF TdRelease, TdEnd, keyvars
<1>9. CASE OutStart \/ OutSeal \/ OutDrop \/ OutGive
  BY <1>9, <1>0 DEF OutStart, OutSeal, OutDrop, OutGive, keyvars
<1>10. CASE RxAddbaResp \/ RxDelba
  BY <1>10, <1>0 DEF RxAddbaResp, RxDelba, keyvars
<1>11. CASE ApM1 \/ ApM3
  <2>1. UNCHANGED <<ptk, nonce>> /\ ap'.ptk = ap.ptk
    BY <1>11 DEF ApM1, ApM3, ApSend, ApOnly, keyvars, Shapes
  <2>2. ASSUME NEW x \in air', x \notin air PROVE MsgOK(x)'
    <3>1. CASE ApM1
      <4>1. x.t = "M1" /\ x.nonce = assoc /\ assoc \in 1..MaxAssoc
        BY <2>2, <3>1 DEF ApM1, ApSend, KeyInv
      <4> QED
        BY <4>1 DEF MsgOK
    <3>2. CASE ApM3
      <4>1. x.t = "M3" /\ x.mic = ap.ptk
        BY <2>2, <3>2 DEF ApM3, ApSend
      <4>2. ap.ptk \in Keys /\ ap.ptk[3] <= nonce
        BY <3>2 DEF ApM3, KeyInv, Values
      <4> QED
        BY <2>1, <4>1, <4>2 DEF MsgOK
    <3> QED
      BY <1>11, <3>1, <3>2
  <2> QED
    BY <2>1, <2>2, SameAir DEF AirInv
<1>12. CASE ApDeauth \/ ApDelba
  BY <1>12, <1>0 DEF ApDeauth, ApDelba, ApOnly, keyvars, Shapes
<1>13. ASSUME NEW m \in air, ApM2(m) PROVE AirInv'
  <2> DEFINE key == derivePTK("right", assoc, m.nonce)
  <2>1. ap'.ptk = key /\ ap.ptk = NoKey /\ UNCHANGED <<ptk, nonce>>
    BY <1>13 DEF ApM2, ApOnly, keyvars, KeyInv, Shapes
  <2>2. key \in Keys /\ key[3] <= nonce
    BY <1>13, HBounds DEF ApM2, AirInv, MsgOK, KeyInv, Values, Keys, Pmks, derivePTK
  <2>3. \A x \in air' : x \in air \/ (x.t = "M3" /\ x.mic = key)
    BY <1>13 DEF ApM2
  <2> HIDE DEF key
  <2>4. ASSUME NEW x \in air PROVE MsgOK(x)'
    BY <2>1, <2>4, KeyShape DEF AirInv, MsgOK
  <2>5. ASSUME NEW x \in air', x.t = "M3", x.mic = key PROVE MsgOK(x)'
    BY <2>1, <2>2, <2>5 DEF MsgOK
  <2> QED
    BY <2>3, <2>4, <2>5 DEF AirInv
<1>14. ASSUME NEW m \in air, ApM4(m) PROVE AirInv'
  BY <1>14, <1>0 DEF ApM4, ApOnly, keyvars, Shapes
<1>15. ASSUME NEW m \in act, ApAddba(m) PROVE AirInv'
  BY <1>15, <1>0 DEF ApAddba, ApOnly, keyvars, Shapes
<1> QED
  BY <1>1, <1>2, <1>3, <1>4, <1>5, <1>6, <1>7, <1>8, <1>9, <1>10, <1>11, <1>12, <1>13, <1>14,
     <1>15 DEF HNext

\* What is on the air stays there, so the message a handler is at was received.
LEMMA StepMsg == RxMsg /\ [HNext]_hvars => RxMsg'
<1> SUFFICES ASSUME RxMsg, [HNext]_hvars PROVE RxMsg'
  OBVIOUS
<1> USE DEF RxMsg
<1>1. CASE UNCHANGED hvars
  BY <1>1 DEF hvars
<1>2. ASSUME NEW n \in Networks, NEW p \in Pmks, Connect(n, p) PROVE RxMsg'
  BY <1>2 DEF Connect, RxFree
<1>3. ASSUME NEW m \in air, RxM1(m) \/ RxM3(m) PROVE RxMsg'
  BY <1>3 DEF RxM1, RxM3, M3Good
<1>4. CASE RxM1Reply \/ RxM3NoPtk \/ RxM3NoGtk \/ RxAgg
  BY <1>4 DEF RxM1Reply, RxM3NoPtk, RxM3NoGtk, RxAgg, RxDone
<1>5. CASE RxM3Slot \/ RxM3Ptk \/ RxM3Answer \/ RxM3Up
  BY <1>5 DEF RxM3Slot, RxM3Ptk, RxM3Answer, RxM3Up
<1>6. ASSUME NEW k \in {"leave", "deauth"}, TdClear(k) PROVE RxMsg'
  BY <1>6 DEF TdClear, rxvars
<1>7. CASE TdRelease \/ TdEnd
  BY <1>7 DEF TdRelease, TdEnd, rxvars
<1>8. CASE OutStart \/ OutSeal \/ OutDrop \/ OutGive
  BY <1>8 DEF OutStart, OutSeal, OutDrop, OutGive, rxvars
<1>9. CASE RxAddbaResp \/ RxDelba
  BY <1>9 DEF RxAddbaResp, RxDelba, rxvars
<1>10. CASE ApM1 \/ ApM3 \/ ApDeauth \/ ApDelba
  BY <1>10 DEF ApM1, ApM3, ApDeauth, ApDelba, ApSend, ApOnly, rxvars
<1>11. ASSUME NEW m \in air, ApM2(m) \/ ApM4(m) PROVE RxMsg'
  BY <1>11 DEF ApM2, ApM4, ApOnly, rxvars
<1>12. ASSUME NEW m \in act, ApAddba(m) PROVE RxMsg'
  BY <1>12 DEF ApAddba, ApOnly, rxvars
<1> QED
  BY <1>1, <1>2, <1>3, <1>4, <1>5, <1>6, <1>7, <1>8, <1>9, <1>10, <1>11, <1>12 DEF HNext

\* A message 3 is handled to its end under the key of its MIC, unless a teardown
\* crosses it (handleEAPOL, lines 2531 to 2577).
LEMMA StepM3 == HInv /\ [HNext]_hvars => M3Inv'
<1> SUFFICES ASSUME HInv, [HNext]_hvars PROVE M3Inv'
  OBVIOUS
<1> Values /\ Flags /\ Shapes /\ AirInv /\ M3Inv /\ KeyInv
  BY DEF HInv
<1> USE DEF M3Inv, InM3
<1> DEFINE Still == UNCHANGED <<crossed, rx, tk, st, ptk, ptkConf>> /\ ap'.ptk = ap.ptk
<1>0. Still => M3Inv'
  OBVIOUS
<1>1. CASE UNCHANGED hvars
  BY <1>1, <1>0 DEF hvars
<1>2. ASSUME NEW n \in Networks, NEW p \in Pmks, Connect(n, p) PROVE M3Inv'
  BY <1>2 DEF Connect, RxFree
<1>3. ASSUME NEW m \in air, RxM1(m) PROVE M3Inv'
  BY <1>3 DEF RxM1
<1>4. ASSUME NEW m \in air, RxM3(m) PROVE M3Inv'
  <2>1. m.mic = ptk /\ m.mic \in Keys /\ ap.ptk = ptk
    BY <1>4 DEF RxM3, M3Good, MicOk, AirInv, MsgOK
  <2> QED
    BY <1>4, <2>1 DEF RxM3, keyvars
<1>5. CASE RxM1Reply \/ RxM3NoPtk \/ RxM3NoGtk \/ RxAgg
  BY <1>5 DEF RxM1Reply, RxM3NoPtk, RxM3NoGtk, RxAgg, RxDone
<1>6. CASE RxM3Slot
  BY <1>6 DEF RxM3Slot, histvars
<1>7. CASE RxM3Ptk
  BY <1>7 DEF RxM3Ptk, histvars
<1>8. CASE RxM3Answer
  BY <1>8 DEF RxM3Answer, histvars
<1>9. CASE RxM3Up
  BY <1>9 DEF RxM3Up
<1>10. ASSUME NEW k \in {"leave", "deauth"}, TdClear(k) PROVE M3Inv'
  BY <1>10 DEF TdClear, Overlap, rxvars
<1>11. CASE TdRelease \/ TdEnd
  BY <1>11 DEF TdRelease, TdEnd, Overlap, rxvars
<1>12. CASE OutStart \/ OutSeal \/ OutDrop \/ OutGive
  BY <1>12, <1>0 DEF OutStart, OutSeal, OutDrop, OutGive, keyvars, histvars, rxvars
<1>13. CASE RxAddbaResp \/ RxDelba
  BY <1>13, <1>0 DEF RxAddbaResp, RxDelba, keyvars, histvars, rxvars
<1>14. CASE ApM1 \/ ApM3 \/ ApDeauth \/ ApDelba
  <2>1. ap'.ptk = ap.ptk
    BY <1>14 DEF ApM1, ApM3, ApDeauth, ApDelba, ApSend, Shapes
  <2> QED
    BY <1>14, <2>1, <1>0 DEF ApM1, ApM3, ApDeauth, ApDelba, ApOnly, keyvars, histvars, rxvars
<1>15. ASSUME NEW m \in air, ApM2(m) PROVE M3Inv'
  <2>1. ap.ptk = NoKey /\ UNCHANGED <<crossed, rx>>
    BY <1>15 DEF ApM2, ApOnly, KeyInv, histvars, rxvars
  <2> QED
    BY <2>1, KeyShape
<1>16. ASSUME NEW m \in air, ApM4(m) PROVE M3Inv'
  <2>1. ap'.ptk = ap.ptk
    BY <1>16 DEF ApM4, Shapes
  <2> QED
    BY <1>16, <2>1, <1>0 DEF ApM4, ApOnly, keyvars, histvars, rxvars
<1>17. ASSUME NEW m \in act, ApAddba(m) PROVE M3Inv'
  <2>1. ap'.ptk = ap.ptk
    BY <1>17 DEF ApAddba, Shapes
  <2> QED
    BY <1>17, <2>1, <1>0 DEF ApAddba, ApOnly, keyvars, histvars, rxvars
<1> QED
  BY <1>1, <1>2, <1>3, <1>4, <1>5, <1>6, <1>7, <1>8, <1>9, <1>10, <1>11, <1>12, <1>13, <1>14,
     <1>15, <1>16, <1>17 DEF HNext

\* A teardown that crosses message 3 takes the station away before it is over.
LEMMA StepTd == HInv /\ [HNext]_hvars => TdInv'
<1> SUFFICES ASSUME HInv, [HNext]_hvars PROVE TdInv'
  OBVIOUS
<1> Values /\ Flags /\ TdInv
  BY DEF HInv
<1> USE DEF TdInv
<1> DEFINE Still == UNCHANGED <<td, sta, crossed>> /\ (td = "deauth" => rx' = rx)
<1>0. Still => TdInv'
  OBVIOUS
<1>1. CASE UNCHANGED hvars
  BY <1>1, <1>0 DEF hvars
<1>2. ASSUME NEW n \in Networks, NEW p \in Pmks, Connect(n, p) PROVE TdInv'
  BY <1>2 DEF Connect
<1>3. ASSUME NEW m \in air, RxM1(m) \/ RxM3(m) PROVE TdInv'
  BY <1>3, <1>0 DEF RxM1, RxM3, RxFree, histvars
<1>4. CASE RxM1Reply \/ RxM3NoPtk \/ RxM3NoGtk \/ RxAgg
  BY <1>4 DEF RxM1Reply, RxM3NoPtk, RxM3NoGtk, RxAgg, RxDone, histvars
<1>5. CASE RxM3Slot \/ RxM3Ptk \/ RxM3Answer \/ RxM3Up
  BY <1>5, <1>0 DEF RxM3Slot, RxM3Ptk, RxM3Answer, RxM3Up, histvars
<1>6. ASSUME NEW k \in {"leave", "deauth"}, TdClear(k) PROVE TdInv'
  <2>1. CASE k = "leave"
    BY <1>6, <2>1 DEF TdClear
  <2>2. CASE k = "deauth"
    <3>1. td = "no" /\ rx = "idle" /\ UNCHANGED <<rx, sta>> /\ (crossed' => crossed)
      BY <1>6, <2>2 DEF TdClear, RxFree, Overlap, InM3, rxvars
    <3>2. td' = "deauth"
      BY <1>6, <2>2 DEF TdClear
    <3> QED
      BY <3>1, <3>2
  <2> QED
    BY <2>1, <2>2
<1>7. CASE TdRelease
  BY <1>7 DEF TdRelease
<1>8. CASE TdEnd
  <2>1. td' = "no" /\ sta' = sta /\ (td = "left" \/ td = "deauth")
        /\ (crossed' => crossed \/ InM3)
    BY <1>8 DEF TdEnd, Overlap
  <2> QED
    BY <2>1 DEF InM3
<1>9. CASE OutStart \/ OutSeal \/ OutDrop \/ OutGive
  BY <1>9, <1>0 DEF OutStart, OutSeal, OutDrop, OutGive, histvars, rxvars
<1>10. CASE RxAddbaResp \/ RxDelba
  BY <1>10, <1>0 DEF RxAddbaResp, RxDelba, histvars, rxvars
<1>11. CASE ApM1 \/ ApM3 \/ ApDeauth \/ ApDelba
  BY <1>11, <1>0 DEF ApM1, ApM3, ApDeauth, ApDelba, ApOnly, histvars, rxvars
<1>12. ASSUME NEW m \in air, ApM2(m) \/ ApM4(m) PROVE TdInv'
  BY <1>12, <1>0 DEF ApM2, ApM4, ApOnly, histvars, rxvars
<1>13. ASSUME NEW m \in act, ApAddba(m) PROVE TdInv'
  BY <1>13, <1>0 DEF ApAddba, ApOnly, histvars, rxvars
<1> QED
  BY <1>1, <1>2, <1>3, <1>4, <1>5, <1>6, <1>7, <1>8, <1>9, <1>10, <1>11, <1>12, <1>13 DEF HNext

\* What both ends hold: the station is up under the access point's key only, and
\* under a key that had not served before.
LEMMA StepKeys == HInv /\ [HNext]_hvars => KeyInv'
<1> SUFFICES ASSUME HInv, [HNext]_hvars PROVE KeyInv'
  OBVIOUS
<1> Values /\ Flags /\ Shapes /\ AirInv /\ M3Inv /\ TdInv /\ KeyInv
  BY DEF HInv
<1> USE DEF KeyInv, ConnectedAgrees
<1> DEFINE Still == /\ UNCHANGED <<ptk, nonce, assoc, past, st, net, td, ptkConf, tk, crossed, sta>>
                    /\ ap'.ptk = ap.ptk
<1>1. CASE UNCHANGED hvars
  BY <1>1 DEF hvars
<1>2. ASSUME NEW n \in Networks, NEW p \in Pmks, Connect(n, p) PROVE KeyInv'
  <2>1. ap'.ptk = NoKey /\ ap'.ph # "m3" /\ assoc' \in 1..MaxAssoc
    BY <1>2, HBounds DEF Connect, ApIdle, Values
  <2>2. ptk' = ZeroPtk /\ ZeroPtk \notin past /\ ZeroPtk \notin Keys /\ UNCHANGED <<past, nonce>>
    BY <1>2, KeyShape DEF Connect, Values
  <2>3. ptkConf' = NoKey /\ tk' = tk /\ NoKey \notin Keys
    BY <1>2, KeyShape DEF Connect
  <2>4. \/ st' = "HANDSHAKING" /\ net'.wpa2
        \/ st' = "CONNECTED" /\ ~net'.wpa2
    BY <1>2 DEF Connect
  <2>5. ap'.ph # "off" /\ ap'.ph \notin {"m3"}
    BY <1>2 DEF Connect, ApIdle
  <2>6. \A k \in (past \cup ({ptkConf, tk} \cap Keys))' : k[3] <= nonce'
    BY <2>2, <2>3
  <2> QED
    BY <2>1, <2>2, <2>4, <2>5, <2>6
<1>3. ASSUME NEW m \in air, RxM1(m) \/ RxM3(m) PROVE KeyInv'
  BY <1>3 DEF RxM1, RxM3, keyvars, histvars, rxvars
<1>4. CASE RxM1Reply
  <2>1. nonce \in Nat /\ nonce' = nonce + 1 /\ ptk'[3] = nonce + 1
        /\ UNCHANGED <<ap, assoc, past, st, net, td, ptkConf, crossed, sta>> /\ tk' = NoKey
    BY <1>4, HBounds DEF RxM1Reply, RxDone, Values, derivePTK, histvars
  <2>2. \A k \in past \cup ({ptkConf} \cap Keys) : k[3] \in Int
    BY KeyShape DEF Values
  <2>3. ap.ptk # NoKey => ap.ptk[3] \in Int
    BY KeyShape DEF Values
  <2>4. ptk' \notin past
    BY <2>1, <2>2
  <2>5. \A k \in (past \cup ({ptkConf, tk} \cap Keys))' : k[3] <= nonce'
    BY <2>1, <2>2, KeyShape
  <2> QED
    BY <2>1, <2>3, <2>4, <2>5
<1>5. CASE RxM3Slot \/ RxM3Ptk
  <2>1. UNCHANGED <<ptk, nonce, assoc, past, st, net, td, ap, crossed, sta>> /\ InM3
        /\ {ptkConf', tk'} \subseteq {ptkConf, ptk, tk, NoKey}
    BY <1>5 DEF RxM3Slot, RxM3Ptk, InM3, histvars
  <2>2. \A k \in (past \cup ({ptkConf, tk} \cap Keys))' : k[3] <= nonce'
    BY <2>1, KeyShape, HBounds DEF Values
  <2>3. ConnectedAgrees'
    BY <2>1 DEF M3Inv, TdInv
  <2> QED
    BY <2>1, <2>2, <2>3
<1>6. CASE RxM3NoPtk \/ RxM3NoGtk \/ RxM3Answer \/ RxAgg
  <2>1. UNCHANGED <<ptk, nonce, assoc, past, st, net, td, ptkConf, crossed, sta, ap>>
        /\ tk' \in {tk, NoKey}
    BY <1>6 DEF RxM3NoPtk, RxM3NoGtk, RxM3Answer, RxAgg, RxDone, keyvars, histvars, rxvars
  <2> QED
    BY <2>1, KeyShape
<1>7. CASE RxM3Up
  <2>1. UNCHANGED <<ptk, nonce, assoc, net, td, ap, crossed, sta, ptkConf, tk>> /\ InM3 /\ rx = "up"
        /\ st' = "CONNECTED" /\ past' = past \cup ({ptkConf} \cap Keys)
    BY <1>7 DEF RxM3Up, InM3, keyvars
  <2>2. CASE crossed
    <3>1. td = "no" => ~sta
      BY <2>2 DEF TdInv
    <3> QED
      BY <2>1, <2>2, <3>1
  <2>3. CASE ~crossed
    <3>1. ptkConf = ptk /\ ptk \in Keys /\ ap.ptk = ptk /\ ptk[3] = nonce /\ nonce \in Nat
      BY <2>1, <2>3, HBounds DEF M3Inv, Values
    <3> QED
      BY <2>1, <2>3, <3>1
  <2> QED
    BY <2>2, <2>3
<1>8. ASSUME NEW k \in {"leave", "deauth"}, TdClear(k) PROVE KeyInv'
  BY <1>8, KeyShape DEF TdClear, Values, rxvars
<1>9. CASE TdRelease
  BY <1>9 DEF TdRelease, keyvars, rxvars
<1>10. CASE TdEnd
  BY <1>10 DEF TdEnd, keyvars, rxvars
<1>11. CASE OutStart \/ OutSeal \/ OutDrop \/ OutGive
  BY <1>11 DEF OutStart, OutSeal, OutDrop, OutGive, keyvars, histvars, rxvars
<1>12. CASE RxAddbaResp \/ RxDelba
  BY <1>12 DEF RxAddbaResp, RxDelba, keyvars, histvars, rxvars
<1>13. CASE ApM1 \/ ApM3 \/ ApDeauth \/ ApDelba
  <2>1. Still
    BY <1>13 DEF ApM1, ApM3, ApDeauth, ApDelba, ApSend, ApOnly, keyvars, histvars, rxvars, Shapes
  <2>2. ap'.ph = ap.ph \/ (ap.ph # "off" /\ ap'.ph = "gone")
    BY <1>13 DEF ApM1, ApM3, ApDeauth, ApDelba, ApSend, Shapes
  <2> QED
    BY <2>1, <2>2
<1>14. ASSUME NEW m \in air, ApM2(m) PROVE KeyInv'
  <2> DEFINE key == derivePTK("right", assoc, m.nonce)
  <2>1. ap.ph = "m1" /\ ap'.ph = "m3" /\ ap'.ptk = key
        /\ UNCHANGED <<ptk, nonce, assoc, past, st, net, td, ptkConf, tk, crossed, sta>>
    BY <1>14 DEF ApM2, ApOnly, keyvars, histvars, rxvars, Shapes
  <2>2. key \in Keys /\ key[3] <= nonce
    BY <1>14, HBounds DEF ApM2, AirInv, MsgOK, Values, Keys, Pmks, derivePTK
  <2> HIDE DEF key
  <2>3. ~(st = "CONNECTED" /\ net.wpa2 /\ td = "no" /\ ~crossed)
    BY <2>1, KeyShape DEF Values
  <2> QED
    BY <2>1, <2>2, <2>3, KeyShape
<1>15. ASSUME NEW m \in air, ApM4(m) PROVE KeyInv'
  BY <1>15 DEF ApM4, ApOnly, keyvars, histvars, rxvars, Shapes
<1>16. ASSUME NEW m \in act, ApAddba(m) PROVE KeyInv'
  BY <1>16 DEF ApAddba, ApOnly, keyvars, histvars, rxvars, Shapes
<1> QED
  BY <1>1, <1>2, <1>3, <1>4, <1>5, <1>6, <1>7, <1>8, <1>9, <1>10, <1>11, <1>12, <1>13, <1>14,
     <1>15, <1>16 DEF HNext

\* Connected without a teardown under way, a WPA2 link has a key, unless a teardown
\* crossed message 3.
LEMMA UpHasKey ==
    ASSUME Values, KeyInv, st = "CONNECTED", td = "no", net.wpa2, ~crossed
    PROVE  ProtectedUp /\ ptkConf \in Keys
  BY KeyShape DEF Values, KeyInv, ConnectedAgrees, ProtectedUp

\* With a station and no teardown under way, none has crossed message 3.
LEMMA NotCrossed ==
    ASSUME Flags, TdInv, sta, td = "no"
    PROVE  ~crossed
  BY DEF Flags, TdInv

\* The output thread's steps: the frame it has under way goes out on the link it
\* was made for, with a number greater than the last one.
LEMMA StepOut ==
    ASSUME HInv, OutStart \/ OutSeal \/ OutDrop \/ OutGive, ~overlap'
    PROVE  SendInv'
<1> Values /\ Flags /\ Shapes /\ TdInv /\ M3Inv /\ KeyInv /\ SendInv
  BY DEF HInv
<1> DEFINE Same == UNCHANGED <<st, td, sta, net, ptkConf, crossed, rx>>
<1>0. Same /\ ~overlap
  <2>1. CASE OutStart
    BY <2>1 DEF OutStart, keyvars, rxvars
  <2>2. CASE OutSeal \/ OutDrop \/ OutGive
    BY <2>2 DEF OutSeal, OutDrop, OutGive, keyvars, histvars, rxvars
  <2> QED
    BY <2>1, <2>2
<1>1. CASE OutStart
  <2>1. td = "no" /\ st = "CONNECTED" /\ sta /\ UNCHANGED <<pn, last>>
    BY <1>1 DEF OutStart, Connected, keyvars
  <2>2. out'.pc = "seal" /\ (out'.prot <=> net.wpa2 /\ ptkConf # NoKey)
    BY <1>1 DEF OutStart, OutIdle
  <2>3. out'.prot <=> net.wpa2
    BY <2>1, <2>2, UpHasKey, NotCrossed DEF ProtectedUp
  <2> QED
    BY <1>0, <2>1, <2>2, <2>3 DEF SendInv, ProtectedUp
<1>2. ASSUME OutSeal \/ OutGive
      PROVE  /\ st = "CONNECTED" /\ td = "no" /\ sta /\ ~crossed /\ (out.prot <=> net.wpa2)
             /\ rx \notin {"keyed", "up"} /\ (net.wpa2 => ProtectedUp)
  <2>1. out.pc # "idle"
    BY <1>2 DEF OutSeal, OutGive
  <2>2. st = "CONNECTED" /\ td = "no" /\ sta /\ (out.prot <=> net.wpa2)
    BY <1>0, <2>1 DEF SendInv
  <2>3. ~crossed
    BY <2>2, NotCrossed
  <2>4. rx \notin {"keyed", "up"}
    BY <2>2, <2>3 DEF M3Inv, InM3
  <2> QED
    BY <2>2, <2>3, <2>4, UpHasKey
<1>3. CASE OutSeal
  <2>1. out'.pc = "give" /\ (out'.prot <=> out.prot) /\ last' = last
    BY <1>3 DEF OutSeal, Shapes, histvars
  <2>2. CASE out.prot
    <3>1. pn' = PnInc(pn) /\ out'.pn = pn' /\ ~PnExhausted(pn)
      BY <1>3, <2>2 DEF OutSeal, Shapes
    <3>2. pn' \in Pn /\ PnLess(pn, pn')
      BY <3>1, PnGrows DEF Values
    <3>3. ProtectedUp
      BY <1>2, <1>3, <2>2
    <3>4. PnLess(last, pn')
      BY <1>0, <1>2, <1>3, <3>2, <3>3, PnTransitive DEF SendInv, Values
    <3> QED
      BY <1>0, <1>2, <1>3, <2>1, <2>2, <3>1, <3>3, <3>4 DEF SendInv, ProtectedUp
  <2>3. CASE ~out.prot
    <3>1. pn' = pn
      BY <1>3, <2>3 DEF OutSeal
    <3> QED
      BY <1>0, <1>2, <1>3, <2>1, <2>3, <3>1 DEF SendInv, ProtectedUp
  <2> QED
    BY <2>2, <2>3
<1>4. CASE OutDrop
  <2>1. out'.pc = "idle" /\ UNCHANGED <<pn, last>>
    BY <1>4 DEF OutDrop, OutIdle, keyvars, histvars
  <2> QED
    BY <1>0, <2>1 DEF SendInv, ProtectedUp
<1>5. CASE OutGive
  <2>1. out.pc = "give" /\ out'.pc = "idle" /\ pn' = pn
    BY <1>5 DEF OutGive, OutIdle, keyvars
  <2>2. CASE out.prot
    <3>1. last' = pn
      BY <1>0, <1>2, <1>5, <2>1, <2>2 DEF OutGive, SendInv
    <3> QED
      BY <1>0, <1>2, <1>5, <2>1, <2>2, <3>1 DEF SendInv, ProtectedUp
  <2>3. CASE ~out.prot
    <3>1. last' = last
      BY <1>5, <2>3 DEF OutGive
    <3> QED
      BY <1>0, <1>2, <1>5, <2>1, <2>3, <3>1 DEF SendInv, ProtectedUp
  <2> QED
    BY <2>2, <2>3
<1> QED
  BY <1>1, <1>3, <1>4, <1>5

\* Once a teardown met a transmission, SendInv says nothing any more; until then
\* a teardown, a message or a new connection finds no frame under way.
LEMMA StepSend == HInv /\ [HNext]_hvars => SendInv'
<1> SUFFICES ASSUME HInv, [HNext]_hvars, ~overlap' PROVE SendInv'
  BY DEF SendInv
<1> Values /\ Flags /\ Shapes /\ TdInv /\ M3Inv /\ KeyInv /\ SendInv
  BY DEF HInv
<1> USE DEF SendInv, ProtectedUp
<1> DEFINE Still == UNCHANGED <<st, td, sta, net, ptkConf, pn, last, out, overlap, crossed, rx>>
<1>0. Still => SendInv'
  OBVIOUS
<1>1. CASE UNCHANGED hvars
  BY <1>1, <1>0 DEF hvars
<1>2. ASSUME NEW n \in Networks, NEW p \in Pmks, Connect(n, p) PROVE SendInv'
  <2>1. out'.pc = "idle" /\ last' = ZeroPn /\ ptkConf' = NoKey /\ pn' = ZeroPn
    BY <1>2 DEF Connect
  <2> QED
    BY <2>1
<1>3. ASSUME NEW m \in air, RxM1(m) \/ RxM3(m) PROVE SendInv'
  BY <1>3 DEF RxM1, RxM3, keyvars, histvars
<1>4. CASE RxM1Reply \/ RxM3NoPtk \/ RxM3NoGtk \/ RxAgg
  BY <1>4 DEF RxM1Reply, RxM3NoPtk, RxM3NoGtk, RxAgg, RxDone, keyvars, histvars
<1>5. CASE RxM3Slot \/ RxM3Ptk
  <2>1. InM3 /\ UNCHANGED <<st, td, sta, net, last, out, overlap, crossed>>
        /\ (rx' = "slot" \/ pn' = ZeroPn)
    BY <1>5 DEF RxM3Slot, RxM3Ptk, InM3, histvars
  <2>2. ~crossed => st = "HANDSHAKING"
    BY <2>1 DEF M3Inv
  <2> QED
    BY <2>1, <2>2
<1>6. CASE RxM3Answer
  BY <1>6 DEF RxM3Answer, histvars
<1>7. CASE RxM3Up
  <2>1. InM3 /\ rx = "up" /\ st' = "CONNECTED" /\ rx' = "agg"
        /\ UNCHANGED <<td, sta, net, ptkConf, pn, last, out, overlap, crossed>>
    BY <1>7 DEF RxM3Up, InM3, keyvars
  <2>2. ~crossed => st = "HANDSHAKING"
    BY <2>1 DEF M3Inv
  <2> QED
    BY <2>1, <2>2
<1>8. ASSUME NEW k \in {"leave", "deauth"}, TdClear(k) PROVE SendInv'
  <2>1. ~overlap /\ out' = out /\ out.pc = "idle" /\ last' = ZeroPn /\ ptkConf' = NoKey
        /\ pn' = ZeroPn
    BY <1>8 DEF TdClear, Overlap
  <2> QED
    BY <2>1
<1>9. CASE TdRelease
  <2>1. ~overlap /\ out' = out /\ out.pc = "idle" /\ (crossed => crossed')
        /\ UNCHANGED <<st, net, ptkConf, pn, last, rx>>
    BY <1>9 DEF TdRelease, Overlap, keyvars, rxvars
  <2> QED
    BY <2>1
<1>10. CASE TdEnd
  <2>1. ~overlap /\ out' = out /\ out.pc = "idle" /\ last' = ZeroPn /\ st' = "IDLE"
        /\ UNCHANGED <<pn, rx>> /\ (crossed => crossed')
    BY <1>10 DEF TdEnd, Overlap, keyvars, rxvars
  <2> QED
    BY <2>1
<1>11. CASE OutStart \/ OutSeal \/ OutDrop \/ OutGive
  BY <1>11, StepOut
<1>12. CASE RxAddbaResp \/ RxDelba
  BY <1>12, <1>0 DEF RxAddbaResp, RxDelba, keyvars, histvars, rxvars
<1>13. CASE ApM1 \/ ApM3 \/ ApDeauth \/ ApDelba
  BY <1>13, <1>0 DEF ApM1, ApM3, ApDeauth, ApDelba, ApOnly, keyvars, histvars, rxvars
<1>14. ASSUME NEW m \in air, ApM2(m) \/ ApM4(m) PROVE SendInv'
  BY <1>14, <1>0 DEF ApM2, ApM4, ApOnly, keyvars, histvars, rxvars
<1>15. ASSUME NEW m \in act, ApAddba(m) PROVE SendInv'
  BY <1>15, <1>0 DEF ApAddba, ApOnly, keyvars, histvars, rxvars
<1> QED
  BY <1>1, <1>2, <1>3, <1>4, <1>5, <1>6, <1>7, <1>8, <1>9, <1>10, <1>11, <1>12, <1>13, <1>14,
     <1>15 DEF HNext

\* The invariant of the handshake and the data path.
THEOREM HandshakeInvariant == HSpec => []HInv
<1>1. HInv /\ [HNext]_hvars => HInv'
  BY StepTypes, StepFlags, StepAir, StepMsg, StepM3, StepTd, StepKeys, StepSend DEF HInv
<1> QED
  BY InitHInv, <1>1, PTL DEF HSpec

\* The types of the station's, the output thread's and the access point's state.
THEOREM HandshakeTypes == HSpec => []HTypeOK
<1>1. HInv => HTypeOK
  <2> SUFFICES ASSUME HInv PROVE HTypeOK
    OBVIOUS
  <2>1. sta \in BOOLEAN /\ txBa \in BOOLEAN /\ stray \in BOOLEAN /\ overlap \in BOOLEAN
        /\ crossed \in BOOLEAN /\ out.prot \in BOOLEAN
    BY DEF HInv, Flags
  <2>2. Values
    BY DEF HInv
  <2> QED
    BY <2>1, <2>2, Zenon DEF HTypeOK, Values
<1> QED
  BY <1>1, HandshakeInvariant, PTL

\* Whatever messages were lost, repeated or late, a WPA2 link that is up uses the
\* key its access point derived; and when a teardown crossed message 3, it has no
\* station to send with (handleEAPOL).
THEOREM HandshakeAgrees == HSpec => []ConnectedAgrees
<1>1. HInv => ConnectedAgrees
  BY DEF HInv, KeyInv
<1> QED
  BY <1>1, HandshakeInvariant, PTL

\* No data frame of a WPA2 link goes out in the clear or without a key, unless a
\* teardown met its transmission (txDataFrame).
THEOREM HandshakeProtects == HSpec => []DataIsProtected
<1>1. HInv => DataIsProtected
  <2> SUFFICES ASSUME HInv, out.pc = "give", net.wpa2, ~overlap
               PROVE  out.prot /\ ptkConf \in Keys
    BY DEF DataIsProtected, Frame
  <2>1. Values /\ Flags /\ TdInv /\ KeyInv /\ SendInv
    BY DEF HInv
  <2>2. st = "CONNECTED" /\ td = "no" /\ sta /\ out.prot
    BY <2>1 DEF SendInv
  <2>3. ~crossed
    BY <2>1, <2>2, NotCrossed
  <2> QED
    BY <2>1, <2>2, <2>3, UpHasKey
<1> QED
  BY <1>1, HandshakeInvariant, PTL

-----------------------------------------------------------------------------
(* The refinement: every step is a step of the link, or none.              *)

\* The link's first two variables, and its last.
LinkUp   == ProtectedUp
LinkKey  == IF ProtectedUp THEN ptkConf ELSE NoKey
LinkVoid == overlap \/ crossed

\* A step that leaves the link as it is, the access point's key apart.
LEMMA QuietStep ==
    ASSUME HInv, HInv', UNCHANGED <<last, past, LinkVoid>>, ~ProtectedUp, ~ProtectedUp'
    PROVE  AL!Offer
<1>1. ap'.ptk \in Keys \cup {NoKey}
  BY DEF HInv, Values
<1> QED
  BY <1>1 DEF AL!Offer, ProtectedUp, LinkVoid

\* A step that changes nothing the link has a name for.
LEMMA StillStep ==
    ASSUME UNCHANGED <<st, net, ptkConf, last, past, LinkVoid>>, ap'.ptk = ap.ptk
    PROVE  UNCHANGED AL!avars
  BY DEF AL!avars, ProtectedUp, LinkVoid

\* A teardown ends the link, if there was one, and forgets the last number.
LEMMA DropStep ==
    ASSUME HInv, ~LinkVoid, ~LinkVoid', ~ProtectedUp', last' = ZeroPn, UNCHANGED <<past, ap>>
    PROVE  AL!Drop \/ UNCHANGED AL!avars
<1>1. CASE ProtectedUp
  BY <1>1 DEF AL!Drop, AL!ZeroPn, ZeroPn, LinkVoid
<1>2. CASE ~ProtectedUp
  BY <1>2 DEF AL!avars, HInv, SendInv, ProtectedUp, LinkVoid
<1> QED
  BY <1>1, <1>2

\* A new association makes the promise good again.
LEMMA RenewStep ==
    ASSUME LinkVoid, ~LinkVoid', NEW n \in Networks, NEW p \in Pmks, Connect(n, p)
    PROVE  AL!Renew
<1>1. ptkConf' = NoKey /\ last' = ZeroPn /\ ap'.ptk = NoKey /\ past' = past
  BY DEF Connect, ApIdle
<1>2. ~ProtectedUp'
  BY <1>1 DEF ProtectedUp
<1> QED
  BY <1>1, <1>2 DEF AL!Renew, AL!ZeroPn, ZeroPn, LinkVoid

\* No other step does.
LEMMA StaysVoid ==
    ASSUME Flags, LinkVoid, ~LinkVoid', [HNext]_hvars
    PROVE  \E n \in Networks, p \in Pmks : Connect(n, p)
<1>1. (overlap' \/ ~overlap) /\ (crossed' \/ ~crossed) => FALSE
  BY DEF LinkVoid
<1> SUFFICES ASSUME ~\E n \in Networks, p \in Pmks : Connect(n, p)
             PROVE  (overlap' \/ ~overlap) /\ (crossed' \/ ~crossed)
  BY <1>1
<1>2. CASE UNCHANGED hvars
  BY <1>2 DEF hvars
<1>3. CASE \E m \in air : RxM1(m) \/ RxM3(m) \/ ApM2(m) \/ ApM4(m)
  BY <1>3 DEF RxM1, RxM3, ApM2, ApM4, ApOnly, histvars
<1>4. CASE RxM1Reply \/ RxM3Slot \/ RxM3NoPtk \/ RxM3Ptk \/ RxM3NoGtk
  BY <1>4 DEF RxM1Reply, RxM3Slot, RxM3NoPtk, RxM3Ptk, RxM3NoGtk, histvars
<1>5. CASE RxM3Answer \/ RxM3Up \/ RxAgg \/ RxAddbaResp \/ RxDelba
  BY <1>5 DEF RxM3Answer, RxM3Up, RxAgg, RxAddbaResp, RxDelba, histvars
<1>6. CASE (\E k \in {"leave", "deauth"} : TdClear(k)) \/ TdRelease \/ TdEnd
  BY <1>6 DEF TdClear, TdRelease, TdEnd, Overlap
<1>7. CASE OutStart
  BY <1>7 DEF OutStart
<1>8. CASE OutSeal \/ OutDrop \/ OutGive
  BY <1>8 DEF OutSeal, OutDrop, OutGive, histvars
<1>9. CASE ApM1 \/ ApM3 \/ ApDeauth \/ ApDelba
  BY <1>9 DEF ApM1, ApM3, ApDeauth, ApDelba, ApOnly, histvars
<1>10. CASE \E m \in act : ApAddba(m)
  BY <1>10 DEF ApAddba, ApOnly, histvars
<1> QED
  BY <1>2, <1>3, <1>4, <1>5, <1>6, <1>7, <1>8, <1>9, <1>10 DEF HNext

\* Every step of the handshake is a step of the link.
LEMMA StepLink == HInv /\ HInv' /\ [HNext]_hvars => [AL!ANext]_(AL!avars)
<1> SUFFICES ASSUME HInv, HInv', [HNext]_hvars PROVE [AL!ANext]_(AL!avars)
  OBVIOUS
<1> Values /\ Flags /\ Shapes /\ AirInv /\ M3Inv /\ KeyInv /\ SendInv
  BY DEF HInv
<1>a. AL!Offer \/ AL!Establish \/ AL!Send \/ AL!Drop \/ AL!Renew => AL!ANext
  BY DEF AL!ANext
<1>b. LinkVoid \in BOOLEAN /\ LinkVoid' \in BOOLEAN
  BY DEF LinkVoid
<1>1. CASE LinkVoid'
  BY <1>1 DEF AL!ANext, AL!Void, LinkVoid
<1>2. CASE ~LinkVoid' /\ LinkVoid
  BY <1>2, <1>a, StaysVoid, RenewStep
<1>3. CASE ~LinkVoid' /\ ~LinkVoid
  <2>0. UNCHANGED LinkVoid /\ ~overlap /\ ~crossed
    BY <1>3, <1>b DEF LinkVoid
  <2>1. CASE UNCHANGED hvars
    BY <2>1, <2>0, StillStep DEF hvars
  <2>2. ASSUME NEW n \in Networks, NEW p \in Pmks, Connect(n, p) PROVE AL!Offer
    <3>1. ~ProtectedUp /\ ~ProtectedUp' /\ past' = past /\ last' = ZeroPn
      BY <2>2 DEF Connect, ProtectedUp
    <3>2. last = ZeroPn
      BY <2>0, <3>1 DEF SendInv
    <3> QED
      BY <2>0, <3>1, <3>2, QuietStep
  <2>3. ASSUME NEW m \in air, RxM1(m) \/ RxM3(m) PROVE UNCHANGED AL!avars
    BY <2>3, <2>0, StillStep DEF RxM1, RxM3, keyvars, histvars
  <2>4. CASE RxM1Reply \/ RxM3NoPtk \/ RxM3NoGtk \/ RxM3Answer \/ RxAgg
    BY <2>4, <2>0, StillStep DEF RxM1Reply, RxM3NoPtk, RxM3NoGtk, RxM3Answer, RxAgg, keyvars,
       histvars
  <2>5. CASE RxM3Slot \/ RxM3Ptk
    <3>1. InM3 /\ UNCHANGED <<st, last, past>>
      BY <2>5 DEF RxM3Slot, RxM3Ptk, InM3, histvars
    <3>2. ~ProtectedUp /\ ~ProtectedUp'
      BY <2>0, <3>1 DEF M3Inv, ProtectedUp
    <3> QED
      BY <1>a, <2>0, <3>1, <3>2, QuietStep
  <2>6. CASE RxM3Up
    <3>1. InM3 /\ rx = "up" /\ st' = "CONNECTED" /\ UNCHANGED <<net, ptkConf, last, ap>>
          /\ past' = past \cup ({ptkConf} \cap Keys)
      BY <2>6 DEF RxM3Up, InM3, keyvars
    <3>2. st = "HANDSHAKING" /\ ptkConf = ptk /\ ptk \in Keys /\ ap.ptk = ptk
      BY <2>0, <3>1 DEF M3Inv
    <3>3. ptk \notin past /\ net.wpa2 /\ ptk # NoKey
      BY <3>2, KeyShape DEF KeyInv
    <3>4. ~ProtectedUp /\ ProtectedUp'
      BY <3>1, <3>2, <3>3 DEF ProtectedUp
    <3>5. last' = ZeroPn
      BY <2>0, <3>1, <3>4 DEF SendInv
    <3>6. past' = past \cup {ptk}
      BY <3>1, <3>2
    <3>7. AL!Establish
      BY <2>0, <3>1, <3>2, <3>3, <3>4, <3>5, <3>6 DEF AL!Establish, AL!ZeroPn, ZeroPn, LinkVoid
    <3> QED
      BY <1>a, <3>7
  <2>7. ASSUME NEW k \in {"leave", "deauth"}, TdClear(k) PROVE AL!Drop \/ UNCHANGED AL!avars
    <3>1. ptkConf' = NoKey /\ last' = ZeroPn /\ UNCHANGED <<past, ap>>
      BY <2>7 DEF TdClear
    <3> QED
      BY <1>3, <3>1, DropStep DEF ProtectedUp
  <2>8. CASE TdRelease
    <3>1. UNCHANGED <<st, net, ptkConf, last, past, ap>>
      BY <2>8 DEF TdRelease, keyvars
    <3> QED
      BY <2>0, <3>1, StillStep
  <2>9. CASE TdEnd
    <3>1. st' = "IDLE" /\ last' = ZeroPn /\ UNCHANGED <<past, ap>>
      BY <2>9 DEF TdEnd
    <3>2. AL!Drop \/ UNCHANGED AL!avars
      BY <1>3, <3>1, DropStep DEF ProtectedUp
    <3> QED
      BY <1>a, <3>2
  <2>10. CASE OutStart \/ OutSeal \/ OutDrop
    <3>1. UNCHANGED <<st, net, ptkConf, last, past, ap>>
      BY <2>10 DEF OutStart, OutSeal, OutDrop, keyvars, histvars
    <3> QED
      BY <2>0, <3>1, StillStep
  <2>11. CASE OutGive
    <3>1. UNCHANGED <<st, net, ptkConf, past, ap>> /\ out.pc = "give"
      BY <2>11 DEF OutGive, keyvars
    <3>2. CASE out.prot
      <4>1. last' = pn /\ PnLess(last, last') /\ last' \in Pn
        BY <2>0, <2>11, <3>1, <3>2 DEF OutGive, SendInv, Values
      <4>2. ProtectedUp /\ ProtectedUp'
        BY <2>0, <3>1, <3>2, UpHasKey DEF SendInv, ProtectedUp
      <4>3. AL!Send
        BY <2>0, <3>1, <4>1, <4>2 DEF AL!Send, AL!Pn, Pn, AL!PnLess, PnLess, LinkVoid
      <4> QED
        BY <1>a, <4>3
    <3>3. CASE ~out.prot
      <4>1. last' = last
        BY <2>11, <3>3 DEF OutGive
      <4> QED
        BY <2>0, <3>1, <4>1, StillStep
    <3> QED
      BY <3>2, <3>3
  <2>12. CASE RxAddbaResp \/ RxDelba
    BY <2>12, <2>0, StillStep DEF RxAddbaResp, RxDelba, keyvars, histvars
  <2>13. CASE ApM1 \/ ApM3 \/ ApDeauth \/ ApDelba
    <3>1. ap'.ptk = ap.ptk
      BY <2>13 DEF ApM1, ApM3, ApDeauth, ApDelba, ApSend, Shapes
    <3>2. UNCHANGED <<st, net, ptkConf, last, past>>
      BY <2>13 DEF ApM1, ApM3, ApDeauth, ApDelba, ApOnly, keyvars, histvars
    <3> QED
      BY <2>0, <3>1, <3>2, StillStep
  <2>14. ASSUME NEW m \in air, ApM2(m) PROVE AL!Offer
    <3>1. UNCHANGED <<st, net, ptkConf, last, past>>
      BY <2>14 DEF ApM2, ApOnly, keyvars, histvars
    <3>2. ap'.ptk \in Keys \cup {NoKey}
      BY DEF HInv, Values
    <3>3. UNCHANGED <<LinkUp, LinkKey>>
      BY <3>1 DEF LinkUp, LinkKey, ProtectedUp
    <3> QED
      BY <2>0, <3>1, <3>2, <3>3 DEF AL!Offer, LinkUp, LinkKey, LinkVoid
  <2>15. ASSUME NEW m \in air, ApM4(m) PROVE UNCHANGED AL!avars
    <3>1. ap'.ptk = ap.ptk
      BY <2>15 DEF ApM4, Shapes
    <3> QED
      BY <2>15, <2>0, <3>1, StillStep DEF ApM4, ApOnly, keyvars, histvars
  <2>16. ASSUME NEW m \in act, ApAddba(m) PROVE UNCHANGED AL!avars
    <3>1. ap'.ptk = ap.ptk
      BY <2>16 DEF ApAddba, Shapes
    <3> QED
      BY <2>16, <2>0, <3>1, StillStep DEF ApAddba, ApOnly, keyvars, histvars
  <2> QED
    BY <1>a, <2>1, <2>2, <2>3, <2>4, <2>5, <2>6, <2>7, <2>8, <2>9, <2>10, <2>11, <2>12, <2>13,
       <2>14, <2>15, <2>16 DEF HNext
<1> QED
  BY <1>1, <1>2, <1>3, <1>b

\* The handshake and the data path keep the promise of AuthLink: the link comes up
\* only under the access point's key, never twice under one, and the numbers of its
\* frames only grow, until a teardown meets a transmission or the handshake; and
\* again from the next association on.
THEOREM HandshakeKeepsPromise == HSpec => LinkPromise
<1>1. HInit => AL!AInit
  BY DEF HInit, ApIdle, ProtectedUp, AL!AInit, AL!ZeroPn, ZeroPn
<1>2. HInv /\ HInv' /\ [HNext]_hvars => [AL!ANext]_(AL!avars)
  BY StepLink
<1> QED
  BY <1>1, <1>2, HandshakeInvariant, PTL DEF HSpec, LinkPromise, AL!ASpec
-----------------------------------------------------------------------------
(* The uplink agreement.                                                   *)

\* Numbers at or above every SSN asked for or agreed on.
Above(sn) ==
    /\ \A m \in act : m.t = "req" => m.ssn <= sn
    /\ ap.ba => ap.ssn <= sn

\* The first number that the window may start from, for the frame under way.
OutFrom == out.sn + (IF out.early THEN 1 ELSE 0)

\* What the station takes for agreed is agreed, from a number that was the next
\* one when it was read; and a frame under way has a number taken later, or the one
\* before it.
BaInv ==
    /\ ~sta => (txBa => stray)
    /\ txBa /\ ~stray => ap.ba /\ st = "CONNECTED"
    /\ st = "HANDSHAKING" \/ InM3 \/ rx = "agg" => act = {}
    /\ rx = "agg" => st # "HANDSHAKING"
    /\ ap.ba <=> [t |-> "resp"] \in act
    /\ \A m \in act : m.t = "req" => m.ssn \in Int
    /\ ap.ssn \in Int /\ out.sn \in Int
    /\ st = "CONNECTED" /\ td # "left" => Above(dataSeq)
    /\ ~overlap /\ out.pc = "give" => Above(OutFrom)
    /\ ~overlap /\ out.pc = "give" /\ rx = "agg" => out.early /\ dataSeq <= out.sn + 1

\* Nothing is agreed at first.
LEMMA InitBa == HInit => BaInv
  BY DEF HInit, BaInv, Above, ApIdle, OutIdle, InM3

\* The agreement, action by action.
LEMMA StepBa == HInv /\ BaInv /\ [HNext]_hvars => BaInv'
<1> SUFFICES ASSUME HInv, BaInv, [HNext]_hvars PROVE BaInv'
  OBVIOUS
<1>a. Values /\ Flags /\ Shapes /\ M3Inv /\ TdInv /\ SendInv
  BY DEF HInv
<1>b. dataSeq \in Nat /\ Shapes
  BY <1>a DEF Values
<1> USE DEF BaInv, Above, OutFrom, InM3
<1>1. CASE UNCHANGED hvars
  BY <1>1 DEF hvars
<1>2. ASSUME NEW n \in Networks, NEW p \in Pmks, Connect(n, p) PROVE BaInv'
  <2>1. act' = {} /\ ap'.ba = FALSE /\ ap'.ssn = 0 /\ out' = out /\ rx' \in {"idle", "agg"}
        /\ (overlap' <=> out.pc # "idle") /\ (rx' = "agg" => st' # "HANDSHAKING")
    BY <1>2 DEF Connect, ApIdle, RxFree
  <2>2. txBa' => stray'
    BY <1>2 DEF Connect, ReleaseSta, bavars
  <2> QED
    BY <2>1, <2>2
<1>3. ASSUME NEW m \in air, RxM1(m) \/ RxM3(m) PROVE BaInv'
  BY <1>3 DEF RxM1, RxM3, RxFree, histvars, bavars
<1>4. CASE RxM1Reply \/ RxM3Answer
  <2>1. dataSeq' \in Nat /\ dataSeq' >= dataSeq
    BY <1>b, <1>4 DEF RxM1Reply, RxM3Answer, Reply, EapolSn
  <2>2. UNCHANGED <<st, sta, txBa, stray, td, out, overlap, ap, act>> /\ rx' \in {"idle", "up"}
        /\ (rx' = "up" => InM3)
    BY <1>4 DEF RxM1Reply, RxM3Answer, RxDone, histvars, bavars
  <2>3. st = "CONNECTED" /\ td # "left" => Above(dataSeq)'
    BY <1>b, <2>1, <2>2
  <2> QED
    BY <2>2, <2>3
<1>5. CASE RxM3Slot \/ RxM3NoPtk \/ RxM3Ptk \/ RxM3NoGtk
  BY <1>5 DEF RxM3Slot, RxM3NoPtk, RxM3Ptk, RxM3NoGtk, RxDone, histvars, bavars
<1>6. CASE RxM3Up
  <2>1. act = {} /\ ~ap.ba
    BY <1>6 DEF RxM3Up
  <2>2. ~overlap => out.pc # "give"
    <3> SUFFICES ASSUME ~overlap, out.pc = "give" PROVE FALSE
      OBVIOUS
    <3>1. st = "CONNECTED" /\ td = "no" /\ sta
      BY <1>a DEF SendInv
    <3>2. ~crossed
      BY <1>a, <3>1, NotCrossed
    <3> QED
      BY <1>a, <1>6, <3>1, <3>2 DEF RxM3Up, M3Inv
  <2>3. st' = "CONNECTED" /\ rx' = "agg"
        /\ UNCHANGED <<dataSeq, sta, txBa, stray, td, out, overlap, ap, act>>
    BY <1>6 DEF RxM3Up, bavars
  <2> QED
    BY <2>1, <2>2, <2>3
<1>7. CASE RxAgg
  <2>1. act = {} /\ ~ap.ba /\ rx = "agg" /\ st # "HANDSHAKING" /\ rx' = "idle"
        /\ UNCHANGED <<st, dataSeq, sta, txBa, stray, td, out, overlap, ap>>
    BY <1>7 DEF RxAgg, RxDone, histvars, bavars
  <2>2. act' \subseteq {[t |-> "req", ssn |-> dataSeq]}
    BY <1>7, <2>1 DEF RxAgg, StartTxAggregation
  <2>3. [t |-> "resp"] \notin act' /\ \A x \in act' : x.ssn = dataSeq
    <3>1. [t |-> "resp"].t = "resp"
      OBVIOUS
    <3>2. \A x \in act' : x.t = "req" /\ x.ssn = dataSeq
      BY <2>2
    <3> QED
      BY <3>1, <3>2
  <2>4. Above(dataSeq)'
    BY <1>b, <2>1, <2>3
  <2>5. ~overlap /\ out.pc = "give" => Above(OutFrom)'
    BY <1>b, <2>1, <2>3
  <2> QED
    BY <1>b, <2>1, <2>3, <2>4, <2>5
<1>8. ASSUME NEW k \in {"leave", "deauth"}, TdClear(k) PROVE BaInv'
  BY <1>8 DEF TdClear, Overlap, rxvars, bavars
<1>9. CASE TdRelease
  <2>1. td' = "left" /\ (overlap' <=> overlap \/ out.pc # "idle")
        /\ UNCHANGED <<st, rx, out, ap, act>>
    BY <1>9 DEF TdRelease, Overlap, rxvars
  <2>2. txBa' => stray'
    BY <1>9 DEF TdRelease, ReleaseSta, bavars
  <2> QED
    BY <2>1, <2>2
<1>10. CASE TdEnd
  <2>1. txBa' => stray'
    BY <1>a, <1>10 DEF TdEnd, TdInv, bavars
  <2>2. st' = "IDLE" /\ (overlap' <=> overlap \/ out.pc # "idle")
        /\ UNCHANGED <<rx, out, ap, act>>
    BY <1>10 DEF TdEnd, Overlap, rxvars
  <2> QED
    BY <2>1, <2>2
<1>11. CASE OutStart
  <2>1. out'.pc = "seal" /\ out'.sn = 0
    BY <1>11 DEF OutStart, OutIdle
  <2>2. UNCHANGED <<st, sta, dataSeq, txBa, stray, td, rx, ap, act>>
    BY <1>11 DEF OutStart, rxvars, bavars
  <2> QED
    BY <2>1, <2>2
<1>12. CASE OutSeal
  <2>1. out'.pc = "give" /\ out'.sn = dataSeq /\ (out'.early <=> rx = "agg")
    BY <1>a, <1>12 DEF OutSeal, Shapes
  <2>2. dataSeq' >= dataSeq /\ dataSeq' <= dataSeq + 1 /\ dataSeq' \in Int
    BY <1>b, <1>12 DEF OutSeal
  <2>3. UNCHANGED <<st, sta, txBa, stray, td, rx, overlap, ap, act>>
    BY <1>12 DEF OutSeal, histvars, rxvars, bavars
  <2>4. ~overlap => st = "CONNECTED" /\ td = "no"
    BY <1>a, <1>12 DEF OutSeal, SendInv
  <2>5. st = "CONNECTED" /\ td # "left" => Above(dataSeq)'
    BY <1>b, <2>2, <2>3
  <2>6. ~overlap => Above(OutFrom)'
    BY <1>b, <2>1, <2>3, <2>4
  <2> QED
    BY <1>b, <2>1, <2>2, <2>3, <2>5, <2>6
<1>13. CASE OutDrop \/ OutGive
  <2>1. out'.pc = "idle" /\ out'.sn = 0
    BY <1>13 DEF OutDrop, OutGive, OutIdle
  <2>2. UNCHANGED <<st, sta, dataSeq, txBa, stray, td, rx, overlap, ap, act>>
    BY <1>13 DEF OutDrop, OutGive, histvars, rxvars, bavars
  <2> QED
    BY <2>1, <2>2
<1>14. CASE RxAddbaResp \/ RxDelba
  <2>1. UNCHANGED <<st, sta, dataSeq, td, rx, out, overlap, ap, act>> /\ st = "CONNECTED"
    BY <1>14 DEF RxAddbaResp, RxDelba, histvars, rxvars
  <2>2. txBa' => ap.ba /\ (~sta => stray')
    BY <1>14 DEF RxAddbaResp, RxDelba
  <2> QED
    BY <2>1, <2>2
<1>15. CASE ApM1 \/ ApM3 \/ ApDeauth
  <2>1. ap'.ba = ap.ba /\ ap'.ssn = ap.ssn
    BY <1>b, <1>15 DEF ApM1, ApM3, ApDeauth, ApSend, Shapes
  <2> QED
    BY <1>15, <2>1 DEF ApM1, ApM3, ApDeauth, ApOnly, histvars, rxvars, bavars
<1>16. CASE ApDelba
  BY <1>16 DEF ApDelba, ApOnly, histvars, rxvars, bavars
<1>17. ASSUME NEW m \in air, ApM2(m) \/ ApM4(m) PROVE BaInv'
  <2>1. ap'.ba = ap.ba /\ ap'.ssn = ap.ssn
    <3>1. CASE ApM2(m)
      <4>1. ap' = [ap EXCEPT !.ph = "m3", !.ptk = derivePTK("right", assoc, m.nonce), !.r = @ + 1]
        BY <3>1 DEF ApM2
      <4> QED
        BY <1>b, <4>1 DEF Shapes
    <3>2. CASE ApM4(m)
      BY <1>b, <3>2 DEF ApM4, Shapes
    <3> QED
      BY <1>17, <3>1, <3>2
  <2> QED
    BY <1>17, <2>1 DEF ApM2, ApM4, ApOnly, histvars, rxvars, bavars
<1>18. ASSUME NEW m \in act, ApAddba(m) PROVE BaInv'
  <2>1. ap'.ba = TRUE /\ ap'.ssn = m.ssn /\ act' = act \cup {[t |-> "resp"]} /\ m.t = "req"
    BY <1>b, <1>18 DEF ApAddba, Shapes
  <2>2. \A x \in act' : x.t = "req" => x \in act
    BY <2>1
  <2> QED
    BY <1>18, <2>1, <2>2 DEF ApAddba, ApOnly, histvars, rxvars, bavars
<1> QED
  BY <1>1, <1>2, <1>3, <1>4, <1>5, <1>6, <1>7, <1>8, <1>9, <1>10, <1>11, <1>12, <1>13, <1>14,
     <1>15, <1>16, <1>17, <1>18 DEF HNext

\* A frame is marked for aggregation only under an agreement that the access point
\* made in this association, and lies in its window's future or just below it
\* (txDataFrame, line 3006), unless a teardown met it or left _txBaActive behind.
THEOREM HandshakeAggregates == HSpec => []AmpduAccepted
<1>1. BaInv => AmpduAccepted
  <2> SUFFICES ASSUME BaInv, out.pc = "give", Frame.ampdu, ~overlap, ~stray
               PROVE  ap.ba /\ Frame.sn + (IF out.early THEN 1 ELSE 0) >= ap.ssn
    BY DEF AmpduAccepted
  <2>1. ap.ba /\ Above(OutFrom) /\ ap.ssn \in Int /\ out.sn \in Int
    BY DEF BaInv, Frame
  <2> QED
    BY <2>1 DEF Above, OutFrom, Frame
<1> QED
  BY <1>1, InitBa, StepBa, HandshakeInvariant, PTL DEF HSpec

-----------------------------------------------------------------------------
(* The buffers.                                                            *)

\* What SkbExact says of a buffer.
Exact(b) == skb_headroom(b) >= 0 /\ b.len = b.tail - b.data /\ skb_tailroom(b) = Slack

\* The buffers.
Skbs == [data : Int, tail : Int, end : Int, len : Int]

\* A buffer with headroom h that holds n bytes, f more to come.
Filled(b, h, n, f) ==
    /\ b \in Skbs
    /\ b.data = h /\ b.tail = h + n /\ b.len = n /\ b.end = h + n + f

\* Putting k bytes leaves k fewer to come.
LEMMA PutFills ==
    ASSUME NEW b, NEW h \in Int, NEW n \in Int, NEW f \in Int, NEW k \in Int, Filled(b, h, n, f)
    PROVE  Filled(skb_put(b, k), h, n + k, f - k)
<1> DEFINE x == b.tail + k
           y == b.len + k
<1>1. x = h + (n + k) /\ y = n + k /\ b.data = h /\ b.end = h + (n + k) + (f - k) /\ b \in Skbs
  BY DEF Filled
<1>2. skb_put(b, k) = [b EXCEPT !.tail = x, !.len = y]
  BY DEF skb_put
<1>3. x \in Int /\ y \in Int
  BY <1>1
<1> HIDE DEF x, y
<1>4. skb_put(b, k) \in Skbs
  BY <1>1, <1>2, <1>3 DEF Skbs
<1>5. skb_put(b, k).tail = x /\ skb_put(b, k).len = y
  BY <1>1, <1>2 DEF Skbs
<1>6. skb_put(b, k).data = b.data /\ skb_put(b, k).end = b.end
  BY <1>1, <1>2 DEF Skbs
<1> QED
  BY <1>1, <1>4, <1>5, <1>6 DEF Filled

\* alloc_skb and skb_reserve: a headroom, and all the rest to come.
LEMMA Empty ==
    ASSUME NEW h \in Int, NEW n \in Int
    PROVE  Filled(skb_reserve(alloc_skb(n + h), h), h, 0, n + Slack)
<1> DEFINE b == alloc_skb(n + h)
<1>1. b \in Skbs /\ b.data = 0 /\ b.tail = 0 /\ b.len = 0 /\ b.end = n + h + Slack
  BY DEF alloc_skb, Skbs, Slack
<1> HIDE DEF b
<1>2. skb_reserve(b, h) = [b EXCEPT !.data = h, !.tail = h]
  <2>1. b.data + h = h /\ b.tail + h = h
    BY <1>1
  <2> QED
    BY <2>1 DEF skb_reserve
<1>3. skb_reserve(b, h) \in Skbs
  BY <1>1, <1>2 DEF Skbs
<1>4. skb_reserve(b, h).data = h /\ skb_reserve(b, h).tail = h
  BY <1>1, <1>2 DEF Skbs
<1>5. skb_reserve(b, h).len = 0 /\ skb_reserve(b, h).end = n + h + Slack
  BY <1>1, <1>2 DEF Skbs
<1>6. h + 0 = h /\ n + h + Slack = h + 0 + (n + Slack)
  BY DEF Slack
<1> QED
  BY <1>3, <1>4, <1>5, <1>6 DEF Filled, b

\* With the slack alone left, the driver's descriptor fits into the headroom.
LEMMA PushExact ==
    ASSUME NEW b, NEW h \in Int, NEW n \in Int, Filled(b, h, n, Slack), h >= TxDesc
    PROVE  Exact(skb_push(b, TxDesc))
<1> DEFINE c == skb_push(b, TxDesc)
           x == b.data - TxDesc
           y == b.len + TxDesc
<1>1. TxDesc \in Int /\ Slack \in Int
  BY DEF TxDesc, Slack
<1>2. x = h - TxDesc /\ y = n + TxDesc /\ b.tail = h + n /\ b.end = h + n + Slack /\ b \in Skbs
  BY DEF Filled
<1>3. c = [b EXCEPT !.data = x, !.len = y]
  BY DEF skb_push
<1> HIDE DEF c, x, y
<1>4. c.data = x /\ c.len = y
  BY <1>2, <1>3 DEF Skbs
<1>5. c.tail = b.tail /\ c.end = b.end
  BY <1>2, <1>3 DEF Skbs
<1>6. c.data >= 0 /\ c.len = c.tail - c.data /\ c.end - c.tail = Slack
  BY <1>1, <1>2, <1>4, <1>5
<1> QED
  BY <1>6 DEF Exact, skb_headroom, skb_tailroom, c

\* A buffer allocated for n bytes and filled with n.
LEMMA WholeFills ==
    ASSUME NEW h \in Int, NEW n \in Int
    PROVE  Filled(skb_put(skb_reserve(alloc_skb(n + h), h), n), h, n, Slack)
<1>1. Filled(skb_put(skb_reserve(alloc_skb(n + h), h), n), h, 0 + n, (n + Slack) - n)
  BY Empty, PutFills DEF Slack
<1>2. 0 + n = n /\ (n + Slack) - n = Slack
  BY DEF Slack
<1> QED
  BY <1>1, <1>2

\* A management frame, and the fixed ones, are filled exactly.
LEMMA FixedExact ==
    /\ \A n \in Int : Exact(skb_push(MgmtSkb(n), TxDesc))
    /\ \A f \in FixedSkbs : Exact(skb_push(f, TxDesc))
<1>1. \A n \in Int : Filled(MgmtSkb(n), 128, n, Slack)
  BY WholeFills DEF MgmtSkb, TxAlloc, TxHeadroom
<1>2. ASSUME NEW n \in Int
      PROVE  Filled(skb_put(skb_reserve(alloc_skb(64 + n), 64), n), 64, n, Slack)
  <2>1. 64 + n = n + 64
    OBVIOUS
  <2> QED
    BY <2>1, WholeFills
<1>3. ASSUME NEW f \in FixedSkbs
      PROVE  \E h \in {64, 128} : \E n \in Int : Filled(f, h, n, Slack)
  <2>1. Filled(MgmtSkb(buildAuthReq), 128, 30, Slack) /\ Filled(txProbeRequest, 128, 36, Slack)
    BY <1>1 DEF buildAuthReq, txProbeRequest
  <2>2. Filled(txNullFunc, 128, 24, Slack)
    BY WholeFills DEF txNullFunc, TxAlloc, TxHeadroom
  <2>3. Filled(ieee80211_pspoll_get, 64, 16, Slack)
    BY <1>2 DEF ieee80211_pspoll_get
  <2>4. \A qos \in BOOLEAN : \E n \in Int : Filled(ieee80211_nullfunc_get(qos), 64, n, Slack)
    BY <1>2 DEF ieee80211_nullfunc_get
  <2> QED
    BY <2>1, <2>2, <2>3, <2>4 DEF FixedSkbs
<1>4. \A h \in {64, 128} : h \in Int /\ h >= TxDesc
  BY DEF TxDesc
<1> QED
  BY <1>1, <1>3, <1>4, PushExact

\* The buffer txDataFrame starts from.
LEMMA TxEmpty ==
    ASSUME NEW n \in Int
    PROVE  Filled(TxAlloc(n), 128, 0, n + Slack)
<1>1. \A h \in Int : Filled(skb_reserve(alloc_skb(n + h), h), h, 0, n + Slack)
  BY Empty
<1>2. Filled(skb_reserve(alloc_skb(n + 128), 128), 128, 0, n + Slack)
  BY <1>1
<1> QED
  BY <1>2 DEF TxAlloc, TxHeadroom

\* txDataFrame puts what framelen says, in each of its four forms.
LEMMA DataExact ==
    ASSUME NEW qos, NEW prot, NEW n \in Int
    PROVE  Exact(skb_push(DataSkb(qos, prot, n), TxDesc))
<1> DEFINE len == FrameLen(qos, prot, n)
           q == IF qos THEN 2 ELSE 0
           p == IF prot THEN 8 ELSE 0
           hdr == skb_put(TxAlloc(len), 24)
           qctl == IF qos THEN skb_put(hdr, 2) ELSE hdr
           iv == IF prot THEN skb_put(qctl, 8) ELSE qctl
<1>1. len = 24 + q + p + 8 + n /\ q \in Int /\ p \in Int
  BY DEF FrameLen, HdrLen, IvLen, SnapLen
<1> HIDE DEF len
<1>2. len \in Int /\ Slack \in Int
  BY <1>1 DEF Slack
<1>3. Filled(hdr, 128, 0 + 24, len + Slack - 24)
  <2>1. Filled(TxAlloc(len), 128, 0, len + Slack)
    BY <1>2, TxEmpty
  <2> QED
    BY <1>2, <2>1, PutFills
<1> HIDE DEF hdr
<1>4. Filled(qctl, 128, 24 + q, len + Slack - 24 - q)
  <2>1. CASE qos
    BY <1>2, <1>3, <2>1, PutFills
  <2>2. CASE ~qos
    BY <1>2, <1>3, <2>2
  <2> QED
    BY <2>1, <2>2
<1> HIDE DEF qctl, q
<1>5. Filled(iv, 128, 24 + q + p, len + Slack - 24 - q - p)
  <2>1. CASE prot
    BY <1>1, <1>2, <1>4, <2>1, PutFills
  <2>2. CASE ~prot
    BY <1>1, <1>2, <1>4, <2>2
  <2> QED
    BY <2>1, <2>2
<1> HIDE DEF iv, p
<1>6. Filled(skb_put(iv, 8), 128, 24 + q + p + 8, len + Slack - 24 - q - p - 8)
  BY <1>1, <1>2, <1>5, PutFills
<1>7. Filled(skb_put(skb_put(iv, 8), n), 128, 24 + q + p + 8 + n,
             len + Slack - 24 - q - p - 8 - n)
  BY <1>1, <1>2, <1>6, PutFills
<1>8. Filled(skb_put(skb_put(iv, 8), n), 128, len, Slack)
  <2>1. len + Slack - 24 - q - p - 8 - n = Slack
    BY <1>1, <1>2
  <2> QED
    BY <1>1, <1>7, <2>1
<1>9. DataSkb(qos, prot, n) = skb_put(skb_put(iv, 8), n)
  BY DEF DataSkb, SnapLen, iv, qctl, hdr, len
<1> QED
  BY <1>2, <1>8, <1>9, PushExact DEF TxDesc

\* Every buffer handed to the driver is filled exactly, has room for the descriptor
\* and keeps its slack (txDataFrame, txMgmtFrame, and the frames of fixed size),
\* whatever the network and the frame.
THEOREM HandshakeBuffers == HSpec => []SkbExact
<1>1. ASSUME NEW f \in Buffers PROVE Exact(skb_push(f, TxDesc))
  <2>1. CASE \E len \in PayLens : f = DataSkb(net.ht, out.prot, len)
    BY <2>1, DataExact DEF PayLens
  <2>2. CASE \E len \in {99, 121} : f = DataSkb(net.ht, FALSE, len)
    <3>1. PICK prot \in BOOLEAN : prot = FALSE
      OBVIOUS
    <3>2. PICK len \in {99, 121} : f = DataSkb(net.ht, prot, len)
      BY <2>2, <3>1
    <3> QED
      BY <3>2, DataExact
  <2>3. CASE f \in {MgmtSkb(33), MgmtSkb(26)} \cup FixedSkbs
    BY <2>3, FixedExact
  <2> QED
    BY <2>1, <2>2, <2>3, Zenon DEF Buffers
<1>2. SkbExact
  BY <1>1 DEF SkbExact, Exact
<1> QED
  BY <1>2, PTL

=============================================================================
