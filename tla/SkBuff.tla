------------------------------- MODULE SkBuff -------------------------------
(***************************************************************************)
(* The sk_buff shim: an allocation of `end' bytes, the offsets data and    *)
(* tail in it, and len.  No operation of the shim checks a bound.          *)
(***************************************************************************)
EXTENDS Integers

Slack == 64     \* what alloc_skb adds to every size

alloc_skb(size)   == [data |-> 0, tail |-> 0, end |-> size + Slack, len |-> 0]
skb_reserve(b, n) == [b EXCEPT !.data = @ + n, !.tail = @ + n]
skb_put(b, n)     == [b EXCEPT !.tail = @ + n, !.len = @ + n]
skb_push(b, n)    == [b EXCEPT !.data = @ - n, !.len = @ + n]
skb_tailroom(b)   == b.end - b.tail
skb_headroom(b)   == b.data

\* Every buffer of the transmit path starts with room for the descriptor.
TxHeadroom == 128
TxAlloc(len) == skb_reserve(alloc_skb(len + TxHeadroom), TxHeadroom)

MgmtSkb(len) == skb_put(TxAlloc(len), len)     \* txMgmtFrame

buildAuthReq   == 24 + 6                \* header, algorithm, sequence, status
txProbeRequest == MgmtSkb(24 + 2 + 10)  \* wildcard SSID, eight rates
txNullFunc     == skb_put(TxAlloc(24), 24)

\* Frames for the firmware's reserved pages: less headroom, and for QoS two
\* more bytes.
ieee80211_nullfunc_get(qos) ==
    LET len == IF qos THEN 26 ELSE 24
    IN  skb_put(skb_reserve(alloc_skb(64 + len), 64), len)
ieee80211_pspoll_get == skb_put(skb_reserve(alloc_skb(64 + 16), 64), 16)

FixedSkbs == {MgmtSkb(buildAuthReq), txProbeRequest, txNullFunc, ieee80211_pspoll_get}
             \cup {ieee80211_nullfunc_get(qos) : qos \in BOOLEAN}

HdrLen(qos) == IF qos THEN 26 ELSE 24
IvLen(prot) == IF prot THEN 8 ELSE 0
SnapLen     == 8

\* Mutant: the length of the CCMP header is forgotten in framelen.
FrameLenNoIv(qos, prot, paylen) == HdrLen(qos) + SnapLen + paylen

\* txDataFrame's framelen ...
FrameLen(qos, prot, paylen) == HdrLen(qos) + IvLen(prot) + SnapLen + paylen

\* ... and what it puts: header, QoS control, CCMP header, SNAP, payload.
DataSkb(qos, prot, paylen) ==
    LET hdr  == skb_put(TxAlloc(FrameLen(qos, prot, paylen)), 24)
        qctl == IF qos THEN skb_put(hdr, 2) ELSE hdr
        iv   == IF prot THEN skb_put(qctl, 8) ELSE qctl
    IN  skb_put(skb_put(iv, SnapLen), paylen)
=============================================================================
