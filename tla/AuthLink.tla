------------------------------ MODULE AuthLink ------------------------------
(***************************************************************************)
(* What a protected link promises: the station comes up only with a key    *)
(* its access point holds, no key serves twice, and under one key the      *)
(* packet numbers of the frames it sends only grow.  The promise is void   *)
(* once the link was torn down in the middle of a transmission or of the   *)
(* handshake, until it is set up anew.                                     *)
(***************************************************************************)
EXTENDS PacketNumber

CONSTANTS Keys, NoKey

VARIABLES
    up,     \* the link is up
    key,    \* its key
    peer,   \* the key the access point holds
    last,   \* number of the last frame sent under key
    past,   \* keys that have served
    void

avars == <<up, key, peer, last, past, void>>

AInit ==
    /\ up = FALSE /\ key = NoKey /\ peer = NoKey /\ last = ZeroPn
    /\ past = {} /\ void = FALSE

\* The access point changes its key.
Offer ==
    /\ peer' \in Keys \cup {NoKey}
    /\ UNCHANGED <<up, key, last, past, void>>

Establish ==
    /\ ~up /\ peer \in Keys \ past
    /\ up' = TRUE /\ key' = peer /\ last' = ZeroPn
    /\ past' = past \cup {peer}
    /\ UNCHANGED <<peer, void>>

Send ==
    /\ up
    /\ last' \in Pn /\ PnLess(last, last')
    /\ UNCHANGED <<up, key, peer, past, void>>

Drop ==
    /\ up
    /\ up' = FALSE /\ key' = NoKey /\ last' = ZeroPn
    /\ UNCHANGED <<peer, past, void>>

\* Nothing is promised from here on ...
Void == void'

\* ... until there is a new association, which takes no key from the old one.
Renew ==
    /\ void /\ ~void'
    /\ ~up' /\ key' = NoKey /\ last' = ZeroPn /\ peer' = NoKey
    /\ UNCHANGED past

ANext == Offer \/ Establish \/ Send \/ Drop \/ Void \/ Renew

ASpec == AInit /\ [][ANext]_avars
=============================================================================
