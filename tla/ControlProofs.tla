--------------------------- MODULE ControlProofs ----------------------------
(***************************************************************************)
(* The BSS table stays current and forgets what is old, a link is made     *)
(* with the width both ends were told, and rtw88ctl lists what the table   *)
(* holds, for any beacons, chips, buffers and tables of any length.        *)
(***************************************************************************)
EXTENDS Control, FiniteSetTheorems, WellFoundedInduction, TLAPS

-----------------------------------------------------------------------------
(* Some entries of a table, in their order.                                *)

\* Sublist(t, K) has the entries of t at the positions K, each exactly once.
LEMMA SublistOK ==
    ASSUME NEW S, NEW t \in Seq(S), NEW K \in SUBSET DOMAIN t
    PROVE  /\ Sublist(t, K) \in Seq(S)
           /\ \E f \in Bijection(DOMAIN Sublist(t, K), K) :
                 \A n \in DOMAIN Sublist(t, K) : Sublist(t, K)[n] = t[f[n]]
<1> DEFINE N == Cardinality(K)
           Lower(i) == {j \in K : j < i}
           rank == [i \in K |-> Cardinality(Lower(i)) + 1]
           f == [n \in 1 .. N |-> CHOOSE i \in K : Cardinality(Lower(i)) = n - 1]
<1>1. DOMAIN t = 1 .. Len(t) /\ Len(t) \in Nat /\ \A i \in K : i \in Int /\ t[i] \in S
  OBVIOUS
<1>2. IsFiniteSet(K) /\ N \in Nat
  <2>1. IsFiniteSet(1 .. Len(t))
    BY <1>1, FS_Interval
  <2>2. IsFiniteSet(K)
    BY <1>1, <2>1, FS_Subset
  <2> QED BY <2>2, FS_CardinalityType
<1>3. ASSUME NEW i \in K
      PROVE  IsFiniteSet(Lower(i)) /\ Cardinality(Lower(i)) \in 0 .. N - 1
  <2>1. Lower(i) \in SUBSET K /\ i \notin Lower(i)
    BY <1>1
  <2> HIDE DEF Lower
  <2>2. IsFiniteSet(Lower(i)) /\ Cardinality(Lower(i)) <= N /\ Cardinality(Lower(i)) # N
    BY <1>2, <2>1, FS_Subset
  <2>3. Cardinality(Lower(i)) \in Nat
    BY <2>2, FS_CardinalityType
  <2> QED BY <1>2, <2>2, <2>3
<1>4. ASSUME NEW i \in K, NEW j \in K, i < j
      PROVE  Cardinality(Lower(i)) # Cardinality(Lower(j))
  <2>1. Lower(i) \in SUBSET Lower(j) /\ i \in Lower(j) /\ i \notin Lower(i)
    BY <1>1, <1>4
  <2>2. IsFiniteSet(Lower(j))
    BY <1>3
  <2> HIDE DEF Lower
  <2> QED BY <2>1, <2>2, FS_Subset
<1> HIDE DEF Lower
<1>5. \A i, j \in K : Cardinality(Lower(i)) = Cardinality(Lower(j)) => i = j
  <2> SUFFICES ASSUME NEW i \in K, NEW j \in K, Cardinality(Lower(i)) = Cardinality(Lower(j))
               PROVE  i = j
    OBVIOUS
  <2>1. i \in Int /\ j \in Int
    BY <1>1
  <2> QED BY <1>4, <2>1
<1>6. \A i \in K : rank[i] \in 1 .. N
  BY <1>2, <1>3
<1>7. \A i, j \in K : rank[i] = rank[j] => i = j
  <2>1. \A i \in K : Cardinality(Lower(i)) \in Int
    BY <1>2, <1>3
  <2> QED BY <1>5, <2>1
<1>8. rank \in Injection(K, 1 .. N)
  BY <1>6, <1>7 DEF Injection, IsInjective
<1>9. IsFiniteSet(1 .. N) /\ Cardinality(1 .. N) = N
  BY <1>2, FS_Interval
<1>10. rank \in Surjection(K, 1 .. N)
  <2> HIDE DEF rank
  <2> QED BY <1>8, <1>9, FS_Injection
<1>11. \A n \in 1 .. N : \E i \in K : Cardinality(Lower(i)) = n - 1
  <2> SUFFICES ASSUME NEW n \in 1 .. N PROVE \E i \in K : Cardinality(Lower(i)) = n - 1
    OBVIOUS
  <2>1. PICK i \in K : rank[i] = n
    BY <1>10 DEF Surjection
  <2>2. Cardinality(Lower(i)) + 1 = n /\ Cardinality(Lower(i)) \in Int
    BY <1>2, <1>3, <2>1
  <2> QED BY <2>2
<1>12. \A n \in 1 .. N : f[n] \in K /\ Cardinality(Lower(f[n])) = n - 1
  BY <1>11
<1>13. f \in Bijection(1 .. N, K)
  <2>1. \A m, n \in 1 .. N : f[m] = f[n] => m = n
    <3> SUFFICES ASSUME NEW m \in 1 .. N, NEW n \in 1 .. N, f[m] = f[n] PROVE m = n
      OBVIOUS
    <3>1. m - 1 = n - 1
      BY <1>12
    <3> QED BY <3>1
  <2>2. \A i \in K : \E n \in 1 .. N : f[n] = i
    <3> SUFFICES ASSUME NEW i \in K PROVE \E n \in 1 .. N : f[n] = i
      OBVIOUS
    <3>1. rank[i] \in 1 .. N /\ Cardinality(Lower(i)) = rank[i] - 1
      BY <1>2, <1>3, <1>6
    <3>2. f[rank[i]] = i
      BY <1>5, <1>12, <3>1
    <3> QED BY <3>1, <3>2
  <2>3. f \in [1 .. N -> K]
    BY <1>12
  <2> HIDE DEF f
  <2> QED BY <2>1, <2>2, <2>3 DEF Bijection, Injection, Surjection, IsInjective
<1>14. Sublist(t, K) = [n \in 1 .. N |-> t[f[n]]]
  BY DEF Sublist, Lower
<1>15. Sublist(t, K) \in Seq(S)
  <2>1. \A n \in 1 .. N : t[f[n]] \in S
    BY <1>1, <1>12
  <2> HIDE DEF f, N
  <2> QED BY <1>2, <1>14, <2>1
<1>16. DOMAIN Sublist(t, K) = 1 .. N /\ \A n \in 1 .. N : Sublist(t, K)[n] = t[f[n]]
  BY <1>14
<1> HIDE DEF f
<1> QED BY <1>13, <1>15, <1>16

-----------------------------------------------------------------------------
(* Types.                                                                  *)

\* What the assumption on the constants gives the provers.
LEMMA Bounds ==
    /\ GenMod \in Nat /\ MaxAge \in Nat /\ MaxCmds \in Nat /\ MaxLag \in Nat
    /\ GenMod > MaxCmds + MaxAge + 1 /\ MaxLag <= MaxAge /\ Long \in Nat /\ Long = MaxAge + 1
    /\ \A f \in Frames : Addr[f] \in Bssids
    /\ \A e \in Entries : Bssid(e) \in Bssids
  BY ControlAssumption DEF Long, Addr, Bssid, Bssids, Entries

\* An age stays an age when another scan begins (cmdScan).
LEMMA OlderType == \A n \in 0 .. Long : Older(n) \in 0 .. Long
  BY Bounds DEF Older

\* A nonempty set of positions has a first one.
LEMMA Least ==
    ASSUME NEW M \in SUBSET Nat, M # {}
    PROVE  \E i \in M : \A j \in M : i <= j
<1> DEFINE R == {ss \in Nat \X Nat : ss[1] < ss[2]}
<1>1. IsWellFoundedOn(R, Nat)
  BY NatLessThanWellFounded DEF OpToRel
<1> HIDE DEF R
<1>2. PICK i \in M : \A j \in M : <<j, i>> \notin R
  BY <1>1, WFMin
<1>3. \A j \in M : ~(j < i)
  BY <1>2 DEF R
<1> QED BY <1>3

\* Remainders.
LEMMA ModUnique ==
    ASSUME NEW q \in Int, NEW r \in Int, NEW m \in Nat, 0 <= r, r < m
    PROVE  (q * m + r) % m = r
  OBVIOUS

\* The distance between two generations.
LEMMA LagIs ==
    ASSUME NEW g \in 0 .. GenMod - 1, NEW s \in 0 .. GenMod - 1
    PROVE  (g - s) % GenMod = IF g >= s THEN g - s ELSE g - s + GenMod
<1>1. GenMod \in Nat \ {0}
  BY Bounds
<1>2. CASE g >= s
  <2>1. g - s = 0 * GenMod + (g - s) /\ 0 <= g - s /\ g - s < GenMod
    BY <1>1, <1>2
  <2> QED BY <1>1, <1>2, <2>1, ModUnique
<1>3. CASE ~(g >= s)
  <2> DEFINE r == g - s + GenMod
  <2>1. g - s = (-1) * GenMod + r /\ 0 <= r /\ r < GenMod /\ r \in Int /\ -1 \in Int
    BY <1>1, <1>3
  <2> HIDE DEF r
  <2>2. ((-1) * GenMod + r) % GenMod = r
    BY <1>1, <2>1, ModUnique
  <2> QED BY <1>3, <2>1, <2>2 DEF r
<1> QED BY <1>2, <1>3

\* cmdScan's next generation.
LEMMA NextGen ==
    ASSUME NEW g \in 0 .. GenMod - 1
    PROVE  (g + 1) % GenMod = IF g = GenMod - 1 THEN 0 ELSE g + 1
<1>1. GenMod \in Nat \ {0}
  BY Bounds
<1>2. CASE g = GenMod - 1
  <2>1. g + 1 = 1 * GenMod + 0
    BY <1>1, <1>2
  <2>2. (1 * GenMod + 0) % GenMod = 0
    BY <1>1, ModUnique
  <2> QED BY <1>2, <2>1, <2>2
<1>3. CASE g # GenMod - 1
  <2>1. g + 1 = 0 * GenMod + (g + 1) /\ 0 <= g + 1 /\ g + 1 < GenMod
    BY <1>1, <1>3
  <2>2. (0 * GenMod + (g + 1)) % GenMod = g + 1
    BY <1>1, <2>1, ModUnique
  <2> QED BY <1>3, <2>1, <2>2
<1> QED BY <1>2, <1>3

\* A scan puts everything one generation further back, or two where 0 is skipped.
LEMMA NextLag ==
    ASSUME NEW g \in 0 .. GenMod - 1, NEW s \in 0 .. GenMod - 1,
           (g - s) % GenMod <= MaxCmds + MaxAge
    PROVE  /\ (g + 1) % GenMod \in 0 .. GenMod - 1
           /\ (g - s) % GenMod \in Nat
           /\ (g + 1) % GenMod # 0 =>
                 (((g + 1) % GenMod) - s) % GenMod = ((g - s) % GenMod) + 1
           /\ (g + 1) % GenMod = 0 /\ ((g - s) % GenMod) + 2 < GenMod =>
                 (1 - s) % GenMod = ((g - s) % GenMod) + 2
<1>1. GenMod \in Nat /\ GenMod > 1 /\ MaxCmds \in Nat /\ MaxAge \in Nat
      /\ GenMod > MaxCmds + MaxAge + 1
  BY Bounds
<1>2. (g - s) % GenMod = IF g >= s THEN g - s ELSE g - s + GenMod
  BY LagIs
<1>3. (g + 1) % GenMod = IF g = GenMod - 1 THEN 0 ELSE g + 1
  BY NextGen
<1>4. (g + 1) % GenMod \in 0 .. GenMod - 1 /\ 1 \in 0 .. GenMod - 1
  BY <1>1, <1>3
<1>5. CASE g # GenMod - 1
  <2>1. (g + 1) % GenMod = g + 1 /\ g + 1 \in 0 .. GenMod - 1
    BY <1>1, <1>3, <1>5
  <2>2. (g + 1 - s) % GenMod = IF g + 1 >= s THEN g + 1 - s ELSE g + 1 - s + GenMod
    BY <2>1, LagIs
  <2>3. (((g + 1) % GenMod) - s) % GenMod = (g + 1 - s) % GenMod
    BY <2>1
  <2>4. g # s - 1
    BY <1>1, <1>2
  <2>5. (g + 1 - s) % GenMod = ((g - s) % GenMod) + 1
    BY <1>1, <1>2, <2>2, <2>4
  <2>6. (g + 1) % GenMod # 0 /\ (g - s) % GenMod \in Nat
    BY <1>1, <1>2, <2>1
  <2> QED BY <1>4, <2>3, <2>5, <2>6
<1>6. CASE g = GenMod - 1
  <2>1. (1 - s) % GenMod = IF 1 >= s THEN 1 - s ELSE 1 - s + GenMod
    BY <1>4, LagIs
  <2>2. (g - s) % GenMod = g - s /\ (g - s) % GenMod \in Nat
    BY <1>1, <1>2, <1>6
  <2>3. ((g - s) % GenMod) + 2 < GenMod => (1 - s) % GenMod = ((g - s) % GenMod) + 2
    BY <1>1, <1>6, <2>1, <2>2
  <2>4. (g + 1) % GenMod = 0
    BY <1>3, <1>6
  <2> QED BY <1>4, <2>2, <2>3, <2>4
<1> QED BY <1>5, <1>6

\* The target is known from the first attempt on.
HasTarget == tc # {} \/ state \in {"AUTH", "ASSOC", "LINKED"} => target \in Frames

\* A beacon being parsed is not far behind the current scan.
Lag(e)   == (gen - e.seen) % GenMod
ParseLag == rxb # NoBss => Lag(rxb) <= MaxLag + 1

ControlInv == CTypeOK /\ HasTarget /\ ParseLag

\* The invariant holds after start.
LEMMA InitControl == CInit => ControlInv
<1> SUFFICES ASSUME CInit PROVE ControlInv
  OBVIOUS
<1>1. Starts \subseteq 0 .. GenMod - 1 /\ Long \in 0 .. Long /\ 0 \in 0 .. MaxCmds
  BY Bounds, ControlAssumption
<1>2. table \in Seq(Entries)
  BY DEF CInit
<1>3. /\ heard \in [Bssids -> Frames \cup {NoBss}] /\ age \in [Bssids -> 0 .. Long]
  BY <1>1 DEF CInit
<1> QED BY <1>1, <1>2, <1>3 DEF CInit, ControlInv, CTypeOK, HasTarget, ParseLag

\* processScanResult enters a record that has the type of the others.
LEMMA EnterType ==
    ASSUME NEW t \in Seq(Entries), NEW b \in Entries
    PROVE  Enter(t, b) \in Seq(Entries)
<1>1. CASE \E i \in DOMAIN t : Bssid(t[i]) = Bssid(b)
  <2>1. Enter(t, b) = [i \in 1 .. Len(t) |-> IF Bssid(t[i]) = Bssid(b) THEN b ELSE t[i]]
    BY <1>1 DEF Enter
  <2>2. \A i \in 1 .. Len(t) : (IF Bssid(t[i]) = Bssid(b) THEN b ELSE t[i]) \in Entries
    OBVIOUS
  <2>3. Len(t) \in Nat
    OBVIOUS
  <2> QED BY <2>1, <2>2, <2>3
<1>2. CASE ~\E i \in DOMAIN t : Bssid(t[i]) = Bssid(b)
  <2>1. Enter(t, b) = <<b>> \o t
    BY <1>2 DEF Enter
  <2> QED BY <2>1
<1> QED BY <1>1, <1>2

\* cmdScan's first part.
LEMMA ScanStep ==
    ASSUME ControlInv, CtlScan
    PROVE  /\ ControlInv'
           /\ rxb' = rxb /\ heard' = heard /\ cmds' = cmds + 1
           /\ \A b \in Bssids : age'[b] = Older(age[b])
           /\ \/ /\ gen' = (gen + 1) % GenMod /\ gen' # 0
                 /\ wrap' = Older(wrap) /\ table' = table
              \/ /\ (gen + 1) % GenMod = 0 /\ gen' = 1 /\ wrap' = 0
                 /\ table' = [i \in DOMAIN table |-> [table[i] EXCEPT !.seen = 1]]
<1> USE DEF ControlInv, CTypeOK
<1>1. /\ GenMod \in Nat /\ MaxAge \in Nat /\ MaxCmds \in Nat /\ MaxLag \in Nat
      /\ GenMod > MaxCmds + MaxAge + 1 /\ MaxLag <= MaxAge /\ Long \in Nat /\ Long = MaxAge + 1
  BY Bounds
<1>2. cmds < MaxCmds /\ cmds' = cmds + 1 /\ cmds' \in 0 .. MaxCmds /\ rxb' = rxb /\ heard' = heard
  <2>1. cmds \in 0 .. MaxCmds
    OBVIOUS
  <2> HIDE DEF ControlInv, CTypeOK
  <2>2. cmds < MaxCmds /\ cmds' = cmds + 1 /\ rxb' = rxb /\ heard' = heard
    BY DEF CtlScan
  <2> QED BY <1>1, <2>1, <2>2
<1>3. age' \in [Bssids -> 0 .. Long] /\ \A b \in Bssids : age'[b] = Older(age[b])
  BY OlderType DEF CtlScan
<1>4. \/ /\ gen' = (gen + 1) % GenMod /\ gen' # 0 /\ wrap' = Older(wrap) /\ table' = table
      \/ /\ (gen + 1) % GenMod = 0 /\ gen' = 1 /\ wrap' = 0
         /\ table' = [i \in DOMAIN table |-> [table[i] EXCEPT !.seen = 1]]
  BY DEF CtlScan
<1>5. wrap' \in 0 .. Long
  BY <1>1, <1>4, OlderType
<1>6. gen' \in 0 .. GenMod - 1 /\ 1 \in 0 .. GenMod - 1
  <2>1. (gen + 1) % GenMod = IF gen = GenMod - 1 THEN 0 ELSE gen + 1
    BY NextGen
  <2> QED BY <1>1, <1>4, <2>1
<1>7. table' \in Seq(Entries)
  <2>1. CASE table' = [i \in DOMAIN table |-> [table[i] EXCEPT !.seen = 1]]
    <3>1. \A i \in DOMAIN table : [table[i] EXCEPT !.seen = 1] \in Entries
      <4>1. \A i \in DOMAIN table : table[i] \in Entries
        OBVIOUS
      <4>2. \A e \in Entries : [e EXCEPT !.seen = 1] \in Entries
        BY <1>6 DEF Entries
      <4> QED BY <4>1, <4>2
    <3>2. DOMAIN table = 1 .. Len(table) /\ Len(table) \in Nat
      OBVIOUS
    <3>3. table' = [i \in 1 .. Len(table) |-> [table[i] EXCEPT !.seen = 1]]
      BY <2>1, <3>2
    <3> QED BY <3>1, <3>2, <3>3
  <2> QED BY <1>4, <2>1
<1>8. ParseLag'
  <2> SUFFICES ASSUME rxb # NoBss PROVE (gen' - rxb.seen) % GenMod <= MaxLag + 1
    BY <1>2 DEF ParseLag, Lag
  <2>1. rxb.seen \in 0 .. GenMod - 1 /\ (gen - rxb.seen) % GenMod < MaxLag
    BY DEF CtlScan, Entries
  <2>2. (gen - rxb.seen) % GenMod \in Nat
    BY <1>1, <2>1, LagIs
  <2>3. (gen - rxb.seen) % GenMod <= MaxCmds + MaxAge /\ ((gen - rxb.seen) % GenMod) + 2 < GenMod
    <3> DEFINE k == (gen - rxb.seen) % GenMod
    <3>1. k \in Nat /\ k < MaxLag /\ MaxCmds >= 1
      BY <1>1, <1>2, <2>1, <2>2
    <3> HIDE DEF k
    <3>2. k <= MaxCmds + MaxAge /\ k + 2 < GenMod
      BY <1>1, <3>1
    <3> QED BY <3>2 DEF k
  <2>4. (gen' - rxb.seen) % GenMod \in 
          {((gen - rxb.seen) % GenMod) + 1, ((gen - rxb.seen) % GenMod) + 2}
    BY <1>4, <2>1, <2>3, NextLag
  <2> QED BY <1>1, <2>1, <2>2, <2>4
<1>9. HasTarget'
  BY DEF HasTarget, CtlScan, linkvars
<1>10. CTypeOK'
  BY <1>2, <1>3, <1>5, <1>6, <1>7 DEF CtlScan, linkvars
<1> QED BY <1>2, <1>3, <1>4, <1>8, <1>9, <1>10

\* Every handler keeps the types, the target and the age of a parsed record.
LEMMA StepControl == ControlInv /\ [CNext]_bvars => ControlInv'
<1> SUFFICES ASSUME ControlInv, [CNext]_bvars PROVE ControlInv'
  OBVIOUS
<1> USE DEF ControlInv, CTypeOK, HasTarget, ParseLag, Lag
<1>1. CASE UNCHANGED bvars
  BY <1>1 DEF bvars
<1>2. ASSUME NEW f \in Frames, RxBeacon(f) PROVE ControlInv'
  <2>1. rxb' \in Entries /\ gen' = gen /\ rxb'.seen = gen
    BY <1>2 DEF RxBeacon, Entries
  <2>2. (gen - gen) % GenMod = 0
    BY LagIs
  <2>3. 0 <= MaxLag + 1
    BY Bounds
  <2> QED BY <1>2, <2>1, <2>2, <2>3 DEF RxBeacon, linkvars
<1>3. CASE RxEnter
  <2>1. /\ rxb \in Entries /\ Bssid(rxb) \in Bssids /\ rxb.seen \in 0 .. GenMod - 1
        /\ rxb.frame \in Frames
    BY <1>3, Bounds DEF RxEnter, Entries
  <2>2. table' \in Seq(Entries)
    BY <1>3, <2>1, EnterType DEF RxEnter
  <2>3. (gen - rxb.seen) % GenMod \in 0 .. Long
    <3>1. (gen - rxb.seen) % GenMod <= MaxLag + 1
      BY <1>3 DEF RxEnter
    <3>2. gen \in 0 .. GenMod - 1 /\ GenMod \in Nat /\ MaxLag \in Nat /\ MaxAge \in Nat
          /\ MaxLag <= MaxAge /\ Long = MaxAge + 1
      BY Bounds
    <3>3. (gen - rxb.seen) % GenMod \in Nat
      <4> HIDE DEF ControlInv, CTypeOK, HasTarget, ParseLag, Lag
      <4> QED BY <2>1, <3>2, LagIs
    <3> QED BY <3>1, <3>2, <3>3
  <2>4. age' \in [Bssids -> 0 .. Long]
    BY <1>3, <2>3 DEF RxEnter
  <2>5. heard' \in [Bssids -> Frames \cup {NoBss}]
    BY <1>3, <2>1 DEF RxEnter
  <2> QED BY <1>3, <2>2, <2>4, <2>5 DEF RxEnter, linkvars
<1>4. CASE CtlScan
  BY <1>4, ScanStep
<1>5. CASE CtlScanStart
  BY <1>5 DEF CtlScanStart, tablevars, linkvars
<1>6. ASSUME NEW a \in BOOLEAN, ScanDone(a) PROVE ControlInv'
  <2>1. table' \in Seq(Entries)
    BY <1>6, SublistOK DEF ScanDone
  <2>2. /\ state' \in {"IDLE", "SCANNING", "AUTH", "ASSOC", "LINKED"}
        /\ state' \in {"AUTH", "ASSOC", "LINKED"} => state' = state
        /\ scan' = FALSE
    BY <1>6 DEF ScanDone
  <2> QED BY <1>6, <2>1, <2>2 DEF ScanDone, linkvars
<1>7. CASE ScanTimeout
  BY <1>7 DEF ScanTimeout, tablevars, linkvars
<1>8. ASSUME NEW s, CtlConnect(s) PROVE ControlInv'
  <2>1. PICK i \in DOMAIN table : target' = table[i].frame
    <3>1. Matches(s) # {} /\ Matches(s) \in SUBSET Nat /\ Matches(s) \subseteq DOMAIN table
      BY <1>8 DEF CtlConnect, Matches
    <3>2. \E i \in Matches(s) : \A j \in Matches(s) : i <= j
      BY <3>1, Least
    <3> QED BY <1>8, <3>1, <3>2 DEF CtlConnect
  <2>2. target' \in Frames
    <3>1. table[i] \in Entries
      OBVIOUS
    <3> QED BY <2>1, <3>1 DEF Entries
  <2>3. cmds' \in 0 .. MaxCmds
    BY <1>8, Bounds DEF CtlConnect
  <2> QED BY <1>8, <2>2, <2>3 DEF CtlConnect, tablevars
<1>9. CASE Tune \/ Tune40 \/ Tune80
  <2>1. tc # {}
    BY <1>9 DEF Tune, Tune40, Tune80
  <2>2. target \in Frames /\ Addr[target] \in Bssids
    BY <2>1, Bounds
  <2>3. width' \in {20, 40, 80} /\ tuned' \in {"no", "half", "yes"}
    BY <1>9 DEF Tune, Tune40, Tune80, Narrow
  <2>4. air' \subseteq Bssids /\ tc' \subseteq {"pend", "tune", "wide", "sent"}
    BY <1>9, <2>2 DEF Tune, Tune40, Tune80, Transmit
  <2>5. UNCHANGED <<chip, cmds, tablevars, state, scan, target, sta, req, early, ctl>>
    BY <1>9 DEF Tune, Tune40, Tune80
  <2> QED BY <2>2, <2>3, <2>4, <2>5 DEF tablevars
<1>10. CASE AuthSet
  BY <1>10 DEF AuthSet, tablevars
<1>11. CASE AuthRetry
  BY <1>11 DEF AuthRetry, tablevars
<1>12. CASE RxAuth
  <2>1. early' \in BOOLEAN
    BY <1>12 DEF RxAuth
  <2> QED BY <1>12, <2>1 DEF RxAuth, tablevars
<1>13. CASE RxAssoc
  <2>1. early' \in BOOLEAN
    BY <1>13 DEF RxAssoc
  <2> QED BY <1>13, <2>1 DEF RxAssoc, tablevars
<1>14. CASE LinkLost
  BY <1>14 DEF LinkLost, tablevars
<1>15. CASE CtlDisconnect
  BY <1>15 DEF CtlDisconnect, tablevars
<1> HIDE DEF ControlInv, CTypeOK, HasTarget, ParseLag, Lag
<1> QED
  BY <1>1, <1>2, <1>3, <1>4, <1>5, <1>6, <1>7, <1>8, <1>9, <1>10, <1>11, <1>12, <1>13, <1>14,
     <1>15 DEF CNext

\* The types of the table, the target, the scans and the connection.
THEOREM ControlTypes == CSpec => []CTypeOK
<1>1. ControlInv => CTypeOK
  BY DEF ControlInv
<1> QED
  BY <1>1, InitControl, StepControl, PTL DEF CSpec

-----------------------------------------------------------------------------
(* The table.                                                              *)

OneEach(t) == \A i, j \in DOMAIN t : Bssid(t[i]) = Bssid(t[j]) => i = j

\* What entry e of the table has to do with the history: its frame is the last
\* one heard; by the generations it is no older than it is; and if by the
\* generations it is not old, then it is not, or the generation wrapped since.
EntryInv(e) ==
    /\ e.frame = heard[Bssid(e)]
    /\ Lag(e) <= cmds + MaxLag + 1
    /\ age[Bssid(e)] <= MaxAge => Lag(e) <= age[Bssid(e)]
    /\ Lag(e) <= MaxAge => age[Bssid(e)] <= Lag(e) \/ wrap <= Lag(e)

TableInv ==
    /\ OneEach(table)
    /\ \A i \in DOMAIN table : EntryInv(table[i])
    /\ \A b \in Bssids : age[b] <= MaxAge => Listed(b)

\* What processScanResult does to a table with each BSSID at most once.
LEMMA EnterOK ==
    ASSUME NEW t \in Seq(Entries), NEW b \in Entries, OneEach(t)
    PROVE  /\ OneEach(Enter(t, b))
           /\ \A i \in DOMAIN Enter(t, b) :
                 \/ Enter(t, b)[i] = b
                 \/ /\ Bssid(Enter(t, b)[i]) # Bssid(b)
                    /\ \E j \in DOMAIN t : Enter(t, b)[i] = t[j]
           /\ \E i \in DOMAIN Enter(t, b) : Enter(t, b)[i] = b
           /\ \A j \in DOMAIN t : Bssid(t[j]) # Bssid(b) =>
                 \E i \in DOMAIN Enter(t, b) : Enter(t, b)[i] = t[j]
<1>1. CASE \E i \in DOMAIN t : Bssid(t[i]) = Bssid(b)
  <2>1. Enter(t, b) = [i \in DOMAIN t |-> IF Bssid(t[i]) = Bssid(b) THEN b ELSE t[i]]
    BY <1>1 DEF Enter
  <2> QED BY <1>1, <2>1 DEF OneEach
<1>2. CASE ~\E i \in DOMAIN t : Bssid(t[i]) = Bssid(b)
  <2> DEFINE u == <<b>> \o t
  <2>1. Enter(t, b) = u
    BY <1>2 DEF Enter
  <2>2. /\ Len(t) \in Nat /\ DOMAIN t = 1 .. Len(t) /\ DOMAIN u = 1 .. Len(t) + 1
        /\ u[1] = b /\ \A i \in 1 .. Len(t) : u[i + 1] = t[i]
    OBVIOUS
  <2> HIDE DEF u
  <2>3. \A i \in DOMAIN u : i = 1 \/ (i - 1 \in DOMAIN t /\ (i - 1) + 1 = i)
    BY <2>2
  <2>4. \A i \in DOMAIN u : i # 1 => i - 1 \in DOMAIN t /\ u[i] = t[i - 1]
    BY <2>2, <2>3
  <2>5. \A j \in DOMAIN t : j + 1 \in DOMAIN u /\ u[j + 1] = t[j]
    BY <2>2
  <2>6. ASSUME NEW i \in DOMAIN u, NEW j \in DOMAIN u, Bssid(u[i]) = Bssid(u[j]) PROVE i = j
    <3>1. CASE i = 1 \/ j = 1
      BY <1>2, <2>2, <2>4, <2>6, <3>1
    <3>2. CASE i # 1 /\ j # 1
      <4>1. i - 1 = j - 1
        BY <2>4, <2>6, <3>2 DEF OneEach
      <4> QED BY <2>2, <4>1
    <3> QED BY <3>1, <3>2
  <2>7. \A i \in DOMAIN u : u[i] = b \/ (Bssid(u[i]) # Bssid(b) /\ \E j \in DOMAIN t : u[i] = t[j])
    BY <1>2, <2>2, <2>4
  <2>8. 1 \in DOMAIN u
    BY <2>2
  <2> QED BY <2>1, <2>2, <2>5, <2>6, <2>7, <2>8 DEF OneEach
<1> QED BY <1>1, <1>2

\* How many generations back an entry was seen is a number.
LEMMA LagNat == ASSUME CTypeOK, NEW e \in Entries PROVE Lag(e) \in Nat
<1>1. gen \in 0 .. GenMod - 1 /\ e.seen \in 0 .. GenMod - 1 /\ GenMod \in Nat
  BY Bounds DEF CTypeOK, Entries
<1> QED BY <1>1, LagIs DEF Lag

\* The table starts empty, and nothing has been heard.
LEMMA InitTable == CInit => TableInv
<1> SUFFICES ASSUME CInit PROVE TableInv
  OBVIOUS
<1>1. table = <<>> /\ \A b \in Bssids : ~(age[b] <= MaxAge)
  BY Bounds DEF CInit
<1> QED BY <1>1 DEF TableInv, OneEach

\* A step that leaves the table, the generation and the histories alone.
LEMMA TableKeeps ==
    ASSUME CTypeOK, TableInv, UNCHANGED <<table, gen, heard, age, wrap>>, cmds' \in Nat, cmds <= cmds'
    PROVE  TableInv'
<1>1. cmds \in Nat /\ MaxLag \in Nat
  BY Bounds DEF CTypeOK
<1>2. \A i \in DOMAIN table : EntryInv(table[i])'
  <2> SUFFICES ASSUME NEW i \in DOMAIN table PROVE EntryInv(table[i])'
    OBVIOUS
  <2>1. table[i] \in Entries
    BY DEF CTypeOK
  <2>2. EntryInv(table[i]) /\ Lag(table[i]) \in Nat /\ Lag(table[i])' = Lag(table[i])
    BY <2>1, LagNat DEF TableInv, Lag
  <2> QED BY <1>1, <2>2 DEF EntryInv, Bssid, Addr
<1> QED BY <1>2 DEF TableInv, OneEach, Listed

\* A beacon is entered.
LEMMA TableEnter == ASSUME ControlInv, TableInv, RxEnter PROVE TableInv'
<1>1. /\ table \in Seq(Entries) /\ rxb \in Entries /\ OneEach(table)
      /\ Bssid(rxb) \in Bssids /\ rxb.frame \in Frames
      /\ Lag(rxb) \in Nat /\ Lag(rxb) <= MaxLag + 1 /\ cmds \in Nat /\ MaxLag \in Nat
  <2>1. CTypeOK /\ rxb \in Entries
    BY DEF ControlInv, CTypeOK, RxEnter
  <2>2. table \in Seq(Entries) /\ cmds \in Nat
    BY <2>1 DEF CTypeOK
  <2>3. Bssid(rxb) \in Bssids /\ rxb.frame \in Frames
    <3>1. rxb.frame \in Frames
      BY <2>1 DEF Entries
    <3> QED BY <3>1 DEF Bssid, Addr, Bssids
  <2>4. Lag(rxb) \in Nat
    BY <2>1, LagNat
  <2>5. Lag(rxb) <= MaxLag + 1 /\ OneEach(table)
    BY DEF ControlInv, ParseLag, RxEnter, TableInv
  <2> QED BY <2>1, <2>2, <2>3, <2>4, <2>5, Bounds
<1>2. /\ table' = Enter(table, rxb) /\ UNCHANGED <<gen, cmds, wrap>>
      /\ heard' = [heard EXCEPT ![Bssid(rxb)] = rxb.frame]
      /\ age' = [age EXCEPT ![Bssid(rxb)] = Lag(rxb)]
  BY DEF RxEnter, Lag
<1>3. /\ heard'[Bssid(rxb)] = rxb.frame /\ age'[Bssid(rxb)] = Lag(rxb)
      /\ \A b \in Bssids : b # Bssid(rxb) => heard'[b] = heard[b] /\ age'[b] = age[b]
  BY <1>1, <1>2 DEF ControlInv, CTypeOK
<1>4. /\ OneEach(table')
      /\ \A i \in DOMAIN table' :
            \/ table'[i] = rxb
            \/ Bssid(table'[i]) # Bssid(rxb) /\ \E j \in DOMAIN table : table'[i] = table[j]
      /\ \E i \in DOMAIN table' : table'[i] = rxb
      /\ \A j \in DOMAIN table : Bssid(table[j]) # Bssid(rxb) =>
            \E i \in DOMAIN table' : table'[i] = table[j]
  BY <1>1, <1>2, EnterOK
<1>5. \A i \in DOMAIN table' : EntryInv(table[i])'
  <2> SUFFICES ASSUME NEW i \in DOMAIN table' PROVE EntryInv(table[i])'
    OBVIOUS
  <2> DEFINE e == table'[i]
  <2>1. Lag(table[i])' = (gen - e.seen) % GenMod
    BY <1>2 DEF Lag
  <2>2. CASE e = rxb
    <3>1. (gen - e.seen) % GenMod = Lag(rxb)
      BY <2>2 DEF Lag
    <3> QED BY <1>1, <1>2, <1>3, <2>1, <2>2, <3>1 DEF EntryInv, Bssid, Addr
  <2>3. CASE e # rxb
    <3>1. PICK j \in DOMAIN table : e = table[j] /\ Bssid(e) # Bssid(rxb)
      BY <1>4, <2>3
    <3>2. table[j] \in Entries /\ Bssid(table[j]) \in Bssids /\ EntryInv(table[j])
      BY <1>1, Bounds DEF TableInv
    <3>3. (gen - e.seen) % GenMod = Lag(table[j])
      BY <3>1 DEF Lag
    <3> QED BY <1>2, <1>3, <2>1, <3>1, <3>2, <3>3 DEF EntryInv, Bssid, Addr
  <2> QED BY <2>2, <2>3
<1>6. ASSUME NEW b \in Bssids, age'[b] <= MaxAge PROVE Listed(b)'
  <2>1. CASE b = Bssid(rxb)
    BY <1>4, <2>1 DEF Listed, Bssid, Addr
  <2>2. CASE b # Bssid(rxb)
    <3>1. PICK j \in DOMAIN table : Bssid(table[j]) = b
      BY <1>3, <1>6, <2>2 DEF TableInv, Listed
    <3> QED BY <1>4, <2>2, <3>1 DEF Listed, Bssid, Addr
  <2> QED BY <2>1, <2>2
<1> QED BY <1>4, <1>5, <1>6 DEF TableInv, OneEach, Bssid, Addr

\* A scan begins.
LEMMA TableScan == ASSUME ControlInv, TableInv, CtlScan PROVE TableInv'
<1>1. /\ GenMod \in Nat /\ MaxAge \in Nat /\ MaxCmds \in Nat /\ MaxLag \in Nat
      /\ GenMod > MaxCmds + MaxAge + 1 /\ MaxLag <= MaxAge /\ Long = MaxAge + 1
  BY Bounds
<1>2. /\ heard' = heard /\ cmds' = cmds + 1 /\ cmds \in Nat /\ cmds < MaxCmds
      /\ \A b \in Bssids : age'[b] = Older(age[b]) /\ age[b] \in 0 .. Long
      /\ wrap \in 0 .. Long /\ gen \in 0 .. GenMod - 1
  BY ScanStep DEF ControlInv, CTypeOK, CtlScan
<1>3. \A b \in Bssids : age'[b] <= MaxAge => age'[b] = age[b] + 1 /\ age[b] <= MaxAge
  BY <1>1, <1>2 DEF Older
<1>4. \A i \in DOMAIN table : /\ table[i] \in Entries /\ Bssid(table[i]) \in Bssids
                              /\ EntryInv(table[i]) /\ Lag(table[i]) \in Nat
                              /\ table[i].seen \in 0 .. GenMod - 1
  <2>1. CTypeOK /\ table \in Seq(Entries)
    BY DEF ControlInv, CTypeOK
  <2>2. \A i \in DOMAIN table : table[i] \in Entries
    BY <2>1
  <2> QED BY <2>1, <2>2, Bounds, LagNat DEF TableInv, Entries
<1>5. CASE /\ gen' = (gen + 1) % GenMod /\ gen' # 0
           /\ wrap' = Older(wrap) /\ table' = table
  <2>1. ASSUME NEW i \in DOMAIN table' PROVE EntryInv(table[i])'
    <3> DEFINE e == table[i]
    <3>1. i \in DOMAIN table /\ table'[i] = e
      BY <1>5
    <3>2. Lag(e) <= MaxCmds + MaxAge
      BY <1>1, <1>2, <1>4, <3>1 DEF EntryInv
    <3>3. (gen' - e.seen) % GenMod = Lag(e) + 1
      BY <1>2, <1>4, <1>5, <3>1, <3>2, NextLag DEF Lag
    <3>4. Lag(table[i])' = Lag(e) + 1 /\ Bssid(table[i])' = Bssid(e) /\ table[i]'.frame = e.frame
      BY <3>1, <3>3 DEF Lag, Bssid, Addr
    <3>5. EntryInv(e) /\ Lag(e) \in Nat /\ Bssid(e) \in Bssids
      BY <1>4, <3>1
    <3> HIDE DEF e
    <3>6. table'[i].frame = heard'[Bssid(e)] /\ Lag(table[i])' <= cmds' + MaxLag + 1
      BY <1>1, <1>2, <3>4, <3>5 DEF EntryInv
    <3>7. age'[Bssid(e)] <= MaxAge => Lag(table[i])' <= age'[Bssid(e)]
      BY <1>1, <1>2, <1>3, <3>4, <3>5 DEF EntryInv
    <3>8. Lag(table[i])' <= MaxAge =>
             age'[Bssid(e)] <= Lag(table[i])' \/ wrap' <= Lag(table[i])'
      BY <1>1, <1>2, <1>5, <3>4, <3>5 DEF EntryInv, Older
    <3> QED BY <3>4, <3>6, <3>7, <3>8 DEF EntryInv
  <2>2. \A b \in Bssids : age'[b] <= MaxAge => Listed(b)'
    BY <1>3, <1>5 DEF TableInv, Listed, Bssid, Addr
  <2> QED BY <1>5, <2>1, <2>2 DEF TableInv, OneEach, Bssid, Addr
<1>6. CASE /\ gen' = 1 /\ wrap' = 0
           /\ table' = [i \in DOMAIN table |-> [table[i] EXCEPT !.seen = 1]]
  <2>1. /\ DOMAIN table' = DOMAIN table
        /\ \A i \in DOMAIN table : /\ table'[i].seen = 1 /\ table'[i].frame = table[i].frame
                                   /\ Bssid(table[i])' = Bssid(table[i])
    BY <1>4, <1>6 DEF Entries, Bssid, Addr
  <2>2. ASSUME NEW i \in DOMAIN table' PROVE EntryInv(table[i])'
    <3>1. i \in DOMAIN table /\ (1 - 1) % GenMod = 0
      <4>1. 1 \in 0 .. GenMod - 1
        BY <1>1
      <4> QED BY <2>1, <4>1, LagIs
    <3>2. Lag(table[i])' = 0
      BY <1>6, <2>1, <3>1 DEF Lag
    <3>3. Bssid(table[i]) \in Bssids /\ EntryInv(table[i])
      BY <1>4, <3>1
    <3>4. age'[Bssid(table[i])] <= MaxAge => 0 <= age'[Bssid(table[i])]
      BY <1>2, <1>3, <3>3
    <3>5. 0 <= cmds' + MaxLag + 1
      BY <1>1, <1>2
    <3>6. (table[i]').frame = heard'[Bssid(table[i])]
      BY <1>2, <2>1, <3>1, <3>3 DEF EntryInv
    <3> QED BY <1>6, <2>1, <3>1, <3>2, <3>4, <3>5, <3>6 DEF EntryInv
  <2>3. \A b \in Bssids : age'[b] <= MaxAge => Listed(b)'
    BY <1>3, <2>1 DEF TableInv, Listed
  <2>4. OneEach(table)'
    BY <2>1 DEF TableInv, OneEach
  <2> QED BY <2>2, <2>3, <2>4 DEF TableInv
<1> QED BY <1>5, <1>6, ScanStep

\* A scan ends.  What stays in the table was in it, and is not stale.
LEMMA DoneKeeps ==
    ASSUME CTypeOK, NEW a \in BOOLEAN, ScanDone(a)
    PROVE  /\ OneEach(table) => OneEach(table)'
           /\ \A n \in DOMAIN table' : \E i \in DOMAIN table :
                 table'[n] = table[i] /\ (~a => ~Stale(table[i]))
           /\ \A i \in DOMAIN table : ~Stale(table[i]) \/ a =>
                 \E n \in DOMAIN table' : table'[n] = table[i]
<1>1. CASE a
  <2>1. table' = table
    BY <1>1 DEF ScanDone
  <2> QED BY <1>1, <2>1 DEF OneEach, Bssid, Addr
<1>2. CASE ~a
  <2> DEFINE K == {i \in DOMAIN table : ~Stale(table[i])}
  <2>1. table' = Sublist(table, K) /\ table \in Seq(Entries)
    BY <1>2 DEF ScanDone, CTypeOK
  <2>2. K \in SUBSET DOMAIN table
    OBVIOUS
  <2>3. \A i : i \in K <=> i \in DOMAIN table /\ ~Stale(table[i])
    OBVIOUS
  <2> HIDE DEF K
  <2>4. PICK f \in Bijection(DOMAIN table', K) : \A n \in DOMAIN table' : table'[n] = table[f[n]]
    BY <2>1, <2>2, SublistOK
  <2>5. /\ \A n \in DOMAIN table' : f[n] \in K
        /\ \A m, n \in DOMAIN table' : f[m] = f[n] => m = n
        /\ \A i \in K : \E n \in DOMAIN table' : f[n] = i
    BY <2>4 DEF Bijection, Injection, Surjection, IsInjective
  <2>6. \A n \in DOMAIN table' : \E i \in DOMAIN table : table'[n] = table[i] /\ ~Stale(table[i])
    BY <2>3, <2>4, <2>5
  <2>7. \A i \in DOMAIN table : ~Stale(table[i]) => \E n \in DOMAIN table' : table'[n] = table[i]
    BY <2>3, <2>4, <2>5
  <2>8. OneEach(table) => OneEach(table)'
    <3> SUFFICES ASSUME OneEach(table), NEW m \in DOMAIN table', NEW n \in DOMAIN table',
                        Bssid(table[m])' = Bssid(table[n])'
                 PROVE  m = n
      BY DEF OneEach
    <3>1. f[m] \in DOMAIN table /\ f[n] \in DOMAIN table
      BY <2>3, <2>5
    <3>2. Bssid(table[f[m]]) = Bssid(table[f[n]])
      BY <2>4 DEF Bssid, Addr
    <3>3. f[m] = f[n]
      BY <3>1, <3>2 DEF OneEach
    <3> QED BY <2>5, <3>3
  <2> QED BY <1>2, <2>6, <2>7, <2>8
<1> QED BY <1>1, <1>2

\* The ageing of scanDone keeps what the table has to do with the history.
LEMMA TableDone ==
    ASSUME ControlInv, TableInv, NEW a \in BOOLEAN, ScanDone(a) PROVE TableInv'
<1>1. CTypeOK /\ UNCHANGED <<gen, heard, age, wrap, cmds>>
  BY DEF ControlInv, ScanDone
<1>2. OneEach(table)'
  BY <1>1, DoneKeeps DEF TableInv
<1>3. ASSUME NEW n \in DOMAIN table' PROVE EntryInv(table[n])'
  <2>1. PICK i \in DOMAIN table : table'[n] = table[i]
    BY <1>1, DoneKeeps
  <2>2. EntryInv(table[i])
    BY DEF TableInv
  <2> QED BY <1>1, <2>1, <2>2 DEF EntryInv, Lag, Bssid, Addr
<1>4. ASSUME NEW b \in Bssids, age'[b] <= MaxAge PROVE Listed(b)'
  <2>1. PICK i \in DOMAIN table : Bssid(table[i]) = b
    BY <1>1, <1>4 DEF TableInv, Listed
  <2>2. EntryInv(table[i]) /\ table[i] \in Entries
    BY <1>1 DEF TableInv, CTypeOK
  <2>3. Lag(table[i]) <= age[b] /\ age[b] <= MaxAge
    BY <1>1, <1>4, <2>1, <2>2 DEF EntryInv
  <2>4. ~(Lag(table[i]) > MaxAge)
    BY <1>1, <2>2, <2>3, LagNat, Bounds DEF CTypeOK
  <2>5. ~Stale(table[i])
    BY <2>4 DEF Stale, Lag
  <2>6. PICK n \in DOMAIN table' : table'[n] = table[i]
    BY <1>1, <2>5, DoneKeeps
  <2> QED BY <2>1, <2>6 DEF Listed, Bssid, Addr
<1> QED BY <1>2, <1>3, <1>4 DEF TableInv

\* So does every handler.
LEMMA StepTable == ControlInv /\ ControlInv' /\ TableInv /\ [CNext]_bvars => TableInv'
<1> SUFFICES ASSUME ControlInv, ControlInv', TableInv, [CNext]_bvars PROVE TableInv'
  OBVIOUS
<1>1. CTypeOK /\ cmds \in Nat /\ cmds' \in Nat
  BY Bounds DEF ControlInv, CTypeOK
<1>2. CASE CtlScan \/ RxEnter
  BY <1>2, TableScan, TableEnter
<1>3. ASSUME NEW a \in BOOLEAN, ScanDone(a) PROVE TableInv'
  BY <1>3, TableDone
<1>4. ASSUME NEW s, CtlConnect(s) PROVE TableInv'
  BY <1>1, <1>4, TableKeeps DEF CtlConnect, tablevars
<1>5. ASSUME UNCHANGED <<table, gen, heard, age, wrap, cmds>> PROVE TableInv'
  BY <1>1, <1>5, TableKeeps
<1>6. CASE UNCHANGED bvars
  BY <1>5, <1>6 DEF bvars
<1>7. ASSUME NEW f \in Frames, RxBeacon(f) PROVE TableInv'
  BY <1>5, <1>7 DEF RxBeacon
<1>8. CASE CtlScanStart \/ ScanTimeout \/ Tune \/ Tune40 \/ Tune80 \/ AuthSet \/ AuthRetry
  BY <1>5, <1>8 DEF CtlScanStart, ScanTimeout, Tune, Tune40, Tune80, AuthSet, AuthRetry, tablevars
<1>9. CASE RxAuth \/ RxAssoc \/ LinkLost \/ CtlDisconnect
  BY <1>5, <1>9 DEF RxAuth, RxAssoc, LinkLost, CtlDisconnect, tablevars
<1> QED
  BY <1>2, <1>3, <1>4, <1>6, <1>7, <1>8, <1>9 DEF CNext

\* The table has each BSSID at most once, with what its last beacon said, and
\* every BSS heard in the last MaxAge scans, for a table of any length, across
\* the wrap of _scanGeneration, and whatever a scan does while processScanResult
\* parses a beacon.
THEOREM ControlTable == CSpec => []TableIsCurrent
<1>1. CInit /\ [][CNext]_bvars => [](ControlInv /\ TableInv)
  <2>1. ControlInv /\ TableInv /\ [CNext]_bvars => ControlInv' /\ TableInv'
    BY StepControl, StepTable
  <2> QED BY <2>1, InitControl, InitTable, PTL
<1>2. TableInv => TableIsCurrent
  BY DEF TableInv, OneEach, EntryInv, TableIsCurrent
<1> QED BY <1>1, <1>2, PTL DEF CSpec

\* When a scan ends unaborted no BSS is left that more than MaxAge scans missed,
\* except the network in use, which always is, and what the wrap of the
\* generation made young again.
THEOREM ControlOldGo == CSpec => OldOnesGo
<1> DEFINE Good ==
      ScanDone(FALSE) =>
         \A b \in Bssids :
            /\ Listed(b)' => age[b] <= MaxAge \/ wrap <= MaxAge \/ (state = "LINKED" /\ Addr[target] = b)
            /\ Listed(b) /\ state = "LINKED" /\ Addr[target] = b => Listed(b)'
<1>1. CInit /\ [][CNext]_bvars => [](ControlInv /\ TableInv)
  <2>1. ControlInv /\ TableInv /\ [CNext]_bvars => ControlInv' /\ TableInv'
    BY StepControl, StepTable
  <2> QED BY <2>1, InitControl, InitTable, PTL
<1>2. ControlInv /\ TableInv => Good
  <2> SUFFICES ASSUME ControlInv, TableInv, ScanDone(FALSE), NEW b \in Bssids
               PROVE  /\ Listed(b)' => age[b] <= MaxAge \/ wrap <= MaxAge
                                         \/ (state = "LINKED" /\ Addr[target] = b)
                      /\ Listed(b) /\ state = "LINKED" /\ Addr[target] = b => Listed(b)'
    OBVIOUS
  <2>1. CTypeOK /\ age[b] \in 0 .. Long /\ wrap \in 0 .. Long /\ MaxAge \in Nat
    BY Bounds DEF ControlInv, CTypeOK
  <2>2. ASSUME Listed(b)'
        PROVE  age[b] <= MaxAge \/ wrap <= MaxAge \/ (state = "LINKED" /\ Addr[target] = b)
    <3>1. PICK n \in DOMAIN table' : Bssid(table'[n]) = b
      BY <2>2 DEF Listed, Bssid, Addr
    <3>2. PICK i \in DOMAIN table : table'[n] = table[i] /\ ~Stale(table[i])
      BY <2>1, DoneKeeps
    <3>3. EntryInv(table[i]) /\ table[i] \in Entries /\ Bssid(table[i]) = b
      BY <2>1, <3>1, <3>2 DEF TableInv, CTypeOK
    <3>4. Lag(table[i]) \in Nat
      BY <2>1, <3>3, LagNat
    <3>5. IsTarget(table[i]) \/ Lag(table[i]) <= MaxAge
      BY <2>1, <3>2, <3>4 DEF Stale, Lag
    <3>6. IsTarget(table[i]) => state = "LINKED" /\ Addr[target] = b
      BY <3>3 DEF IsTarget
    <3>7. Lag(table[i]) <= MaxAge => age[b] <= MaxAge \/ wrap <= MaxAge
      BY <2>1, <3>3, <3>4, Bounds DEF EntryInv
    <3> QED BY <3>5, <3>6, <3>7
  <2>3. ASSUME Listed(b), state = "LINKED", Addr[target] = b PROVE Listed(b)'
    <3>1. PICK i \in DOMAIN table : Bssid(table[i]) = b
      BY <2>3 DEF Listed
    <3>2. ~Stale(table[i])
      BY <2>3, <3>1 DEF Stale, IsTarget
    <3>3. PICK n \in DOMAIN table' : table'[n] = table[i]
      BY <2>1, <3>2, DoneKeeps
    <3> QED BY <3>1, <3>3 DEF Listed, Bssid, Addr
  <2> QED BY <2>2, <2>3
<1> QED
  BY <1>1, <1>2, PTL DEF CSpec, OldOnesGo

-----------------------------------------------------------------------------
(* The width of the link.                                                  *)

\* The width that the link should have.
Chosen == Chandef(Bss[target], chip)

\* Between its steps setConnectedChandef has got as far as tc says; a retry does not
\* change what it ends with.  An association request and a peer station made at that
\* width (not early) are made for it; and both are always made for this target.
TuneInv ==
    /\ ~{"tune", "wide"} \subseteq tc
    /\ tuned = "yes" => tc \cap {"tune", "wide"} = {} /\ width = Chosen
    /\ tuned = "half" =>
          /\ htAllowed(Bss[target]) /\ tc \cap {"tune", "wide"} # {}
          /\ "tune" \in tc => width = 20
          /\ "wide" \in tc => width = IF Widen40(Bss[target], chip) THEN 40 ELSE 20

WidthInv ==
    /\ state \in {"ASSOC", "LINKED"} =>
          /\ \E w : req = AssocReq(Bss[target], chip, w)
          /\ ~early => req = AssocReq(Bss[target], chip, Chosen)
    /\ sta # NoSta =>
          /\ \E w : sta = PeerSta(Bss[target], chip, w)
          /\ ~early => sta = PeerSta(Bss[target], chip, Chosen)

\* setConnectedChandef step by step.
LEMMA StepTune == TuneInv /\ [CNext]_bvars => TuneInv'
<1> SUFFICES ASSUME TuneInv, [CNext]_bvars PROVE TuneInv'
  OBVIOUS
<1> USE DEF TuneInv, Chosen
<1>1. ASSUME UNCHANGED <<chip, target, width, tuned, tc>> PROVE TuneInv'
  BY <1>1
<1>2. ASSUME NEW f \in Frames, RxBeacon(f) PROVE TuneInv'
  BY <1>2, <1>1 DEF RxBeacon, linkvars
<1>3. ASSUME NEW s, CtlConnect(s) PROVE TuneInv'
  BY <1>3 DEF CtlConnect
<1>4. ASSUME NEW a \in BOOLEAN, ScanDone(a) PROVE TuneInv'
  BY <1>4, <1>1 DEF ScanDone, linkvars
<1>5. CASE RxEnter \/ CtlScan \/ CtlScanStart \/ ScanTimeout
  BY <1>5, <1>1 DEF RxEnter, CtlScan, CtlScanStart, ScanTimeout, linkvars
<1>6. CASE Tune
  <2>1. tc \cap {"tune", "wide"} = {} /\ UNCHANGED <<chip, target>>
    BY <1>6 DEF Tune, Tuning
  <2>2. CASE ~Tunable(Bss[target], chip)
    <3>1. UNCHANGED <<width, tuned>> /\ tc' \cap {"tune", "wide"} = {}
      BY <1>6, <2>1, <2>2 DEF Tune, Transmit
    <3> QED BY <2>1, <3>1
  <2>3. CASE Tunable(Bss[target], chip) /\ ~htAllowed(Bss[target])
    <3>1. width' = 20 /\ tuned' = "yes" /\ tc' \cap {"tune", "wide"} = {}
      BY <1>6, <2>1, <2>3 DEF Tune, Transmit, Narrow
    <3> QED BY <2>1, <2>3, <3>1 DEF Chandef
  <2>4. CASE Tunable(Bss[target], chip) /\ htAllowed(Bss[target])
    <3>1. width' = 20 /\ tuned' = "half" /\ tc' = {"tune"}
      BY <1>6, <2>4 DEF Tune, Narrow
    <3> QED BY <2>1, <2>4, <3>1
  <2> QED BY <2>2, <2>3, <2>4
<1>7. CASE Tune40
  <2>1. "tune" \in tc /\ "wide" \notin tc /\ tuned # "yes" /\ UNCHANGED <<chip, target, tuned>>
    BY <1>7 DEF Tune40
  <2>2. "tune" \notin tc' /\ "wide" \in tc'
    BY <1>7 DEF Tune40
  <2>3. tuned = "half" => width' = IF Widen40(Bss[target], chip) THEN 40 ELSE 20
    BY <1>7, <2>1 DEF Tune40
  <2> QED BY <2>1, <2>2, <2>3
<1>8. CASE Tune80
  <2>1. "wide" \in tc /\ "tune" \notin tc /\ tuned # "yes" /\ UNCHANGED <<chip, target>>
    BY <1>8 DEF Tune80
  <2>2. tc' \cap {"tune", "wide"} = {} /\ tuned' = IF tuned = "half" THEN "yes" ELSE tuned
    BY <1>8, <2>1 DEF Tune80, Transmit
  <2>3. tuned = "half" => width' = Chandef(Bss[target], chip)
    BY <1>8, <2>1 DEF Tune80, Chandef
  <2> QED BY <2>1, <2>2, <2>3
<1>9. CASE AuthSet \/ AuthRetry
  BY <1>9 DEF AuthSet, AuthRetry
<1>10. CASE RxAuth \/ RxAssoc \/ LinkLost \/ CtlDisconnect
  BY <1>10, <1>1 DEF RxAuth, RxAssoc, LinkLost, CtlDisconnect
<1>11. CASE UNCHANGED bvars
  BY <1>1, <1>11 DEF bvars
<1> QED
  BY <1>2, <1>3, <1>4, <1>5, <1>6, <1>7, <1>8, <1>9, <1>10, <1>11 DEF CNext

\* Every handler keeps what was tuned, requested and set up consistent.
LEMMA StepWidth == TuneInv /\ WidthInv /\ [CNext]_bvars => WidthInv'
<1> SUFFICES ASSUME TuneInv, WidthInv, [CNext]_bvars PROVE WidthInv'
  OBVIOUS
<1> USE DEF WidthInv, Chosen
<1>1. ASSUME UNCHANGED <<chip, target, req, sta, early>>,
             state' \in {"ASSOC", "LINKED"} => state' = state
      PROVE  WidthInv'
  BY <1>1
<1>2. ASSUME NEW f \in Frames, RxBeacon(f) PROVE WidthInv'
  BY <1>2, <1>1 DEF RxBeacon, linkvars
<1>3. ASSUME NEW s, CtlConnect(s) PROVE WidthInv'
  BY <1>3 DEF CtlConnect
<1>4. ASSUME NEW a \in BOOLEAN, ScanDone(a) PROVE WidthInv'
  BY <1>4, <1>1 DEF ScanDone, linkvars
<1>5. CASE RxEnter \/ CtlScan \/ CtlScanStart \/ ScanTimeout
  BY <1>5, <1>1 DEF RxEnter, CtlScan, CtlScanStart, ScanTimeout, linkvars
<1>6. CASE Tune \/ Tune40 \/ Tune80
  BY <1>6, <1>1 DEF Tune, Tune40, Tune80
<1>7. CASE AuthSet \/ AuthRetry
  BY <1>7, <1>1 DEF AuthSet, AuthRetry
<1>8. CASE RxAuth
  <2>1. req' = AssocReq(Bss[target], chip, width) /\ UNCHANGED <<chip, target, sta>>
        /\ state' = "ASSOC"
    BY <1>8 DEF RxAuth
  <2>2. ~early' => ~early /\ tuned = "yes"
    BY <1>8 DEF RxAuth
  <2>3. ~early' => width = Chandef(Bss[target], chip)
    BY <2>2 DEF TuneInv
  <2> QED BY <2>1, <2>2, <2>3
<1>9. CASE RxAssoc
  <2>1. UNCHANGED <<chip, target, req>> /\ state = "ASSOC"
    BY <1>9 DEF RxAssoc
  <2>2. ~early' => ~early /\ (sta = NoSta => width = Chandef(Bss[target], chip))
    BY <1>9 DEF RxAssoc, TuneInv
  <2>3. sta' = IF sta = NoSta THEN PeerSta(Bss[target], chip, width) ELSE sta
    BY <1>9 DEF RxAssoc
  <2> QED BY <2>1, <2>2, <2>3
<1>10. CASE LinkLost \/ CtlDisconnect
  BY <1>10 DEF LinkLost, CtlDisconnect
<1>11. CASE UNCHANGED bvars
  BY <1>1, <1>11 DEF bvars
<1> QED
  BY <1>2, <1>3, <1>4, <1>5, <1>6, <1>7, <1>8, <1>9, <1>10, <1>11 DEF CNext

\* What the association request says of the widths.
LEMMA Advertises ==
    \A b, c :
        /\ htAllowed(b) /\ Band(b) \in c.ht /\ Band(b) \in c.ht40 =>
               AssocReq(b, c, 40).ht40 /\ AssocReq(b, c, 80).ht40
        /\ AssocReq(b, c, 80).vht = (htAllowed(b) /\ Band(b) = "5" /\ c.vht)
<1> SUFFICES ASSUME NEW b, NEW c
             PROVE  /\ htAllowed(b) /\ Band(b) \in c.ht /\ Band(b) \in c.ht40 =>
                           AssocReq(b, c, 40).ht40 /\ AssocReq(b, c, 80).ht40
                    /\ AssocReq(b, c, 80).vht = (htAllowed(b) /\ Band(b) = "5" /\ c.vht)
  OBVIOUS
<1>1. 40 >= 40 /\ 80 >= 40
  OBVIOUS
<1>2. AssocReq(b, c, 80).vht = (htAllowed(b) /\ Band(b) = "5" /\ c.vht)
  BY DEF AssocReq
<1>3. \A w : AssocReq(b, c, w).ht40 =
                 (htAllowed(b) /\ Band(b) \in c.ht /\ Band(b) \in c.ht40 /\ w >= 40)
  BY DEF AssocReq
<1> QED BY <1>1, <1>2, <1>3

\* The width setConnectedChandef ends with is one the access point allows and
\* buildAssocReq advertises, but for what the driver forces.
LEMMA ChosenAgreed ==
    \A b : \A c \in Chips : Agreed(Chandef(b, c), b, c, AssocReq(b, c, Chandef(b, c)))
<1> SUFFICES ASSUME NEW b, NEW c \in Chips
             PROVE  Agreed(Chandef(b, c), b, c, AssocReq(b, c, Chandef(b, c)))
  OBVIOUS
<1>1. Band(b) \in c.ht40 => Band(b) \in c.ht
  BY ControlAssumption
<1>2. CASE htAllowed(b) /\ Widen80(b, c)
  <2>1. Chandef(b, c) = 80 /\ Band(b) = "5" /\ "5" \in c.ht40 /\ c.vht /\ Allows80(b)
    BY <1>2 DEF Chandef, Widen80, Chip80
  <2>2. /\ AssocReq(b, c, 80).ht40
        /\ AssocReq(b, c, 80).vht = (htAllowed(b) /\ Band(b) = "5" /\ c.vht)
    BY <1>1, <1>2, <2>1, Advertises
  <2>3. AssocReq(b, c, 80).vht
    BY <1>2, <2>1, <2>2
  <2> QED BY <2>1, <2>2, <2>3 DEF Agreed
<1>3. CASE htAllowed(b) /\ ~Widen80(b, c) /\ Widen40(b, c)
  <2>1. Chandef(b, c) = 40 /\ Chip40(b, c) /\ (Allows40(b) \/ (c.d723 /\ Band(b) = "2"))
    BY <1>3 DEF Chandef, Widen40
  <2>2. CASE Band(b) \in c.ht40
    <3>1. AssocReq(b, c, 40).ht40
      BY <1>1, <1>3, <2>2, Advertises
    <3> QED BY <2>1, <3>1 DEF Agreed
  <2>3. CASE Band(b) \notin c.ht40
    <3>1. Band(b) = "2"
      BY <2>1, <2>3 DEF Chip40
    <3> QED BY <2>1, <2>3, <3>1 DEF Agreed
  <2> QED BY <2>2, <2>3
<1>4. CASE ~(htAllowed(b) /\ Widen80(b, c)) /\ ~(htAllowed(b) /\ Widen40(b, c))
  <2>1. Chandef(b, c) = 20
    BY <1>4 DEF Chandef
  <2> QED BY <2>1 DEF Agreed
<1> QED BY <1>2, <1>3, <1>4

\* buildAssocReq and the peer station tell the same, for one width: a band
\* with 40 MHz has HT.  Who and whether VHT, they tell for any.
LEMMA SameWidth ==
    \A b, w : \A c \in Chips :
        /\ PeerSta(b, c, w).bssid = b.bssid /\ AssocReq(b, c, w).bssid = b.bssid
        /\ PeerSta(b, c, w).ht40 = AssocReq(b, c, w).ht40
        /\ PeerSta(b, c, w).vht = (htAllowed(b) /\ Band(b) = "5" /\ c.vht)
        /\ AssocReq(b, c, w).vht = (htAllowed(b) /\ Band(b) = "5" /\ c.vht)
        /\ PeerSta(b, c, w).width = w
<1> SUFFICES ASSUME NEW b, NEW w, NEW c \in Chips
             PROVE  /\ PeerSta(b, c, w).bssid = b.bssid /\ AssocReq(b, c, w).bssid = b.bssid
                    /\ PeerSta(b, c, w).ht40 = AssocReq(b, c, w).ht40
                    /\ PeerSta(b, c, w).vht = (htAllowed(b) /\ Band(b) = "5" /\ c.vht)
                    /\ AssocReq(b, c, w).vht = (htAllowed(b) /\ Band(b) = "5" /\ c.vht)
                    /\ PeerSta(b, c, w).width = w
  OBVIOUS
<1>1. Band(b) \in c.ht40 => Band(b) \in c.ht
  BY ControlAssumption
<1> QED BY <1>1 DEF PeerSta, AssocReq

\* Whatever connections, retries and late answers came before, the peer station is
\* what the association request said, and as wide as was advertised and allowed, but
\* for what the driver forces; unless one of the two was made before the chip was
\* tuned or in the middle of it.
THEOREM ControlWidth == CSpec => []NegotiatedWidth
<1>1. CInit => TuneInv /\ WidthInv
  BY DEF CInit, TuneInv, WidthInv
<1>2. CInit /\ [][CNext]_bvars => [](ControlInv /\ TuneInv /\ WidthInv)
  <2>1. ControlInv /\ TuneInv /\ WidthInv /\ [CNext]_bvars => ControlInv' /\ TuneInv' /\ WidthInv'
    BY StepControl, StepTune, StepWidth
  <2> QED BY <1>1, <2>1, InitControl, PTL
<1>3. ControlInv /\ WidthInv => NegotiatedWidth
  <2> SUFFICES ASSUME ControlInv, WidthInv, state = "LINKED", sta # NoSta
               PROVE  /\ sta.bssid = req.bssid /\ sta.vht = req.vht
                      /\ ~early => sta.ht40 = req.ht40 /\ Agreed(sta.width, Bss[target], chip, req)
    BY DEF NegotiatedWidth
  <2>1. chip \in Chips
    BY DEF ControlInv, CTypeOK
  <2>2. PICK w : req = AssocReq(Bss[target], chip, w)
    BY DEF WidthInv
  <2>3. PICK v : sta = PeerSta(Bss[target], chip, v)
    BY DEF WidthInv
  <2>4. sta.bssid = req.bssid /\ sta.vht = req.vht
    BY <2>1, <2>2, <2>3, SameWidth
  <2>5. ASSUME ~early
        PROVE  sta.ht40 = req.ht40 /\ Agreed(sta.width, Bss[target], chip, req)
    <3>1. req = AssocReq(Bss[target], chip, Chosen) /\ sta = PeerSta(Bss[target], chip, Chosen)
      BY <2>5 DEF WidthInv
    <3>2. sta.ht40 = req.ht40 /\ sta.width = Chosen
      BY <2>1, <3>1, SameWidth
    <3> QED BY <2>1, <3>1, <3>2, ChosenAgreed DEF Chosen
  <2> QED BY <2>4, <2>5
<1> QED BY <1>2, <1>3, PTL DEF CSpec
-----------------------------------------------------------------------------
(* The list.  A loop is a function from the number of its rounds to what it *)
(* has made so far; that there is one for every number is an induction.    *)

\* Induction: a set of numbers with 0 and with the successor of each of its
\* members has them all.
LEMMA Induction ==
    ASSUME NEW S \in SUBSET Nat, 0 \in S, \A n \in S : n + 1 \in S
    PROVE  S = Nat
<1> SUFFICES ASSUME Nat \ S # {} PROVE FALSE
  OBVIOUS
<1>1. PICK i \in Nat \ S : \A j \in Nat \ S : i <= j
  <2>1. Nat \ S \in SUBSET Nat
    OBVIOUS
  <2> QED BY <2>1, Least
<1>2. i # 0 /\ i - 1 \in Nat /\ ~(i <= i - 1)
  BY <1>1
<1>3. i - 1 \in S /\ (i - 1) + 1 = i
  BY <1>1, <1>2
<1> QED BY <1>1, <1>3

\* The walk over the elements of a beacon, up to the m-th round.
ReadRuns(f, m, f0) ==
    f = [n \in 0 .. m |-> IF n = 0 THEN Blank(f0)
                                   ELSE KeepIe(ReadIe(f[n - 1], f0.ies[n]), f0.ies[n])]

\* The walk has a result for any number of elements.
LEMMA ReadRunsExists ==
    ASSUME NEW f0
    PROVE  \A m \in Nat : \E f : ReadRuns(f, m, f0)
<1> DEFINE Round(f, n) == IF n = 0 THEN Blank(f0)
                                   ELSE KeepIe(ReadIe(f[n - 1], f0.ies[n]), f0.ies[n])
           S == {m \in Nat : \E f : ReadRuns(f, m, f0)}
<1>1. 0 \in S
  <2>1. ReadRuns([n \in 0 .. 0 |-> Blank(f0)], 0, f0)
    BY DEF ReadRuns
  <2> QED BY <2>1
<1>2. ASSUME NEW m \in S PROVE m + 1 \in S
  <2>1. PICK f : ReadRuns(f, m, f0)
    OBVIOUS
  <2> DEFINE f2 == [n \in 0 .. m + 1 |-> IF n = m + 1 THEN KeepIe(ReadIe(f[m], f0.ies[m + 1]), f0.ies[m + 1])
                                                      ELSE f[n]]
  <2>2. m \in Nat /\ m + 1 \in Nat
    OBVIOUS
  <2>3. ASSUME NEW n \in 0 .. m + 1 PROVE f2[n] = Round(f2, n)
    <3>1. CASE n = m + 1
      <4>1. n # 0 /\ n - 1 = m /\ m \in 0 .. m + 1 /\ m # m + 1
        BY <2>2, <3>1
      <4>2. f2[m] = f[m]
        BY <4>1
      <4>3. f2[n] = KeepIe(ReadIe(f[m], f0.ies[m + 1]), f0.ies[m + 1])
        BY <3>1
      <4> HIDE DEF f2
      <4> QED BY <3>1, <4>1, <4>2, <4>3
    <3>2. CASE n # m + 1
      <4>1. n \in 0 .. m /\ f2[n] = f[n]
        BY <2>2, <3>2
      <4>2. f[n] = Round(f, n)
        BY <2>1, <4>1 DEF ReadRuns
      <4>3. n # 0 => n - 1 \in 0 .. m + 1 /\ n - 1 # m + 1
        BY <2>2, <4>1
      <4>4. n # 0 => f2[n - 1] = f[n - 1]
        BY <4>3
      <4> HIDE DEF f2
      <4> QED BY <4>1, <4>2, <4>4
    <3> QED BY <3>1, <3>2
  <2>4. f2 = [n \in 0 .. m + 1 |-> f2[n]]
    OBVIOUS
  <2> HIDE DEF f2
  <2>5. f2 = [n \in 0 .. m + 1 |-> Round(f2, n)]
    <3> HIDE DEF Round
    <3> QED BY <2>3, <2>4
  <2>6. ReadRuns(f2, m + 1, f0)
    BY <2>5 DEF ReadRuns
  <2>7. \E f3 : ReadRuns(f3, m + 1, f0)
    BY <2>6
  <2> QED BY <2>2, <2>7
<1> HIDE DEF S
<1>3. S \in SUBSET Nat
  BY DEF S
<1>4. S = Nat
  BY <1>1, <1>2, <1>3, Induction
<1> QED BY <1>4 DEF S

\* How cmdGetBSSList and cmd_list begin.
PutNone == [written |-> 4, full |-> FALSE, out |-> <<>>]
TakeNone == [p |-> 4, cut |-> FALSE, rows |-> <<>>]

\* The loop of cmdGetBSSList, up to the m-th round.
PutRuns(f, m, t, max) ==
    f = [n \in 0 .. m |-> IF n = 0 THEN PutNone
                                   ELSE PutEntry(f[n - 1], t[n], max)]

\* It has a result for any number of entries.
LEMMA PutRunsExists ==
    ASSUME NEW t, NEW max
    PROVE  \A m \in Nat : \E f : PutRuns(f, m, t, max)
<1> DEFINE Round(f, n) == IF n = 0 THEN PutNone
                                   ELSE PutEntry(f[n - 1], t[n], max)
           S == {m \in Nat : \E f : PutRuns(f, m, t, max)}
<1>1. 0 \in S
  <2>1. PutRuns([n \in 0 .. 0 |-> PutNone], 0, t, max)
    BY DEF PutRuns
  <2> QED BY <2>1
<1>2. ASSUME NEW m \in S PROVE m + 1 \in S
  <2>1. PICK f : PutRuns(f, m, t, max)
    OBVIOUS
  <2> DEFINE f2 == [n \in 0 .. m + 1 |-> IF n = m + 1 THEN PutEntry(f[m], t[m + 1], max)
                                                      ELSE f[n]]
  <2>2. m \in Nat /\ m + 1 \in Nat
    OBVIOUS
  <2>3. ASSUME NEW n \in 0 .. m + 1 PROVE f2[n] = Round(f2, n)
    <3>1. CASE n = m + 1
      <4>1. n # 0 /\ n - 1 = m /\ m \in 0 .. m + 1 /\ m # m + 1
        BY <2>2, <3>1
      <4>2. f2[m] = f[m]
        BY <4>1
      <4>3. f2[n] = PutEntry(f[m], t[m + 1], max)
        BY <3>1
      <4> HIDE DEF f2
      <4> QED BY <3>1, <4>1, <4>2, <4>3
    <3>2. CASE n # m + 1
      <4>1. n \in 0 .. m /\ f2[n] = f[n]
        BY <2>2, <3>2
      <4>2. f[n] = Round(f, n)
        BY <2>1, <4>1 DEF PutRuns
      <4>3. n # 0 => n - 1 \in 0 .. m + 1 /\ n - 1 # m + 1
        BY <2>2, <4>1
      <4>4. n # 0 => f2[n - 1] = f[n - 1]
        BY <4>3
      <4> HIDE DEF f2
      <4> QED BY <4>1, <4>2, <4>4
    <3> QED BY <3>1, <3>2
  <2>4. f2 = [n \in 0 .. m + 1 |-> f2[n]]
    OBVIOUS
  <2> HIDE DEF f2
  <2>5. f2 = [n \in 0 .. m + 1 |-> Round(f2, n)]
    <3> HIDE DEF Round
    <3> QED BY <2>3, <2>4
  <2>6. PutRuns(f2, m + 1, t, max)
    BY <2>5 DEF PutRuns
  <2>7. \E f3 : PutRuns(f3, m + 1, t, max)
    BY <2>6
  <2> QED BY <2>2, <2>7
<1> HIDE DEF S
<1>3. S \in SUBSET Nat
  BY DEF S
<1>4. S = Nat
  BY <1>1, <1>2, <1>3, Induction
<1> QED BY <1>4 DEF S

\* The loop of cmd_list, up to the m-th round.
TakeRuns(f, m, ws, end) ==
    f = [n \in 0 .. m |-> IF n = 0 THEN TakeNone
                                   ELSE TakeEntry(f[n - 1], ws[n], end)]

\* It has a result for any number of entries.
LEMMA TakeRunsExists ==
    ASSUME NEW ws, NEW end
    PROVE  \A m \in Nat : \E f : TakeRuns(f, m, ws, end)
<1> DEFINE Round(f, n) == IF n = 0 THEN TakeNone
                                   ELSE TakeEntry(f[n - 1], ws[n], end)
           S == {m \in Nat : \E f : TakeRuns(f, m, ws, end)}
<1>1. 0 \in S
  <2>1. TakeRuns([n \in 0 .. 0 |-> TakeNone], 0, ws, end)
    BY DEF TakeRuns
  <2> QED BY <2>1
<1>2. ASSUME NEW m \in S PROVE m + 1 \in S
  <2>1. PICK f : TakeRuns(f, m, ws, end)
    OBVIOUS
  <2> DEFINE f2 == [n \in 0 .. m + 1 |-> IF n = m + 1 THEN TakeEntry(f[m], ws[m + 1], end)
                                                      ELSE f[n]]
  <2>2. m \in Nat /\ m + 1 \in Nat
    OBVIOUS
  <2>3. ASSUME NEW n \in 0 .. m + 1 PROVE f2[n] = Round(f2, n)
    <3>1. CASE n = m + 1
      <4>1. n # 0 /\ n - 1 = m /\ m \in 0 .. m + 1 /\ m # m + 1
        BY <2>2, <3>1
      <4>2. f2[m] = f[m]
        BY <4>1
      <4>3. f2[n] = TakeEntry(f[m], ws[m + 1], end)
        BY <3>1
      <4> HIDE DEF f2
      <4> QED BY <3>1, <4>1, <4>2, <4>3
    <3>2. CASE n # m + 1
      <4>1. n \in 0 .. m /\ f2[n] = f[n]
        BY <2>2, <3>2
      <4>2. f[n] = Round(f, n)
        BY <2>1, <4>1 DEF TakeRuns
      <4>3. n # 0 => n - 1 \in 0 .. m + 1 /\ n - 1 # m + 1
        BY <2>2, <4>1
      <4>4. n # 0 => f2[n - 1] = f[n - 1]
        BY <4>3
      <4> HIDE DEF f2
      <4> QED BY <4>1, <4>2, <4>4
    <3> QED BY <3>1, <3>2
  <2>4. f2 = [n \in 0 .. m + 1 |-> f2[n]]
    OBVIOUS
  <2> HIDE DEF f2
  <2>5. f2 = [n \in 0 .. m + 1 |-> Round(f2, n)]
    <3> HIDE DEF Round
    <3> QED BY <2>3, <2>4
  <2>6. TakeRuns(f2, m + 1, ws, end)
    BY <2>5 DEF TakeRuns
  <2>7. \E f3 : TakeRuns(f3, m + 1, ws, end)
    BY <2>6
  <2> QED BY <2>2, <2>7
<1> HIDE DEF S
<1>3. S \in SUBSET Nat
  BY DEF S
<1>4. S = Nat
  BY <1>1, <1>2, <1>3, Induction
<1> QED BY <1>4 DEF S

\* What the list needs of a record of signal r.
Shaped(b, r) ==
    /\ DOMAIN b = {"bssid", "ssid", "ssid_len", "rssi", "channel", "cipher", "group", "akm",
                   "ies", "ies_len"}
    /\ b.ssid_len \in 0 .. 32 /\ b.channel \in Nat /\ b.channel < 256 /\ b.rssi = r

\* One element leaves a record a record.
LEMMA ReadShaped ==
    ASSUME NEW b, NEW e, NEW r, Shaped(b, r),
           e.id \in {"DS", "HT_OP"} => e.channel \in Nat /\ e.channel < 256
    PROVE  Shaped(KeepIe(ReadIe(b, e), e), r)
<1>1. Shaped(RsnSelect(b, e), r)
  BY DEF RsnSelect, Shaped
<1>2. Shaped(ReadIe(b, e), r)
  <2>1. CASE e.id = "SSID"
    BY <2>1 DEF ReadIe, Shaped
  <2>2. CASE e.id = "DS"
    BY <2>2 DEF ReadIe, Shaped
  <2>3. CASE e.id = "HT_OP"
    BY <2>3 DEF ReadIe, Shaped
  <2>4. CASE e.id = "RSN"
    BY <1>1, <2>4 DEF ReadIe
  <2>5. CASE e.id = "WPA"
    BY <2>5 DEF ReadIe, Shaped
  <2>6. CASE e.id \notin {"SSID", "DS", "HT_OP", "RSN", "WPA"}
    BY <2>6 DEF ReadIe
  <2> QED BY <2>1, <2>2, <2>3, <2>4, <2>5, <2>6
<1>3. \A c : Shaped(c, r) => Shaped(KeepIe(c, e), r)
  BY DEF KeepIe, Shaped
<1> QED BY <1>2, <1>3

\* The channel of a frequency is a byte.
LEMMA ChannelByte ==
    ASSUME NEW q \in Nat
    PROVE  ChannelOf(q) \in Nat /\ ChannelOf(q) < 256
<1> DEFINE A == 2412 .. 2472
           B == 5000 .. 5900
<1>1. /\ q = 2484 => q \notin A /\ q \notin B
      /\ q \in A => q \notin B /\ (q - 2407) \div 5 \in Nat /\ (q - 2407) \div 5 < 256
      /\ q \in B => (q - 5000) \div 5 \in Nat /\ (q - 5000) \div 5 < 256
  OBVIOUS
<1>2. ChannelOf(q) = CASE q = 2484 -> 14
                       [] q \in A  -> (q - 2407) \div 5
                       [] q \in B  -> (q - 5000) \div 5
                       [] OTHER    -> 0
  BY DEF ChannelOf
<1> HIDE DEF A, B
<1>3. CASE q = 2484
  BY <1>1, <1>2, <1>3
<1>4. CASE q # 2484 /\ q \in A
  BY <1>1, <1>2, <1>4
<1>5. CASE q # 2484 /\ q \notin A /\ q \in B
  BY <1>1, <1>2, <1>5
<1>6. CASE q # 2484 /\ q \notin A /\ q \notin B
  BY <1>1, <1>2, <1>6
<1> QED BY <1>3, <1>4, <1>5, <1>6

\* The fields of a record that a beacon with any elements gives.
LEMMA BssShaped == \A f \in Frames : Shaped(Bss[f], Beacon[f].rssi)
<1> SUFFICES ASSUME NEW f0 \in Frames PROVE Shaped(Bss[f0], Beacon[f0].rssi)
  OBVIOUS
<1> DEFINE x == Beacon[f0]
           N == Len(x.ies)
           Is(f) == f = [n \in 0 .. N |-> IF n = 0 THEN Blank(x)
                                          ELSE KeepIe(ReadIe(f[n - 1], x.ies[n]), x.ies[n])]
           bss == CHOOSE f : Is(f)
<1>1. /\ x.freq \in Nat /\ DOMAIN x.ies = 1 .. N /\ N \in Nat
      /\ \A i \in 1 .. N : x.ies[i].id \in {"DS", "HT_OP"} =>
            x.ies[i].channel \in Nat /\ x.ies[i].channel < 256
  BY BeaconAssumption DEF Frames
<1>2. Bss[f0] = [bss[N] EXCEPT !.channel = IF @ = 0 THEN ChannelOf(x.freq) ELSE @]
  BY DEF Bss, ParseBeacon
<1> HIDE DEF x
<1>3. Is(bss)
  <2>1. \E f : Is(f)
    BY <1>1, ReadRunsExists DEF ReadRuns
  <2> HIDE DEF Is
  <2> QED BY <2>1
<1> HIDE DEF bss
<1>4. bss[0] = Blank(x) /\ \A n \in 1 .. N : bss[n] = KeepIe(ReadIe(bss[n - 1], x.ies[n]), x.ies[n])
  BY <1>1, <1>3
<1> HIDE DEF Is
<1>5. Shaped(bss[N], x.rssi)
  <2> DEFINE S == {n \in Nat : n <= N => Shaped(bss[n], x.rssi)}
  <2>1. 0 \in S
    <3>1. Shaped(Blank(x), x.rssi)
      BY DEF Blank, Shaped
    <3> QED BY <1>4, <3>1
  <2>2. ASSUME NEW n \in S PROVE n + 1 \in S
    <3> SUFFICES ASSUME n + 1 <= N PROVE Shaped(bss[n + 1], x.rssi)
      OBVIOUS
    <3>1. n + 1 \in 1 .. N /\ (n + 1) - 1 = n /\ n <= N
      BY <1>1
    <3>2. Shaped(bss[n], x.rssi)
      BY <3>1
    <3>3. bss[n + 1] = KeepIe(ReadIe(bss[n], x.ies[n + 1]), x.ies[n + 1])
      BY <1>4, <3>1
    <3>4. x.ies[n + 1].id \in {"DS", "HT_OP"} =>
            x.ies[n + 1].channel \in Nat /\ x.ies[n + 1].channel < 256
      BY <1>1, <3>1
    <3>5. Shaped(KeepIe(ReadIe(bss[n], x.ies[n + 1]), x.ies[n + 1]), x.rssi)
      BY <3>2, <3>4, ReadShaped
    <3> QED BY <3>3, <3>5
  <2> HIDE DEF S
  <2>3. S \in SUBSET Nat
    BY DEF S
  <2>4. S = Nat
    BY <2>1, <2>2, <2>3, Induction
  <2> QED BY <1>1, <2>4 DEF S
<1>6. ChannelOf(x.freq) \in Nat /\ ChannelOf(x.freq) < 256
  BY <1>1, ChannelByte
<1>7. Shaped(Bss[f0], x.rssi)
  BY <1>2, <1>5, <1>6 DEF Shaped
<1> QED BY <1>7 DEF x

Listable(b) ==
    /\ b.ssid_len \in 0 .. 32 /\ b.channel \in Nat /\ b.channel < 256
    /\ b.rssi \in Int /\ -32768 <= b.rssi /\ b.rssi < 32768

\* cmd_list undoes what cmdGetBSSList does to an entry: the two bytes of the
\* signal are put together again, with its sign.
LEMMA RowOfWire ==
    ASSUME NEW b, Listable(b)
    PROVE  /\ Row(Wire(b)) = AsRow(b)
           /\ EntrySize(b) \in Nat /\ EntrySize(b) >= 14 /\ WireBytes(Wire(b)) = EntrySize(b)
<1> DEFINE hi == (b.rssi \div 256) % 256
           lo == b.rssi % 256
           u  == hi * 256 + lo
<1>1. b.rssi \in Int /\ -32768 <= b.rssi /\ b.rssi < 32768
  BY DEF Listable
<1>2. b.channel % 256 = b.channel
  BY DEF Listable
<1>3. u = IF b.rssi >= 0 THEN b.rssi ELSE b.rssi + 65536
  BY <1>1
<1>4. (IF u >= 32768 THEN u - 65536 ELSE u) = b.rssi
  BY <1>1, <1>3
<1>5. EntrySize(b) \in Nat /\ EntrySize(b) >= 14 /\ WireBytes(Wire(b)) = EntrySize(b)
  BY DEF Listable, EntrySize, WireBytes, Wire
<1>6. Row(Wire(b)).rssi = IF u >= 32768 THEN u - 65536 ELSE u
  BY DEF Row, Wire
<1> HIDE DEF u
<1>7. Row(Wire(b)).rssi = b.rssi
  BY <1>4, <1>6
<1>8. Row(Wire(b)) = [ssid |-> b.ssid, bssid |-> b.bssid, channel |-> b.channel % 256,
         rssi |-> Row(Wire(b)).rssi,
         security |-> CASE b.cipher = "CCMP" -> "WPA2" [] b.cipher = "TKIP" -> "TKIP"
                        [] OTHER -> "Open"]
  BY DEF Row, Wire
<1> QED BY <1>2, <1>5, <1>7, <1>8 DEF AsRow

\* One element more of a sequence.
LEMMA AppendNext ==
    ASSUME NEW S, NEW f, NEW n \in Nat, \A i \in 1 .. n + 1 : f[i] \in S
    PROVE  /\ Append([i \in 1 .. n |-> f[i]], f[n + 1]) = [i \in 1 .. n + 1 |-> f[i]]
           /\ Len([i \in 1 .. n |-> f[i]]) = n
<1> DEFINE s == [i \in 1 .. n |-> f[i]]
           u == [i \in 1 .. n + 1 |-> f[i]]
           a == Append(s, f[n + 1])
<1>1. /\ s \in Seq(S) /\ Len(s) = n
  <2>1. \A i \in 1 .. n : f[i] \in S
    OBVIOUS
  <2>2. s \in [1 .. n -> S]
    BY <2>1
  <2> HIDE DEF s
  <2> QED BY <2>2
<1>2. u \in Seq(S) /\ Len(u) = n + 1 /\ \A i \in 1 .. n + 1 : u[i] = f[i]
  <2>1. u \in [1 .. n + 1 -> S] /\ n + 1 \in Nat /\ \A i \in 1 .. n + 1 : u[i] = f[i]
    OBVIOUS
  <2> HIDE DEF u
  <2> QED BY <2>1
<1>3. f[n + 1] \in S
  OBVIOUS
<1>4. \A i \in 1 .. n : s[i] = f[i]
  OBVIOUS
<1> HIDE DEF s, u
<1>5. a \in Seq(S) /\ Len(a) = n + 1 /\ \A i \in 1 .. n + 1 : a[i] = f[i]
  BY <1>1, <1>3, <1>4
<1> HIDE DEF a
<1>6. a = u
  BY <1>2, <1>5
<1> QED BY <1>1, <1>6 DEF a, s, u

\* The reply has the k entries ws; pos[m] is where the m-th ends.
Whole(reply, ws, pos, k) ==
    /\ Len(ws) = k /\ pos[0] = 4
    /\ \A m \in 1 .. k : /\ WireBytes(ws[m]) \in Nat \ {0} /\ pos[m - 1] \in Nat
                         /\ pos[m] = pos[m - 1] + WireBytes(ws[m])
                         /\ 4 <= pos[m] /\ pos[m] <= reply.len
    /\ reply.len \in Nat /\ reply.total = reply.len /\ reply.out = ws

\* cmd_list reads every entry of a reply that holds whole entries.
LEMMA TakeAll ==
    ASSUME NEW k \in Nat, NEW ws, NEW pos, NEW reply, Whole(reply, ws, pos, k)
    PROVE  /\ cmd_list(reply) = [i \in 1 .. k |-> Row(ws[i])]
           /\ Len(cmd_list(reply)) = k
<1> DEFINE end == IF reply.len < 4 THEN 0
                  ELSE IF reply.total > reply.len THEN reply.len ELSE reply.total
           Is(f) == TakeRuns(f, Len(reply.out), reply.out, end)
           took == CHOOSE f : Is(f)
           row == [i \in 1 .. k |-> Row(ws[i])]
           Rows == {row[i] : i \in 1 .. k}
<1> USE DEF Whole
<1>1. cmd_list(reply) = took[Len(reply.out)].rows
  BY DEF cmd_list, TakeRuns, TakeNone
<1>2. end = IF reply.len < 4 THEN 0 ELSE reply.len
  OBVIOUS
<1>3. \A m \in 1 .. k : pos[m] <= end
  BY <1>2
<1> HIDE DEF end
<1>4. Is(took)
  <2>1. \E f : Is(f)
    BY TakeRunsExists
  <2> HIDE DEF Is
  <2> QED BY <2>1
<1> HIDE DEF took
<1>5. /\ took[0] = TakeNone
      /\ \A n \in 1 .. k : took[n] = TakeEntry(took[n - 1], ws[n], end)
  <2>1. TakeRuns(took, k, ws, end)
    BY <1>4
  <2>2. \A n \in 0 .. k : took[n] = IF n = 0 THEN TakeNone ELSE TakeEntry(took[n - 1], ws[n], end)
    BY <2>1 DEF TakeRuns
  <2> QED BY <2>2
<1> HIDE DEF Is
<1> DEFINE At(m) == took[m] = [p |-> pos[m], cut |-> FALSE, rows |-> [i \in 1 .. m |-> row[i]]]
           S == {m \in Nat : m <= k => At(m)}
<1>6. 0 \in S
  <2>1. [i \in 1 .. 0 |-> row[i]] = <<>>
    OBVIOUS
  <2> HIDE DEF row
  <2> QED BY <1>5, <2>1 DEF TakeNone
<1>7. ASSUME NEW m \in S PROVE m + 1 \in S
  <2> SUFFICES ASSUME m + 1 <= k PROVE At(m + 1)
    OBVIOUS
  <2>1. m + 1 \in 1 .. k /\ (m + 1) - 1 = m /\ m <= k /\ m \in Nat
    OBVIOUS
  <2>2. took[m] = [p |-> pos[m], cut |-> FALSE, rows |-> [i \in 1 .. m |-> row[i]]]
    BY <2>1
  <2>3. took[m + 1] = TakeEntry(took[m], ws[m + 1], end)
    BY <1>5, <2>1
  <2>4. /\ WireBytes(ws[m + 1]) \in Nat \ {0} /\ pos[m] \in Nat
        /\ pos[m + 1] = pos[m] + WireBytes(ws[m + 1])
    BY <2>1
  <2>5. pos[m + 1] <= end /\ end \in Int
    BY <1>2, <1>3, <2>1
  <2>6. ~(pos[m] + 1 > end) /\ ~(pos[m] + WireBytes(ws[m + 1]) > end)
    <3>1. \A x, e \in Int : \A y \in Nat \ {0} : x + y <= e => ~(x + 1 > e) /\ ~(x + y > e)
      OBVIOUS
    <3> QED BY <2>4, <2>5, <3>1
  <2>7. row[m + 1] = Row(ws[m + 1])
    BY <2>1
  <2>8. Append([i \in 1 .. m |-> row[i]], row[m + 1]) = [i \in 1 .. m + 1 |-> row[i]]
    <3>1. \A i \in 1 .. m + 1 : row[i] \in Rows
      BY <2>1
    <3> HIDE DEF row, Rows
    <3> QED BY <2>1, <3>1, AppendNext
  <2> HIDE DEF row
  <2>9. TakeEntry(took[m], ws[m + 1], end) =
          [p |-> pos[m + 1], cut |-> FALSE, rows |-> [i \in 1 .. m + 1 |-> row[i]]]
    <3> DEFINE a == took[m]
               r == [i \in 1 .. m |-> row[i]]
    <3>1. a = [p |-> pos[m], cut |-> FALSE, rows |-> r]
      BY <2>2
    <3> HIDE DEF a, r
    <3>2. ~a.cut /\ a.p = pos[m] /\ a.rows = r
      BY <3>1
    <3>3. TakeEntry(a, ws[m + 1], end) =
            [p |-> pos[m] + WireBytes(ws[m + 1]), cut |-> FALSE,
             rows |-> Append(r, Row(ws[m + 1]))]
      BY <2>6, <3>2 DEF TakeEntry
    <3> QED BY <2>4, <2>7, <2>8, <3>3 DEF a, r
  <2> QED BY <2>3, <2>9
<1>8. k \in S
  <2> HIDE DEF S
  <2>1. S \in SUBSET Nat
    BY DEF S
  <2>2. S = Nat
    BY <1>6, <1>7, <2>1, Induction
  <2> QED BY <2>2
<1>9. took[k].rows = row /\ Len(reply.out) = k
  <2>1. At(k)
    BY <1>8
  <2>2. [i \in 1 .. k |-> row[i]] = row
    OBVIOUS
  <2> HIDE DEF row
  <2> QED BY <2>1, <2>2
<1>10. Len(row) = k
  <2>1. row \in [1 .. k -> {row[i] : i \in 1 .. k}]
    OBVIOUS
  <2> HIDE DEF row
  <2> QED BY <2>1
<1> QED BY <1>1, <1>9, <1>10

\* The reply has the first k entries of table t, as many as max bytes hold;
\* pos[m] is its length after m of them.
Written(t, len, max, pos, k) ==
    /\ cmdGetBSSList(t, len) = [len |-> pos[k], total |-> pos[k],
                                out |-> [i \in 1 .. k |-> Wire(t[i])]]
    /\ pos[0] = 4
    /\ \A m \in 0 .. k : pos[m] \in Nat /\ 4 <= pos[m] /\ pos[m] <= pos[k]
    /\ \A m \in 1 .. k : pos[m] = pos[m - 1] + EntrySize(t[m])
    /\ pos[k] <= max
    /\ k < Len(t) => pos[k] + EntrySize(t[k + 1]) > max

\* cmdGetBSSList writes whole entries, the first ones of the table, until one
\* does not fit.
LEMMA PutAll ==
    ASSUME NEW N \in Nat, NEW t, Len(t) = N, \A i \in 1 .. N : Listable(t[i]),
           NEW len \in Nat, NEW max \in Nat, max = (IF len > Inband THEN Inband ELSE len),
           max >= 4
    PROVE  \E pos : \E k \in 0 .. N : Written(t, len, max, pos, k)
<1> DEFINE Is(f) == PutRuns(f, N, t, max)
           put == CHOOSE f : Is(f)
           ws == [i \in 1 .. N |-> Wire(t[i])]
           Wires == {ws[i] : i \in 1 .. N}
           pos == [n \in 0 .. N |-> put[n].written]
<1>1. cmdGetBSSList(t, len) = [len |-> put[N].written, total |-> put[N].written,
                               out |-> put[N].out]
  BY DEF cmdGetBSSList, PutRuns, PutNone
<1>2. Is(put)
  <2>1. \E f : Is(f)
    BY PutRunsExists
  <2> HIDE DEF Is
  <2> QED BY <2>1
<1> HIDE DEF put
<1>3. /\ put[0] = PutNone
      /\ \A n \in 1 .. N : put[n] = PutEntry(put[n - 1], t[n], max)
  <2>1. \A n \in 0 .. N : put[n] = IF n = 0 THEN PutNone ELSE PutEntry(put[n - 1], t[n], max)
    BY <1>2 DEF PutRuns
  <2> QED BY <2>1
<1> HIDE DEF Is
<1>4. /\ \A i \in 1 .. N : ws[i] = Wire(t[i]) /\ ws[i] \in Wires
      /\ \A n \in 0 .. N : pos[n] = put[n].written
  OBVIOUS
<1>5. \A i \in 1 .. N : EntrySize(t[i]) \in Nat /\ WireBytes(Wire(t[i])) = EntrySize(t[i])
  <2> TAKE i \in 1 .. N
  <2>1. EntrySize(t[i]) \in Nat /\ EntrySize(t[i]) >= 14 /\ WireBytes(Wire(t[i])) = EntrySize(t[i])
    BY RowOfWire
  <2> QED BY <2>1
<1> HIDE DEF ws, Wires, pos
<1> DEFINE Fits(k) ==
             /\ \A m \in 0 .. k : pos[m] \in Nat /\ 4 <= pos[m] /\ pos[m] <= pos[k]
             /\ \A m \in 1 .. k : pos[m] = pos[m - 1] + EntrySize(t[m])
             /\ pos[k] <= max
           Open(n) == Fits(n) /\ put[n] = [written |-> pos[n], full |-> FALSE,
                                           out |-> [i \in 1 .. n |-> ws[i]]]
           Shut(n, k) == /\ k \in 0 .. N /\ k < n /\ Fits(k)
                         /\ pos[k] + EntrySize(t[k + 1]) > max
                         /\ put[n] = [written |-> pos[k], full |-> TRUE,
                                      out |-> [i \in 1 .. k |-> ws[i]]]
           S == {n \in Nat : n <= N => Open(n) \/ \E k \in Nat : Shut(n, k)}
<1>6. 0 \in S
  <2>1. [i \in 1 .. 0 |-> ws[i]] = <<>> /\ pos[0] = 4
    BY <1>3, <1>4 DEF PutNone
  <2>2. Fits(0)
    BY <2>1
  <2>3. Open(0)
    BY <1>3, <2>1, <2>2 DEF PutNone
  <2> HIDE DEF Open, Shut
  <2> QED BY <2>3
<1>7. ASSUME NEW n \in S PROVE n + 1 \in S
  <2> SUFFICES ASSUME n + 1 <= N PROVE Open(n + 1) \/ \E k \in Nat : Shut(n + 1, k)
    <3> HIDE DEF Open, Shut
    <3> QED OBVIOUS
  <2>1. n + 1 \in 1 .. N /\ (n + 1) - 1 = n /\ n <= N /\ n \in Nat
    OBVIOUS
  <2>2. Open(n) \/ \E k \in Nat : Shut(n, k)
    <3> HIDE DEF Open, Shut
    <3> QED BY <2>1
  <2> HIDE DEF S
  <2>3. put[n + 1] = PutEntry(put[n], t[n + 1], max) /\ pos[n + 1] = put[n + 1].written
    BY <1>3, <1>4, <2>1
  <2>4. /\ EntrySize(t[n + 1]) \in Nat /\ WireBytes(Wire(t[n + 1])) = EntrySize(t[n + 1])
        /\ ws[n + 1] = Wire(t[n + 1])
    BY <1>4, <1>5, <2>1
  <2>5. CASE Open(n)
    <3>1. put[n] = [written |-> pos[n], full |-> FALSE, out |-> [i \in 1 .. n |-> ws[i]]]
          /\ pos[n] \in Nat /\ 4 <= pos[n]
      BY <2>1, <2>5
    <3>2. Fits(n)
      BY <2>5
    <3>3. CASE pos[n] + EntrySize(t[n + 1]) > max
      <4>1. put[n + 1] = [written |-> pos[n], full |-> TRUE, out |-> [i \in 1 .. n |-> ws[i]]]
        <5> DEFINE a == put[n]
                   o == [i \in 1 .. n |-> ws[i]]
        <5>1. a = [written |-> pos[n], full |-> FALSE, out |-> o]
          BY <3>1
        <5> HIDE DEF a, o
        <5>2. a.written = pos[n] /\ a.out = o
          BY <5>1
        <5>3. PutEntry(a, t[n + 1], max) = [written |-> pos[n], full |-> TRUE, out |-> o]
          BY <3>3, <5>2 DEF PutEntry
        <5> QED BY <2>3, <5>3 DEF a, o
      <4>2. Shut(n + 1, n)
        BY <2>1, <3>2, <3>3, <4>1
      <4> HIDE DEF Open, Shut
      <4> QED BY <2>1, <4>2
    <3>4. CASE ~(pos[n] + EntrySize(t[n + 1]) > max)
      <4>1. Append([i \in 1 .. n |-> ws[i]], ws[n + 1]) = [i \in 1 .. n + 1 |-> ws[i]]
        <5>1. \A i \in 1 .. n + 1 : ws[i] \in Wires
          BY <1>4, <2>1
        <5> QED BY <2>1, <5>1, AppendNext
      <4>2. put[n + 1] = [written |-> pos[n] + EntrySize(t[n + 1]), full |-> FALSE,
                          out |-> [i \in 1 .. n + 1 |-> ws[i]]]
        <5> DEFINE a == put[n]
                   o == [i \in 1 .. n |-> ws[i]]
        <5>1. a = [written |-> pos[n], full |-> FALSE, out |-> o]
          BY <3>1
        <5> HIDE DEF a, o
        <5>2. a.written = pos[n] /\ ~a.full /\ a.out = o
          BY <5>1
        <5>3. PutEntry(a, t[n + 1], max) =
                [written |-> pos[n] + WireBytes(Wire(t[n + 1])), full |-> FALSE,
                 out |-> Append(o, Wire(t[n + 1]))]
          BY <3>4, <5>2 DEF PutEntry
        <5> QED BY <2>3, <2>4, <4>1, <5>3 DEF a, o
      <4>3. pos[n + 1] = pos[n] + EntrySize(t[n + 1])
        BY <2>3, <4>2
      <4>4. pos[n + 1] \in Nat /\ pos[n] <= pos[n + 1] /\ pos[n + 1] <= max
        BY <2>4, <3>1, <3>4, <4>3
      <4>5. ASSUME NEW m \in 0 .. n + 1
            PROVE  pos[m] \in Nat /\ 4 <= pos[m] /\ pos[m] <= pos[n + 1]
        <5>1. CASE m = n + 1
          BY <3>1, <4>4, <5>1
        <5>2. CASE m # n + 1
          <6>1. m \in 0 .. n
            BY <2>1, <5>2
          <6>2. pos[m] \in Nat /\ 4 <= pos[m] /\ pos[m] <= pos[n]
            BY <3>2, <6>1
          <6> QED BY <3>1, <4>4, <6>2
        <5> QED BY <5>1, <5>2
      <4>6. ASSUME NEW m \in 1 .. n + 1 PROVE pos[m] = pos[m - 1] + EntrySize(t[m])
        <5>1. CASE m = n + 1
          BY <2>1, <4>3, <5>1
        <5>2. CASE m # n + 1
          <6>1. m \in 1 .. n
            BY <2>1, <5>2
          <6> QED BY <3>2, <6>1
        <5> QED BY <5>1, <5>2
      <4>7. Open(n + 1)
        BY <4>2, <4>3, <4>4, <4>5, <4>6
      <4> HIDE DEF Open, Shut
      <4> QED BY <4>7
    <3> QED BY <2>4, <3>1, <3>3, <3>4
  <2>6. ASSUME NEW k \in Nat, Shut(n, k) PROVE Shut(n + 1, k)
    <3>1. put[n] = [written |-> pos[k], full |-> TRUE, out |-> [i \in 1 .. k |-> ws[i]]]
      BY <2>6
    <3>2. put[n + 1] = put[n]
      <4> DEFINE a == put[n]
                 o == [i \in 1 .. k |-> ws[i]]
      <4>1. a = [written |-> pos[k], full |-> TRUE, out |-> o]
        BY <3>1
      <4> HIDE DEF a, o
      <4>2. a.full /\ a.written = pos[k] /\ a.out = o
        BY <4>1
      <4>3. PutEntry(a, t[n + 1], max) = [written |-> pos[k], full |-> TRUE, out |-> o]
        BY <4>2 DEF PutEntry
      <4> QED BY <2>3, <4>1, <4>3 DEF a
    <3>3. k < n + 1
      BY <2>1, <2>6
    <3> QED BY <2>6, <3>1, <3>2, <3>3
  <2> HIDE DEF Open, Shut
  <2> QED BY <2>2, <2>5, <2>6
<1>8. Open(N) \/ \E k \in Nat : Shut(N, k)
  <2> HIDE DEF S, Open, Shut
  <2>1. S \in SUBSET Nat
    BY DEF S
  <2>2. S = Nat
    BY <1>6, <1>7, <2>1, Induction
  <2> QED BY <2>2 DEF S
<1>9. \E k \in 0 .. N :
        /\ Fits(k) /\ (k < N => pos[k] + EntrySize(t[k + 1]) > max)
        /\ put[N].written = pos[k] /\ put[N].out = [i \in 1 .. k |-> ws[i]]
  <2>1. CASE Open(N)
    <3>1. Fits(N) /\ put[N].written = pos[N] /\ put[N].out = [i \in 1 .. N |-> ws[i]]
      BY <2>1
    <3>2. N \in 0 .. N /\ ~(N < N)
      OBVIOUS
    <3> HIDE DEF Fits
    <3> QED BY <3>1, <3>2
  <2>2. ASSUME NEW k \in Nat, Shut(N, k)
        PROVE  /\ k \in 0 .. N
               /\ Fits(k) /\ (k < N => pos[k] + EntrySize(t[k + 1]) > max)
               /\ put[N].written = pos[k] /\ put[N].out = [i \in 1 .. k |-> ws[i]]
    BY <2>2
  <2> HIDE DEF Open, Shut, Fits
  <2> QED BY <1>8, <2>1, <2>2
<1>10. PICK k \in 0 .. N :
        /\ Fits(k) /\ (k < N => pos[k] + EntrySize(t[k + 1]) > max)
        /\ put[N].written = pos[k] /\ put[N].out = [i \in 1 .. k |-> ws[i]]
  <2> HIDE DEF Fits
  <2> QED BY <1>9
<1>11. [i \in 1 .. k |-> ws[i]] = [i \in 1 .. k |-> Wire(t[i])]
  <2>1. \A i \in 1 .. k : ws[i] = Wire(t[i])
    BY <1>4
  <2> QED BY <2>1
<1>12. cmdGetBSSList(t, len) = [len |-> pos[k], total |-> pos[k],
                                out |-> [i \in 1 .. k |-> Wire(t[i])]]
  BY <1>1, <1>10, <1>11
<1>13. pos[0] = 4
  BY <1>3, <1>4 DEF PutNone
<1> HIDE DEF Open, Shut, S
<1>14. Written(t, len, max, pos, k)
  BY <1>10, <1>12, <1>13 DEF Written
<1> QED BY <1>14

\* What a reply to a buffer of len bytes shows of table t.
Shows(t, len) ==
    LET reply == cmdGetBSSList(t, len)
        rows  == cmd_list(reply)
        n     == Len(rows)
    IN /\ reply.len <= len /\ reply.len <= Inband
       /\ n <= Len(t) /\ rows = [i \in 1 .. n |-> AsRow(t[i])]
       /\ n < Len(t) /\ len <= Inband => reply.len + EntrySize(t[n + 1]) > len

\* cmd_list reads back what cmdGetBSSList wrote; a buffer too small for the
\* length of a reply gets an empty one.
LEMMA ListShows ==
    ASSUME NEW t, NEW N \in Nat, Len(t) = N, \A i \in 1 .. N : Listable(t[i]),
           NEW len \in Nat
    PROVE  Shows(t, len)
<1> DEFINE max == IF len > Inband THEN Inband ELSE len
           reply == cmdGetBSSList(t, len)
           rows == cmd_list(reply)
<1>1. max \in Nat /\ max <= len /\ max <= Inband /\ (len <= Inband => max = len)
  BY BssAssumption
<1>2. \A i \in 1 .. N : /\ Row(Wire(t[i])) = AsRow(t[i])
                        /\ EntrySize(t[i]) \in Nat /\ EntrySize(t[i]) >= 14
                        /\ WireBytes(Wire(t[i])) = EntrySize(t[i])
  BY RowOfWire
<1>3. CASE max < 4
  <2>1. reply = [len |-> 0, total |-> 0, out |-> <<>>]
    BY <1>3 DEF cmdGetBSSList
  <2> DEFINE pos == [m \in 0 .. 0 |-> 4]
             empty == [len |-> 0, total |-> 0, out |-> <<>>]
  <2>2. cmd_list(empty) = [i \in 1 .. 0 |-> Row(empty.out[i])] /\ Len(cmd_list(empty)) = 0
    <3>1. Len(empty.out) = 0 /\ pos[0] = 4 /\ empty.len \in Nat /\ empty.total = empty.len
      OBVIOUS
    <3>2. 0 \in Nat /\ empty.out = empty.out /\ \A m \in 1 .. 0 : FALSE
      OBVIOUS
    <3> HIDE DEF empty, pos
    <3>3. Whole(empty, empty.out, pos, 0)
      BY <3>1, <3>2 DEF Whole
    <3> QED BY <3>2, <3>3, TakeAll
  <2>3. [i \in 1 .. 0 |-> Row(empty.out[i])] = [i \in 1 .. 0 |-> AsRow(t[i])]
    OBVIOUS
  <2>4. rows = [i \in 1 .. 0 |-> AsRow(t[i])] /\ Len(rows) = 0
    BY <2>1, <2>2, <2>3
  <2>5. reply.len = 0
    BY <2>1
  <2> HIDE DEF rows
  <2>6. 0 < N /\ len <= Inband => reply.len + EntrySize(t[0 + 1]) > len
    <3> SUFFICES ASSUME 0 < N, len <= Inband PROVE reply.len + EntrySize(t[0 + 1]) > len
      OBVIOUS
    <3>1. 0 + 1 \in 1 .. N /\ len < 4
      BY <1>1, <1>3
    <3>2. EntrySize(t[0 + 1]) \in Nat /\ EntrySize(t[0 + 1]) >= 14
      BY <1>2, <3>1
    <3> QED BY <2>5, <3>1, <3>2
  <2>7. reply.len <= len /\ reply.len <= Inband
    BY <2>5, BssAssumption
  <2> HIDE DEF reply
  <2>8. Len(rows) <= N /\ rows = [i \in 1 .. Len(rows) |-> AsRow(t[i])]
    BY <2>4
  <2>9. Len(rows) < Len(t) /\ len <= Inband => reply.len + EntrySize(t[Len(rows) + 1]) > len
    BY <2>4, <2>6
  <2> QED BY <2>7, <2>8, <2>9 DEF Shows, rows, reply
<1>4. CASE max >= 4
  <2>1. PICK pos : \E k \in 0 .. N : Written(t, len, max, pos, k)
    <3> HIDE DEF max
    <3>1. max = (IF len > Inband THEN Inband ELSE len)
      BY DEF max
    <3> QED BY <1>1, <1>4, <3>1, PutAll
  <2>2. PICK k \in 0 .. N : Written(t, len, max, pos, k)
    BY <2>1
  <2> DEFINE ws == [i \in 1 .. k |-> Wire(t[i])]
  <2>3. \A i \in 1 .. k : ws[i] = Wire(t[i]) /\ i \in 1 .. N
    OBVIOUS
  <2>4. reply.len = pos[k] /\ reply.total = pos[k] /\ reply.out = ws
    BY <2>2 DEF Written
  <2>5. Len(ws) = k
    <3>1. ws \in [1 .. k -> {ws[i] : i \in 1 .. k}] /\ k \in Nat
      OBVIOUS
    <3> HIDE DEF ws
    <3> QED BY <3>1
  <2> HIDE DEF ws, max
  <2>6. pos[0] = 4 /\ pos[k] \in Nat /\ pos[k] <= max
    BY <2>2 DEF Written
  <2>7. k < N => pos[k] + EntrySize(t[k + 1]) > max
    BY <2>2 DEF Written
  <2>8. ASSUME NEW m \in 1 .. k
        PROVE  /\ WireBytes(ws[m]) \in Nat \ {0} /\ pos[m - 1] \in Nat
               /\ pos[m] = pos[m - 1] + WireBytes(ws[m])
               /\ 4 <= pos[m] /\ pos[m] <= pos[k]
    <3>1. m \in 0 .. k /\ m - 1 \in 0 .. k /\ m \in 1 .. N
      OBVIOUS
    <3>2. pos[m - 1] \in Nat /\ 4 <= pos[m] /\ pos[m] <= pos[k]
      BY <2>2, <3>1 DEF Written
    <3>3. WireBytes(ws[m]) = EntrySize(t[m]) /\ EntrySize(t[m]) \in Nat /\ EntrySize(t[m]) >= 14
      BY <1>2, <2>3, <3>1
    <3>4. pos[m] = pos[m - 1] + EntrySize(t[m])
      BY <2>2 DEF Written
    <3>5. WireBytes(ws[m]) \in Nat \ {0}
      BY <3>3
    <3> QED BY <3>2, <3>3, <3>4, <3>5
  <2> HIDE DEF reply
  <2>9. /\ rows = [i \in 1 .. k |-> Row(ws[i])]
        /\ Len(rows) = k
    <3>1. k \in Nat /\ reply.len \in Nat /\ reply.total = reply.len
      BY <2>4, <2>6
    <3>2. \A m \in 1 .. k : /\ WireBytes(ws[m]) \in Nat \ {0} /\ pos[m - 1] \in Nat
                              /\ pos[m] = pos[m - 1] + WireBytes(ws[m])
                              /\ 4 <= pos[m] /\ pos[m] <= reply.len
      BY <2>4, <2>8
    <3>3. pos[0] = 4 /\ reply.out = ws
      BY <2>4, <2>6
    <3>4. Whole(reply, ws, pos, k)
      BY <2>5, <3>1, <3>2, <3>3 DEF Whole
    <3> QED BY <3>1, <3>4, TakeAll
  <2> HIDE DEF rows
  <2>10. rows = [i \in 1 .. k |-> AsRow(t[i])]
    <3>1. \A i \in 1 .. k : Row(ws[i]) = AsRow(t[i])
      BY <1>2, <2>3
    <3> QED BY <2>9, <3>1
  <2>11. reply.len <= len /\ reply.len <= Inband
    BY <1>1, <2>4, <2>6, BssAssumption
  <2>12. Len(rows) <= Len(t) /\ rows = [i \in 1 .. Len(rows) |-> AsRow(t[i])]
    BY <2>9, <2>10
  <2>13. Len(rows) < Len(t) /\ len <= Inband => reply.len + EntrySize(t[Len(rows) + 1]) > len
    BY <1>1, <2>4, <2>7, <2>9
  <2> QED BY <2>11, <2>12, <2>13 DEF Shows, rows, reply
<1> QED BY <1>1, <1>3, <1>4

\* rtw88ctl shows what cmdGetBSSList was asked for, whatever the beacons, the
\* length of the table and the size of the buffer.
THEOREM ControlList == CSpec => []ListRoundTrip
<1>1. CTypeOK => ListRoundTrip
  <2> SUFFICES ASSUME table \in Seq(Entries), NEW len \in Lens PROVE Shows(Table(table), len)
    BY DEF CTypeOK, ListRoundTrip, Shows
  <2> DEFINE t == Table(table)
  <2>1. Len(t) = Len(table) /\ Len(table) \in Nat
    <3>1. t \in [1 .. Len(table) -> {t[i] : i \in DOMAIN table}] /\ Len(table) \in Nat
      BY DEF Table
    <3> HIDE DEF t
    <3> QED BY <3>1
  <2>2. ASSUME NEW i \in 1 .. Len(table) PROVE Listable(t[i])
    <3>1. table[i] \in Entries
      OBVIOUS
    <3>2. table[i].frame \in Frames
      BY <3>1 DEF Entries
    <3>3. t[i] = Bss[table[i].frame]
      BY DEF Table
    <3> DEFINE f == table[i].frame
    <3>4. Shaped(Bss[f], Beacon[f].rssi)
      BY <3>2, BssShaped
    <3>5. Beacon[f].rssi \in Int /\ -32768 <= Beacon[f].rssi /\ Beacon[f].rssi < 32768
      BY <3>2, BeaconAssumption DEF Frames
    <3> HIDE DEF f
    <3>6. Listable(Bss[f])
      BY <3>4, <3>5 DEF Shaped, Listable
    <3> QED BY <3>3, <3>6 DEF f
  <2>3. len \in Nat
    BY ControlAssumption
  <2> HIDE DEF t
  <2>4. Shows(t, len)
    BY <2>1, <2>2, <2>3, ListShows
  <2> QED BY <2>4 DEF t
<1> QED BY <1>1, ControlTypes, PTL
=============================================================================
