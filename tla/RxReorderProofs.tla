-------------------------- MODULE RxReorderProofs --------------------------
(***************************************************************************)
(* Proofs about RxReorder, for every size of the sequence space, of the    *)
(* buffer and of the set of TIDs that ReorderAssumption allows.            *)
(***************************************************************************)
EXTENDS RxReorder, FiniteSetTheorems, WellFoundedInduction, TLAPS

-----------------------------------------------------------------------------
(* Arithmetic modulo m.                                                    *)

\* Quotient and remainder, as the masks and % of the code use them.
LEMMA DivMod ==
    ASSUME NEW a \in Int, NEW m \in Nat \ {0}
    PROVE  /\ a \div m \in Int
           /\ a % m \in 0 .. m - 1
           /\ a = (a \div m) * m + (a % m)
  OBVIOUS

\* A number within one modulus of a multiple has the obvious remainder.
LEMMA ModUnique ==
    ASSUME NEW q \in Int, NEW r \in Int, NEW m \in Nat, 0 <= r, r < m
    PROVE  (q * m + r) % m = r
  OBVIOUS

\* Only the zero multiple of m lies strictly between -m and m.
LEMMA SmallMultiple ==
    ASSUME NEW d \in Int, NEW m \in Nat \ {0}, 0 - m < d * m, d * m < m
    PROVE  d = 0
<1>1. CASE d >= 1
  <2>1. d * m >= m
    BY <1>1
  <2> QED BY <2>1
<1>2. CASE d <= -1
  <2>1. d * m <= 0 - m
    BY <1>2
  <2> QED BY <2>1
<1> QED BY <1>1, <1>2

\* Two numbers less than m apart with the same remainder are the same: frames
\* of one window never share a slot.
LEMMA SameSlotSameNumber ==
    ASSUME NEW a \in Int, NEW b \in Int, NEW m \in Nat \ {0},
           a - b < m, b - a < m, a % m = b % m
    PROVE  a = b
<1> DEFINE p == a \div m
           q == b \div m
<1>1. /\ p \in Int /\ q \in Int
      /\ a = p * m + (a % m)
      /\ b = q * m + (b % m)
      /\ a % m \in Int
  BY DivMod
<1>2. p - q \in Int /\ (p - q) * m = p * m - q * m
  BY <1>1
<1>3. p * m - q * m = a - b
  BY <1>1
<1>4. p - q = 0
  BY <1>2, <1>3, SmallMultiple
<1>5. p = q
  BY <1>1, <1>4
<1> QED BY <1>1, <1>5

\* A multiple of m more or less does not change the remainder.
LEMMA ModShift ==
    ASSUME NEW p \in Int, NEW x \in Int, NEW m \in Nat \ {0}
    PROVE  (p * m + x) % m = x % m
<1>1. \E q \in Int, r \in Int : 0 <= r /\ r < m /\ x = q * m + r /\ r = x % m
  <2> WITNESS x \div m \in Int, x % m \in Int
  <2> QED BY DivMod
<1>2. PICK q \in Int, r \in Int : 0 <= r /\ r < m /\ x = q * m + r /\ r = x % m
  BY <1>1
<1>3. (p + q) * m = p * m + q * m
  OBVIOUS
<1>4. p * m + x = (p + q) * m + r
  BY <1>2, <1>3
<1>5. p + q \in Int
  OBVIOUS
<1>6. ((p + q) * m + r) % m = r
  BY <1>2, <1>5, ModUnique
<1> QED BY <1>2, <1>4, <1>6

\* Adding to a remainder is adding to the number.
LEMMA ModAdd ==
    ASSUME NEW a \in Int, NEW d \in Int, NEW m \in Nat \ {0}
    PROVE  ((a % m) + d) % m = (a + d) % m
<1> DEFINE p == a \div m
           r == a % m
<1>1. p \in Int /\ r \in Int /\ a = p * m + r
  BY DivMod
<1> HIDE DEF p
<1>2. a + d = p * m + (r + d) /\ r + d \in Int
  BY <1>1
<1>3. (p * m + (r + d)) % m = (r + d) % m
  BY <1>1, <1>2, ModShift
<1> QED BY <1>2, <1>3

\* The remainder by a multiple of m determines the remainder by m (64 divides 4096).
LEMMA ModMod ==
    ASSUME NEW a \in Int, NEW m \in Nat \ {0}, NEW k \in Nat, NEW s \in Nat \ {0}
    PROVE  s = k * m => (a % s) % m = a % m
<1> DEFINE p == a \div s
           x == a % s
<1>1. p \in Int /\ x \in Int /\ a = p * s + x
  BY DivMod
<1> HIDE DEF p
<1> HAVE s = k * m
<1>2. p * s = (p * k) * m /\ p * k \in Int
  BY <1>1
<1>3. a = (p * k) * m + x
  BY <1>1, <1>2
<1>4. ((p * k) * m + x) % m = x % m
  BY <1>1, <1>2, ModShift
<1> QED BY <1>3, <1>4

\* A non-empty set of naturals has a least element: what Min returns.
LEMMA MinNat ==
    ASSUME NEW S, S \subseteq Nat, S # {}
    PROVE  Min(S) \in S /\ \A y \in S : Min(S) <= y
<1> DEFINE R == {ss \in Nat \X Nat : ss[1] < ss[2]}
<1>1. IsWellFoundedOn(R, Nat)
  BY NatLessThanWellFounded DEF OpToRel
<1>2. PICK x \in S : \A y \in S : ~(<<y, x>> \in R)
  BY <1>1, WFMin
<1>3. ASSUME NEW y \in S PROVE x <= y
  <2>1. x \in Nat /\ y \in Nat
    OBVIOUS
  <2>2. <<y, x>> \in Nat \X Nat
    BY <2>1
  <2>3. y < x => <<y, x>> \in R
    BY <2>2
  <2> QED BY <1>2, <2>1, <2>3
<1> QED BY <1>3 DEF Min

-----------------------------------------------------------------------------
(* Sequence numbers against real numbers.                                  *)

\* The sizes as the proofs use them.
LEMMA Sizes ==
    /\ MaxBuf \in Nat \ {0} /\ SeqMod \in Nat \ {0} /\ NumTid \in Nat \ {0}
    /\ Half \in Nat /\ 2 * Half <= SeqMod /\ Ahead \in Nat
    /\ MaxBuf + Ahead < Half
<1>1. MaxBuf \in Nat \ {0} /\ SeqMod \in Nat /\ Ahead \in Nat /\ NumTid \in Nat \ {0}
  BY ReorderAssumption
<1>2. Half \in Int /\ 2 * Half <= SeqMod /\ SeqMod < 2 * Half + 2
  BY <1>1 DEF Half
<1>3. MaxBuf + Ahead < Half
  BY ReorderAssumption
<1>4. SeqMod > 0 /\ Half > 0
  BY <1>1, <1>2, <1>3
<1> QED BY <1>1, <1>2, <1>3, <1>4

\* The slots divide the sequence numbers evenly.
LEMMA SlotsDivide == \E k \in Nat : SeqMod = k * MaxBuf
<1>1. SeqMod \div MaxBuf \in Nat
  BY Sizes
<1> WITNESS SeqMod \div MaxBuf \in Nat
<1> QED BY ReorderAssumption

\* The slot of a frame depends on its real number only.
LEMMA SlotOf ==
    ASSUME NEW n \in Nat
    PROVE  Slot(Sn(n)) = n % MaxBuf /\ n % MaxBuf \in Slots /\ Sn(n) \in 0 .. SeqMod - 1
<1>1. PICK k \in Nat : SeqMod = k * MaxBuf
  BY SlotsDivide
<1>2. n \in Int /\ SeqMod \in Nat \ {0} /\ MaxBuf \in Nat \ {0}
  BY Sizes
<1>3. (n % SeqMod) % MaxBuf = n % MaxBuf
  BY <1>1, <1>2, ModMod, ZenonT(60)
<1>4. n % MaxBuf \in 0 .. MaxBuf - 1 /\ n % SeqMod \in 0 .. SeqMod - 1
  BY <1>2, DivMod, Zenon
<1> QED BY <1>3, <1>4, Zenon DEF Slot, Sn, Slots

\* The slot d places past the head is that of the number d past the real head.
LEMMA SlotAtAbs ==
    ASSUME NEW r, NEW h \in Nat, NEW d \in Nat, r.headSn = h % SeqMod
    PROVE  SlotAt(r, d) = (h + d) % MaxBuf /\ SlotAt(r, d) \in Slots
<1>0. h \in Int /\ d \in Int /\ SeqMod \in Nat \ {0}
  BY Sizes
<1>1. ((h % SeqMod) + d) % SeqMod = (h + d) % SeqMod
  BY <1>0, ModAdd, Zenon
<1>2. SlotAt(r, d) = Slot(Sn(h + d))
  BY <1>1 DEF SlotAt, Sn
<1> QED BY <1>2, SlotOf

\* The wrapped difference rxReorderInput computes is the real one.
LEMMA RelAbs ==
    ASSUME NEW n \in Nat, NEW h \in Nat
    PROVE  /\ h <= n /\ n < h + SeqMod => Rel(Sn(n), Sn(h)) = n - h
           /\ n < h /\ h <= n + SeqMod => Rel(Sn(n), Sn(h)) = n - h + SeqMod
<1> DEFINE q == h \div SeqMod
           s == h % SeqMod
           e == n - h
           d == 0 - s
<1>1. q \in Int /\ s \in Int /\ h = q * SeqMod + s /\ SeqMod \in Nat \ {0}
  BY Sizes, DivMod
<1>2. Rel(Sn(n), Sn(h)) = ((n % SeqMod) + d) % SeqMod
  <2>1. n % SeqMod \in Int
    BY <1>1, DivMod
  <2> QED BY <1>1, <2>1 DEF Rel, Sn
<1> HIDE DEF q, s
<1>3. n + d = q * SeqMod + e /\ d \in Int /\ e \in Int /\ n \in Int
  BY <1>1
<1> HIDE DEF d, e
<1>4. ((n % SeqMod) + d) % SeqMod = (n + d) % SeqMod
  BY <1>1, <1>3, ModAdd, Zenon
<1>5. (q * SeqMod + e) % SeqMod = e % SeqMod
  BY <1>1, <1>3, ModShift, Zenon
<1>6. Rel(Sn(n), Sn(h)) = (n - h) % SeqMod
  BY <1>2, <1>3, <1>4, <1>5 DEF e
<1>7. ASSUME h <= n, n < h + SeqMod PROVE (n - h) % SeqMod = n - h
  <2>1. (0 * SeqMod + (n - h)) % SeqMod = n - h
    BY <1>1, <1>7, ModUnique
  <2> QED BY <2>1, <1>1
<1>8. ASSUME n < h, h <= n + SeqMod PROVE (n - h) % SeqMod = n - h + SeqMod
  <2>1. (0 - 1) * SeqMod + (n - h + SeqMod) = n - h
    BY <1>1
  <2>2. ((0 - 1) * SeqMod + (n - h + SeqMod)) % SeqMod = n - h + SeqMod
    BY <1>1, <1>8, ModUnique
  <2> QED BY <2>1, <2>2
<1> QED BY <1>6, <1>7, <1>8

-----------------------------------------------------------------------------
(* The buffer of one TID, seen with its real head h.                       *)

\* The fields of a well-formed buffer.
LEMMA RecFields ==
    ASSUME NEW r \in Reorder
    PROVE  /\ r.active \in BOOLEAN /\ r.headSn \in 0 .. SeqMod - 1
           /\ r.bufSize \in 1 .. MaxBuf /\ r.stored \in 0 .. MaxBuf
           /\ r.buf \in [Slots -> Nat \cup {Empty}]
           /\ \A i \in Slots : r.buf[i] # Empty => r.buf[i] \in Nat
           /\ IsFiniteSet(Occupied(r)) /\ Cardinality(Occupied(r)) \in 0 .. MaxBuf
<1>1. /\ r.active \in BOOLEAN /\ r.headSn \in 0 .. SeqMod - 1
      /\ r.bufSize \in 1 .. MaxBuf /\ r.stored \in 0 .. MaxBuf
      /\ r.buf \in [Slots -> Nat \cup {Empty}]
  BY DEF Reorder
<1>2. \A i \in Slots : r.buf[i] # Empty => r.buf[i] \in Nat
  BY <1>1
<1>3. IsFiniteSet(Slots) /\ Cardinality(Slots) = MaxBuf
  BY Sizes, FS_Interval DEF Slots
<1>4. Occupied(r) \in SUBSET Slots
  BY DEF Occupied
<1>5. IsFiniteSet(Occupied(r)) /\ Cardinality(Occupied(r)) <= MaxBuf
  BY <1>3, <1>4, FS_Subset
<1>6. Cardinality(Occupied(r)) \in Nat
  BY <1>5, FS_CardinalityType
<1> QED BY <1>1, <1>2, <1>5, <1>6, Sizes

\* A frame found d < MaxBuf places past the head is the d-th number past it.
LEMMA HeadFrame ==
    ASSUME NEW r, NEW h \in Nat, RecOK(r, h), NEW d \in 0 .. MaxBuf - 1,
           r.buf[SlotAt(r, d)] # Empty
    PROVE  r.buf[SlotAt(r, d)] = h + d /\ h + d < h + r.bufSize
<1> DEFINE n == r.buf[SlotAt(r, d)]
<1>0. d \in Nat /\ r.headSn = h % SeqMod
  BY Sizes DEF RecOK
<1>1. SlotAt(r, d) = (h + d) % MaxBuf /\ SlotAt(r, d) \in Slots
  BY <1>0, SlotAtAbs
<1>2. /\ n \in Nat /\ n % MaxBuf = SlotAt(r, d)
      /\ h <= n /\ n < h + r.bufSize /\ r.bufSize \in 1 .. MaxBuf
  BY <1>1, RecFields DEF RecOK
<1> HIDE DEF n
<1>3. n % MaxBuf = (h + d) % MaxBuf
  BY <1>1, <1>2
<1>4. /\ n \in Int /\ h + d \in Int /\ MaxBuf \in Nat \ {0}
      /\ n - (h + d) < MaxBuf /\ (h + d) - n < MaxBuf
  BY <1>2, Sizes
<1>5. n = h + d
  BY <1>3, <1>4, SameSlotSameNumber
<1> QED BY <1>2, <1>5 DEF n

\* What the head passes lies between the old head and the new one.
LEMMA PassedRange ==
    ASSUME NEW r, NEW h \in Nat, RecOK(r, h), NEW k \in Nat, NEW n \in Passed(r, k)
    PROVE  /\ n \in Nat /\ h <= n /\ n < h + k /\ n < h + r.bufSize
           /\ \E i \in Slots : r.buf[i] # Empty /\ n = r.buf[i]
<1>1. PICK d \in 0 .. k - 1 : /\ SlotAt(r, d) \in Occupied(r)
                              /\ n = r.buf[SlotAt(r, d)]
  BY DEF Passed, PassedSlots
<1>2. SlotAt(r, d) \in Slots /\ r.buf[SlotAt(r, d)] # Empty
  BY <1>1 DEF Occupied
<1>3. n \in Nat /\ h <= n /\ n < h + r.bufSize /\ r.bufSize \in 1 .. MaxBuf
  BY <1>1, <1>2, RecFields DEF RecOK
<1>4. ASSUME d < MaxBuf PROVE n < h + k
  <2>1. d \in 0 .. MaxBuf - 1
    BY <1>4, Sizes
  <2>2. n = h + d
    BY <1>1, <1>2, <2>1, HeadFrame
  <2> QED BY <1>3, <2>2
<1>5. ASSUME d >= MaxBuf PROVE n < h + k
  BY <1>3, <1>5, Sizes
<1>6. n < h + k
  BY <1>3, <1>4, <1>5, Sizes
<1>7. \E i \in Slots : r.buf[i] # Empty /\ n = r.buf[i]
  BY <1>1, <1>2
<1> QED BY <1>3, <1>6, <1>7

\* Moving the head up keeps the buffer well formed, whatever the distance.
LEMMA AdvanceOK ==
    ASSUME NEW r, NEW h \in Nat, RecOK(r, h), NEW k \in Nat
    PROVE  LET a == Advance(r, k)
           IN  /\ RecOK(a, h + k)
               /\ a.bufSize = r.bufSize /\ a.active = r.active
               /\ a.stored <= r.stored
               /\ \A i \in Slots : a.buf[i] # Empty =>
                     a.buf[i] = r.buf[i] /\ h + k <= a.buf[i] /\ a.buf[i] < h + r.bufSize
<1> DEFINE P == PassedSlots(r, k)
           a == Advance(r, k)
           b == [i \in Slots |-> IF i \in P THEN Empty ELSE r.buf[i]]
<1>1. /\ r \in Reorder /\ r.headSn = h % SeqMod /\ r.stored = Cardinality(Occupied(r))
      /\ r.bufSize \in 1 .. MaxBuf
  BY RecFields DEF RecOK
<1>2. a = [r EXCEPT !.headSn = (r.headSn + k) % SeqMod,
                    !.stored = r.stored - Cardinality(P), !.buf = b]
  BY DEF Advance
<1>3. /\ a.headSn = (r.headSn + k) % SeqMod /\ a.stored = r.stored - Cardinality(P)
      /\ a.buf = b /\ a.bufSize = r.bufSize /\ a.active = r.active
  BY <1>1, <1>2 DEF Reorder
<1>4. a.headSn = (h + k) % SeqMod /\ a.headSn \in 0 .. SeqMod - 1
  <2>1. h \in Int /\ k \in Int /\ h + k \in Int /\ SeqMod \in Nat \ {0}
    BY Sizes
  <2>2. ((h % SeqMod) + k) % SeqMod = (h + k) % SeqMod
    BY <2>1, ModAdd, Zenon
  <2>3. (h + k) % SeqMod \in 0 .. SeqMod - 1
    BY <2>1, DivMod, Zenon
  <2> QED BY <1>1, <1>3, <2>2, <2>3
<1>5. ASSUME NEW i \in Slots, a.buf[i] # Empty
      PROVE  /\ a.buf[i] = r.buf[i] /\ r.buf[i] # Empty /\ a.buf[i] % MaxBuf = i
             /\ h + k <= a.buf[i] /\ a.buf[i] < h + r.bufSize /\ a.buf[i] \in Nat
  <2>1. i \notin P /\ a.buf[i] = r.buf[i]
    BY <1>3, <1>5
  <2> DEFINE n == r.buf[i]
  <2>2. n \in Nat /\ n % MaxBuf = i /\ h <= n /\ n < h + r.bufSize
    BY <2>1, <1>1, <1>5, RecFields DEF RecOK
  <2>3. i \in Occupied(r)
    BY <2>1, <1>5 DEF Occupied
  <2>4. ~(n < h + k)
    <3> SUFFICES ASSUME n < h + k PROVE FALSE
      OBVIOUS
    <3>1. n - h \in 0 .. k - 1 /\ n - h \in Nat /\ h + (n - h) = n
      BY <2>2
    <3>2. SlotAt(r, n - h) = n % MaxBuf
      BY <1>1, <3>1, SlotAtAbs, ZenonT(60)
    <3>3. i \in P
      BY <2>2, <2>3, <3>1, <3>2 DEF PassedSlots
    <3> QED BY <2>1, <3>3
  <2> QED BY <2>1, <2>2, <2>4, <1>5
<1>6. Occupied(a) = Occupied(r) \ P
  BY <1>3 DEF Occupied, PassedSlots
<1>7. P \subseteq Occupied(r) /\ Occupied(r) \cap P = P
  BY DEF PassedSlots
<1>8. /\ Cardinality(Occupied(a)) = r.stored - Cardinality(P)
      /\ Cardinality(P) \in Nat /\ Cardinality(Occupied(a)) \in Nat
  <2>1. IsFiniteSet(Occupied(r))
    BY <1>1, RecFields
  <2>2. /\ IsFiniteSet(Occupied(r) \ P)
        /\ Cardinality(Occupied(r) \ P) = Cardinality(Occupied(r)) - Cardinality(Occupied(r) \cap P)
    BY <2>1, FS_Difference
  <2>3. IsFiniteSet(P)
    BY <2>1, <1>7, FS_Subset
  <2> HIDE DEF P
  <2> QED BY <2>2, <2>3, <1>1, <1>6, <1>7, FS_CardinalityType
<1>9. a \in Reorder
  <2>1. a.stored \in 0 .. MaxBuf
    <3>1. r.stored \in 0 .. MaxBuf
      BY <1>1, RecFields
    <3> HIDE DEF a, P
    <3> QED BY <3>1, <1>3, <1>8, Sizes
  <2>2. b \in [Slots -> Nat \cup {Empty}]
    BY <1>1, RecFields
  <2>3. a = [active |-> r.active, headSn |-> a.headSn, bufSize |-> r.bufSize,
             stored |-> a.stored, buf |-> b]
    BY <1>1, <1>2, <1>3 DEF Reorder
  <2> HIDE DEF a, b
  <2> QED BY <2>1, <2>2, <2>3, <1>1, <1>4, RecFields DEF Reorder
<1>10. a.stored <= r.stored /\ a.stored = Cardinality(Occupied(a))
  BY <1>1, <1>3, <1>8, RecFields
<1>11. h + r.bufSize <= (h + k) + a.bufSize
  BY <1>1, <1>3
<1> HIDE DEF a, P, b
<1>12. RecOK(a, h + k)
  BY <1>1, <1>3, <1>4, <1>5, <1>9, <1>10, <1>11 DEF RecOK
<1> QED BY <1>3, <1>5, <1>10, <1>12 DEF a

\* A buffer holds no more frames than the numbers they can have.
LEMMA CountBound ==
    ASSUME NEW r, NEW h \in Nat, RecOK(r, h), NEW lo \in Int, NEW hi \in Int,
           lo <= hi + 1,
           \A i \in Slots : r.buf[i] # Empty => r.buf[i] \in lo .. hi
    PROVE  r.stored <= hi - lo + 1
<1> DEFINE S == Occupied(r)
           T == lo .. hi
           f == [i \in S |-> r.buf[i]]
<1>1. IsFiniteSet(S) /\ Cardinality(S) \in Nat /\ r.stored = Cardinality(S)
  BY RecFields DEF RecOK
<1>2. IsFiniteSet(T) /\ Cardinality(T) = hi - lo + 1
  BY FS_Interval
<1>3. \A i \in S : i \in Slots /\ r.buf[i] # Empty
  BY DEF Occupied
<1>4. f \in [S -> T]
  BY <1>3
<1>5. \A i, j \in S : f[i] = f[j] => i = j
  <2>1. \A i \in S : r.buf[i] % MaxBuf = i
    BY <1>3 DEF RecOK
  <2> QED BY <2>1
<1> HIDE DEF S, T, f
<1>6. ~(Cardinality(T) < Cardinality(S))
  BY <1>1, <1>2, <1>4, <1>5, FS_PigeonHole
<1> QED BY <1>1, <1>2, <1>6

\* Storing a frame of the window keeps the buffer well formed.
LEMMA StoreOK ==
    ASSUME NEW r, NEW h \in Nat, RecOK(r, h), NEW n \in Nat,
           h <= n, n < h + r.bufSize
    PROVE  LET s == Store(r, n)
           IN  /\ RecOK(s, h) /\ s.bufSize = r.bufSize /\ s.active = r.active
               /\ \A i \in Slots : s.buf[i] # Empty => s.buf[i] = n \/ s.buf[i] = r.buf[i]
<1> DEFINE i == n % MaxBuf
           s == Store(r, n)
           b == [r.buf EXCEPT ![i] = n]
<1>1. Slot(Sn(n)) = i /\ i \in Slots
  BY SlotOf
<1>2. r \in Reorder
  BY DEF RecOK
<1>3. CASE r.buf[i] # Empty
  <2>1. s = r
    BY <1>1, <1>3 DEF Store
  <2> QED BY <2>1
<1>4. CASE r.buf[i] = Empty
  <2>1. s = [r EXCEPT !.buf = b, !.stored = r.stored + 1]
    BY <1>1, <1>2, <1>4 DEF Store, Reorder
  <2>2. /\ s.buf = b /\ s.stored = r.stored + 1 /\ s.headSn = r.headSn
        /\ s.bufSize = r.bufSize /\ s.active = r.active
    BY <1>2, <2>1 DEF Reorder
  <2>3. b \in [Slots -> Nat \cup {Empty}] /\ b[i] = n /\ \A j \in Slots \ {i} : b[j] = r.buf[j]
    BY <1>1, <1>2, RecFields
  <2>4. Occupied(s) = Occupied(r) \cup {i} /\ i \notin Occupied(r)
    BY <1>1, <1>4, <2>2, <2>3 DEF Occupied, Empty
  <2>5. IsFiniteSet(Occupied(r)) /\ r.stored = Cardinality(Occupied(r))
    BY <1>2, RecFields DEF RecOK
  <2>6. IsFiniteSet(Occupied(s)) /\ Cardinality(Occupied(s)) = r.stored + 1
    BY <2>4, <2>5, FS_AddElement
  <2>7. IsFiniteSet(Slots) /\ Cardinality(Slots) = MaxBuf /\ Occupied(s) \in SUBSET Slots
    <3>1. IsFiniteSet(Slots) /\ Cardinality(Slots) = MaxBuf
      BY Sizes, FS_Interval DEF Slots
    <3>2. Occupied(s) \in SUBSET Slots
      BY DEF Occupied
    <3> QED BY <3>1, <3>2
  <2>8. s.stored \in 0 .. MaxBuf
    <3>1. Cardinality(Occupied(s)) <= MaxBuf
      BY <2>7, FS_Subset
    <3>2. r.stored \in Nat
      BY <1>2, RecFields, Sizes
    <3> HIDE DEF s
    <3> QED BY <2>2, <2>6, <3>1, <3>2, Sizes
  <2>9. s \in Reorder
    <3>1. s = [active |-> r.active, headSn |-> r.headSn, bufSize |-> r.bufSize,
               stored |-> s.stored, buf |-> b]
      BY <1>2, <2>1, <2>2 DEF Reorder
    <3> HIDE DEF s, b
    <3> QED BY <1>2, <2>3, <2>8, <3>1, RecFields DEF Reorder
  <2>10. \A j \in Slots : s.buf[j] # Empty =>
            /\ s.buf[j] = n \/ s.buf[j] = r.buf[j]
            /\ s.buf[j] % MaxBuf = j /\ h <= s.buf[j] /\ s.buf[j] < h + s.bufSize
    BY <2>2, <2>3 DEF RecOK
  <2> HIDE DEF s, b
  <2>11. s.headSn = h % SeqMod /\ s.stored = Cardinality(Occupied(s))
    BY <2>2, <2>6 DEF RecOK
  <2>12. RecOK(s, h)
    BY <2>9, <2>10, <2>11 DEF RecOK
  <2> QED BY <2>2, <2>10, <2>12 DEF s
<1> QED BY <1>3, <1>4

\* Where the run at the head ends: every place before it is occupied, and it
\* stops for lack of room, at a hole, or with the buffer empty.
LEMMA RunLenOK ==
    ASSUME NEW r, NEW h \in Nat, RecOK(r, h), NEW room \in 0 .. MaxBuf
    PROVE  LET k == RunLen(r, room)
           IN  /\ k \in 0 .. room
               /\ \A d \in 0 .. k - 1 : r.buf[SlotAt(r, d)] # Empty
               /\ \/ k = room
                  \/ r.buf[SlotAt(r, k)] = Empty
                  \/ r.stored = Cardinality(PassedSlots(r, k))
<1> DEFINE S == {k \in 0 .. room : \/ k = room
                                   \/ r.buf[SlotAt(r, k)] = Empty
                                   \/ r.stored = Cardinality(PassedSlots(r, k))}
<1>1. room \in Nat /\ S \subseteq Nat /\ room \in S
  BY Sizes
<1>2. RunLen(r, room) = Min(S)
  BY DEF RunLen
<1>3. Min(S) \in S /\ \A y \in S : Min(S) <= y
  BY <1>1, MinNat
<1>4. ASSUME NEW d \in 0 .. Min(S) - 1 PROVE r.buf[SlotAt(r, d)] # Empty
  <2>1. Min(S) \in 0 .. room
    BY <1>3
  <2>2. d \in 0 .. room /\ ~(Min(S) <= d)
    BY <1>1, <2>1
  <2>3. d \notin S
    BY <1>3, <2>2
  <2> QED BY <2>2, <2>3
<1> QED BY <1>2, <1>3, <1>4

\* The frames in the way of the run are consecutive numbers: the head never
\* overtakes a number p that is beyond every buffered frame.
LEMMA RunBelow ==
    ASSUME NEW r, NEW h \in Nat, RecOK(r, h), NEW k \in 0 .. MaxBuf, NEW p \in Nat,
           h <= p,
           \A d \in 0 .. k - 1 : r.buf[SlotAt(r, d)] # Empty,
           \A i \in Slots : r.buf[i] # Empty => r.buf[i] < p
    PROVE  h + k <= p /\ k <= r.bufSize
<1>0. MaxBuf \in Nat /\ r.bufSize \in 1 .. MaxBuf /\ k \in Nat
  BY Sizes, RecFields DEF RecOK
<1>1. CASE k = 0
  BY <1>0, <1>1
<1>2. CASE k > 0
  <2>1. k - 1 \in 0 .. MaxBuf - 1 /\ k - 1 \in 0 .. k - 1 /\ k - 1 \in Nat
    BY <1>0, <1>2
  <2>2. r.buf[SlotAt(r, k - 1)] # Empty
    BY <2>1
  <2>3. r.buf[SlotAt(r, k - 1)] = h + (k - 1) /\ h + (k - 1) < h + r.bufSize
    BY <2>1, <2>2, HeadFrame
  <2>4. SlotAt(r, k - 1) \in Slots
    BY <2>1, SlotAtAbs DEF RecOK
  <2>5. h + (k - 1) < p
    BY <2>2, <2>3, <2>4
  <2> QED BY <1>0, <2>3, <2>5
<1> QED BY <1>0, <1>1, <1>2

\* The flush finds the first buffered frame before its guard runs out.
LEMMA SkipLenOK ==
    ASSUME NEW r, NEW h \in Nat, RecOK(r, h), r.stored > 0, NEW p \in Nat,
           \A i \in Slots : r.buf[i] # Empty => r.buf[i] < p
    PROVE  SkipLen(r) \in Nat /\ h + SkipLen(r) < p
<1> DEFINE S == {d \in 0 .. SeqMod : d = SeqMod \/ r.buf[SlotAt(r, d)] # Empty}
<1>1. /\ MaxBuf \in Nat /\ r.bufSize \in 1 .. MaxBuf /\ r.stored = Cardinality(Occupied(r))
      /\ IsFiniteSet(Occupied(r)) /\ r.headSn = h % SeqMod /\ MaxBuf <= SeqMod /\ SeqMod \in Nat
  BY Sizes, RecFields DEF RecOK
<1>2. Occupied(r) # {}
  BY <1>1, FS_EmptySet
<1>3. PICK i \in Slots : r.buf[i] # Empty
  BY <1>2 DEF Occupied
<1> DEFINE n == r.buf[i]
<1>4. n \in Nat /\ n % MaxBuf = i /\ h <= n /\ n < h + r.bufSize /\ n < p
  BY <1>3, RecFields DEF RecOK
<1> HIDE DEF n
<1>5. n - h \in 0 .. SeqMod /\ n - h \in Nat /\ h + (n - h) = n
  BY <1>1, <1>4
<1>6. SlotAt(r, n - h) = i
  BY <1>1, <1>4, <1>5, SlotAtAbs
<1>7. n - h \in S /\ S \subseteq Nat
  BY <1>1, <1>3, <1>5, <1>6
<1>8. SkipLen(r) = Min(S)
  BY DEF SkipLen
<1>9. Min(S) \in S /\ Min(S) <= n - h
  BY <1>7, MinNat
<1>10. SkipLen(r) \in Nat /\ SkipLen(r) <= n - h
  BY <1>7, <1>8, <1>9
<1> QED BY <1>4, <1>10

\* The slide goes all the way to newHead: out[] cannot fill up on the way.
LEMMA SlideLenOK ==
    ASSUME NEW r, NEW h \in Nat, RecOK(r, h), r.stored < r.bufSize,
           NEW n \in Nat, h <= n, n < h + Half
    PROVE  SlideLen(r, Sn(n)) = IF n - h < r.bufSize THEN 0 ELSE n + 1 - r.bufSize - h
<1> DEFINE B == r.bufSize
           want == Rel((Sn(n) + 1 - B) % SeqMod, r.headSn)
           full == {k \in 0 .. want : Cardinality(PassedSlots(r, k)) >= MaxBuf}
<1>1. /\ MaxBuf \in Nat /\ B \in 1 .. MaxBuf /\ B \in Int /\ r.stored = Cardinality(Occupied(r))
      /\ IsFiniteSet(Occupied(r)) /\ r.headSn = Sn(h) /\ SeqMod \in Nat \ {0}
      /\ r.stored \in 0 .. MaxBuf /\ Half <= SeqMod
  BY Sizes, RecFields DEF RecOK, Sn
<1>2. Rel(Sn(n), r.headSn) = n - h
  BY <1>1, RelAbs, Sizes
<1>3. CASE n - h < B
  BY <1>2, <1>3 DEF SlideLen
<1>4. CASE ~(n - h < B)
  <2> DEFINE e == 1 - B
  <2>1. n + 1 - B \in Nat /\ h <= n + 1 - B /\ n + 1 - B < h + SeqMod
        /\ e \in Int /\ n \in Int /\ n + e = n + 1 - B
    BY <1>1, <1>4, Sizes
  <2>2. (Sn(n) + 1 - B) % SeqMod = Sn(n + 1 - B)
    <3>1. Sn(n) \in Int
      BY SlotOf, <1>1
    <3>2. Sn(n) + 1 - B = Sn(n) + e
      BY <1>1, <3>1
    <3> HIDE DEF e, B
    <3>3. ((n % SeqMod) + e) % SeqMod = (n + e) % SeqMod
      BY <1>1, <2>1, ModAdd, Zenon
    <3> QED BY <2>1, <3>2, <3>3, Zenon DEF Sn
  <2>3. want = n + 1 - B - h
    BY <1>1, <2>1, <2>2, RelAbs
  <2>4. full = {}
    <3>1. ASSUME NEW k PROVE Cardinality(PassedSlots(r, k)) < MaxBuf
      <4>1. PassedSlots(r, k) \in SUBSET Occupied(r)
        BY DEF PassedSlots
      <4>2. IsFiniteSet(PassedSlots(r, k)) /\ Cardinality(PassedSlots(r, k)) <= Cardinality(Occupied(r))
        BY <1>1, <4>1, FS_Subset
      <4>3. Cardinality(PassedSlots(r, k)) \in Nat
        BY <4>2, FS_CardinalityType
      <4> QED BY <1>1, <4>2, <4>3
    <3>2. \A k : Cardinality(PassedSlots(r, k)) \in Nat
      <4>1. \A k : PassedSlots(r, k) \in SUBSET Occupied(r)
        BY DEF PassedSlots
      <4> QED BY <1>1, <4>1, FS_Subset, FS_CardinalityType
    <3> QED BY <1>1, <3>1, <3>2
  <2>5. SlideLen(r, Sn(n)) = Min(full \cup {want})
    BY <1>2, <1>4 DEF SlideLen
  <2>6. full \cup {want} = {n + 1 - B - h} /\ n + 1 - B - h \in Nat
    BY <2>1, <2>3, <2>4
  <2>7. Min({n + 1 - B - h}) = n + 1 - B - h
    BY <2>6, MinNat
  <2> QED BY <1>4, <2>5, <2>6, <2>7
<1> QED BY <1>3, <1>4

\* The largest element of a bounded set of integers: what Max returns.
LEMMA MaxInt ==
    ASSUME NEW S, S \subseteq Int, S # {}, NEW b \in Int, \A x \in S : x <= b
    PROVE  Max(S) \in S /\ \A y \in S : y <= Max(S)
<1> DEFINE D == {d \in Nat : b - d \in S}
<1>1. PICK x \in S : TRUE
  OBVIOUS
<1>2. b - x \in D
  BY <1>1
<1>3. Min(D) \in D /\ \A y \in D : Min(D) <= y
  BY <1>2, MinNat
<1> DEFINE m == b - Min(D)
<1>4. m \in S /\ Min(D) \in Nat
  BY <1>3
<1>5. ASSUME NEW y \in S PROVE m >= y
  <2>1. b - y \in D
    OBVIOUS
  <2>2. Min(D) <= b - y
    BY <1>3, <2>1
  <2> QED BY <1>4, <2>2
<1>6. \E z \in S : \A y \in S : z >= y
  BY <1>4, <1>5
<1> QED BY <1>6 DEF Max

\* The newest released number stays behind the head.
LEMMA MaxBelow ==
    ASSUME NEW fr, NEW lo \in Nat, NEW hi \in Nat, NEW l \in Nat \cup {Empty},
           l < lo, lo <= hi, \A n \in fr : n \in Nat /\ lo <= n /\ n < hi
    PROVE  LET m == Max(fr \cup {l}) IN m \in Nat \cup {Empty} /\ m < hi
<1>1. fr \cup {l} \subseteq Int /\ fr \cup {l} # {} /\ \A x \in fr \cup {l} : x <= hi
  BY DEF Empty
<1>2. Max(fr \cup {l}) \in fr \cup {l}
  BY <1>1, MaxInt
<1> QED BY <1>2 DEF Empty

\* rxReorderInput on one TID: the buffer stays well formed with the head moved
\* by slide + run, what it releases lies between the old and the new head, and
\* a number the head passes is released or a whole window behind the newest.
InputMoves(r, h, p, l, n) ==
    LET slide == SlideLen(r, Sn(n))
        slid  == Advance(r, slide)
        held  == Store(slid, n)
        nout  == Cardinality(PassedSlots(r, slide))
        run   == RunLen(held, MaxBuf - nout)
        fr    == Passed(r, slide) \cup Passed(held, run)
        q     == IF n >= p THEN n + 1 ELSE p
    IN  /\ slide \in Nat /\ run \in Nat
        /\ Advance(held, run).active
        /\ TidInv(Advance(held, run), h + slide + run, q, Max(fr \cup {l}))
        /\ Max(fr \cup {l}) \in Nat \cup {Empty}
        /\ \A x \in fr : x \in Nat /\ l < x /\ h <= x /\ x < h + slide + run
        /\ \A m \in h .. (h + slide + run) - 1 : m \in fr \/ m < q - r.bufSize
        /\ Advance(held, run) \in Reorder

\* A frame in the window, or at most half the numbers ahead, moves the head as InputMoves says.
LEMMA InputTid ==
    ASSUME NEW r, NEW h \in Nat, NEW p \in Nat, NEW l \in Nat \cup {Empty},
           TidInv(r, h, p, l), r.active,
           NEW n \in Nat, p - MaxBuf <= n, n <= p + Ahead,
           Rel(Sn(n), r.headSn) < Half
    PROVE  InputMoves(r, h, p, l, n)
<1> DEFINE B     == r.bufSize
           slide == SlideLen(r, Sn(n))
           slid  == Advance(r, slide)
           held  == Store(slid, n)
           nout  == Cardinality(PassedSlots(r, slide))
           run   == RunLen(held, MaxBuf - nout)
           fr    == Passed(r, slide) \cup Passed(held, run)
           q     == IF n >= p THEN n + 1 ELSE p
           h1    == h + slide
           h2    == h1 + run
           end   == Advance(held, run)
<1>1. /\ RecOK(r, h) /\ r.stored < B /\ h <= p /\ p <= h + B /\ l < h
      /\ \A i \in Slots : r.buf[i] # Empty => r.buf[i] < p
  BY DEF TidInv
<1>2. /\ B \in 1 .. MaxBuf /\ r.headSn = Sn(h) /\ MaxBuf \in Nat \ {0} /\ Ahead \in Nat
      /\ Half \in Nat /\ MaxBuf + Ahead < Half /\ 2 * Half <= SeqMod /\ SeqMod \in Nat
      /\ r.stored \in 0 .. MaxBuf
  BY <1>1, Sizes, RecFields DEF RecOK, Sn
<1>3. h <= n
  <2> SUFFICES ASSUME n < h PROVE FALSE
    BY <1>2
  <2>1. h <= n + MaxBuf /\ h <= n + SeqMod
    BY <1>1, <1>2
  <2>2. Rel(Sn(n), r.headSn) = n - h + SeqMod
    BY <1>2, <2>1, RelAbs
  <2> QED BY <1>2, <2>1, <2>2
<1>4. n < h + Half
  BY <1>1, <1>2
<1>5. slide = IF n - h < B THEN 0 ELSE n + 1 - B - h
  BY <1>1, <1>3, <1>4, SlideLenOK
<1> HIDE DEF slide
<1>6. /\ slide \in Nat /\ h1 \in Nat /\ h <= h1 /\ h1 <= n /\ n < h1 + B
  BY <1>2, <1>3, <1>5
<1>7. /\ RecOK(slid, h1) /\ slid.bufSize = B /\ slid.active
      /\ \A i \in Slots : slid.buf[i] # Empty => slid.buf[i] = r.buf[i]
  <2>1. /\ RecOK(slid, h1) /\ slid.bufSize = B /\ slid.active = r.active
        /\ \A i \in Slots : slid.buf[i] # Empty => slid.buf[i] = r.buf[i]
    BY <1>1, <1>6, AdvanceOK, ZenonT(60)
  <2> QED BY <2>1
<1> HIDE DEF slid, h1
<1>8. /\ RecOK(held, h1) /\ held.bufSize = B /\ held.active
      /\ \A i \in Slots : held.buf[i] # Empty => held.buf[i] = n \/ held.buf[i] = slid.buf[i]
  BY <1>6, <1>7, StoreOK
<1> HIDE DEF held
<1>9. q \in Nat /\ p <= q /\ n < q /\ h1 <= q /\ q <= h1 + B
  BY <1>1, <1>2, <1>6 DEF h1
<1>10. \A i \in Slots : held.buf[i] # Empty => held.buf[i] < q
  <2> SUFFICES ASSUME NEW i \in Slots, held.buf[i] # Empty PROVE held.buf[i] < q
    OBVIOUS
  <2>1. CASE held.buf[i] = n
    BY <1>9, <2>1
  <2>2. CASE held.buf[i] = slid.buf[i]
    <3>1. held.buf[i] = r.buf[i] /\ r.buf[i] < p /\ r.buf[i] \in Nat
      BY <1>1, <1>7, <2>2, RecFields DEF RecOK
    <3> QED BY <1>9, <3>1
  <2> QED BY <1>8, <2>1, <2>2
<1>11. nout \in 0 .. MaxBuf - 1
  <2>1. PassedSlots(r, slide) \in SUBSET Occupied(r)
    BY DEF PassedSlots
  <2>2. IsFiniteSet(Occupied(r)) /\ Cardinality(Occupied(r)) = r.stored
    BY <1>1, RecFields DEF RecOK
  <2>3. IsFiniteSet(PassedSlots(r, slide)) /\ nout <= r.stored
    BY <2>1, <2>2, FS_Subset
  <2>4. nout \in Nat
    BY <2>3, FS_CardinalityType
  <2> HIDE DEF nout
  <2> QED BY <1>1, <1>2, <2>3, <2>4
<1> HIDE DEF nout
<1>12. MaxBuf - nout \in 0 .. MaxBuf /\ MaxBuf - nout > 0
  BY <1>2, <1>11
<1>13. /\ run \in 0 .. MaxBuf - nout
       /\ \A d \in 0 .. run - 1 : held.buf[SlotAt(held, d)] # Empty
       /\ \/ run = MaxBuf - nout
          \/ held.buf[SlotAt(held, run)] = Empty
          \/ held.stored = Cardinality(PassedSlots(held, run))
  BY <1>6, <1>8, <1>12, RunLenOK
<1> HIDE DEF run
<1>14. run \in 0 .. MaxBuf /\ run \in Nat /\ h2 \in Nat
  BY <1>2, <1>6, <1>11, <1>13
<1>15. h2 <= q /\ run <= B
  BY <1>6, <1>8, <1>9, <1>10, <1>13, <1>14, RunBelow
<1>16. /\ RecOK(end, h2) /\ end.bufSize = B /\ end.active /\ end.stored <= held.stored
       /\ \A i \in Slots : end.buf[i] # Empty =>
             end.buf[i] = held.buf[i] /\ h2 <= end.buf[i] /\ end.buf[i] < h1 + B
  <2>1. /\ RecOK(end, h2) /\ end.bufSize = held.bufSize /\ end.active = held.active
        /\ end.stored <= held.stored
        /\ \A i \in Slots : end.buf[i] # Empty =>
              end.buf[i] = held.buf[i] /\ h2 <= end.buf[i] /\ end.buf[i] < h1 + held.bufSize
    BY <1>6, <1>8, <1>14, AdvanceOK, Zenon
  <2> QED BY <1>8, <2>1
<1> HIDE DEF end
<1>17. end.stored < B
  <2>0. end.stored \in 0 .. MaxBuf /\ held.stored \in 0 .. MaxBuf
    BY <1>8, <1>16, RecFields DEF RecOK
  <2>1. CASE run > 0
    <3>1. \A i \in Slots : end.buf[i] # Empty => end.buf[i] \in h2 .. (h1 + B - 1)
      BY <1>2, <1>6, <1>14, <1>16, RecFields DEF RecOK
    <3>2. h2 \in Int /\ h1 + B - 1 \in Int /\ h2 <= (h1 + B - 1) + 1
      BY <1>2, <1>6, <1>14, <1>15
    <3>3. end.stored <= (h1 + B - 1) - h2 + 1
      BY <1>14, <1>16, <3>1, <3>2, CountBound, Zenon
    <3> QED BY <1>2, <1>6, <1>14, <2>0, <2>1, <3>3
  <2>2. CASE run = 0 /\ held.buf[SlotAt(held, run)] = Empty
    <3>1. SlotAt(held, 0) = h1 % MaxBuf
      BY <1>6, <1>8, SlotAtAbs DEF RecOK
    <3>2. ASSUME NEW i \in Slots, end.buf[i] # Empty
          PROVE  end.buf[i] \in (h1 + 1) .. (h1 + B - 1)
      <4>1. end.buf[i] = held.buf[i] /\ held.buf[i] \in Nat /\ h1 <= held.buf[i]
            /\ held.buf[i] < h1 + B /\ held.buf[i] % MaxBuf = i
        BY <3>2, <1>8, <1>16, RecFields DEF RecOK
      <4>2. held.buf[i] # h1
        BY <2>2, <3>1, <3>2, <4>1
      <4> QED BY <1>2, <1>6, <4>1, <4>2
    <3>3. end.stored <= (h1 + B - 1) - (h1 + 1) + 1
      BY <1>2, <1>6, <1>14, <1>16, <3>2, CountBound
    <3> QED BY <1>2, <1>6, <2>0, <3>3
  <2>3. CASE run = 0 /\ held.stored = Cardinality(PassedSlots(held, run))
    <3>1. PassedSlots(held, run) = {}
      BY <2>3 DEF PassedSlots
    <3>2. held.stored = 0
      BY <2>3, <3>1, FS_EmptySet
    <3> QED BY <1>2, <1>16, <2>0, <3>2
  <2> QED BY <1>12, <1>13, <1>14, <2>1, <2>2, <2>3
<1>18. \A x \in fr : x \in Nat /\ h <= x /\ x < h2
  <2>1. \A x \in Passed(r, slide) : x \in Nat /\ h <= x /\ x < h1
    BY <1>1, <1>6, PassedRange DEF h1
  <2>2. \A x \in Passed(held, run) : x \in Nat /\ h1 <= x /\ x < h2
    BY <1>6, <1>8, <1>14, PassedRange
  <2> QED BY <1>6, <1>14, <2>1, <2>2
<1>19. \A i \in Slots : end.buf[i] # Empty => end.buf[i] < q
  BY <1>10, <1>16
<1>20. h <= h2 /\ q <= h2 + B /\ h2 = h + slide + run
  BY <1>2, <1>6, <1>9, <1>14 DEF h1
<1>25. ASSUME NEW m \in h .. h2 - 1 PROVE m \in fr \/ m < q - B
  <2>1. CASE m < h1
    <3>1. slide # 0 /\ h1 = n + 1 - B
      BY <1>2, <1>5, <2>1 DEF h1
    <3> QED BY <1>2, <1>9, <2>1, <3>1
  <2>2. CASE m >= h1
    <3> DEFINE d == m - h1
    <3>1. d \in 0 .. run - 1 /\ d \in 0 .. MaxBuf - 1 /\ d \in Nat /\ h1 + d = m
      BY <1>2, <1>6, <1>11, <1>13, <1>14, <2>2
    <3> HIDE DEF d
    <3>2. held.buf[SlotAt(held, d)] # Empty
      BY <1>13, <3>1
    <3>3. held.buf[SlotAt(held, d)] = m
      BY <1>6, <1>8, <3>1, <3>2, HeadFrame
    <3>4. SlotAt(held, d) \in Slots
      BY <1>6, <1>8, <3>1, SlotAtAbs DEF RecOK
    <3>5. m \in Passed(held, run)
      BY <3>1, <3>2, <3>3, <3>4 DEF Passed, PassedSlots, Occupied
    <3> QED BY <3>5
  <2> QED BY <1>6, <2>1, <2>2
<1> HIDE DEF fr, h2, q
<1>21. Max(fr \cup {l}) \in Nat \cup {Empty} /\ Max(fr \cup {l}) < h2
  BY <1>1, <1>14, <1>18, <1>20, MaxBelow
<1>22. TidInv(end, h2, q, Max(fr \cup {l}))
  BY <1>15, <1>16, <1>17, <1>19, <1>20, <1>21 DEF TidInv
<1>23. \A x \in fr : x \in Nat /\ l < x /\ h <= x /\ x < h2
  BY <1>1, <1>18 DEF Empty
<1>24. end \in Reorder
  BY <1>16 DEF RecOK
<1> QED BY <1>6, <1>14, <1>16, <1>20, <1>21, <1>22, <1>23, <1>24, <1>25
        DEF slide, slid, held, nout, run, fr, q, h1, h2, end, InputMoves

\* rxReorderFlushStale on one TID that holds frames: the same, with the holes
\* in front of the first buffered frame skipped.
LEMMA FlushOne ==
    ASSUME NEW r, NEW h \in Nat, NEW p \in Nat, NEW l \in Nat \cup {Empty},
           TidInv(r, h, p, l), r.active, r.stored > 0, NEW room \in 0 .. MaxBuf
    PROVE  LET skip == SkipLen(r)
               past == Advance(r, skip)
               run  == RunLen(past, room)
               fr   == Passed(past, run)
           IN  /\ skip \in Nat /\ run \in 0 .. room
               /\ Advance(past, run).active
               /\ TidInv(Advance(past, run), h + skip + run, p, Max(fr \cup {l}))
               /\ Max(fr \cup {l}) \in Nat \cup {Empty}
               /\ \A x \in fr : x \in Nat /\ l < x /\ h <= x /\ x < h + skip + run
               /\ Advance(past, run) \in Reorder
<1> DEFINE B    == r.bufSize
           skip == SkipLen(r)
           past == Advance(r, skip)
           run  == RunLen(past, room)
           fr   == Passed(past, run)
           h1   == h + skip
           h2   == h1 + run
           end  == Advance(past, run)
<1>1. /\ RecOK(r, h) /\ r.stored < B /\ h <= p /\ p <= h + B /\ l < h
      /\ \A i \in Slots : r.buf[i] # Empty => r.buf[i] < p
  BY DEF TidInv
<1>2. B \in 1 .. MaxBuf /\ MaxBuf \in Nat \ {0} /\ r.stored \in 0 .. MaxBuf
  BY <1>1, Sizes, RecFields DEF RecOK
<1>3. skip \in Nat /\ h1 \in Nat /\ h <= h1 /\ h1 <= p
  <2>1. skip \in Nat /\ h + skip < p
    BY <1>1, SkipLenOK
  <2> HIDE DEF skip
  <2> QED BY <2>1
<1> HIDE DEF skip
<1>4. /\ RecOK(past, h1) /\ past.bufSize = B /\ past.active = r.active
      /\ past.stored <= r.stored
      /\ \A i \in Slots : past.buf[i] # Empty => past.buf[i] = r.buf[i]
  BY <1>1, <1>3, AdvanceOK, ZenonT(60)
<1> HIDE DEF past, h1
<1>5. \A i \in Slots : past.buf[i] # Empty => past.buf[i] < p
  BY <1>1, <1>4
<1>6. /\ run \in 0 .. room
      /\ \A d \in 0 .. run - 1 : past.buf[SlotAt(past, d)] # Empty
  BY <1>3, <1>4, RunLenOK
<1> HIDE DEF run
<1>7. run \in 0 .. MaxBuf /\ run \in Nat /\ h2 \in Nat
  BY <1>2, <1>3, <1>6
<1>8. h2 <= p
  BY <1>3, <1>4, <1>5, <1>6, <1>7, RunBelow
<1>9. /\ RecOK(end, h2) /\ end.bufSize = past.bufSize /\ end.active = past.active
      /\ end.stored <= past.stored
      /\ \A i \in Slots : end.buf[i] # Empty => end.buf[i] = past.buf[i]
  <2>1. RecOK(past, h1) /\ h1 \in Nat /\ run \in Nat
    BY <1>3, <1>4, <1>7
  <2> QED BY <2>1, AdvanceOK, ZenonT(60)
<1> HIDE DEF end
<1>10. end.stored < B
  <2>1. end.stored \in 0 .. MaxBuf /\ past.stored \in 0 .. MaxBuf
    BY <1>4, <1>9, RecFields DEF RecOK
  <2> QED BY <1>1, <1>2, <1>4, <1>9, <2>1
<1>11. \A x \in fr : x \in Nat /\ h1 <= x /\ x < h2
  BY <1>3, <1>4, <1>7, PassedRange
<1>12. \A i \in Slots : end.buf[i] # Empty => end.buf[i] < p
  BY <1>5, <1>9
<1>13. h <= h2 /\ p <= h2 + B /\ h2 = h + skip + run /\ \A x \in fr : h <= x
  BY <1>1, <1>2, <1>3, <1>7, <1>11 DEF h1
<1> HIDE DEF fr, h2
<1>14. Max(fr \cup {l}) \in Nat \cup {Empty} /\ Max(fr \cup {l}) < h2
  BY <1>1, <1>7, <1>11, <1>13, MaxBelow
<1>15. end.bufSize = B /\ end.active
  BY <1>4, <1>9
<1>16. TidInv(end, h2, p, Max(fr \cup {l}))
  BY <1>8, <1>9, <1>10, <1>12, <1>13, <1>14, <1>15 DEF TidInv
<1>17. \A x \in fr : x \in Nat /\ l < x /\ h <= x /\ x < h2
  BY <1>1, <1>11, <1>13 DEF Empty
<1>18. end \in Reorder
  BY <1>9 DEF RecOK
<1> QED BY <1>3, <1>6, <1>13, <1>14, <1>15, <1>16, <1>17, <1>18
        DEF skip, past, run, fr, h1, h2, end

\* A new agreement starts empty, with its head at the AP's next number.
LEMMA NewBaOK ==
    ASSUME NEW p \in Nat, NEW req \in Nat
    PROVE  /\ NewBa(Sn(p), req) \in Reorder
           /\ TidInv(NewBa(Sn(p), req), p, p, Empty)
<1> DEFINE r == NewBa(Sn(p), req)
<1>1. ClampBuf(req) \in 1 .. MaxBuf /\ MaxBuf \in Nat \ {0}
  BY Sizes DEF ClampBuf
<1>2. Sn(p) \in 0 .. SeqMod - 1 /\ Sn(p) = p % SeqMod
  BY SlotOf DEF Sn
<1>3. /\ r.active = TRUE /\ r.headSn = Sn(p) /\ r.bufSize = ClampBuf(req)
      /\ r.stored = 0 /\ r.buf = [i \in Slots |-> Empty]
  BY DEF NewBa
<1>4. r \in Reorder
  BY <1>1, <1>2 DEF NewBa, Reorder
<1>5. \A i \in Slots : r.buf[i] = Empty
  BY <1>3
<1>6. Occupied(r) = {}
  BY <1>5 DEF Occupied
<1>7. Cardinality(Occupied(r)) = 0
  BY <1>6, FS_EmptySet
<1> HIDE DEF r
<1>8. RecOK(r, p)
  BY <1>2, <1>3, <1>4, <1>5, <1>7 DEF RecOK
<1>9. TidInv(r, p, p, Empty)
  BY <1>1, <1>3, <1>5, <1>8 DEF TidInv, Empty
<1> QED BY <1>4, <1>9 DEF r

\* The absence of an agreement is a well-typed record.
LEMMA NoBaOK ==
    /\ NoBa \in Reorder /\ NoBa.active = FALSE /\ NoBa.stored = 0 /\ NoBa.bufSize = 1
    /\ Occupied(NoBa) = {}
<1>1. MaxBuf \in Nat \ {0} /\ SeqMod \in Nat \ {0}
  BY Sizes
<1> QED BY <1>1 DEF NoBa, Reorder, Occupied

-----------------------------------------------------------------------------
(* The inductive invariant.                                                *)

\* What an arriving frame's number can be.
LEMMA ArrivalRange ==
    ASSUME RTypeOK, NEW t \in Tids, NEW n \in Arrivals(t)
    PROVE  n \in Nat /\ peer[t] - MaxBuf <= n /\ n <= peer[t] + Ahead
<1>1. peer[t] \in Nat /\ MaxBuf \in Nat /\ Ahead \in Nat /\ MaxSn \in Nat
  BY Sizes, ReorderAssumption DEF RTypeOK
<1> QED BY <1>1 DEF Arrivals

\* Nothing is buffered before the first agreement.
LEMMA InitInv == ASSUME RInit PROVE RInv
<1>1. /\ NoBa \in Reorder /\ NoBa.active = FALSE /\ NumTid \in Nat /\ MaxBuf \in Nat
      /\ FirstSns \subseteq Nat
  BY NoBaOK, Sizes, ReorderAssumption
<1>2. rxBa \in [Tids -> Reorder] /\ peer \in [Tids -> Nat]
  BY <1>1 DEF RInit
<1>3. /\ headAbs \in [Tids -> Nat] /\ lastRel \in [Tids -> Nat \cup {Empty}]
      /\ out \in [Tids -> SUBSET Nat]
  BY DEF RInit
<1>4. flush \in [on : BOOLEAN, tid : 0 .. NumTid, nout : 0 .. MaxBuf]
  BY <1>1 DEF RInit
<1>5. \A t \in Tids : rxBa[t] = NoBa /\ lastRel[t] = Empty
  BY DEF RInit
<1> QED BY <1>1, <1>2, <1>3, <1>4, <1>5 DEF RInv, RTypeOK, TidInv

\* rxBaSetup preserves the invariant.
LEMMA SetupStep ==
    ASSUME RInv, NEW t \in Tids, NEW req \in BufReqs, RxBaSetup(t, req)
    PROVE  RInv'
<1>1. req \in Nat /\ peer[t] \in Nat
  BY ReorderAssumption DEF RInv, RTypeOK
<1> DEFINE r == NewBa(Sn(peer[t]), req)
<1>2. r \in Reorder /\ TidInv(r, peer[t], peer[t], Empty)
  BY <1>1, NewBaOK
<1> HIDE DEF r
<1>3. /\ rxBa' = [rxBa EXCEPT ![t] = r] /\ headAbs' = [headAbs EXCEPT ![t] = peer[t]]
      /\ lastRel' = [lastRel EXCEPT ![t] = Empty] /\ peer' = peer /\ flush' = flush
      /\ out' = [u \in Tids |-> {}]
  BY DEF RxBaSetup, NoOut, r
<1>4. RTypeOK'
  BY <1>1, <1>2, <1>3 DEF RInv, RTypeOK
<1>5. ASSUME NEW u \in Tids
      PROVE  TidInv(rxBa'[u], headAbs'[u], peer'[u], lastRel'[u])
  <2>1. CASE u = t
    BY <1>2, <1>3, <2>1 DEF RInv, RTypeOK
  <2>2. CASE u # t
    BY <1>3, <2>2 DEF RInv, RTypeOK
  <2> QED BY <2>1, <2>2
<1> QED BY <1>4, <1>5 DEF RInv, TidInv

\* rxBaTeardown preserves the invariant.
LEMMA TeardownStep ==
    ASSUME RInv, NEW t \in Tids, RxBaTeardown(t)
    PROVE  RInv'
<1>1. /\ rxBa' = [rxBa EXCEPT ![t] = NoBa] /\ headAbs' = headAbs /\ peer' = peer
      /\ lastRel' = [lastRel EXCEPT ![t] = Empty] /\ flush' = flush
      /\ out' = [u \in Tids |-> {}]
  BY DEF RxBaTeardown, NoOut
<1>2. NoBa \in Reorder /\ TidInv(NoBa, headAbs[t], peer[t], Empty)
  BY NoBaOK DEF TidInv
<1>3. RTypeOK'
  BY <1>1, <1>2 DEF RInv, RTypeOK
<1>4. ASSUME NEW u \in Tids
      PROVE  TidInv(rxBa'[u], headAbs'[u], peer'[u], lastRel'[u])
  <2>1. CASE u = t
    BY <1>1, <1>2, <2>1 DEF RInv, RTypeOK
  <2>2. CASE u # t
    BY <1>1, <2>2 DEF RInv, RTypeOK
  <2> QED BY <2>1, <2>2
<1> QED BY <1>3, <1>4 DEF RInv, TidInv

\* The AP's next number grows with what arrives.
LEMMA ArriveStep ==
    ASSUME RTypeOK, NEW t \in Tids, NEW n \in Nat, Arrive(t, n)
    PROVE  /\ peer' \in [Tids -> Nat]
           /\ peer'[t] = IF n >= peer[t] THEN n + 1 ELSE peer[t]
           /\ \A u \in Tids : u # t => peer'[u] = peer[u]
  BY DEF RTypeOK, Arrive

\* A frame that is dropped as stale, or that finds no agreement, preserves it.
LEMMA StaleStep ==
    ASSUME RInv, NEW t \in Tids, NEW n \in Arrivals(t),
           InputStale(t, n) \/ InputNoBa(t, n)
    PROVE  RInv'
<1>1. RTypeOK /\ n \in Nat /\ peer[t] - MaxBuf <= n /\ n <= peer[t] + Ahead
  BY ArrivalRange DEF RInv
<1>2. /\ Arrive(t, n) /\ rxBa' = rxBa /\ headAbs' = headAbs /\ lastRel' = lastRel
      /\ flush' = flush
  BY DEF InputStale, InputNoBa
<1>3. out' \in [Tids -> SUBSET Nat]
  BY <1>1 DEF InputStale, InputNoBa, NoOut
<1>4. RTypeOK'
  BY <1>1, <1>2, <1>3, ArriveStep DEF RTypeOK
<1>5. ASSUME NEW u \in Tids
      PROVE  TidInv(rxBa'[u], headAbs'[u], peer'[u], lastRel'[u])
  <2> DEFINE r == rxBa[u]
             h == headAbs[u]
  <2>1. TidInv(r, h, peer[u], lastRel[u])
    BY DEF RInv
  <2>2. CASE ~(u = t /\ r.active)
    <3>1. peer'[u] = peer[u] \/ ~r.active
      BY <1>1, <1>2, <2>2, ArriveStep
    <3> QED BY <1>2, <2>1, <3>1 DEF TidInv
  <2>3. CASE u = t /\ r.active
    <3>1. Rel(Sn(n), r.headSn) >= Half
      BY <2>3 DEF InputStale, InputNoBa
    <3>2. /\ RecOK(r, h) /\ h <= peer[t] /\ peer[t] <= h + r.bufSize
          /\ h \in Nat /\ peer[t] \in Nat
      BY <1>1, <2>1, <2>3 DEF TidInv, RTypeOK
    <3>3. r.bufSize \in 1 .. MaxBuf /\ r.headSn = Sn(h)
      BY <3>2, RecFields DEF RecOK, Sn
    <3>4. n < h
      <4> SUFFICES ASSUME h <= n PROVE FALSE
        BY <1>1, <3>2
      <4>1. n < h + Half /\ n < h + SeqMod /\ Half \in Nat
        BY <1>1, <3>2, <3>3, Sizes
      <4>2. Rel(Sn(n), r.headSn) = n - h
        BY <1>1, <3>2, <3>3, <4>1, RelAbs
      <4> QED BY <1>1, <3>1, <3>2, <4>1, <4>2
    <3>5. peer'[t] = peer[t]
      BY <1>1, <1>2, <3>2, <3>4, ArriveStep
    <3> QED BY <1>2, <2>1, <2>3, <3>5
  <2> QED BY <2>2, <2>3
<1> QED BY <1>4, <1>5 DEF RInv, TidInv

\* rxReorderInput preserves the invariant and releases only newer frames.
LEMMA InputStep ==
    ASSUME RInv, NEW t \in Tids, NEW n \in Arrivals(t), Input(t, n)
    PROVE  /\ RInv'
           /\ \A x \in out'[t] : lastRel[t] < x /\ headAbs[t] <= x /\ x < headAbs'[t]
           /\ \A m \in headAbs[t] .. headAbs'[t] - 1 :
                 m \in out'[t] \/ m < peer'[t] - rxBa[t].bufSize
           /\ rxBa'[t].active /\ headAbs[t] <= headAbs'[t] /\ IsFiniteSet(out'[t])
           /\ \A u \in Tids : u # t => rxBa'[u] = rxBa[u] /\ headAbs'[u] = headAbs[u]
           /\ \A u \in Tids : u # t => out'[u] = {}
<1> DEFINE r     == rxBa[t]
           slide == SlideLen(r, Sn(n))
           held  == Store(Advance(r, slide), n)
           run   == RunLen(held, MaxBuf - Cardinality(PassedSlots(r, slide)))
           fr    == Passed(r, slide) \cup Passed(held, run)
           end   == Advance(held, run)
           top   == Max(fr \cup {lastRel[t]})
           h     == headAbs[t] + slide + run
           q     == IF n >= peer[t] THEN n + 1 ELSE peer[t]
<1>1. RTypeOK /\ n \in Nat /\ peer[t] - MaxBuf <= n /\ n <= peer[t] + Ahead
  BY ArrivalRange DEF RInv
<1>2. /\ headAbs[t] \in Nat /\ peer[t] \in Nat /\ lastRel[t] \in Nat \cup {Empty}
      /\ TidInv(r, headAbs[t], peer[t], lastRel[t])
  BY DEF RInv, RTypeOK
<1>3. r.active /\ Rel(Sn(n), r.headSn) < Half
  BY DEF Input
<1>4. /\ Arrive(t, n) /\ rxBa' = [rxBa EXCEPT ![t] = end]
      /\ headAbs' = [headAbs EXCEPT ![t] = headAbs[t] + slide + run]
      /\ out' = [[u \in Tids |-> {}] EXCEPT ![t] = fr]
      /\ lastRel' = [lastRel EXCEPT ![t] = top] /\ flush' = flush
  BY DEF Input, ReleaseTo, NoOut
<1>5. /\ slide \in Nat /\ run \in Nat /\ end.active /\ end \in Reorder
      /\ TidInv(end, h, q, top)
      /\ top \in Nat \cup {Empty}
      /\ \A x \in fr : x \in Nat /\ lastRel[t] < x /\ headAbs[t] <= x /\ x < h
      /\ \A m \in headAbs[t] .. h - 1 : m \in fr \/ m < q - r.bufSize
  <2>1. InputMoves(rxBa[t], headAbs[t], peer[t], lastRel[t], n)
    BY <1>1, <1>2, <1>3, InputTid
  <2> QED BY <2>1 DEF InputMoves
<1> HIDE DEF slide, held, run, fr, end, top
<1>6. out'[t] = fr /\ \A u \in Tids : u # t => out'[u] = {}
  BY <1>4
<1>7. RTypeOK'
  <2>1. out' \in [Tids -> SUBSET Nat]
    BY <1>4, <1>5
  <2>2. peer' \in [Tids -> Nat]
    BY <1>1, <1>4, ArriveStep
  <2>3. /\ rxBa' \in [Tids -> Reorder] /\ headAbs' \in [Tids -> Nat]
        /\ lastRel' \in [Tids -> Nat \cup {Empty}]
    BY <1>1, <1>2, <1>4, <1>5 DEF RTypeOK
  <2> QED BY <1>1, <1>4, <2>1, <2>2, <2>3 DEF RTypeOK
<1>10. rxBa'[t] = end /\ headAbs'[t] = h /\ lastRel'[t] = top /\ peer'[t] = q
  <2>1. peer'[t] = q
    BY <1>1, <1>4, ArriveStep
  <2> QED BY <1>1, <1>4, <2>1 DEF RTypeOK
<1>8. ASSUME NEW u \in Tids
      PROVE  TidInv(rxBa'[u], headAbs'[u], peer'[u], lastRel'[u])
  <2>1. CASE u = t
    BY <1>5, <1>10, <2>1
  <2>2. CASE u # t
    <3>1. /\ rxBa'[u] = rxBa[u] /\ headAbs'[u] = headAbs[u] /\ lastRel'[u] = lastRel[u]
          /\ peer'[u] = peer[u]
      BY <1>1, <1>4, <2>2, ArriveStep DEF RTypeOK
    <3> QED BY <3>1 DEF RInv
  <2> QED BY <2>1, <2>2
<1>9. RInv'
  BY <1>7, <1>8 DEF RInv, TidInv
<1>11. headAbs[t] <= h /\ h \in Nat
  BY <1>2, <1>5
<1>12. IsFiniteSet(fr)
  <2>1. fr \in SUBSET (headAbs[t] .. h - 1) /\ headAbs[t] \in Int /\ h - 1 \in Int
    BY <1>2, <1>5, <1>11
  <2> QED BY <2>1, FS_Interval, FS_Subset, Zenon
<1>13. \A u \in Tids : u # t => rxBa'[u] = rxBa[u] /\ headAbs'[u] = headAbs[u]
  BY <1>1, <1>4 DEF RTypeOK
<1> HIDE DEF h, q, r
<1> QED BY <1>5, <1>6, <1>9, <1>10, <1>11, <1>12, <1>13 DEF r

\* One TID of the flush preserves the invariant and releases only newer frames.
LEMMA FlushStep ==
    ASSUME RInv, NEW t \in Tids, FlushTid(t), rxBa[t].active, rxBa[t].stored > 0
    PROVE  /\ RInv'
           /\ \A x \in out'[t] : lastRel[t] < x /\ headAbs[t] <= x /\ x < headAbs'[t]
           /\ rxBa'[t].active /\ headAbs[t] <= headAbs'[t] /\ IsFiniteSet(out'[t])
           /\ \A u \in Tids : u # t =>
                 rxBa'[u] = rxBa[u] /\ headAbs'[u] = headAbs[u] /\ out'[u] = out[u]
<1> DEFINE r    == rxBa[t]
           skip == SkipLen(r)
           past == Advance(r, skip)
           room == MaxBuf - flush.nout
           run  == RunLen(past, room)
           fr   == Passed(past, run)
           end  == Advance(past, run)
           top  == Max(fr \cup {lastRel[t]})
           h    == headAbs[t] + skip + run
<1>1. RTypeOK /\ MaxBuf \in Nat /\ NumTid \in Nat
  BY Sizes DEF RInv
<1>2. /\ headAbs[t] \in Nat /\ peer[t] \in Nat /\ lastRel[t] \in Nat \cup {Empty}
      /\ TidInv(r, headAbs[t], peer[t], lastRel[t]) /\ r \in Reorder
  BY DEF RInv, RTypeOK
<1>3. /\ flush.nout \in 0 .. MaxBuf /\ room \in 0 .. MaxBuf /\ t + 1 \in 0 .. NumTid
      /\ flush = [on |-> flush.on, tid |-> flush.tid, nout |-> flush.nout]
  BY <1>1 DEF RTypeOK, Tids
<1>4. r.stored \in 0 .. MaxBuf
  BY <1>2, RecFields
<1>5. /\ rxBa' = [rxBa EXCEPT ![t] = end]
      /\ headAbs' = [headAbs EXCEPT ![t] = headAbs[t] + skip + run]
      /\ out' = [out EXCEPT ![t] = fr] /\ lastRel' = [lastRel EXCEPT ![t] = top]
      /\ flush' = [flush EXCEPT !.tid = t + 1, !.nout = flush.nout + run] /\ peer' = peer
  BY <1>4 DEF FlushTid, ReleaseTo
<1>6. /\ skip \in Nat /\ run \in 0 .. room /\ end.active /\ end \in Reorder
      /\ TidInv(end, h, peer[t], top)
      /\ top \in Nat \cup {Empty}
      /\ \A x \in fr : x \in Nat /\ lastRel[t] < x /\ headAbs[t] <= x /\ x < h
  <2> HIDE DEF room
  <2> QED BY <1>2, <1>3, FlushOne, ZenonT(60)
<1> HIDE DEF skip, past, run, fr, end, top
<1>7. run \in Nat /\ flush.nout + run \in 0 .. MaxBuf
  BY <1>1, <1>3, <1>6
<1>8. RTypeOK'
  <2>1. out' \in [Tids -> SUBSET Nat]
    BY <1>1, <1>5, <1>6 DEF RTypeOK
  <2>2. flush' \in [on : BOOLEAN, tid : 0 .. NumTid, nout : 0 .. MaxBuf]
    BY <1>1, <1>3, <1>5, <1>7 DEF RTypeOK
  <2> QED BY <1>1, <1>2, <1>5, <1>6, <1>7, <2>1, <2>2 DEF RTypeOK
<1>12. rxBa'[t] = end /\ headAbs'[t] = h /\ lastRel'[t] = top /\ peer'[t] = peer[t]
  BY <1>1, <1>5 DEF RTypeOK
<1>9. ASSUME NEW u \in Tids
      PROVE  TidInv(rxBa'[u], headAbs'[u], peer'[u], lastRel'[u])
  <2>1. CASE u = t
    BY <1>6, <1>12, <2>1
  <2>2. CASE u # t
    <3>1. /\ rxBa'[u] = rxBa[u] /\ headAbs'[u] = headAbs[u] /\ lastRel'[u] = lastRel[u]
          /\ peer'[u] = peer[u]
      BY <1>1, <1>5, <2>2 DEF RTypeOK
    <3> QED BY <3>1 DEF RInv
  <2> QED BY <2>1, <2>2
<1>10. RInv'
  BY <1>8, <1>9 DEF RInv, TidInv
<1>11. out'[t] = fr
  BY <1>1, <1>5 DEF RTypeOK
<1>13. headAbs[t] <= h /\ h \in Nat
  BY <1>2, <1>6, <1>7
<1>14. IsFiniteSet(fr)
  <2>1. fr \in SUBSET (headAbs[t] .. h - 1) /\ headAbs[t] \in Int /\ h - 1 \in Int
    BY <1>2, <1>6, <1>13
  <2> QED BY <2>1, FS_Interval, FS_Subset, Zenon
<1>15. \A u \in Tids : u # t =>
          rxBa'[u] = rxBa[u] /\ headAbs'[u] = headAbs[u] /\ out'[u] = out[u]
  BY <1>1, <1>5 DEF RTypeOK
<1> HIDE DEF h, r
<1> QED BY <1>6, <1>10, <1>11, <1>12, <1>13, <1>14, <1>15

\* Steps that touch neither a buffer nor the AP's numbering.
LEMMA OtherStep ==
    ASSUME RInv, rxBa' = rxBa, peer' = peer, headAbs' = headAbs, lastRel' = lastRel,
           out' \in [Tids -> SUBSET Nat],
           flush' \in [on : BOOLEAN, tid : 0 .. NumTid, nout : 0 .. MaxBuf]
    PROVE  RInv'
  BY DEF RInv, RTypeOK, TidInv

\* Every step of the four locked sections preserves the invariant.
LEMMA NextInv == ASSUME RInv, [RNext]_rvars PROVE RInv'
<1>1. RTypeOK /\ MaxBuf \in Nat /\ NumTid \in Nat
  BY Sizes DEF RInv
<1>2. ASSUME NEW t \in Tids, NEW req \in BufReqs, RxBaSetup(t, req) PROVE RInv'
  BY <1>2, SetupStep
<1>3. ASSUME NEW t \in Tids, RxBaSetupNoMem(t) PROVE RInv'
  <2>1. out' \in [Tids -> SUBSET Nat]
    BY <1>3 DEF RxBaSetupNoMem, NoOut
  <2> QED BY <1>1, <1>3, <2>1, OtherStep DEF RxBaSetupNoMem, RTypeOK
<1>4. ASSUME NEW t \in Tids, RxBaTeardown(t) PROVE RInv'
  BY <1>4, TeardownStep
<1>5. ASSUME NEW t \in Tids, NEW n \in Arrivals(t),
             InputStale(t, n) \/ InputNoBa(t, n)
      PROVE  RInv'
  BY <1>5, StaleStep
<1>6. ASSUME NEW t \in Tids, NEW n \in Arrivals(t), Input(t, n) PROVE RInv'
  BY <1>6, InputStep
<1>7. ASSUME NEW t \in Tids, FlushTid(t) PROVE RInv'
  <2>1. CASE rxBa[t].active /\ rxBa[t].stored > 0
    BY <1>7, <2>1, FlushStep
  <2>2. CASE ~(rxBa[t].active /\ rxBa[t].stored > 0)
    <3>1. /\ flush' = [flush EXCEPT !.tid = t + 1] /\ rxBa' = rxBa /\ headAbs' = headAbs
          /\ out' = out /\ lastRel' = lastRel /\ peer' = peer
      BY <1>7, <2>2 DEF FlushTid
    <3>2. t + 1 \in 0 .. NumTid
      BY <1>1 DEF Tids
    <3>3. flush' \in [on : BOOLEAN, tid : 0 .. NumTid, nout : 0 .. MaxBuf]
      BY <1>1, <3>1, <3>2 DEF RTypeOK
    <3> QED BY <1>1, <3>1, <3>3, OtherStep DEF RTypeOK
  <2> QED BY <2>1, <2>2
<1>8. CASE FlushBegin
  <2>1. out' \in [Tids -> SUBSET Nat]
    BY <1>8 DEF FlushBegin, NoOut
  <2>2. flush' \in [on : BOOLEAN, tid : 0 .. NumTid, nout : 0 .. MaxBuf]
    BY <1>1, <1>8 DEF FlushBegin
  <2> QED BY <1>8, <2>1, <2>2, OtherStep DEF FlushBegin
<1>9. CASE FlushEnd
  <2>1. flush' \in [on : BOOLEAN, tid : 0 .. NumTid, nout : 0 .. MaxBuf]
    BY <1>1, <1>9 DEF FlushEnd
  <2> QED BY <1>1, <1>9, <2>1, OtherStep DEF FlushEnd, RTypeOK
<1>10. CASE UNCHANGED rvars
  BY <1>1, <1>10, OtherStep DEF rvars, RTypeOK
<1> QED BY <1>2, <1>3, <1>4, <1>5, <1>6, <1>7, <1>8, <1>9, <1>10 DEF RNext

\* The invariant holds in every reachable state of the reorder buffer.
THEOREM ReorderInvariant == RSpec => []RInv
<1>1. RInit => RInv
  BY InitInv
<1>2. RInv /\ [RNext]_rvars => RInv'
  BY NextInv
<1> QED BY <1>1, <1>2, PTL DEF RSpec

\* The reorder buffer keeps its types: _rxBa, the head, the counters.
THEOREM ReorderType == RSpec => []RTypeOK
<1>1. RInv => RTypeOK
  BY DEF RInv
<1> QED BY <1>1, ReorderInvariant, PTL

\* Every buffered frame sits in its own slot and inside the real window, for
\* every sequence space, buffer size and set of TIDs (rxReorderInput,
\* rxReorderFlushStale).
THEOREM ReorderWindow == RSpec => []WindowInv
<1>1. RInv => WindowInv
  <2> SUFFICES ASSUME RInv, NEW t \in Tids, NEW i \in Occupied(rxBa[t])
               PROVE  LET n == rxBa[t].buf[i]
                      IN  /\ Slot(Sn(n)) = i
                          /\ headAbs[t] <= n /\ n < headAbs[t] + rxBa[t].bufSize
    BY DEF WindowInv
  <2> DEFINE r == rxBa[t]
             n == r.buf[i]
  <2>1. TidInv(r, headAbs[t], peer[t], lastRel[t])
    BY DEF RInv
  <2>2. r.active
    BY <2>1, NoBaOK DEF TidInv
  <2>3. RecOK(r, headAbs[t]) /\ i \in Slots /\ n # Empty
    BY <2>1, <2>2 DEF TidInv, Occupied
  <2>4. n \in Nat /\ n % MaxBuf = i /\ headAbs[t] <= n /\ n < headAbs[t] + r.bufSize
    BY <2>3, RecFields DEF RecOK
  <2>5. Slot(Sn(n)) = n % MaxBuf
    BY <2>4, SlotOf
  <2> QED BY <2>4, <2>5
<1> QED BY <1>1, ReorderInvariant, PTL

\* The head is the real head reduced to 12 bits and stays within one window of
\* the AP's newest number: the signed comparison with 2048 never misjudges.
THEOREM ReorderHead == RSpec => []HeadTracksPeer
<1>1. RInv => HeadTracksPeer
  BY DEF RInv, TidInv, RecOK, HeadTracksPeer, Sn
<1> QED BY <1>1, ReorderInvariant, PTL

\* stored is exact and below bufSize: out[kRxBaMaxBuf] never overflows or cuts
\* the run of rxReorderInput short.
THEOREM ReorderStored == RSpec => []StoredExact
<1>1. RInv => StoredExact
  <2> SUFFICES ASSUME RInv, NEW t \in Tids
               PROVE  /\ rxBa[t].stored = Cardinality(Occupied(rxBa[t]))
                      /\ rxBa[t].stored < rxBa[t].bufSize
    BY DEF StoredExact
  <2>1. TidInv(rxBa[t], headAbs[t], peer[t], lastRel[t])
    BY DEF RInv
  <2>2. CASE rxBa[t].active
    BY <2>1, <2>2 DEF TidInv, RecOK
  <2>3. CASE ~rxBa[t].active
    <3>1. rxBa[t] = NoBa
      BY <2>1, <2>3 DEF TidInv
    <3> QED BY <3>1, NoBaOK, FS_EmptySet
  <2> QED BY <2>2, <2>3
<1> QED BY <1>1, ReorderInvariant, PTL

\* The flush loop adds to out[] only for the TID it is at.
LEMMA FlushPendingInv == RSpec => []FlushPending
<1>1. RInit => FlushPending
  BY DEF RInit, FlushPending
<1>2. RTypeOK /\ FlushPending /\ [RNext]_rvars => FlushPending'
  <2> SUFFICES ASSUME RTypeOK, FlushPending, [RNext]_rvars PROVE FlushPending'
    OBVIOUS
  <2>1. ASSUME NEW t \in Tids, FlushTid(t) PROVE FlushPending'
    <3>1. flush.on /\ flush.tid = t /\ flush'.tid = t + 1 /\ flush'.on
      BY <2>1 DEF FlushTid, RTypeOK
    <3>2. t \in Int /\ \A u \in Tids : u \in Int
      BY Sizes DEF Tids
    <3>3. \A u \in Tids : u # t => out'[u] = out[u]
      BY <2>1 DEF FlushTid, RTypeOK
    <3>4. ASSUME NEW u \in Tids, u >= t + 1 PROVE out'[u] = {}
      <4>1. u # t /\ u >= t
        BY <3>2, <3>4
      <4> QED BY <3>1, <3>3, <4>1 DEF FlushPending
    <3> QED BY <3>1, <3>4 DEF FlushPending
  <2>2. ASSUME out' = NoOut PROVE FlushPending'
    BY <2>2 DEF FlushPending, NoOut
  <2>3. ASSUME ~flush'.on PROVE FlushPending'
    BY <2>3 DEF FlushPending
  <2>4. ASSUME NEW t \in Tids, NEW n \in Arrivals(t), Input(t, n) \/ InputNoBa(t, n)
        PROVE  FlushPending'
    BY <2>3, <2>4 DEF Input, InputNoBa, LockFree
  <2>5. CASE UNCHANGED rvars
    BY <2>5 DEF rvars, FlushPending
  <2>6. CASE FlushEnd
    BY <2>3, <2>6 DEF FlushEnd
  <2> QED
    BY <2>1, <2>2, <2>4, <2>5, <2>6
    DEF RNext, RxBaSetup, RxBaSetupNoMem, RxBaTeardown, InputStale, FlushBegin
<1> QED BY <1>1, <1>2, ReorderType, PTL DEF RSpec

\* Frames leave the reorder buffer in the AP's order and at most once.
THEOREM ReorderInOrder == RSpec => InOrderRelease
<1> DEFINE Good == \A t \in Tids : LockFree \/ flush.tid = t =>
                       \A n \in out'[t] : lastRel[t] < n
<1>1. RInv /\ FlushPending /\ [RNext]_rvars => [Good]_rvars
  <2> SUFFICES ASSUME RInv, FlushPending, RNext, NEW t \in Tids, LockFree \/ flush.tid = t,
                      NEW n \in out'[t]
               PROVE  lastRel[t] < n
    BY DEF LockFree
  <2>0. /\ RTypeOK /\ lastRel[t] \in Nat \cup {Empty}
        /\ TidInv(rxBa[t], headAbs[t], peer[t], lastRel[t])
    BY DEF RInv, RTypeOK
  <2>1. ASSUME out' = NoOut PROVE FALSE
    BY <2>1 DEF NoOut
  <2>2. ASSUME NEW u \in Tids, NEW m \in Arrivals(u), Input(u, m) PROVE lastRel[t] < n
    BY <2>2, InputStep
  <2>3. ASSUME NEW u \in Tids, NEW m \in Arrivals(u), InputNoBa(u, m) PROVE lastRel[t] < n
    <3>1. m \in Nat
      BY <2>0, ArrivalRange
    <3>2. u = t /\ n = m
      BY <2>3 DEF InputNoBa, NoOut
    <3>3. lastRel[t] = Empty
      BY <2>0, <2>3, <3>2 DEF TidInv, InputNoBa
    <3> QED BY <3>1, <3>2, <3>3 DEF Empty
  <2>4. ASSUME NEW u \in Tids, FlushTid(u) PROVE lastRel[t] < n
    <3>1. u = t
      BY <2>4 DEF FlushTid, LockFree
    <3>2. CASE rxBa[t].active /\ rxBa[t].stored > 0
      BY <2>4, <3>1, <3>2, FlushStep
    <3>3. CASE ~(rxBa[t].active /\ rxBa[t].stored > 0)
      <4>1. out' = out /\ flush.on /\ flush.tid = t /\ t \in Int
        BY <2>4, <3>1, <3>3, Sizes DEF FlushTid, Tids
      <4> QED BY <4>1 DEF FlushPending
    <3> QED BY <3>2, <3>3
  <2>5. CASE FlushEnd
    BY <2>5, Sizes DEF FlushEnd, LockFree, Tids
  <2> QED
    BY <2>1, <2>2, <2>3, <2>4, <2>5
    DEF RNext, RxBaSetup, RxBaSetupNoMem, RxBaTeardown, InputStale, FlushBegin
<1> QED BY <1>1, ReorderInvariant, FlushPendingInv, PTL DEF RSpec, InOrderRelease

\* rxReorderInput gives up on a missing frame only when it lies a whole window
\* behind the newest one.
THEOREM ReorderSkips == RSpec => InputSkipsOnlyExpired
<1>1. RInv /\ [RNext]_rvars =>
        [\A t \in Tids : (\E n \in Arrivals(t) : Input(t, n)) =>
            \A m \in headAbs[t] .. headAbs'[t] - 1 :
                m \in out'[t] \/ m < peer'[t] - rxBa[t].bufSize]_rvars
  BY InputStep
<1> QED BY <1>1, ReorderInvariant, PTL DEF RSpec, InputSkipsOnlyExpired
=============================================================================
