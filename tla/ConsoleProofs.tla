---------------------------- MODULE ConsoleProofs ----------------------------
(***************************************************************************)
(* The console for any ring, tasks, lengths, filters and plans: the ring   *)
(* with its indices is a queue that loses its oldest bytes and counts      *)
(* them, no gap goes untold, the filter lets through what it is asked for, *)
(* and what a panic leaves comes out, by its core and at the next boot.    *)
(***************************************************************************)
EXTENDS ConsoleBoot, SequenceTheorems, WellFoundedInduction, TLAPS

-----------------------------------------------------------------------------
(* Induction over Nat, and folds.  Every natural number is in a set that   *)
(* has 0 and, with each, the next: least numbers outside do not exist.     *)

LEMMA Induct ==
  ASSUME NEW S, 0 \in S, \A n \in Nat : n \in S => n + 1 \in S
  PROVE  Nat \subseteq S
<1> SUFFICES ASSUME Nat \ S # {} PROVE FALSE
  OBVIOUS
<1> DEFINE R == OpToRel(<, Nat)
<1>1. IsWellFoundedOn(R, Nat)
  BY NatLessThanWellFounded
<1>2. PICK x \in Nat \ S : \A y \in Nat \ S : <<y, x>> \notin R
  <2> HIDE DEF R
  <2> QED BY <1>1, WFMin
<1>3. \A y \in Nat \ S : ~(y < x)
  BY <1>2 DEF OpToRel
<1>4. x # 0 /\ x - 1 \in Nat /\ x - 1 \notin Nat \ S
  BY <1>3
<1> QED BY <1>4

LEMMA Along ==
  ASSUME NEW n \in Nat, NEW S, 0 \in S, \A i \in 1..n : i - 1 \in S => i \in S
  PROVE  \A i \in 0..n : i \in S
<1> DEFINE T == {i \in Nat : i <= n => i \in S}
<1>1. 0 \in T
  OBVIOUS
<1>2. ASSUME NEW i \in Nat, i \in T PROVE i + 1 \in T
  <2>1. i + 1 <= n => i + 1 \in 1..n /\ (i + 1) - 1 = i
    OBVIOUS
  <2> QED BY <1>2, <2>1
<1>3. Nat \subseteq T
  <2> HIDE DEF T
  <2> QED BY <1>1, <1>2, Induct
<1> QED BY <1>3

\* Max of a set of indices, for FoldLeft goes from the last one down.
LEMMA MaxIs ==
  ASSUME NEW m \in Nat, NEW s \in SUBSET Nat, m \in s, \A y \in s : y <= m
  PROVE  Max(s) = m
<1>1. \A x \in s : (\A y \in s : x >= y) => x = m
  OBVIOUS
<1>2. \E x \in s : \A y \in s : x >= y
  OBVIOUS
<1> QED BY <1>1, <1>2 DEF Max

LEMMA Least ==
  ASSUME NEW T \in SUBSET Nat, T # {}
  PROVE  \E m \in T : \A y \in T : m <= y
<1> DEFINE R == OpToRel(<, Nat)
<1>1. IsWellFoundedOn(R, Nat)
  BY NatLessThanWellFounded
<1>2. PICK m \in T : \A y \in T : <<y, m>> \notin R
  <2> HIDE DEF R
  <2> QED BY <1>1, WFMin
<1>3. ASSUME NEW y \in T PROVE m <= y
  <2>1. m \in Nat /\ y \in Nat
    OBVIOUS
  <2>2. ~(y < m)
    BY <1>2, <2>1 DEF OpToRel
  <2> QED BY <2>1, <2>2
<1> QED BY <1>3

LEMMA MaxIn ==
  ASSUME NEW n \in Nat, NEW s \in SUBSET (1..n), s # {}
  PROVE  Max(s) \in s
<1>1. PICK m \in {n - x : x \in s} : \A y \in {n - x : x \in s} : m <= y
  <2> DEFINE T == {n - x : x \in s}
  <2>1. \A x \in s : n - x \in Nat
    <3>1. \A x \in s : x \in 1..n
      OBVIOUS
    <3> QED BY <3>1
  <2>2. T \in SUBSET Nat /\ T # {}
    BY <2>1
  <2> HIDE DEF T
  <2>3. \E m \in T : \A y \in T : m <= y
    BY <2>2, Least
  <2> QED BY <2>3 DEF T
<1>2. PICK x \in s : m = n - x
  BY <1>1
<1>3. ASSUME NEW y \in s PROVE x >= y
  <2>1. x \in 1..n /\ y \in 1..n /\ m <= n - y
    BY <1>1
  <2> QED BY <1>2, <2>1
<1> QED BY <1>3 DEF Max

\* What is left of the indices up to i without the last of them.
LEMMA LastIndex ==
  ASSUME NEW n \in Nat, NEW i \in 1..n
  PROVE  /\ 1..i \in SUBSET (1..n) /\ 1..i # {} /\ Max(1..i) = i
         /\ (1..i) \ {i} = 1..(i - 1)
<1>1. 1..i \in SUBSET (1..n) /\ i \in 1..i
  <2>1. \A j \in 1..i : j \in 1..n
    OBVIOUS
  <2> QED BY <2>1
<1>2. Max(1..i) = i
  <2>1. i \in Nat /\ 1..i \in SUBSET Nat /\ \A y \in 1..i : y <= i
    OBVIOUS
  <2> QED BY <1>1, <2>1, MaxIs
<1>3. (1..i) \ {i} = 1..(i - 1)
  <2>1. \A j : j \in (1..i) \ {i} <=> j \in 1..(i - 1)
    OBVIOUS
  <2> QED BY <2>1
<1> QED BY <1>1, <1>2, <1>3

\* What a fold over 1..n is defined by, on the subsets of its indices.
IsFold(it, base, n, F) ==
  \A s \in SUBSET (1..n) :
     it[s] = IF s = {} THEN base ELSE F[<<it[s \ {Max(s)}], Max(s)>>]

\* A fold over the indices below n has a value: what is chosen exists.
LEMMA FoldExists ==
  ASSUME NEW State, NEW base \in State, NEW n \in Nat, NEW F \in [State \X (1..n) -> State]
  PROVE  \E it : it \in [SUBSET (1..n) -> State] /\ IsFold(it, base, n, F)
<1> DEFINE Good(k, it) ==
             /\ it \in [SUBSET (1..k) -> State]
             /\ \A s \in SUBSET (1..k) :
                  it[s] = IF s = {} THEN base ELSE F[<<it[s \ {Max(s)}], Max(s)>>]
           S == {k \in Nat : k <= n => \E it : Good(k, it)}
<1>1. 0 \in S
  <2> DEFINE it == [s \in SUBSET (1..0) |-> base]
  <2>1. \A s \in SUBSET (1..0) : s = {}
    OBVIOUS
  <2>2. Good(0, it)
    BY <2>1
  <2> HIDE DEF Good
  <2> QED BY <2>2
<1>2. ASSUME NEW k \in Nat, k \in S PROVE k + 1 \in S
  <2> HIDE DEF Good
  <2> SUFFICES ASSUME k + 1 <= n PROVE \E it : Good(k + 1, it)
    OBVIOUS
  <2>1. PICK old : Good(k, old)
    <3>1. k <= n
      OBVIOUS
    <3> QED BY <1>2, <3>1
  <2> USE DEF Good
  <2> DEFINE it == [s \in SUBSET (1..(k + 1)) |->
                      IF k + 1 \in s THEN F[<<old[s \ {k + 1}], k + 1>>] ELSE old[s]]
  <2>2. ASSUME NEW s \in SUBSET (1..(k + 1))
        PROVE  /\ it[s] \in State
               /\ it[s] = IF s = {} THEN base ELSE F[<<it[s \ {Max(s)}], Max(s)>>]
    <3>1. CASE k + 1 \in s
      <4>1. Max(s) = k + 1
        BY <3>1, MaxIs
      <4>2. s \ {k + 1} \in SUBSET (1..k) /\ s \ {k + 1} \in SUBSET (1..(k + 1))
        OBVIOUS
      <4>3. it[s \ {k + 1}] = old[s \ {k + 1}] /\ old[s \ {k + 1}] \in State
        BY <4>2, <2>1
      <4>4. it[s] = F[<<old[s \ {k + 1}], k + 1>>]
        BY <3>1
      <4>5. k + 1 \in 1..n
        OBVIOUS
      <4> HIDE DEF it, Good
      <4> QED BY <3>1, <4>1, <4>3, <4>4, <4>5
    <3>2. CASE k + 1 \notin s
      <4>1. s \in SUBSET (1..k)
        BY <3>2
      <4>2. it[s] = old[s]
        BY <3>2
      <4>3. old[s] \in State /\ old[s] = IF s = {} THEN base ELSE F[<<old[s \ {Max(s)}], Max(s)>>]
        BY <2>1, <4>1
      <4>4. s \ {Max(s)} \in SUBSET (1..(k + 1)) /\ k + 1 \notin s \ {Max(s)}
        BY <3>2
      <4>5. it[s \ {Max(s)}] = old[s \ {Max(s)}]
        BY <4>4
      <4> HIDE DEF it
      <4> QED BY <4>2, <4>3, <4>5
    <3> QED BY <3>1, <3>2
  <2>3. Good(k + 1, it)
    BY <2>2
  <2> HIDE DEF Good, it
  <2> QED BY <2>3
<1>3. n \in S
  <2> HIDE DEF S
  <2>1. \A k \in Nat : k \in S => k + 1 \in S
    BY <1>2
  <2>2. Nat \subseteq S
    BY <1>1, <2>1, Induct
  <2> QED BY <2>2
<1>4. PICK it : Good(n, it)
  <2> HIDE DEF Good
  <2> QED BY <1>3
<1> QED BY <1>4 DEF IsFold

-----------------------------------------------------------------------------
(* The ring.  It holds the bytes first + 1 to first + Used(r), from its    *)
(* tail on.                                                                *)

LEMMA RingSizePositive == RING_SIZE \in Nat /\ RING_SIZE > 0
BY RingAssumption

LEMMA Wrap ==
  ASSUME NEW a \in 0..(2 * RING_SIZE - 1)
  PROVE  /\ a < RING_SIZE => Slot(a) = a
         /\ a >= RING_SIZE => Slot(a) = a - RING_SIZE
BY RingSizePositive DEF Slot

\* What a ring is, and that it holds the bytes after the first ones.
Rings == [buf : [Slots -> Nat], head : Slots, tail : Slots, full : BOOLEAN, dropped : Nat]

Holds(r, first) ==
  /\ r \in Rings
  /\ r.full => r.head = r.tail
  /\ \A i \in 1..Used(r) : r.buf[Slot(r.tail + i - 1)] = first + i

\* How much is used follows from the indices and the flag, and leads from the
\* tail to the head.
LEMMA UsedBound ==
  ASSUME NEW r \in Rings, r.full => r.head = r.tail
  PROVE  /\ Used(r) \in 0..RING_SIZE
         /\ r.full <=> Used(r) = RING_SIZE
         /\ Slot(r.tail + Used(r)) = r.head
<1>1. r.head \in 0..(RING_SIZE-1) /\ r.tail \in 0..(RING_SIZE-1) /\ r.full \in BOOLEAN
  BY DEF Rings, Slots
<1>2. /\ Used(r) \in 0..RING_SIZE
      /\ r.full <=> Used(r) = RING_SIZE
  BY <1>1, RingSizePositive DEF Used
<1>3. r.tail + Used(r) \in 0..(2 * RING_SIZE - 1)
  BY <1>1, <1>2, RingSizePositive
<1>4. IF r.tail + Used(r) < RING_SIZE THEN r.tail + Used(r) = r.head ELSE r.tail + Used(r) = r.head + RING_SIZE
  BY <1>1, RingSizePositive DEF Used
<1> QED BY <1>1, <1>2, <1>3, <1>4, Wrap, RingSizePositive

\* The slots of a ring are apart
LEMMA SlotsApart ==
  ASSUME NEW a \in Slots, NEW i \in 0..(RING_SIZE - 1), NEW j \in 0..(RING_SIZE - 1), i # j
  PROVE  Slot(a + i) # Slot(a + j)
<1>1. a \in 0..(RING_SIZE - 1) BY DEF Slots
<1>2. /\ Slot(a + i) = IF a + i < RING_SIZE THEN a + i ELSE a + i - RING_SIZE
      /\ Slot(a + j) = IF a + j < RING_SIZE THEN a + j ELSE a + j - RING_SIZE
  BY <1>1, Wrap, RingSizePositive
<1> QED BY <1>1, <1>2, RingSizePositive

LEMMA SlotIn ==
  ASSUME NEW a \in Slots, NEW i \in 0..RING_SIZE
  PROVE  Slot(a + i) \in Slots
<1>1. a \in 0..(RING_SIZE - 1) BY DEF Slots
<1>2. Slot(a + i) = IF a + i < RING_SIZE THEN a + i ELSE a + i - RING_SIZE
  BY <1>1, Wrap, RingSizePositive
<1> QED BY <1>1, <1>2, RingSizePositive DEF Slots

LEMMA SlotShift ==
  ASSUME NEW a \in Slots, NEW i \in 0..RING_SIZE, NEW j \in 0..RING_SIZE, i + j <= RING_SIZE
  PROVE  Slot(Slot(a + i) + j) = Slot(a + i + j)
<1>1. a \in 0..(RING_SIZE - 1) BY DEF Slots
<1>2. Slot(a + i) = IF a + i < RING_SIZE THEN a + i ELSE a + i - RING_SIZE
  BY <1>1, Wrap, RingSizePositive
<1>3. Slot(a + i) \in 0..(RING_SIZE - 1)
  BY <1>1, <1>2, RingSizePositive
<1>4. a + i + j \in 0..(2 * RING_SIZE - 1)
  BY <1>1, RingSizePositive
<1>5. PICK s \in 0..(RING_SIZE - 1) : s = Slot(a + i) /\ s = IF a + i < RING_SIZE THEN a + i ELSE a + i - RING_SIZE
  BY <1>2, <1>3
<1>6. s + j \in 0..(2 * RING_SIZE - 1)
  BY <1>5, RingSizePositive
<1> QED BY <1>1, <1>4, <1>5, <1>6, Wrap, RingSizePositive

LEMMA RingOf ==
  ASSUME NEW b \in [Slots -> Nat], NEW h \in Slots, NEW t \in Slots,
         NEW f \in BOOLEAN, NEW d \in Nat
  PROVE  [buf |-> b, head |-> h, tail |-> t, full |-> f, dropped |-> d] \in Rings
BY DEF Rings

\* A byte written to a full ring replaces the oldest one.
LEMMA WriteFull ==
  ASSUME NEW r, NEW first \in Nat, Holds(r, first), r.full,
         NEW w, w = WriteByte(r, first + Used(r) + 1)
  PROVE  /\ Holds(w, first + 1) /\ w.full /\ w.dropped = r.dropped + 1
<1>1. /\ r \in Rings /\ r.head = r.tail /\ Used(r) = RING_SIZE
      /\ \A i \in 1..RING_SIZE : r.buf[Slot(r.tail + i - 1)] = first + i
      /\ r.tail \in Slots /\ r.tail \in 0..(RING_SIZE - 1)
  BY UsedBound DEF Holds, Rings, Slots
<1>2. PICK t \in Slots : t = Slot(r.tail + 1)
  BY <1>1, SlotIn, RingSizePositive
<1>3. w = [buf |-> [r.buf EXCEPT ![r.tail] = first + RING_SIZE + 1], head |-> t, tail |-> t,
           full |-> TRUE, dropped |-> r.dropped + 1]
  BY <1>1, <1>2 DEF WriteByte, Rings
<1>4. first + RING_SIZE + 1 \in Nat
  BY RingSizePositive
<1>5. w \in Rings /\ w.full /\ w.head = w.tail /\ w.tail = t
  <2> DEFINE b == [r.buf EXCEPT ![r.tail] = first + RING_SIZE + 1]
             d == r.dropped + 1
  <2>1. b \in [Slots -> Nat]
    BY <1>1, <1>4 DEF Rings
  <2>2. d \in Nat
    BY <1>1 DEF Rings
  <2>3. w \in Rings
    <3>1. w = [buf |-> b, head |-> t, tail |-> t, full |-> TRUE, dropped |-> d]
      BY <1>3
    <3> HIDE DEF b, d
    <3> QED BY <2>1, <2>2, <3>1, RingOf, Zenon
  <2> QED BY <1>3, <2>3
<1>6. Used(w) = RING_SIZE
  BY <1>5 DEF Used
<1>7. ASSUME NEW i \in 1..RING_SIZE
      PROVE  w.buf[Slot(t + i - 1)] = first + 1 + i
  <2>1. Slot(t + (i - 1)) = Slot(r.tail + 1 + (i - 1))
    BY <1>1, <1>2, SlotShift, RingSizePositive
  <2>2. Slot(t + i - 1) = Slot(r.tail + i)
    BY <2>1, <1>1, <1>2, RingSizePositive DEF Slots
  <2>3. CASE i = RING_SIZE
    <3>1. Slot(r.tail + i) = r.tail
      BY <1>1, <2>3, Wrap, RingSizePositive
    <3>2. w.buf[r.tail] = first + RING_SIZE + 1
      BY <1>1, <1>3 DEF Rings
    <3> QED BY <2>2, <2>3, <3>1, <3>2, RingSizePositive
  <2>4. CASE i # RING_SIZE
    <3>1. Slot(r.tail + i) # Slot(r.tail + 0) /\ Slot(r.tail + i) \in Slots
      BY <1>1, <2>4, SlotsApart, SlotIn, RingSizePositive
    <3>2. Slot(r.tail + 0) = r.tail
      BY <1>1, Wrap, RingSizePositive
    <3>3. w.buf[Slot(r.tail + i)] = r.buf[Slot(r.tail + i)]
      BY <1>1, <1>3, <3>1, <3>2 DEF Rings
    <3>4. i + 1 \in 1..RING_SIZE /\ r.tail + (i + 1) - 1 = r.tail + i /\ first + (i + 1) = first + 1 + i
      BY <1>1, <2>4, RingSizePositive
    <3>5. r.buf[Slot(r.tail + i)] = first + 1 + i
      BY <1>1, <3>4
    <3> QED BY <2>2, <3>3, <3>5
  <2> QED BY <2>3, <2>4
<1>8. w.dropped = r.dropped + 1
  BY <1>3
<1> QED BY <1>5, <1>6, <1>7, <1>8 DEF Holds

\* A byte written to a ring with room is the newest one.
LEMMA WriteRoom ==
  ASSUME NEW r, NEW first \in Nat, Holds(r, first), ~r.full,
         NEW w, w = WriteByte(r, first + Used(r) + 1)
  PROVE  /\ Holds(w, first) /\ Used(w) = Used(r) + 1 /\ w.dropped = r.dropped
<1>1. /\ r \in Rings /\ Used(r) \in 0..(RING_SIZE - 1) /\ r.head = Slot(r.tail + Used(r))
      /\ \A i \in 1..Used(r) : r.buf[Slot(r.tail + i - 1)] = first + i
      /\ r.tail \in Slots /\ r.tail \in 0..(RING_SIZE - 1)
      /\ r.head \in Slots /\ r.head \in 0..(RING_SIZE - 1)
  BY UsedBound, RingSizePositive DEF Holds, Rings, Slots
<1>2. PICK h \in Slots : h = Slot(r.head + 1)
  BY <1>1, SlotIn, RingSizePositive
<1>3. w = [buf |-> [r.buf EXCEPT ![r.head] = first + Used(r) + 1], head |-> h, tail |-> r.tail,
           full |-> (h = r.tail), dropped |-> r.dropped]
  BY <1>1, <1>2 DEF WriteByte, Rings
<1>4. first + Used(r) + 1 \in Nat
  BY <1>1
<1>5. w \in Rings /\ w.tail = r.tail /\ w.full = (h = r.tail) /\ w.head = h
  <2> DEFINE b == [r.buf EXCEPT ![r.head] = first + Used(r) + 1]
             d == r.dropped
  <2>1. b \in [Slots -> Nat]
    BY <1>1, <1>4 DEF Rings
  <2>2. d \in Nat
    BY <1>1 DEF Rings
  <2>3. w \in Rings
    <3>1. PICK f \in BOOLEAN : f = (h = r.tail)
      OBVIOUS
    <3>2. w = [buf |-> b, head |-> h, tail |-> r.tail, full |-> f, dropped |-> d]
      BY <1>3, <3>1
    <3>3. r.tail \in Slots
      BY <1>1
    <3> HIDE DEF b, d
    <3> QED BY <2>1, <2>2, <3>2, <3>3, RingOf, Zenon
  <2> QED BY <1>3, <2>3
<1>6. Used(w) = Used(r) + 1
  <2>1. h = IF r.head + 1 < RING_SIZE THEN r.head + 1 ELSE 0
    BY <1>1, <1>2, Wrap, RingSizePositive
  <2>2. Used(r) = IF r.head >= r.tail THEN r.head - r.tail ELSE RING_SIZE - r.tail + r.head
    BY DEF Used
  <2>3. Used(w) = IF h = r.tail THEN RING_SIZE
                  ELSE IF h >= r.tail THEN h - r.tail ELSE RING_SIZE - r.tail + h
    BY <1>5 DEF Used
  <2> QED BY <1>1, <2>1, <2>2, <2>3, RingSizePositive
<1>7. ASSUME NEW i \in 1..(Used(r) + 1)
      PROVE  w.buf[Slot(r.tail + i - 1)] = first + i
  <2>1. CASE i = Used(r) + 1
    <3>1. r.tail + i - 1 = r.tail + Used(r)
      BY <1>1, <2>1
    <3>2. w.buf[r.head] = first + Used(r) + 1
      BY <1>1, <1>3 DEF Rings
    <3> QED BY <1>1, <2>1, <3>1, <3>2
  <2>2. CASE i # Used(r) + 1
    <3>1. i \in 1..Used(r) /\ i - 1 \in 0..(RING_SIZE - 1) /\ i - 1 # Used(r)
      <4>1. Used(r) \in 0..(RING_SIZE - 1)
        BY <1>1
      <4> QED BY <2>2, <4>1, RingSizePositive
    <3>2. Slot(r.tail + (i - 1)) # r.head /\ Slot(r.tail + (i - 1)) \in Slots
      <4>1. i - 1 \in 0..RING_SIZE /\ Used(r) \in 0..(RING_SIZE - 1)
        BY <1>1, <3>1, RingSizePositive
      <4> QED BY <1>1, <3>1, <4>1, SlotsApart, SlotIn
    <3>3. r.tail + (i - 1) = r.tail + i - 1
      BY <1>1, <3>1
    <3>4. w.buf[Slot(r.tail + i - 1)] = r.buf[Slot(r.tail + i - 1)]
      BY <1>1, <1>3, <3>2, <3>3 DEF Rings
    <3> QED BY <1>1, <3>1, <3>4
  <2> QED BY <2>1, <2>2
<1>8. w.dropped = r.dropped
  BY <1>3
<1>9. w.full => w.head = w.tail
  BY <1>5
<1> QED BY <1>5, <1>6, <1>7, <1>8, <1>9 DEF Holds

\* A read takes the oldest bytes, as far as the end of the buffer.
LEMMA HoldsRead ==
  ASSUME NEW r, NEW first \in Nat, Holds(r, first), NEW cap \in Nat,
         NEW l, l = ReadLen(r, cap), NEW a, a = AfterRead(r, cap)
  PROVE  /\ l \in 0..Used(r) /\ (cap # 0 => (l = 0 <=> Used(r) = 0))
         /\ ReadBytes(r, cap) = [i \in 1..l |-> first + i]
         /\ Holds(a, first + l) /\ Used(a) = Used(r) - l /\ a.dropped = 0
<1>0. /\ r \in Rings /\ r.tail \in Slots /\ r.head \in Slots
      /\ \A i \in 1..Used(r) : r.buf[Slot(r.tail + i - 1)] = first + i
  BY DEF Holds, Rings
<1>1. /\ Used(r) \in 0..RING_SIZE /\ (r.full <=> Used(r) = RING_SIZE)
      /\ r.tail \in 0..(RING_SIZE - 1) /\ r.head \in 0..(RING_SIZE - 1)
      /\ r.full \in BOOLEAN /\ (r.full => r.head = r.tail)
  BY UsedBound, RingSizePositive DEF Holds, Rings, Slots
<1>2. Used(r) = IF r.full THEN RING_SIZE ELSE IF r.head >= r.tail THEN r.head - r.tail
                                         ELSE RING_SIZE - r.tail + r.head
  BY DEF Used
<1>3. /\ l \in 0..Used(r) /\ (cap # 0 => (l = 0 <=> Used(r) = 0))
      /\ r.tail + l <= RING_SIZE
  <2>1. CASE Used(r) = 0
    BY <1>1, <2>1, RingSizePositive DEF ReadLen
  <2>2. CASE Used(r) # 0
    <3>1. PICK n \in Int : n = IF r.head > r.tail THEN r.head - r.tail ELSE RING_SIZE - r.tail
      BY <1>1, RingSizePositive
    <3>2. n \in 1..Used(r) /\ r.tail + n <= RING_SIZE
      BY <1>1, <1>2, <2>2, <3>1, RingSizePositive
    <3>3. l = IF n < cap THEN n ELSE cap
      BY <2>2, <3>1 DEF ReadLen
    <3> QED BY <1>1, <3>2, <3>3, RingSizePositive
  <2> QED BY <2>1, <2>2
<1>4. ASSUME NEW i \in 1..l PROVE r.buf[r.tail + i - 1] = first + i
  <2>1. r.tail + i - 1 \in 0..(RING_SIZE - 1)
    BY <1>1, <1>3, RingSizePositive
  <2>2. Slot(r.tail + i - 1) = r.tail + i - 1
    BY <2>1, Wrap, RingSizePositive
  <2>3. i \in 1..Used(r)
    BY <1>3, <1>1
  <2> QED BY <1>0, <2>2, <2>3
<1>5. ReadBytes(r, cap) = [i \in 1..l |-> first + i]
  BY <1>4 DEF ReadBytes
<1>6. l \in 0..RING_SIZE
  BY <1>1, <1>3, RingSizePositive
<1>7. PICK t \in Slots : t = Slot(r.tail + l)
  BY <1>0, <1>6, SlotIn
<1>8. a = [buf |-> r.buf, head |-> r.head, tail |-> t, full |-> (r.full /\ l = 0), dropped |-> 0]
  BY <1>0, <1>7 DEF AfterRead, Rings
<1>9. a \in Rings /\ a.buf = r.buf /\ a.dropped = 0 /\ a.head = r.head /\ a.tail = t /\ a.full = (r.full /\ l = 0)
  BY <1>0, <1>1, <1>7, <1>8 DEF Rings
<1>10. t = IF r.tail + l < RING_SIZE THEN r.tail + l ELSE r.tail + l - RING_SIZE
  BY <1>1, <1>6, <1>7, Wrap, RingSizePositive
<1>11. a.full => a.head = a.tail
  <2>1. r.full /\ l = 0 => r.head = t
    BY <1>1, <1>10, RingSizePositive
  <2> QED BY <1>9, <2>1
<1>12. Used(a) = Used(r) - l
  <2>1. Used(a) = IF r.full /\ l = 0 THEN RING_SIZE ELSE IF r.head >= t THEN r.head - t
                                                    ELSE RING_SIZE - t + r.head
    BY <1>9 DEF Used
  <2> QED BY <1>1, <1>2, <1>3, <1>10, <2>1, RingSizePositive
<1>13. ASSUME NEW i \in 1..(Used(r) - l)
       PROVE  a.buf[Slot(t + i - 1)] = first + l + i
  <2>1. l + i \in 1..Used(r) /\ i - 1 \in 0..RING_SIZE /\ l + (i - 1) <= RING_SIZE
    BY <1>1, <1>3, RingSizePositive
  <2>2. Slot(t + (i - 1)) = Slot(r.tail + l + (i - 1))
    BY <1>0, <1>6, <1>7, <2>1, SlotShift
  <2>3. t + (i - 1) = t + i - 1 /\ r.tail + l + (i - 1) = r.tail + (l + i) - 1
        /\ first + (l + i) = first + l + i
    BY <1>0, <1>6, <1>7 DEF Slots
  <2>4. r.buf[Slot(r.tail + (l + i) - 1)] = first + (l + i)
    BY <1>0, <2>1
  <2> QED BY <1>9, <2>2, <2>3, <2>4
<1> QED BY <1>3, <1>5, <1>9, <1>11, <1>12, <1>13 DEF Holds

LEMMA ByteKeepsRing ==
  ASSUME NEW r \in Rings, NEW b \in Nat
  PROVE  WriteByte(r, b) \in Rings
<1>1. /\ r.buf \in [Slots -> Nat] /\ r.head \in Slots /\ r.tail \in Slots /\ r.full \in BOOLEAN
      /\ r.dropped \in Nat
      /\ r = [buf |-> r.buf, head |-> r.head, tail |-> r.tail, full |-> r.full, dropped |-> r.dropped]
  BY DEF Rings
<1>2. PICK buf \in [Slots -> Nat] : buf = [r.buf EXCEPT ![r.head] = b]
  BY <1>1
<1>3. PICK h \in Slots : h = Slot(r.head + 1)
  BY <1>1, SlotIn, RingSizePositive
<1>4. PICK t \in Slots : t = Slot(r.tail + 1)
  BY <1>1, SlotIn, RingSizePositive
<1>5. PICK d \in Nat : d = r.dropped + 1
  BY <1>1
<1>6. PICK f \in BOOLEAN : f = (h = r.tail)
  OBVIOUS
<1>7. CASE r.full
  <2>1. WriteByte(r, b) = [buf |-> buf, head |-> h, tail |-> t, full |-> TRUE, dropped |-> d]
    BY <1>1, <1>2, <1>3, <1>4, <1>5, <1>7 DEF WriteByte
  <2> QED BY <2>1, RingOf, Zenon
<1>8. CASE ~r.full
  <2>1. WriteByte(r, b) = [buf |-> buf, head |-> h, tail |-> r.tail, full |-> f, dropped |-> r.dropped]
    BY <1>1, <1>2, <1>3, <1>6, <1>8 DEF WriteByte
  <2> QED BY <1>1, <2>1, RingOf, Zenon
<1> QED BY <1>7, <1>8

\* A write is its bytes, one after the other.
LEMMA Writes ==
  ASSUME NEW r \in Rings, NEW bytes \in Seq(Nat)
  PROVE  \E g : /\ g[0] = r /\ g[Len(bytes)] = Write(r, bytes)
                /\ \A i \in 1..Len(bytes) : g[i] = WriteByte(g[i - 1], bytes[i])
<1>0. PICK n \in Nat : n = Len(bytes) /\ DOMAIN bytes = 1..n
  OBVIOUS
<1> DEFINE Body(it) == [s \in SUBSET (1..n) |-> IF s = {} THEN r ELSE WriteByte(it[s \ {Max(s)}], bytes[Max(s)])]
           chosen == CHOOSE it : it = Body(it)
<1>1. Write(r, bytes) = chosen[1..n]
  BY <1>0, Zenon DEF Write, FoldLeft, MapThenFoldSet
<1>2. \E it : it = Body(it)
  <2> DEFINE F == [p \in Rings \X (1..n) |-> WriteByte(p[1], bytes[p[2]])]
  <2>1. F \in [Rings \X (1..n) -> Rings]
    BY <1>0, ByteKeepsRing
  <2>2. PICK it : it \in [SUBSET (1..n) -> Rings] /\ IsFold(it, r, n, F)
    <3> HIDE DEF F
    <3> QED BY <2>1, <1>0, FoldExists
  <2>3. ASSUME NEW s \in SUBSET (1..n), s # {}
        PROVE  it[s] = WriteByte(it[s \ {Max(s)}], bytes[Max(s)])
    <3>1. Max(s) \in 1..n
      BY <1>0, <2>3, MaxIn
    <3>2. it[s \ {Max(s)}] \in Rings
      BY <2>2
    <3> QED BY <2>2, <2>3, <3>1, <3>2 DEF IsFold
  <2>4. it = Body(it)
    BY <2>2, <2>3 DEF IsFold
  <2> QED BY <2>4
<1>3. chosen = Body(chosen)
  BY <1>2
<1> HIDE DEF chosen
<1> DEFINE g == [i \in 0..n |-> chosen[1..i]]
<1>4. g[0] = r /\ g[n] = chosen[1..n]
  <2>1. 1..0 = {} /\ {} \in SUBSET (1..n)
    OBVIOUS
  <2>2. chosen[{}] = r
    BY <1>3, <2>1
  <2> QED BY <1>0, <2>1, <2>2
<1>5. ASSUME NEW i \in 1..n PROVE g[i] = WriteByte(g[i - 1], bytes[i])
  <2>1. 1..i \in SUBSET (1..n) /\ 1..i # {}
    <3>1. \A j \in 1..i : j \in 1..n
      BY <1>0
    <3>2. i \in 1..i
      BY <1>0
    <3> QED BY <3>1, <3>2
  <2>2. Max(1..i) = i
    BY <1>0, MaxIs
  <2>3. (1..i) \ {i} = 1..(i - 1)
    BY <1>0
  <2>4. chosen[1..i] = WriteByte(chosen[(1..i) \ {i}], bytes[i])
    BY <1>3, <2>1, <2>2
  <2> QED BY <1>0, <2>3, <2>4
<1> QED BY <1>0, <1>1, <1>4, <1>5

\* The bytes that a write of k overwrites.
Excess(r, k) == IF Used(r) + k > RING_SIZE THEN Used(r) + k - RING_SIZE ELSE 0

LEMMA ByteHeld ==
  ASSUME NEW r, NEW first \in Nat, Holds(r, first), NEW w, w = WriteByte(r, first + Used(r) + 1)
  PROVE  /\ Holds(w, first + Excess(r, 1)) /\ Used(w) = Used(r) + 1 - Excess(r, 1)
         /\ w.dropped = r.dropped + Excess(r, 1)
<1>1. Used(r) \in 0..RING_SIZE /\ (r.full <=> Used(r) = RING_SIZE) /\ r.dropped \in Nat
  BY UsedBound DEF Holds, Rings
<1>2. CASE r.full
  <2>1. Excess(r, 1) = 1
    BY <1>1, <1>2, RingSizePositive DEF Excess
  <2>2. Holds(w, first + 1) /\ w.full /\ w.dropped = r.dropped + 1
    BY <1>2, WriteFull
  <2>3. Used(w) = RING_SIZE
    BY <2>2 DEF Used
  <2> QED BY <1>1, <1>2, <2>1, <2>2, <2>3, RingSizePositive
<1>3. CASE ~r.full
  <2>1. Excess(r, 1) = 0
    BY <1>1, <1>3, RingSizePositive DEF Excess
  <2>2. Holds(w, first) /\ Used(w) = Used(r) + 1 /\ w.dropped = r.dropped
    BY <1>3, WriteRoom
  <2> QED BY <1>1, <2>1, <2>2
<1> QED BY <1>2, <1>3

\* A write of consecutive bytes keeps the ring in order, and counts what it
\* overwrites.
LEMMA HoldsWrite ==
  ASSUME NEW r, NEW first \in Nat, Holds(r, first), NEW k \in Nat,
         NEW bytes, bytes = [i \in 1..k |-> first + Used(r) + i]
  PROVE  LET w == Write(r, bytes)
         IN  /\ Holds(w, first + Excess(r, k))
             /\ Used(w) = Used(r) + k - Excess(r, k)
             /\ w.dropped = r.dropped + Excess(r, k)
<1>1. PICK u \in 0..RING_SIZE : u = Used(r)
  BY UsedBound DEF Holds
<1>2. PICK d \in Nat : d = r.dropped
  BY DEF Holds, Rings
<1>3. bytes \in Seq(Nat) /\ Len(bytes) = k
  BY <1>1, RingSizePositive
<1>4. PICK g : /\ g[0] = r /\ g[k] = Write(r, bytes)
               /\ \A i \in 1..k : g[i] = WriteByte(g[i - 1], bytes[i])
  <2>1. r \in Rings
    BY DEF Holds
  <2>2. \E g : /\ g[0] = r /\ g[Len(bytes)] = Write(r, bytes)
               /\ \A i \in 1..Len(bytes) : g[i] = WriteByte(g[i - 1], bytes[i])
    <3>1. bytes \in Seq(Nat)
      BY <1>3
    <3> HIDE <1>3
    <3> QED BY <2>1, <3>1, Writes
  <2> QED BY <2>2, <1>3
<1> DEFINE E(i) == IF u + i > RING_SIZE THEN u + i - RING_SIZE ELSE 0
           Good(i) == /\ Holds(g[i], first + E(i))
                      /\ Used(g[i]) = u + i - E(i)
                      /\ g[i].dropped = d + E(i)
           S == {i \in Nat : i <= k => Good(i)}
<1>5. 0 \in S
  <2>1. E(0) = 0
    BY RingSizePositive
  <2> QED BY <1>1, <1>2, <1>4, <2>1, RingSizePositive
<1>6. ASSUME NEW i \in Nat, i \in S PROVE i + 1 \in S
  <2> SUFFICES ASSUME i + 1 <= k PROVE Good(i + 1)
    OBVIOUS
  <2>1. Good(i)
    BY <1>6
  <2>2. E(i) \in Nat /\ u + i - E(i) \in Nat
    BY RingSizePositive
  <2>3. bytes[i + 1] = first + E(i) + Used(g[i]) + 1
    <3>1. bytes[i + 1] = first + u + (i + 1)
      BY <1>1
    <3>2. first + E(i) + (u + i - E(i)) + 1 = first + u + (i + 1)
      BY <2>2, RingSizePositive
    <3> HIDE DEF E
    <3> QED BY <2>1, <3>1, <3>2
  <2>4. g[i + 1] = WriteByte(g[i], first + E(i) + Used(g[i]) + 1)
    <3>1. i + 1 \in 1..k /\ (i + 1) - 1 = i
      OBVIOUS
    <3>2. g[i + 1] = WriteByte(g[(i + 1) - 1], bytes[i + 1])
      BY <3>1, <1>4
    <3> HIDE DEF E
    <3> QED BY <2>3, <3>1, <3>2
  <2>5. PICK e \in Nat : e = Excess(g[i], 1) /\ E(i + 1) = E(i) + e
    <3>1. Excess(g[i], 1) = IF u + i - E(i) + 1 > RING_SIZE THEN u + i - E(i) + 1 - RING_SIZE ELSE 0
      BY <2>1 DEF Excess
    <3> QED BY <3>1, RingSizePositive
  <2>6. first + E(i) \in Nat
    BY <2>2
  <2>7. /\ Holds(g[i + 1], first + E(i) + e)
        /\ Used(g[i + 1]) = Used(g[i]) + 1 - e
        /\ g[i + 1].dropped = g[i].dropped + e
    <3> HIDE DEF E
    <3> QED BY <2>1, <2>4, <2>5, <2>6, ByteHeld
  <2>8. /\ first + E(i) + e = first + E(i + 1)
        /\ (u + i - E(i)) + 1 - e = u + (i + 1) - E(i + 1)
        /\ d + E(i) + e = d + E(i + 1)
    BY <2>2, <2>5, RingSizePositive
  <2> HIDE DEF E
  <2> QED BY <2>1, <2>7, <2>8
<1>7. Good(k)
  <2> HIDE DEF Good
  <2>1. \A i \in Nat : i \in S => i + 1 \in S
    BY <1>6
  <2> HIDE DEF S
  <2>2. Nat \subseteq S
    BY <1>5, <2>1, Induct
  <2>3. k \in S
    BY <2>2
  <2> QED BY <2>3 DEF S
<1>8. E(k) = Excess(r, k)
  BY <1>1 DEF Excess
<1> QED BY <1>1, <1>2, <1>4, <1>7, <1>8

-----------------------------------------------------------------------------
(* The filter.  Each of its folds, one directive after the other.          *)

LevelRange == 0..Unknown

LEMMA Directives ==
  ASSUME NEW f \in Filters
  PROVE  \E n \in Nat :
           /\ n = Len(f) /\ DOMAIN f = 1..n
           /\ \A i \in 1..n : f[i].bare \in BOOLEAN /\ f[i].level \in LevelRange
<1> QED BY FilterAssumption DEF Levels, LevelRange, Unknown

LEMMA DefaultSteps ==
  ASSUME NEW f \in Filters, NEW n \in Nat, n = Len(f)
  PROVE  \E g : /\ g[0] = Info /\ g[n] = DefaultLevel(f)
                /\ \A i \in 1..n :
                     g[i] = IF f[i].bare /\ f[i].level # Unknown THEN f[i].level ELSE g[i - 1]
<1>0. DOMAIN f = 1..n /\ \A i \in 1..n : f[i].level \in LevelRange
  BY Directives
<1> DEFINE Step(level, i) == IF f[i].bare /\ f[i].level # Unknown THEN f[i].level ELSE level
           Body(it) == [s \in SUBSET (1..n) |-> IF s = {} THEN Info ELSE Step(it[s \ {Max(s)}], Max(s))]
           chosen == CHOOSE it : it = Body(it)
<1>1. DefaultLevel(f) = chosen[1..n]
  BY <1>0, Zenon DEF DefaultLevel, FoldLeft, MapThenFoldSet
<1>2. \E it : it = Body(it)
  <2> DEFINE F == [p \in LevelRange \X (1..n) |-> Step(p[1], p[2])]
  <2>1. F \in [LevelRange \X (1..n) -> LevelRange] /\ Info \in LevelRange
    BY <1>0 DEF LevelRange, Unknown, Info
  <2>2. PICK it : it \in [SUBSET (1..n) -> LevelRange] /\ IsFold(it, Info, n, F)
    <3> HIDE DEF F
    <3> QED BY <2>1, FoldExists
  <2>3. ASSUME NEW s \in SUBSET (1..n), s # {}
        PROVE  it[s] = Step(it[s \ {Max(s)}], Max(s))
    <3>1. Max(s) \in 1..n
      BY <2>3, MaxIn
    <3> QED BY <2>2, <2>3, <3>1 DEF IsFold
  <2>4. it = Body(it)
    BY <2>2, <2>3 DEF IsFold
  <2> QED BY <2>4
<1>3. chosen = Body(chosen)
  BY <1>2
<1> HIDE DEF chosen
<1>4. chosen[1..0] = Info
  <2>1. 1..0 = {} /\ {} \in SUBSET (1..n)
    OBVIOUS
  <2> QED BY <1>3, <2>1
<1>5. ASSUME NEW i \in 1..n PROVE chosen[1..i] = Step(chosen[1..(i - 1)], i)
  <2>1. /\ 1..i \in SUBSET (1..n) /\ 1..i # {} /\ Max(1..i) = i
        /\ (1..i) \ {i} = 1..(i - 1)
    BY LastIndex, Zenon
  <2>2. \A s \in SUBSET (1..n) : s # {} => chosen[s] = Step(chosen[s \ {Max(s)}], Max(s))
    BY <1>3, Zenon
  <2> HIDE DEF Step
  <2>3. chosen[1..i] = Step(chosen[(1..i) \ {i}], i)
    BY <2>1, <2>2
  <2> QED BY <2>1, <2>3
<1> DEFINE g == [i \in 0..n |-> chosen[1..i]]
<1>6. g[0] = Info /\ g[n] = DefaultLevel(f)
  BY <1>1, <1>4
<1>7. ASSUME NEW i \in 1..n PROVE g[i] = Step(g[i - 1], i)
  <2>1. i \in 0..n /\ i - 1 \in 0..n
    OBVIOUS
  <2> QED BY <1>5, <2>1
<1> QED BY <1>6, <1>7

LEMMA MaxSteps ==
  ASSUME NEW f \in Filters, NEW n \in Nat, n = Len(f)
  PROVE  \E g : /\ g[0] = Info /\ g[n] = MaxLevel(f)
                /\ \A i \in 1..n :
                     g[i] = IF f[i].level # Unknown /\ f[i].level > g[i - 1] THEN f[i].level ELSE g[i - 1]
<1>0. DOMAIN f = 1..n /\ \A i \in 1..n : f[i].level \in LevelRange
  BY Directives
<1> DEFINE Step(level, i) == IF f[i].level # Unknown /\ f[i].level > level THEN f[i].level ELSE level
           Body(it) == [s \in SUBSET (1..n) |-> IF s = {} THEN Info ELSE Step(it[s \ {Max(s)}], Max(s))]
           chosen == CHOOSE it : it = Body(it)
<1>1. MaxLevel(f) = chosen[1..n]
  BY <1>0, Zenon DEF MaxLevel, FoldLeft, MapThenFoldSet
<1>2. \E it : it = Body(it)
  <2> DEFINE F == [p \in LevelRange \X (1..n) |-> Step(p[1], p[2])]
  <2>1. F \in [LevelRange \X (1..n) -> LevelRange] /\ Info \in LevelRange
    BY <1>0 DEF LevelRange, Unknown, Info
  <2>2. PICK it : it \in [SUBSET (1..n) -> LevelRange] /\ IsFold(it, Info, n, F)
    <3> HIDE DEF F
    <3> QED BY <2>1, FoldExists
  <2>3. ASSUME NEW s \in SUBSET (1..n), s # {}
        PROVE  it[s] = Step(it[s \ {Max(s)}], Max(s))
    <3>1. Max(s) \in 1..n
      BY <2>3, MaxIn
    <3> QED BY <2>2, <2>3, <3>1 DEF IsFold
  <2>4. it = Body(it)
    BY <2>2, <2>3 DEF IsFold
  <2> QED BY <2>4
<1>3. chosen = Body(chosen)
  BY <1>2
<1> HIDE DEF chosen
<1>4. chosen[1..0] = Info
  <2>1. 1..0 = {} /\ {} \in SUBSET (1..n)
    OBVIOUS
  <2> QED BY <1>3, <2>1
<1>5. ASSUME NEW i \in 1..n PROVE chosen[1..i] = Step(chosen[1..(i - 1)], i)
  <2>1. /\ 1..i \in SUBSET (1..n) /\ 1..i # {} /\ Max(1..i) = i
        /\ (1..i) \ {i} = 1..(i - 1)
    BY LastIndex, Zenon
  <2>2. chosen[1..i] = Step(chosen[(1..i) \ {i}], i)
    BY <1>3, <2>1
  <2> QED BY <2>1, <2>2
<1> DEFINE g == [i \in 0..n |-> chosen[1..i]]
<1>6. g[0] = Info /\ g[n] = MaxLevel(f)
  BY <1>1, <1>4
<1>7. ASSUME NEW i \in 1..n PROVE g[i] = Step(g[i - 1], i)
  <2>1. i \in 0..n /\ i - 1 \in 0..n
    OBVIOUS
  <2> QED BY <1>5, <2>1
<1> QED BY <1>6, <1>7

Bests == [level : LevelRange, len : Nat]

BestOf(best, d, target) ==
  IF d.bare
  THEN IF best.len > 0 THEN best
       ELSE [best EXCEPT !.level = IF d.level = Unknown THEN Info ELSE d.level]
  ELSE IF IsPrefix(d.prefix, target) /\ Len(d.prefix) > best.len /\ d.level # Unknown
       THEN [level |-> d.level, len |-> Len(d.prefix)]
       ELSE best

LEMMA BestStays ==
  ASSUME NEW f \in Filters, NEW n \in Nat, n = Len(f), NEW i \in 1..n, NEW best \in Bests, NEW target
  PROVE  BestOf(best, f[i], target) \in Bests
<1>1. f[i].level \in LevelRange /\ (~f[i].bare => Len(f[i].prefix) \in Nat)
  BY Directives, FilterAssumption
<1>2. PICK l \in LevelRange : l = IF f[i].level = Unknown THEN Info ELSE f[i].level
  BY <1>1 DEF LevelRange, Info, Unknown
<1> QED BY <1>1, <1>2 DEF Bests, BestOf

LEMMA FilterSteps ==
  ASSUME NEW f \in Filters, NEW n \in Nat, n = Len(f), NEW target
  PROVE  \E g : /\ g[0] = [level |-> Info, len |-> 0] /\ g[n].level = FilterFor(f, target)
                /\ \A i \in 1..n : g[i] = BestOf(g[i - 1], f[i], target)
<1>0. DOMAIN f = 1..n
  BY Directives
<1> DEFINE base == [level |-> Info, len |-> 0]
           Body(it) == [s \in SUBSET (1..n) |-> IF s = {} THEN base ELSE BestOf(it[s \ {Max(s)}], f[Max(s)], target)]
           chosen == CHOOSE it : it = Body(it)
<1>1. FilterFor(f, target) = chosen[1..n].level
  BY <1>0, SMT DEF FilterFor, FoldLeft, MapThenFoldSet, BestOf
<1>2. \E it : it = Body(it)
  <2> DEFINE F == [p \in Bests \X (1..n) |-> BestOf(p[1], f[p[2]], target)]
  <2>1. F \in [Bests \X (1..n) -> Bests] /\ base \in Bests
    BY <1>0, BestStays DEF Bests, LevelRange, Unknown, Info
  <2>2. PICK it : it \in [SUBSET (1..n) -> Bests] /\ IsFold(it, base, n, F)
    <3> HIDE DEF F
    <3> QED BY <2>1, FoldExists
  <2>3. ASSUME NEW s \in SUBSET (1..n), s # {}
        PROVE  it[s] = BestOf(it[s \ {Max(s)}], f[Max(s)], target)
    <3>1. Max(s) \in 1..n
      BY <2>3, MaxIn
    <3>2. it[s \ {Max(s)}] \in Bests
      BY <2>2
    <3> QED BY <2>2, <2>3, <3>1, <3>2 DEF IsFold
  <2>4. it = Body(it)
    BY <2>2, <2>3 DEF IsFold
  <2> QED BY <2>4
<1>3. chosen = Body(chosen)
  BY <1>2
<1> HIDE DEF chosen
<1>4. chosen[1..0] = base
  <2>1. 1..0 = {} /\ {} \in SUBSET (1..n)
    OBVIOUS
  <2> QED BY <1>3, <2>1
<1>5. ASSUME NEW i \in 1..n PROVE chosen[1..i] = BestOf(chosen[1..(i - 1)], f[i], target)
  <2>1. /\ 1..i \in SUBSET (1..n) /\ 1..i # {} /\ Max(1..i) = i
        /\ (1..i) \ {i} = 1..(i - 1)
    BY LastIndex, Zenon
  <2>2. chosen[1..i] = BestOf(chosen[(1..i) \ {i}], f[i], target)
    BY <1>3, <2>1
  <2> QED BY <2>1, <2>2
<1> DEFINE g == [i \in 0..n |-> chosen[1..i]]
<1>6. g[0] = base /\ g[n].level = FilterFor(f, target)
  BY <1>1, <1>4
<1>7. ASSUME NEW i \in 1..n PROVE g[i] = BestOf(g[i - 1], f[i], target)
  <2>1. i \in 0..n /\ i - 1 \in 0..n
    OBVIOUS
  <2> QED BY <1>5, <2>1
<1> QED BY <1>6, <1>7

\* The gate of the macros is above every level asked for.
LEMMA MaxAbove ==
  ASSUME NEW f \in Filters
  PROVE  /\ MaxLevel(f) \in Nat /\ MaxLevel(f) >= Info
         /\ \A i \in DOMAIN f : f[i].level # Unknown => MaxLevel(f) >= f[i].level
<1>1. PICK n \in Nat : n = Len(f) /\ DOMAIN f = 1..n /\ \A i \in 1..n : f[i].level \in LevelRange
  BY Directives
<1>2. PICK g : /\ g[0] = Info /\ g[n] = MaxLevel(f)
               /\ \A i \in 1..n :
                    g[i] = IF f[i].level # Unknown /\ f[i].level > g[i - 1] THEN f[i].level ELSE g[i - 1]
  BY <1>1, MaxSteps
<1> DEFINE S == {k \in Nat : /\ g[k] \in Nat /\ g[k] >= Info
                             /\ \A i \in 1..n : i <= k /\ f[i].level # Unknown => g[k] >= f[i].level}
<1>3. 0 \in S
  BY <1>2 DEF Info
<1>4. ASSUME NEW k \in 1..n, k - 1 \in S PROVE k \in S
  <2>1. f[k].level \in Nat /\ k \in Nat
    BY <1>1 DEF LevelRange
  <2>2. PICK a \in Nat, b \in Nat, l \in Nat :
          /\ a = g[k - 1] /\ l = f[k].level /\ b = IF l # Unknown /\ l > a THEN l ELSE a
    BY <1>4, <2>1
  <2>3. g[k] = b /\ b >= a /\ (l # Unknown => b >= l)
    BY <1>2, <2>2
  <2>4. ASSUME NEW i \in 1..n, i <= k, f[i].level # Unknown PROVE b >= f[i].level
    <3>1. CASE i = k
      BY <2>2, <2>3, <2>4, <3>1
    <3>2. CASE i # k
      <4>1. i <= k - 1 /\ f[i].level \in Nat
        BY <1>1, <2>4, <3>2 DEF LevelRange
      <4>2. a >= f[i].level
        BY <1>4, <2>2, <2>4, <4>1
      <4> QED BY <2>3, <4>1, <4>2
    <3> QED BY <3>1, <3>2
  <2>5. a >= Info
    BY <1>4, <2>2
  <2> QED BY <2>1, <2>3, <2>4, <2>5 DEF Info
<1>5. n \in S
  <2> HIDE DEF S
  <2>1. \A i \in 0..n : i \in S
    BY <1>3, <1>4, Along
  <2> QED BY <2>1
<1> QED BY <1>1, <1>2, <1>5

\* The default level is Info or that of a directive.
LEMMA DefaultIsAsked ==
  ASSUME NEW f \in Filters
  PROVE  /\ DefaultLevel(f) \in Nat
         /\ DefaultLevel(f) = Info \/ \E i \in DOMAIN f : f[i].level # Unknown /\ DefaultLevel(f) = f[i].level
<1>1. PICK n \in Nat : n = Len(f) /\ DOMAIN f = 1..n /\ \A i \in 1..n : f[i].level \in LevelRange
  BY Directives
<1>2. PICK g : /\ g[0] = Info /\ g[n] = DefaultLevel(f)
               /\ \A i \in 1..n : g[i] = IF f[i].bare /\ f[i].level # Unknown THEN f[i].level ELSE g[i - 1]
  BY <1>1, DefaultSteps
<1> DEFINE asked == {Info} \cup {f[i].level : i \in {j \in 1..n : f[j].level # Unknown}}
           S == {k \in Nat : g[k] \in asked}
<1>3. 0 \in S
  BY <1>2
<1>4. ASSUME NEW k \in 1..n, k - 1 \in S PROVE k \in S
  <2> HIDE DEF asked
  <2>1. g[k - 1] \in asked /\ k \in Nat
    BY <1>4
  <2>2. f[k].level # Unknown => f[k].level \in asked
    BY DEF asked
  <2>3. (g[k] = f[k].level /\ f[k].level # Unknown) \/ g[k] = g[k - 1]
    BY <1>2, Zenon
  <2> QED BY <2>1, <2>2, <2>3
<1>5. n \in S
  <2> HIDE DEF S
  <2>1. \A i \in 0..n : i \in S
    BY <1>3, <1>4, Along
  <2> QED BY <2>1
<1>6. DefaultLevel(f) \in asked
  BY <1>2, <1>5
<1> QED BY <1>1, <1>6 DEF LevelRange, Info

\* Two prefixes of one target are one when they are of one length.
LEMMA SamePrefix ==
  ASSUME NEW A, NEW B, NEW p \in Seq(A), NEW q \in Seq(B), NEW target,
         IsPrefix(p, target), IsPrefix(q, target), Len(p) = Len(q)
  PROVE  p = q
<1>1. SubSeq(p, 1, Len(p)) = p /\ SubSeq(q, 1, Len(q)) = q
  OBVIOUS
<1> QED BY <1>1 DEF IsPrefix

\* filter_for ends with the level of the longest matching directive, the first
\* one of that length: no shorter one, and no bare one, takes it back.
LEMMA WinnerFound ==
  ASSUME NEW f \in Filters, NEW target, NEW i \in Matching(f, target),
         \A j \in Matching(f, target) : Len(f[j].prefix) <= Len(f[i].prefix),
         \A j \in Matching(f, target) : f[j].prefix = f[i].prefix => i <= j
  PROVE  FilterFor(f, target) = f[i].level
<1>1. PICK n \in Nat : n = Len(f) /\ DOMAIN f = 1..n /\ \A j \in 1..n : f[j].level \in LevelRange
  BY Directives
<1>2. PICK g : /\ g[0] = [level |-> Info, len |-> 0] /\ g[n].level = FilterFor(f, target)
               /\ \A j \in 1..n : g[j] = BestOf(g[j - 1], f[j], target)
  BY <1>1, FilterSteps
<1>3. /\ i \in 1..n /\ ~f[i].bare /\ f[i].level # Unknown
      /\ f[i].prefix # << >> /\ IsPrefix(f[i].prefix, target)
  BY <1>1 DEF Matching
<1>4. \A j \in 1..n : ~f[j].bare => f[j].prefix \in Seq(Range(f[j].prefix)) /\ Len(f[j].prefix) \in Nat
  BY <1>1, FilterAssumption
<1>5. PICK w \in Nat : w = Len(f[i].prefix) /\ w # 0
  BY <1>3, <1>4
<1> DEFINE won == [level |-> f[i].level, len |-> w]
           S == {k \in Nat : /\ g[k] \in Bests
                             /\ k < i => g[k].len < w
                             /\ k >= i => g[k] = won}
<1>6. 0 \in S
  BY <1>2, <1>3, <1>5 DEF Bests, LevelRange, Info, Unknown
<1>7. ASSUME NEW k \in 1..n, k - 1 \in S PROVE k \in S
  <2>1. g[k] = BestOf(g[k - 1], f[k], target) /\ g[k - 1] \in Bests
    BY <1>2, <1>7
  <2>2. g[k] \in Bests
    BY <1>1, <2>1, BestStays
  <2>3. CASE k < i
    <3>1. g[k - 1].len < w /\ k \in Nat /\ ~(k >= i)
      BY <1>3, <1>7, <2>3
    <3>2. CASE g[k].len = g[k - 1].len
      BY <2>2, <3>1, <3>2
    <3>3. CASE g[k].len # g[k - 1].len
      <4>1. /\ ~f[k].bare /\ IsPrefix(f[k].prefix, target) /\ f[k].level # Unknown
            /\ Len(f[k].prefix) > g[k - 1].len /\ g[k].len = Len(f[k].prefix)
        BY <2>1, <3>3 DEF BestOf, Bests
      <4>2. f[k].prefix # << >>
        BY <2>1, <4>1 DEF Bests
      <4>3. k \in Matching(f, target)
        BY <1>1, <4>1, <4>2 DEF Matching
      <4>4. Len(f[k].prefix) <= w /\ f[k].prefix # f[i].prefix
        BY <1>3, <1>5, <2>3, <4>3
      <4>5. Len(f[k].prefix) # w
        BY <1>3, <1>4, <1>5, <4>1, <4>4, SamePrefix
      <4>6. g[k].len < w
        BY <1>4, <4>1, <4>4, <4>5
      <4> QED BY <2>2, <3>1, <4>6
    <3> QED BY <3>2, <3>3
  <2>4. CASE k = i
    <3>1. g[k - 1].len < w /\ g[k - 1].len \in Nat
      BY <1>7, <2>1, <2>4 DEF Bests
    <3>2. g[k] = won
      BY <1>3, <1>5, <2>1, <2>4, <3>1 DEF BestOf
    <3> QED BY <2>2, <2>4, <3>2
  <2>5. CASE k > i
    <3>1. g[k - 1] = won
      BY <1>3, <1>7, <2>5
    <3>2. ~(/\ ~f[k].bare /\ IsPrefix(f[k].prefix, target) /\ f[k].level # Unknown
            /\ Len(f[k].prefix) > w)
      <4>1. SUFFICES ASSUME ~f[k].bare, IsPrefix(f[k].prefix, target), f[k].level # Unknown,
                            Len(f[k].prefix) > w
                     PROVE  FALSE
        OBVIOUS
      <4>2. f[k].prefix # << >>
        BY <1>5, <4>1
      <4>3. k \in Matching(f, target)
        BY <1>1, <4>1, <4>2 DEF Matching
      <4>4. Len(f[k].prefix) <= w /\ Len(f[k].prefix) \in Nat
        BY <1>4, <1>5, <4>1, <4>3
      <4> QED BY <4>1, <4>4
    <3>3. g[k] = won
      BY <1>5, <2>1, <3>1, <3>2 DEF BestOf
    <3> QED BY <2>2, <2>5, <3>3, <1>3
  <2> QED BY <1>3, <2>3, <2>4, <2>5
<1>8. n \in S
  <2> HIDE DEF S
  <2>1. \A j \in 0..n : j \in S
    BY <1>6, <1>7, Along
  <2> QED BY <2>1
<1>9. g[n] = won
  BY <1>3, <1>8
<1> QED BY <1>2, <1>9

\* What is asked for passes the gate and then the default or its directive.
LEMMA FiltersLetThrough ==
  ASSUME NEW f \in Filters
  PROVE  LetsThrough(f)
<1> SUFFICES ASSUME NEW target \in Targets, NEW level \in Levels, AskedFor(f, target, level)
             PROVE  Admitted(f, target, level)
  BY DEF LetsThrough
<1>1. DefaultLevel(f) \in Nat /\ MaxLevel(f) \in Nat /\ DefaultLevel(f) <= MaxLevel(f) /\ level \in Nat
  <2>1. DefaultLevel(f) \in Nat /\ MaxLevel(f) \in Nat /\ level \in Nat
    BY MaxAbove, DefaultIsAsked DEF Levels
  <2>2. CASE DefaultLevel(f) = Info
    BY <2>1, <2>2, MaxAbove DEF Info
  <2>3. CASE \E i \in DOMAIN f : f[i].level # Unknown /\ DefaultLevel(f) = f[i].level
    <3>1. MaxLevel(f) >= DefaultLevel(f)
      BY <2>3, MaxAbove
    <3> QED BY <2>1, <3>1
  <2> QED BY <2>2, <2>3, DefaultIsAsked
<1>2. CASE Matching(f, target) = {}
  <2>1. level <= DefaultLevel(f)
    BY <1>2 DEF AskedFor
  <2> QED BY <1>1, <2>1 DEF Admitted
<1>3. CASE Matching(f, target) # {}
  <2>1. PICK i \in Matching(f, target) :
           /\ \A j \in Matching(f, target) : Len(f[j].prefix) <= Len(f[i].prefix)
           /\ \A j \in Matching(f, target) : f[j].prefix = f[i].prefix => i <= j
           /\ level <= f[i].level
    BY <1>3 DEF AskedFor
  <2>2. i \in DOMAIN f /\ ~f[i].bare /\ f[i].level # Unknown /\ f[i].level \in Nat
    BY Directives DEF Matching, LevelRange
  <2>3. FilterFor(f, target) = f[i].level
    BY <2>1, WinnerFound
  <2>4. MaxLevel(f) >= f[i].level
    BY <2>2, MaxAbove
  <2>5. level <= MaxLevel(f) /\ level <= FilterFor(f, target) /\ HasDirectives(f)
    BY <1>1, <2>1, <2>2, <2>3, <2>4 DEF HasDirectives
  <2> QED BY <2>5 DEF Admitted
<1> QED BY <1>2, <1>3

LEMMA PlanStays == BSpec => [](plan \in Plans)
<1>1. BInit => plan \in Plans
  BY DEF BInit
<1>2. plan \in Plans /\ [BNext]_allVars => (plan \in Plans)'
  BY DEF BNext, TakeCrumb, Install, DrainOn, ProduceOn, Panic, PanicStep, WriteCrumb,
     PanicPush, PanicRead, Poke, Reset, allVars, bootVars
<1> QED BY <1>1, <1>2, PTL DEF BSpec

\* No record that a spec asks for is held back, whatever its directives, in
\* whatever order, and whatever the target: neither by the gate of the macros,
\* nor by the default level, nor by another directive.
THEOREM AskedForPasses == BSpec => []FilterLetsThrough
<1>1. plan \in Plans => FilterLetsThrough
  BY FiltersLetThrough, BootAssumption DEF FilterLetsThrough, Passes
<1> QED BY <1>1, PlanStays, PTL

-----------------------------------------------------------------------------
(* The bytes.  Those in the ring are consecutive, and what was lost and    *)
(* what was taken precede them.                                            *)

\* Consecutive bytes.
Numbers(f, n) == [i \in 1..n |-> f + i]

LEMMA NumbersJoin ==
  ASSUME NEW f \in Nat, NEW u \in Nat, NEW k \in Nat
  PROVE  Numbers(f, u) \o Numbers(f + u, k) = Numbers(f, u + k)
<1> DEFINE a == Numbers(f, u)  b == Numbers(f + u, k)
<1>1. a \in Seq(Nat) /\ Len(a) = u /\ b \in Seq(Nat) /\ Len(b) = k
  BY DEF Numbers
<1>2. \A i \in 1..u : a[i] = f + i
  BY DEF Numbers
<1>3. \A i \in 1..k : b[i] = f + u + i
  BY DEF Numbers
<1>4. Numbers(f, u + k) \in Seq(Nat) /\ Len(Numbers(f, u + k)) = u + k
      /\ \A i \in 1..(u + k) : Numbers(f, u + k)[i] = f + i
  BY DEF Numbers
<1>5. a \o b \in Seq(Nat) /\ Len(a \o b) = u + k
      /\ \A i \in 1..(u + k) : (a \o b)[i] = IF i <= u THEN a[i] ELSE b[i - u]
  <2> HIDE DEF a, b
  <2> QED BY <1>1, ConcatProperties
<1>6. ASSUME NEW i \in 1..(u + k) PROVE (a \o b)[i] = f + i
  <2>1. CASE i <= u
    <3> HIDE DEF a, b
    <3> QED BY <1>2, <1>5, <2>1
  <2>2. CASE ~(i <= u)
    <3>1. i - u \in 1..k /\ f + u + (i - u) = f + i
      BY <2>2
    <3> HIDE DEF a, b
    <3> QED BY <1>3, <1>5, <2>2, <3>1
  <2> QED BY <2>1, <2>2
<1> HIDE DEF a, b
<1>7. \A i \in 1..Len(a \o b) : (a \o b)[i] = Numbers(f, u + k)[i]
  BY <1>4, <1>5, <1>6
<1>8. a \o b = Numbers(f, u + k)
  BY <1>4, <1>5, <1>7, SeqEqual
<1> QED BY <1>8 DEF a, b

Part(s, a, b) == SubSeq(s, a, b)

LEMMA NumbersFront ==
  ASSUME NEW f \in Nat, NEW u \in Nat, NEW l \in 0..u
  PROVE  Part(Numbers(f, u), 1, l) = Numbers(f, l)
<1> DEFINE s == SubSeq(Numbers(f, u), 1, l)
           t == Numbers(f, l)
<1>1. Numbers(f, u) \in Seq(Nat) /\ Len(Numbers(f, u)) = u
      /\ \A i \in 1..u : Numbers(f, u)[i] = f + i
  BY DEF Numbers
<1>2. t \in Seq(Nat) /\ Len(t) = l /\ \A i \in 1..(l) : t[i] = f + i
  BY DEF Numbers
<1>3. s \in Seq(Nat) /\ Len(s) = l
  BY <1>1
<1>4. ASSUME NEW i \in 1..(l) PROVE s[i] = f + i
  <2>1. s[i] = Numbers(f, u)[1 + i - 1]
    BY <1>1
  <2>2. 1 + i - 1 \in 1..u
    OBVIOUS
  <2> QED BY <1>1, <2>1, <2>2
<1> HIDE DEF s, t
<1>5. \A i \in 1..Len(s) : s[i] = t[i]
  BY <1>2, <1>3, <1>4
<1>6. s = t
  BY <1>2, <1>3, <1>5, SeqEqual
<1> QED BY <1>6 DEF s, t, Part

LEMMA NumbersBack ==
  ASSUME NEW f \in Nat, NEW u \in Nat, NEW l \in 0..u
  PROVE  Part(Numbers(f, u), l + 1, u) = Numbers(f + l, u - l)
<1> DEFINE s == SubSeq(Numbers(f, u), l + 1, u)
           t == Numbers(f + l, u - l)
<1>1. Numbers(f, u) \in Seq(Nat) /\ Len(Numbers(f, u)) = u
      /\ \A i \in 1..u : Numbers(f, u)[i] = f + i
  BY DEF Numbers
<1>2. t \in Seq(Nat) /\ Len(t) = u - l /\ \A i \in 1..(u - l) : t[i] = f + l + i
  BY DEF Numbers
<1>3. s \in Seq(Nat) /\ Len(s) = u - l
  BY <1>1
<1>4. ASSUME NEW i \in 1..(u - l) PROVE s[i] = f + l + i
  <2>1. s[i] = Numbers(f, u)[l + 1 + i - 1]
    BY <1>1
  <2>2. l + 1 + i - 1 \in 1..u
    OBVIOUS
  <2> QED BY <1>1, <2>1, <2>2
<1> HIDE DEF s, t
<1>5. \A i \in 1..Len(s) : s[i] = t[i]
  BY <1>2, <1>3, <1>4
<1>6. s = t
  BY <1>2, <1>3, <1>5, SeqEqual
<1> QED BY <1>6 DEF s, t, Part

LEMMA HeldContents ==
  ASSUME NEW r, NEW first \in Nat, Holds(r, first)
  PROVE  Contents(r) = Numbers(first, Used(r)) /\ Len(Contents(r)) = Used(r) /\ Used(r) \in 0..RING_SIZE
<1>1. Used(r) \in 0..RING_SIZE
  BY UsedBound DEF Holds
<1>2. Contents(r) = Numbers(first, Used(r))
  BY DEF Holds, Contents, Numbers
<1> QED BY <1>1, <1>2 DEF Numbers

\* How many bytes came before those in the ring.
First == Lost + taken

BytesInv ==
  /\ accum \in Nat /\ reported \in Nat /\ taken \in Nat
  /\ Holds(ring, First)

\* A task has a line in hand when it writes or waits.
LineInv ==
  /\ pc \in [Producers -> {"idle", "write", "signal", "wait"}]
  /\ line \in [Producers -> 0..RING_SIZE]
  /\ \A t \in Producers : pc[t] \in {"write", "wait"} => line[t] # 0

\* What a step does to the bytes: put some, get some, neither, or drop them all.
PutKind ==
  /\ \E n \in 1..RING_SIZE : ring' = Write(ring, NewBytes(n))
  /\ UNCHANGED <<accum, reported, taken, slice>>

GetKind ==
  \E cap \in Nat \ {0} :
    /\ \/ ring' = AfterRead(ring, cap) /\ accum' = accum + ring.dropped
       \/ ring' = [AfterRead(ring, cap) EXCEPT !.dropped = ring.dropped] /\ accum' = accum
    /\ slice' = ReadBytes(ring, cap) /\ taken' = taken + Len(slice')
    /\ UNCHANGED reported

StayKind ==
  /\ UNCHANGED <<ring, taken, slice>>
  /\ \/ UNCHANGED <<accum, reported>>
     \/ accum' = 0 /\ reported' = reported + accum

ResetKind ==
  /\ ring' = EmptyRing /\ accum' = 0 /\ reported' = 0 /\ taken' = 0 /\ slice' = << >>

LEMMA BytesFirst ==
  ASSUME BytesInv
  PROVE  /\ ring.dropped \in Nat /\ Lost \in Nat /\ First \in Nat
         /\ Used(ring) \in 0..RING_SIZE /\ Written = First + Used(ring)
<1>1. ring.dropped \in Nat
  BY DEF BytesInv, Holds, Rings
<1>2. Used(ring) \in 0..RING_SIZE
  BY UsedBound DEF BytesInv, Holds
<1>3. Lost \in Nat /\ First \in Nat
  BY <1>1 DEF BytesInv, Lost, First
<1>4. Written = First + Used(ring)
  BY <1>2, <1>3, RingSizePositive DEF Written, First, BytesInv
<1> QED BY <1>1, <1>2, <1>3, <1>4

LEMMA PutStep ==
  ASSUME BytesInv, NEW n \in 1..RING_SIZE, ring' = Write(ring, NewBytes(n)),
         UNCHANGED <<accum, reported, taken, slice>>
  PROVE  /\ BytesInv' /\ First' = First + Excess(ring, n)
         /\ Used(ring') = Used(ring) + n - Excess(ring, n)
         /\ Lost' = Lost + Excess(ring, n)
<1>1. /\ ring.dropped \in Nat /\ First \in Nat /\ Lost \in Nat
      /\ Used(ring) \in 0..RING_SIZE /\ Written = First + Used(ring)
  BY BytesFirst
<1>2. NewBytes(n) = [i \in 1..n |-> First + Used(ring) + i]
  BY <1>1 DEF NewBytes
<1>3. Holds(ring, First) /\ n \in Nat
  BY RingSizePositive DEF BytesInv
<1>4. /\ Holds(ring', First + Excess(ring, n))
      /\ Used(ring') = Used(ring) + n - Excess(ring, n)
      /\ ring'.dropped = ring.dropped + Excess(ring, n)
  BY <1>1, <1>2, <1>3, HoldsWrite
<1>5. Excess(ring, n) \in Nat
  BY <1>1, <1>3, RingSizePositive DEF Excess
<1>6. Lost' = Lost + Excess(ring, n) /\ First' = First + Excess(ring, n)
  BY <1>1, <1>4, <1>5 DEF Lost, First, BytesInv
<1> QED BY <1>4, <1>6 DEF BytesInv

LEMMA GetStep ==
  ASSUME BytesInv, NEW cap \in Nat \ {0},
         \/ ring' = AfterRead(ring, cap) /\ accum' = accum + ring.dropped
         \/ ring' = [AfterRead(ring, cap) EXCEPT !.dropped = ring.dropped] /\ accum' = accum,
         slice' = ReadBytes(ring, cap), taken' = taken + Len(slice'),
         UNCHANGED reported
  PROVE  \E l \in 0..Used(ring) :
            /\ BytesInv' /\ First' = First + l /\ Used(ring') = Used(ring) - l
            /\ Lost' = Lost /\ taken' = taken + l /\ slice' = Numbers(First, l)
            /\ (l = 0 <=> Used(ring) = 0)
<1>1. /\ ring.dropped \in Nat /\ First \in Nat /\ Lost \in Nat
      /\ Used(ring) \in 0..RING_SIZE
  BY BytesFirst
<1> DEFINE a == AfterRead(ring, cap)
<1>2. PICK l \in 0..Used(ring) :
        /\ l = ReadLen(ring, cap) /\ (l = 0 <=> Used(ring) = 0)
        /\ ReadBytes(ring, cap) = [i \in 1..l |-> First + i]
        /\ Holds(a, First + l) /\ Used(a) = Used(ring) - l /\ a.dropped = 0
  BY <1>1, HoldsRead DEF BytesInv
<1>3. l \in Nat
  BY <1>1, RingSizePositive
<1>4. slice' = Numbers(First, l) /\ Len(slice') = l
  BY <1>2, <1>3 DEF Numbers
<1>5. taken' = taken + l
  BY <1>4
<1>6. CASE ring' = a /\ accum' = accum + ring.dropped
  <2>1. Lost' = Lost /\ First' = First + l
    <3>1. ring'.dropped = 0
      BY <1>2, <1>6
    <3>2. accum' = accum + ring.dropped /\ reported' = reported /\ taken' = taken + l
      BY <1>5, <1>6
    <3>3. accum \in Nat /\ reported \in Nat /\ taken \in Nat
      BY DEF BytesInv
    <3>4. Lost' = Lost
      BY <1>1, <3>1, <3>2, <3>3 DEF Lost
    <3> QED BY <1>1, <1>3, <3>2, <3>3, <3>4 DEF First
  <2>2. BytesInv'
    BY <1>1, <1>2, <1>3, <1>5, <1>6, <2>1 DEF BytesInv
  <2> QED BY <1>2, <1>4, <1>5, <1>6, <2>1, <2>2
<1>7. CASE ring' = [a EXCEPT !.dropped = ring.dropped] /\ accum' = accum
  <2>1. a \in Rings
    BY <1>2 DEF Holds
  <2> HIDE DEF a
  <2>2. /\ ring' \in Rings /\ ring'.dropped = ring.dropped
        /\ ring'.buf = a.buf /\ ring'.head = a.head /\ ring'.tail = a.tail /\ ring'.full = a.full
    BY <1>1, <1>7, <2>1 DEF Rings
  <2>3. Used(ring') = Used(a)
    BY <2>2 DEF Used
  <2>4. Lost' = Lost /\ First' = First + l
    BY <1>1, <1>3, <1>5, <1>7, <2>2 DEF Lost, First, BytesInv
  <2>5. Holds(ring', First')
    BY <1>2, <2>2, <2>3, <2>4 DEF Holds
  <2>6. BytesInv'
    BY <1>3, <1>5, <1>7, <2>5 DEF BytesInv
  <2> QED BY <1>2, <1>4, <1>5, <2>3, <2>4, <2>6
<1> QED BY <1>6, <1>7

LEMMA StayStep ==
  ASSUME BytesInv, StayKind
  PROVE  BytesInv' /\ First' = First /\ Lost' = Lost
<1>1. ring.dropped \in Nat
  BY BytesFirst
<1>2. Lost' = Lost /\ First' = First
  BY <1>1 DEF StayKind, Lost, First, BytesInv
<1> QED BY <1>2 DEF StayKind, BytesInv

LEMMA EmptyHolds == Holds(EmptyRing, 0) /\ Used(EmptyRing) = 0 /\ EmptyRing.dropped = 0
<1>1. 0 \in Slots
  BY RingSizePositive DEF Slots
<1>2. EmptyRing \in Rings
  BY <1>1 DEF EmptyRing, Rings
<1>3. EmptyRing.full = FALSE /\ EmptyRing.head = 0 /\ EmptyRing.tail = 0 /\ EmptyRing.dropped = 0
  BY DEF EmptyRing
<1>4. Used(EmptyRing) = 0
  BY <1>3 DEF Used
<1> QED BY <1>2, <1>3, <1>4 DEF Holds

LEMMA ResetStep ==
  ASSUME ResetKind
  PROVE  BytesInv' /\ First' = 0 /\ Lost' = 0 /\ Used(ring') = 0
<1>1. Lost' = 0 /\ First' = 0
  BY EmptyHolds DEF ResetKind, Lost, First
<1> QED BY <1>1, EmptyHolds DEF ResetKind, BytesInv

LEMMA LineStep ==
  ASSUME LineInv, [BNext]_allVars
  PROVE  LineInv'
<1> USE DEF LineInv
<1>1. CASE UNCHANGED prodVars
  BY <1>1 DEF prodVars
<1>2. ASSUME NEW t \in Producers, ProduceOn(t)
      PROVE  LineInv'
  <2>1. CASE Log(t)
    <3>1. PICK n \in LineLens : line' = [line EXCEPT ![t] = n]
      BY <2>1 DEF Log, FormatLine
    <3>2. n \in 1..RING_SIZE
      BY ConsoleAssumption
    <3>3. pc' = [pc EXCEPT ![t] = "write"]
      BY <2>1 DEF Log, FormatLine, Goto
    <3> QED BY <3>1, <3>2, <3>3, RingSizePositive
  <2>2. CASE PushWrite(t) \/ SendWrite(t)
    BY <2>2 DEF PushWrite, SendWrite, Goto
  <2>3. CASE SignalDrain(t)
    BY <2>3, RingSizePositive DEF SignalDrain, Goto
  <2>4. CASE SendNoRoom(t) \/ SpaceReady(t)
    BY <2>4 DEF SendNoRoom, SpaceReady, Goto
  <2>5. CASE SpacePending(t)
    BY <2>5 DEF SpacePending, prodVars
  <2> QED BY <1>2, <2>1, <2>2, <2>3, <2>4, <2>5 DEF ProduceOn, Produce
<1>3. ASSUME NEW core \in Cores, Panic(core)
      PROVE  LineInv'
  BY <1>3, RingSizePositive DEF Panic
<1>4. CASE Reset
  BY <1>4, RingSizePositive DEF Reset
<1>5. CASE TakeCrumb \/ Install \/ DrainOn
  BY <1>1, <1>5 DEF TakeCrumb, Install, DrainOn, Drain, DrainRead, DrainReport,
     DrainHoldReport, DrainWake, DrainFreed, DrainSend, vars, prodVars
<1>6. ASSUME NEW core \in Cores, PanicStep(core)
      PROVE  LineInv'
  BY <1>1, <1>6 DEF PanicStep, WriteCrumb, PanicPush, PanicRead, Poke, vars, prodVars
<1>7. CASE UNCHANGED allVars
  BY <1>1, <1>7 DEF allVars, vars
<1> QED BY <1>2, <1>3, <1>4, <1>5, <1>6, <1>7 DEF BNext

LEMMA Kinds ==
  ASSUME BytesInv, LineInv, [BNext]_allVars
  PROVE  PutKind \/ GetKind \/ StayKind \/ ResetKind
<1>1. CASE UNCHANGED <<ring, accum, reported, taken, slice>>
  BY <1>1 DEF StayKind
<1>2. CASE Install
  BY <1>2, BootAssumption DEF Install, PutKind, drainVars, delivery
<1>3. ASSUME NEW t \in Producers, ProduceOn(t)
      PROVE  PutKind \/ StayKind
  <2>1. UNCHANGED <<accum, reported, taken, slice>>
    BY <1>3 DEF ProduceOn, Log, FormatLine, Produce, PushWrite, SignalDrain, SendWrite,
       SendNoRoom, SpaceReady, SpacePending, drainVars, delivery
  <2>2. CASE PushWrite(t) \/ SendWrite(t)
    <3>1. line[t] \in 1..RING_SIZE
      BY <2>2, RingSizePositive DEF PushWrite, SendWrite, LineInv
    <3> QED BY <2>1, <2>2, <3>1 DEF PushWrite, SendWrite, PutKind
  <2>3. CASE ~(PushWrite(t) \/ SendWrite(t))
    <3>1. UNCHANGED ring
      BY <1>3, <2>3 DEF ProduceOn, Log, FormatLine, Produce, SignalDrain,
         SendNoRoom, SpaceReady, SpacePending
    <3> QED BY <2>1, <3>1 DEF StayKind
  <2> QED BY <2>2, <2>3
<1>4. CASE DrainOn
  <2>1. CASE DrainRead
    <3>1. dpc = "read" /\ slice' = scratch'
      BY <1>4, <2>1 DEF DrainRead, DrainOn
    <3>2. Scratch \in Nat \ {0}
      BY ConsoleAssumption
    <3>3. /\ slice' = ReadBytes(ring, Scratch) /\ taken' = taken + Len(slice')
          /\ ring' = AfterRead(ring, Scratch) /\ accum' = accum + ring.dropped
          /\ UNCHANGED reported
      BY <2>1, <3>1 DEF DrainRead, Receive
    <3> QED BY <3>2, <3>3 DEF GetKind
  <2>2. CASE DrainReport
    <3>1. slice' = slice
      BY <1>4, <2>2 DEF DrainOn, DrainReport
    <3> QED BY <2>2, <3>1 DEF DrainReport, StayKind
  <2>3. CASE DrainHoldReport \/ DrainWake \/ DrainFreed \/ DrainSend
    <3>1. slice' = slice
      BY <1>4, <2>3 DEF DrainOn, DrainHoldReport, DrainWake, DrainFreed, DrainSend
    <3> QED BY <1>1, <2>3, <3>1 DEF DrainHoldReport, DrainWake, DrainFreed, DrainSend, delivery
  <2> QED BY <1>4, <2>1, <2>2, <2>3 DEF DrainOn, Drain
<1>5. ASSUME NEW core \in Cores, PanicPush(core)
      PROVE  PutKind
  BY <1>5, BootAssumption DEF PanicPush, PutKind, drainVars, delivery
<1>6. ASSUME NEW core \in Cores, PanicRead(core)
      PROVE  GetKind
  <2>1. PanicChunk \in Nat \ {0}
    BY BootAssumption
  <2>2. /\ slice' = ReadBytes(ring, PanicChunk) /\ taken' = taken + Len(slice')
        /\ ring' = [AfterRead(ring, PanicChunk) EXCEPT !.dropped = ring.dropped]
        /\ UNCHANGED <<accum, reported>>
    BY <1>6 DEF PanicRead, AfterPanicRead
  <2> QED BY <2>1, <2>2 DEF GetKind
<1>7. CASE Reset
  BY <1>7 DEF Reset, ResetKind
<1>8. CASE TakeCrumb
  BY <1>1, <1>8 DEF TakeCrumb, vars, drainVars, delivery
<1>9. ASSUME NEW core \in Cores, Panic(core) \/ WriteCrumb(core) \/ Poke(core)
      PROVE  StayKind
  BY <1>9 DEF Panic, WriteCrumb, Poke, StayKind, vars, drainVars, delivery
<1>10. CASE UNCHANGED allVars
  BY <1>1, <1>10 DEF allVars, vars, drainVars, delivery
<1> QED BY <1>2, <1>3, <1>4, <1>5, <1>6, <1>7, <1>8, <1>9, <1>10 DEF BNext, PanicStep

LEMMA BytesStep ==
  ASSUME BytesInv, LineInv, [BNext]_allVars
  PROVE  BytesInv' /\ LineInv'
<1>1. LineInv'
  BY LineStep
<1>2. PutKind => BytesInv'
  BY PutStep DEF PutKind
<1>3. GetKind => BytesInv'
  BY GetStep DEF GetKind
<1>4. StayKind => BytesInv'
  BY StayStep
<1>5. ResetKind => BytesInv'
  BY ResetStep
<1> QED BY <1>1, <1>2, <1>3, <1>4, <1>5, Kinds

LEMMA BytesInit == BInit => BytesInv /\ LineInv
<1> SUFFICES ASSUME BInit PROVE BytesInv /\ LineInv
  OBVIOUS
<1>1. ring = EmptyRing /\ accum = 0 /\ reported = 0 /\ taken = 0
  BY DEF BInit, Init
<1>2. First = 0
  BY <1>1, EmptyHolds DEF First, Lost
<1>3. BytesInv
  BY <1>1, <1>2, EmptyHolds DEF BytesInv
<1>4. LineInv
  BY RingSizePositive DEF BInit, Init, LineInv
<1> QED BY <1>3, <1>4

-----------------------------------------------------------------------------
(* The ring implements the queue.                                          *)

LEMMA MaxOfTwo ==
  ASSUME NEW n \in Int
  PROVE  Queue!Max({0, n}) = IF n > 0 THEN n ELSE 0
<1> DEFINE m == IF n > 0 THEN n ELSE 0
<1>1. m \in {0, n} /\ \A y \in {0, n} : m >= y
  OBVIOUS
<1>2. \A x \in {0, n} : (\A y \in {0, n} : x >= y) => x = m
  OBVIOUS
<1> HIDE DEF m
<1>3. Queue!Max({0, n}) = m
  BY <1>1, <1>2 DEF Queue!Max
<1> QED BY <1>3 DEF m

LEMMA QueuePut ==
  ASSUME BytesInv, NEW n \in 1..RING_SIZE, ring' = Write(ring, NewBytes(n)),
         UNCHANGED <<accum, reported, taken, slice>>
  PROVE  Queue!Put(n)
<1>1. /\ First \in Nat /\ Used(ring) \in 0..RING_SIZE /\ Lost \in Nat /\ n \in Nat /\ taken \in Nat
  BY BytesFirst, RingSizePositive DEF BytesInv
<1>2. PICK u \in Nat, f \in Nat : u = Used(ring) /\ u <= RING_SIZE /\ f = First
  BY <1>1, RingSizePositive
<1>3. PICK e \in Nat : e = Excess(ring, n) /\ e = IF u + n > RING_SIZE THEN u + n - RING_SIZE ELSE 0
  BY <1>1, <1>2, RingSizePositive DEF Excess
<1>4. BytesInv' /\ First' = f + e /\ Used(ring') = u + n - e /\ Lost' = Lost + e
  BY <1>2, <1>3, PutStep
<1>5. Contents(ring) = Numbers(f, u) /\ Len(Contents(ring)) = u
  BY <1>1, <1>2, HeldContents DEF BytesInv
<1>6. Contents(ring)' = Numbers(f + e, u + n - e)
  <2>1. Holds(ring', f + e) /\ f + e \in Nat
    BY <1>4 DEF BytesInv
  <2> QED BY <1>4, <2>1, HeldContents
<1>7. [i \in 1..n |-> Queue!Written + i] = Numbers(f + u, n)
  <2>1. Queue!Written = f + u
    BY <1>1, <1>2, <1>5 DEF Queue!Written, First
  <2> QED BY <2>1 DEF Numbers
<1>8. PICK v \in Nat : v = u + n /\ e \in 0..v /\ v - e = u + n - e
                     /\ e = IF v > RING_SIZE THEN v - RING_SIZE ELSE 0
  BY <1>1, <1>2, <1>3, RingSizePositive
<1>9. Contents(ring) \o [i \in 1..n |-> Queue!Written + i] = Numbers(f, v)
  <2>1. Numbers(f, u) \o Numbers(f + u, n) = Numbers(f, u + n)
    BY <1>1, NumbersJoin
  <2> QED BY <1>5, <1>7, <1>8, <2>1, Zenon
<1>10. Len(Numbers(f, v)) = v
  BY DEF Numbers
<1>11. Queue!Max({0, v - RING_SIZE}) = e
  BY <1>8, MaxOfTwo, RingSizePositive
<1>12. Part(Numbers(f, v), e + 1, v) = Numbers(f + e, v - e)
  BY <1>8, NumbersBack
<1> QED BY <1>4, <1>6, <1>8, <1>9, <1>10, <1>11, <1>12, Zenon DEF Queue!Put, Part

LEMMA QueueGet ==
  ASSUME BytesInv, NEW l \in 0..Used(ring), BytesInv', First' = First + l,
         Used(ring') = Used(ring) - l, Lost' = Lost, taken' = taken + l, slice' = Numbers(First, l)
  PROVE  \E k \in 0..Len(Contents(ring)) : Queue!Get(k)
<1>1. First \in Nat /\ Used(ring) \in 0..RING_SIZE
  BY BytesFirst
<1>2. PICK u \in Nat, f \in Nat : u = Used(ring) /\ l \in 0..u /\ f = First
  BY <1>1, RingSizePositive
<1>3. Contents(ring) = Numbers(f, u) /\ Len(Contents(ring)) = u
  BY <1>1, <1>2, HeldContents DEF BytesInv
<1>4. Contents(ring)' = Numbers(f + l, u - l)
  <2>1. Holds(ring', f + l) /\ f + l \in Nat
    BY <1>1, <1>2 DEF BytesInv
  <2> QED BY <1>2, <2>1, HeldContents
<1>5. /\ SubSeq(Contents(ring), 1, l) = Numbers(f, l)
      /\ SubSeq(Contents(ring), l + 1, Len(Contents(ring))) = Numbers(f + l, u - l)
  <2>1. /\ Part(Numbers(f, u), 1, l) = Numbers(f, l)
        /\ Part(Numbers(f, u), l + 1, u) = Numbers(f + l, u - l)
    BY <1>2, NumbersFront, NumbersBack
  <2> QED BY <1>3, <2>1, Zenon DEF Part
<1>6. Queue!Get(l)
  BY <1>2, <1>4, <1>5 DEF Queue!Get
<1> QED BY <1>2, <1>3, <1>6

LEMMA QueueInit == BInit => Queue!Init
<1> SUFFICES ASSUME BInit PROVE Queue!Init
  OBVIOUS
<1>1. ring = EmptyRing /\ accum = 0 /\ reported = 0 /\ taken = 0 /\ slice = << >>
  BY DEF BInit, Init
<1>2. Contents(ring) = << >>
  BY <1>1, EmptyHolds DEF Contents
<1>3. Lost = 0
  BY <1>1, EmptyHolds DEF Lost
<1> QED BY <1>1, <1>2, <1>3 DEF Queue!Init

LEMMA QueueStep ==
  ASSUME BytesInv, LineInv, [BNext]_allVars
  PROVE  [Queue!Next]_Queue!vars
<1>1. CASE PutKind
  BY <1>1, QueuePut DEF PutKind, Queue!Next
<1>2. CASE GetKind
  BY <1>2, GetStep, QueueGet DEF GetKind, Queue!Next
<1>3. CASE StayKind
  <2>1. Lost' = Lost
    BY <1>3, StayStep
  <2>2. Contents(ring)' = Contents(ring) /\ slice' = slice /\ taken' = taken
    BY <1>3 DEF StayKind
  <2> QED BY <2>1, <2>2 DEF Queue!vars
<1>4. CASE ResetKind
  <2>1. Lost' = 0
    BY <1>4, ResetStep
  <2>2. Contents(ring)' = << >>
    BY <1>4, EmptyHolds DEF ResetKind, Contents
  <2> QED BY <1>4, <2>1, <2>2 DEF ResetKind, Queue!Next, Queue!Restart
<1> QED BY <1>1, <1>2, <1>3, <1>4, Kinds

\* A ring buffer written by many and read by the drain and by two panicking
\* cores, in slices that end at the wrap, behaves as a queue that gives its bytes
\* in order, loses only its oldest ones, and counts each one it loses.
THEOREM ImplementsQueue == BSpec => KeepsNewest
<1>1. BytesInv /\ LineInv /\ [BNext]_allVars => (BytesInv /\ LineInv)'
  BY BytesStep
<1> QED BY <1>1, BytesInit, QueueInit, QueueStep, PTL DEF BSpec, KeepsNewest, Queue!Spec

-----------------------------------------------------------------------------
(* The breadcrumb: its invariant.                                          *)

CrumbTypes ==
    /\ boot \in {"crumb", "install", "up"}
    /\ stage \in [Cores -> {"running", "crumb", "push", "read", "poke", "halted"}]
    /\ panic \in [Cores -> Nat] /\ panics \in Nat
    /\ DOMAIN crumb = Words /\ crumb.magic \in BOOLEAN
    /\ due \in Nat /\ before \in Nat /\ torn \in BOOLEAN

\* The crumb tells of panic n, or of none.
Tells(n) == IF n = NoPanic THEN ~crumb.magic
            ELSE crumb.magic /\ crumb.reason = n /\ crumb.file = n

\* Only a core that panics stops, each panic has a number, and one past the
\* store is the last there was.
PanicsCounted ==
    /\ \A c \in Cores : ~Running(c) => panic[c] # NoPanic
    /\ due # NoPanic <=> \E c \in Cores : stage[c] \notin {"running", "crumb"}
    /\ boot # "up" => Running("APP")

\* Until it is taken the crumb tells of the run before; then of nothing, until
\* a core that panics alone has stored its own.
CrumbInv ==
    /\ boot = "crumb" /\ due = NoPanic /\ ~torn => Tells(before)
    /\ boot # "crumb" /\ due = NoPanic => ~crumb.magic
    /\ due # NoPanic /\ (\E c \in Cores : Running(c)) => Tells(due)

CrumbIInv == CrumbTypes /\ PanicsCounted /\ CrumbInv /\ CrumbTrue

USE DEF NoPanic, Running, Cores

LEMMA CrumbInit == BInit => CrumbIInv
<1> SUFFICES ASSUME BInit PROVE CrumbIInv
  OBVIOUS
<1>1. /\ boot = "crumb" /\ due = NoPanic /\ before = NoPanic /\ torn = FALSE
      /\ stage = [c \in Cores |-> "running"]
      /\ panic = [c \in Cores |-> NoPanic] /\ panics = 0
      /\ crumb = [magic |-> FALSE, reason |-> NoPanic, file |-> NoPanic]
  BY DEF BInit, Init
<1>2. DOMAIN crumb = Words /\ crumb.magic = FALSE
  BY <1>1 DEF Words
<1>3. CrumbTypes /\ PanicsCounted
  BY <1>1, <1>2 DEF CrumbTypes, PanicsCounted
<1>4. CrumbInv /\ CrumbTrue
  BY <1>1, <1>2 DEF CrumbInv, CrumbTrue, Tells
<1> QED BY <1>3, <1>4 DEF CrumbIInv

-----------------------------------------------------------------------------
(* The breadcrumb: the steps.                                              *)

crumbState == <<boot, stage, panic, panics, crumbVars>>

\* Those of a core that has stored its crumb, and of the tasks, leave it alone.
LEMMA CrumbStays ==
    ASSUME CrumbIInv, UNCHANGED crumbState
    PROVE  CrumbIInv'
BY DEF crumbState, crumbVars, CrumbIInv, CrumbTypes, PanicsCounted, CrumbInv, CrumbTrue, Tells

\* A core goes on from where it stored its crumb.
LEMMA CrumbOnward ==
    ASSUME CrumbIInv, NEW core \in Cores, stage[core] \notin {"running", "crumb"},
           NEW l \in {"read", "poke", "halted"}, At(core, l),
           UNCHANGED <<boot, panic, panics, crumbVars>>
    PROVE  CrumbIInv'
BY DEF At, crumbVars, CrumbIInv, CrumbTypes, PanicsCounted, CrumbInv, CrumbTrue, Tells

LEMMA StoredWhole ==
    ASSUME CrumbTypes, NEW core \in Cores, crumb' = Store(core, Words)
    PROVE  /\ DOMAIN crumb' = Words /\ crumb'.magic
           /\ crumb'.reason = panic[core] /\ crumb'.file = panic[core]
BY DEF Store, Words, CrumbTypes

LEMMA StoredPart ==
    ASSUME CrumbTypes, NEW core \in Cores, NEW through \in SUBSET Words,
           crumb' = Store(core, through)
    PROVE  DOMAIN crumb' = Words /\ crumb'.magic \in BOOLEAN
BY DEF Store, Words, CrumbTypes

LEMMA CrumbStep ==
    ASSUME CrumbIInv, [BNext]_allVars
    PROVE  CrumbIInv'
<1>1. CASE TakeCrumb
  <2> USE <1>1 DEF TakeCrumb, coreVars
  <2>1. due = NoPanic /\ boot = "crumb"
    BY DEF CrumbIInv, CrumbTypes, PanicsCounted
  <2>2. crumb' = [crumb EXCEPT !.magic = FALSE] /\ DOMAIN crumb' = Words /\ crumb'.magic = FALSE
    BY DEF CrumbIInv, CrumbTypes, Words
  <2>3. ~torn => told' = [reason |-> before, file |-> before]
    BY <2>1 DEF CrumbIInv, CrumbTypes, CrumbInv, Tells, NoCrumb
  <2>4. UNCHANGED <<stage, panic, panics, due, before, torn>> /\ boot' = "install"
    OBVIOUS
  <2>5. CrumbTypes' /\ PanicsCounted'
    BY <2>2, <2>4 DEF CrumbIInv, CrumbTypes, PanicsCounted
  <2>6. CrumbInv' /\ CrumbTrue'
    BY <2>1, <2>2, <2>3, <2>4 DEF CrumbInv, CrumbTrue, Tells
  <2> QED BY <2>5, <2>6 DEF CrumbIInv
<1>2. CASE Install
  BY <1>2 DEF Install, coreVars, crumbVars, CrumbIInv, CrumbTypes, PanicsCounted, CrumbInv, CrumbTrue, Tells
<1>3. CASE DrainOn \/ \E t \in Producers : ProduceOn(t)
  <2>1. UNCHANGED crumbState
    BY <1>3 DEF DrainOn, ProduceOn, bootVars, coreVars, crumbState
  <2> QED BY <2>1, CrumbStays
<1>4. ASSUME NEW core \in Cores, Panic(core)
      PROVE  CrumbIInv'
  <2> USE <1>4 DEF Panic, At, bootVars, crumbVars
  <2>1. /\ UNCHANGED <<boot, crumb, told, due, before, torn>>
        /\ stage' = [stage EXCEPT ![core] = "crumb"] /\ stage[core] = "running"
        /\ panic' = [panic EXCEPT ![core] = panics + 1] /\ panics' = panics + 1
        /\ core = "APP" => boot = "up"
    OBVIOUS
  <2>2. CrumbTypes' /\ PanicsCounted'
    BY <2>1 DEF CrumbIInv, CrumbTypes, PanicsCounted
  <2>3. CrumbInv' /\ CrumbTrue'
    BY <2>1 DEF CrumbIInv, CrumbTypes, CrumbInv, CrumbTrue, Tells
  <2> QED BY <2>2, <2>3 DEF CrumbIInv
<1>5. ASSUME NEW core \in Cores, WriteCrumb(core)
      PROVE  CrumbIInv'
  <2>1. /\ UNCHANGED <<boot, panic, panics, told, before, torn>>
        /\ stage' = [stage EXCEPT ![core] = "push"] /\ stage[core] = "crumb"
        /\ due' = panic[core]
    BY <1>5 DEF WriteCrumb, At, bootVars
  <2>2. due' # NoPanic
    BY <2>1 DEF CrumbIInv, PanicsCounted
  <2>3. DOMAIN crumb' = Words /\ crumb'.magic \in BOOLEAN
    <3>1. PICK through \in SUBSET Words : crumb' = Store(core, through)
      BY <1>5 DEF WriteCrumb, Words
    <3> QED BY <3>1, StoredPart DEF CrumbIInv
  <2>4. CrumbTypes' /\ PanicsCounted'
    BY <2>1, <2>2, <2>3 DEF CrumbIInv, CrumbTypes, PanicsCounted
  <2>5. (\E c \in Cores : Running(c))' => Tells(due)'
    <3>1. (\E c \in Cores : Running(c))' => \E c \in Cores : Running(c)
      BY <2>1 DEF CrumbIInv, CrumbTypes
    <3>2. (\E c \in Cores : Running(c)) => crumb' = Store(core, Words)
      BY <1>5 DEF WriteCrumb
    <3> QED BY <2>1, <2>2, <3>1, <3>2, StoredWhole DEF CrumbIInv, Tells
  <2>6. CrumbInv' /\ CrumbTrue'
    BY <2>1, <2>2, <2>5 DEF CrumbIInv, CrumbInv, CrumbTrue
  <2> QED BY <2>4, <2>6 DEF CrumbIInv
<1>6. ASSUME NEW core \in Cores, PanicPush(core) \/ PanicRead(core) \/ Poke(core)
      PROVE  CrumbIInv'
  <2>1. /\ stage[core] \in {"push", "read", "poke"}
        /\ \E l \in {"read", "poke", "halted"} : At(core, l)
        /\ UNCHANGED <<boot, panic, panics, crumbVars>>
    BY <1>6 DEF PanicPush, PanicRead, Poke, bootVars
  <2> QED BY <2>1, CrumbOnward
<1>7. CASE Reset
  <2>1. /\ boot' = "crumb" /\ due' = NoPanic /\ UNCHANGED panics
        /\ stage' = [c \in Cores |-> "running"] /\ panic' = [c \in Cores |-> NoPanic]
    BY <1>7 DEF Reset
  <2>2. CASE before' = NoPanic /\ torn' = FALSE
             /\ crumb' = [magic |-> FALSE, reason |-> NoPanic, file |-> NoPanic]
    BY <2>1, <2>2 DEF CrumbIInv, CrumbTypes, PanicsCounted, CrumbInv, CrumbTrue, Tells, Words
  <2>3. CASE /\ before' = IF due # NoPanic THEN due
                          ELSE IF boot = "crumb" THEN before ELSE NoPanic
             /\ torn' = (\/ \A c \in Cores : ~Running(c)
                         \/ \E c \in Cores : stage[c] = "crumb"
                         \/ boot = "crumb" /\ ~Panicked /\ torn)
             /\ \/ UNCHANGED crumb
                \/ \E c \in Cores, through \in SUBSET Words :
                       stage[c] = "crumb" /\ crumb' = Store(c, through)
    <3>1. DOMAIN crumb' = Words /\ crumb'.magic \in BOOLEAN
      BY <2>3, StoredPart DEF CrumbIInv, CrumbTypes
    <3>2. before' \in Nat /\ torn' \in BOOLEAN
      BY <2>3 DEF CrumbIInv, CrumbTypes
    <3>3. CrumbTypes' /\ PanicsCounted'
      BY <2>1, <3>1, <3>2 DEF CrumbIInv, CrumbTypes, PanicsCounted
    <3>4. ASSUME ~torn' PROVE Tells(before)'
      <4>1. /\ crumb' = crumb
            /\ \E c \in Cores : Running(c)
            /\ \A c \in Cores : stage[c] # "crumb"
            /\ ~(boot = "crumb" /\ ~Panicked /\ torn)
        BY <2>3, <3>4
      <4>2. due = NoPanic => ~Panicked
        BY <4>1 DEF Panicked, CrumbIInv, CrumbTypes, PanicsCounted
      <4> QED BY <2>3, <4>1, <4>2 DEF CrumbIInv, CrumbInv, Tells
    <3>5. CrumbInv' /\ CrumbTrue'
      BY <2>1, <3>4 DEF CrumbInv, CrumbTrue
    <3> QED BY <3>3, <3>5 DEF CrumbIInv
  <2> QED BY <1>7, <2>2, <2>3 DEF Reset
<1>8. CASE UNCHANGED allVars
  BY <1>8, CrumbStays DEF allVars, bootVars, coreVars, crumbState
<1> QED BY <1>1, <1>2, <1>3, <1>4, <1>5, <1>6, <1>7, <1>8 DEF BNext, PanicStep

\* A boot is told of the panic that ended the run before it, of that one only
\* and once, over any number of boots and panics of either core, unless both
\* panicked or the reset cut the store.
THEOREM CrumbsTrue == BSpec => []CrumbTrue
<1>1. CrumbIInv => CrumbTrue
  BY DEF CrumbIInv
<1> QED BY <1>1, CrumbInit, CrumbStep, PTL DEF BSpec

-----------------------------------------------------------------------------
(* The gaps.                                                               *)

\* What is newest has come through, or is announced or counted behind it; and
\* nothing is left uncounted when the drain has nothing to deliver.
GapInv ==
  /\ newest \in Nat
  /\ ~Panicked => newest <= taken + accum + reported
  /\ dpc = "deliver" /\ scratch = << >> => accum = 0

LEMMA NumbersLast ==
  ASSUME NEW f \in Nat, NEW l \in Nat \ {0}
  PROVE  Numbers(f, l) # << >> /\ Last(Numbers(f, l)) = f + l
BY DEF Numbers, Last

LEMMA NumbersNone ==
  ASSUME NEW f \in Nat
  PROVE  Numbers(f, 0) = << >>
BY DEF Numbers

\* What is read last is the newest
LEMMA LastRead ==
  ASSUME BytesInv, newest \in Nat, NEW cap \in Nat \ {0},
         \/ ring' = AfterRead(ring, cap) /\ accum' = accum + ring.dropped
         \/ ring' = [AfterRead(ring, cap) EXCEPT !.dropped = ring.dropped] /\ accum' = accum,
         slice' = ReadBytes(ring, cap), taken' = taken + Len(slice'), UNCHANGED reported,
         newest' = IF slice' = << >> THEN newest ELSE Last(slice')
  PROVE  /\ newest' \in Nat /\ taken' \in Nat /\ taken' >= taken
         /\ slice' # << >> => newest' = First'
<1>1. PICK l \in 0..Used(ring) :
         /\ BytesInv' /\ First' = First + l /\ taken' = taken + l /\ slice' = Numbers(First, l)
  BY GetStep
<1>2. First \in Nat /\ l \in Nat /\ taken \in Nat
  BY BytesFirst, RingSizePositive DEF BytesInv
<1>3. CASE l = 0
  BY <1>1, <1>2, <1>3, NumbersNone
<1>4. CASE l # 0
  BY <1>1, <1>2, <1>4, NumbersLast
<1> QED BY <1>3, <1>4

LEMMA GapStays ==
  ASSUME GapInv, UNCHANGED <<newest, taken, accum, reported, dpc, scratch>>, Panicked => Panicked'
  PROVE  GapInv'
BY DEF GapInv

LEMMA PanickedStays ==
  ASSUME CrumbIInv, [BNext]_allVars, ~Reset
  PROVE  Panicked => Panicked'
<1>1. stage \in [Cores -> {"running", "crumb", "push", "read", "poke", "halted"}]
  BY DEF CrumbIInv, CrumbTypes
<1>2. CASE UNCHANGED stage
  BY <1>2 DEF Panicked, Running
<1>3. ASSUME NEW core \in Cores, Panic(core) \/ PanicStep(core)
      PROVE  Panicked'
  <2>1. \E l \in {"crumb", "push", "read", "poke", "halted"} : stage' = [stage EXCEPT ![core] = l]
    BY <1>3 DEF Panic, PanicStep, WriteCrumb, PanicPush, PanicRead, Poke, At
  <2> QED BY <1>1, <2>1 DEF Panicked, Running
<1>4. CASE TakeCrumb \/ Install \/ DrainOn \/ (\E t \in Producers : ProduceOn(t)) \/ UNCHANGED allVars
  BY <1>2, <1>4 DEF TakeCrumb, Install, DrainOn, ProduceOn, coreVars, allVars
<1> QED BY <1>3, <1>4 DEF BNext

LEMMA GapStep ==
  ASSUME GapInv, CrumbIInv, BytesInv, [BNext]_allVars
  PROVE  GapInv'
<1>0. newest \in Nat /\ taken \in Nat /\ accum \in Nat /\ reported \in Nat
  BY DEF GapInv, BytesInv
<1>1. CASE DrainOn
  <2>0. UNCHANGED Panicked
    BY <1>1 DEF DrainOn, coreVars, Panicked, Running
  <2>1. CASE DrainRead
    <3>1. dpc = "read" /\ slice' = scratch' /\ dpc' = "report"
      BY <1>1, <2>1 DEF DrainRead, DrainOn
    <3>2. Scratch \in Nat \ {0}
      BY ConsoleAssumption
    <3>3. /\ slice' = ReadBytes(ring, Scratch) /\ taken' = taken + Len(slice')
          /\ ring' = AfterRead(ring, Scratch) /\ accum' = accum + ring.dropped
          /\ UNCHANGED reported
          /\ newest' = IF slice' = << >> THEN newest ELSE Last(slice')
      BY <2>1, <3>1 DEF DrainRead, Receive
    <3>4. newest' \in Nat /\ taken' \in Nat /\ taken' >= taken /\ (slice' # << >> => newest' = First')
      BY <3>2, <3>3, <1>0, LastRead
    <3>5. ring.dropped \in Nat
      BY BytesFirst
    <3>6. First' = taken' + accum' + reported'
      <4>1. ring'.dropped = 0
        <5>1. First \in Nat /\ Holds(ring, First) /\ Scratch \in Nat
          BY <3>2, BytesFirst DEF BytesInv
        <5>2. AfterRead(ring, Scratch).dropped = 0
          BY <5>1, HoldsRead
        <5> QED BY <3>3, <5>2
      <4> QED BY <1>0, <3>3, <3>4, <3>5, <4>1 DEF First, Lost
    <3>7. ASSUME ~Panicked' PROVE newest' <= taken' + accum' + reported'
      <4>1. CASE slice' # << >>
        BY <1>0, <3>3, <3>4, <3>5, <3>6, <4>1
      <4>2. CASE slice' = << >>
        <5>1. newest <= taken + accum + reported
          BY <2>0, <3>7 DEF GapInv
        <5> QED BY <1>0, <3>3, <3>4, <3>5, <4>2, <5>1
      <4> QED BY <4>1, <4>2
    <3> QED BY <3>1, <3>4, <3>7 DEF GapInv
  <2>2. CASE DrainReport
    <3>1. UNCHANGED <<newest, taken>> /\ accum' = 0 /\ reported' = reported + accum
      BY <2>2 DEF DrainReport
    <3>2. taken' + accum' + reported' = taken + accum + reported
      BY <1>0, <3>1
    <3> QED BY <2>0, <3>1, <3>2 DEF GapInv
  <2>3. CASE DrainHoldReport
    BY <2>0, <2>3 DEF DrainHoldReport, delivery, GapInv
  <2>4. CASE DrainWake \/ DrainFreed \/ DrainSend
    BY <2>0, <2>4 DEF DrainWake, DrainFreed, DrainSend, delivery, GapInv
  <2> QED BY <1>1, <2>1, <2>2, <2>3, <2>4 DEF DrainOn, Drain
<1>2. ASSUME NEW core \in Cores, Panic(core)
      PROVE  GapInv'
  <2>1. UNCHANGED <<newest, accum, reported, taken>> /\ ((dpc' = "read") \/ UNCHANGED <<dpc, scratch>>)
    BY <1>2 DEF Panic
  <2>2. Panicked'
    BY <1>2 DEF Panic, At, CrumbIInv, CrumbTypes, Panicked, Running
  <2> QED BY <2>1, <2>2 DEF GapInv
<1>3. ASSUME NEW core \in Cores, PanicRead(core)
      PROVE  GapInv'
  <2>1. PanicChunk \in Nat \ {0}
    BY BootAssumption
  <2>2. /\ slice' = ReadBytes(ring, PanicChunk) /\ taken' = taken + Len(slice')
        /\ ring' = [AfterRead(ring, PanicChunk) EXCEPT !.dropped = ring.dropped]
        /\ UNCHANGED <<accum, reported, dpc, scratch>>
        /\ newest' = IF slice' = << >> THEN newest ELSE Last(slice')
    BY <1>3 DEF PanicRead, AfterPanicRead
  <2>3. newest' \in Nat
    BY <1>0, <2>1, <2>2, LastRead
  <2>4. Panicked'
    <3>1. \E l \in {"poke", "halted"} : stage' = [stage EXCEPT ![core] = l]
      BY <1>3 DEF PanicRead, At
    <3> QED BY <3>1 DEF CrumbIInv, CrumbTypes, Panicked, Running
  <2> QED BY <2>2, <2>3, <2>4 DEF GapInv
<1>4. CASE Reset
  <2>1. newest' = 0 /\ taken' = 0 /\ accum' = 0 /\ reported' = 0
    BY <1>4 DEF Reset
  <2> QED BY <2>1 DEF GapInv
<1>5. CASE /\ UNCHANGED <<newest, taken, accum, reported, dpc, scratch>>
           /\ ~Reset
  BY <1>5, GapStays, PanickedStays
<1>6. CASE TakeCrumb \/ Install \/ UNCHANGED allVars
  BY <1>4, <1>5, <1>6 DEF TakeCrumb, Install, allVars, vars, drainVars, delivery
<1>7. ASSUME NEW t \in Producers, ProduceOn(t)
      PROVE  GapInv'
  <2>1. UNCHANGED <<newest, taken, accum, reported, dpc, scratch>>
    BY <1>7 DEF ProduceOn, Log, FormatLine, Produce, PushWrite, SignalDrain, SendWrite,
       SendNoRoom, SpaceReady, SpacePending, drainVars, delivery
  <2> QED BY <2>1, <1>4, <1>5
<1>8. ASSUME NEW core \in Cores, WriteCrumb(core) \/ PanicPush(core) \/ Poke(core)
      PROVE  GapInv'
  <2>1. UNCHANGED <<newest, taken, accum, reported, dpc, scratch>>
    BY <1>8 DEF WriteCrumb, PanicPush, Poke, vars, drainVars, delivery
  <2> QED BY <2>1, <1>4, <1>5
<1> QED BY <1>1, <1>2, <1>3, <1>4, <1>6, <1>7, <1>8 DEF BNext, PanicStep

LEMMA GapInit == BInit => GapInv
<1> SUFFICES ASSUME BInit PROVE GapInv
  OBVIOUS
<1>1. newest = 0 /\ taken = 0 /\ accum = 0 /\ reported = 0
  BY DEF BInit, Init
<1> QED BY <1>1 DEF GapInv

\* Whatever is overwritten, whenever, and however the bytes are split into
\* slices: by the time the drain has nothing to deliver it has announced every
\* byte that is missing before the newest one it took.
THEOREM GapsAreMarked == BSpec => []GapsMarked
<1>1. GapInv /\ BytesInv => GapsMarked
  <2> SUFFICES ASSUME GapInv, BytesInv, dpc = "deliver", scratch = << >>, ~Panicked
               PROVE  newest - taken <= reported
    BY DEF GapsMarked
  <2>1. accum = 0 /\ newest <= taken + accum + reported
    BY DEF GapInv
  <2>2. newest \in Nat /\ taken \in Nat /\ reported \in Nat
    BY DEF GapInv, BytesInv
  <2> QED BY <2>1, <2>2
<1>2. CrumbIInv /\ BytesInv /\ LineInv /\ GapInv /\ [BNext]_allVars
      => (CrumbIInv /\ BytesInv /\ LineInv /\ GapInv)'
  BY CrumbStep, BytesStep, GapStep
<1> QED BY <1>1, <1>2, CrumbInit, BytesInit, GapInit, PTL DEF BSpec

-----------------------------------------------------------------------------
(* The panic line.                                                         *)

\* The bytes in the ring, and those in the hands of a drain that lives.
InRing == (First + 1)..(First + Used(ring))

InHand == IF Running("PRO") /\ dpc # "read" THEN Range(scratch) ELSE {}

\* Where the line of a core that panicked can be.
OwedIn(core) ==
  /\ stage[core] \in {"crumb", "push"} => owed = {}
  /\ stage[core] \in {"read", "poke"} => owed \subseteq InRing \cup InHand \cup Range(chunk[core])
  /\ stage[core] = "halted" => owed \subseteq InHand

\* One core panics at most, and the transport takes its bytes.
Claimed == ~gaveUp /\ \E c \in Cores : Running(c)

OwedInv ==
  /\ DOMAIN chunk = Cores
  /\ \A c \in Cores : stage[c] # "poke" => chunk[c] = << >>
  /\ Claimed => /\ ~Panicked => owed = {}
                /\ \A c \in Cores : OwedIn(c)

LEMMA NumbersRange ==
  ASSUME NEW f \in Nat, NEW l \in Nat
  PROVE  Range(Numbers(f, l)) = (f + 1)..(f + l)
<1>1. DOMAIN Numbers(f, l) = 1..l /\ \A i \in 1..l : Numbers(f, l)[i] = f + i
  BY DEF Numbers
<1>2. ASSUME NEW x \in Range(Numbers(f, l)) PROVE x \in (f + 1)..(f + l)
  BY <1>1 DEF Range
<1>3. ASSUME NEW x \in (f + 1)..(f + l) PROVE x \in Range(Numbers(f, l))
  <2>1. x - f \in 1..l /\ f + (x - f) = x
    OBVIOUS
  <2> QED BY <1>1, <2>1 DEF Range
<1> QED BY <1>2, <1>3

LEMMA RangeOfNone == Range(<< >>) = {}
BY DEF Range

\* What a write overwrites is what leaves the ring.
LEMMA Overwrites ==
  ASSUME BytesInv, BytesInv'
  PROVE  Overwritten = InRing \ InRing'
<1>1. Contents(ring) = Numbers(First, Used(ring)) /\ First \in Nat /\ Used(ring) \in Nat
  BY BytesFirst, HeldContents, RingSizePositive DEF BytesInv
<1>2. Holds(ring', First') /\ First' \in Nat /\ Used(ring') \in Nat
  <2>1. Holds(ring', First')
    BY DEF BytesInv
  <2>2. ring'.dropped \in Nat /\ Used(ring') \in 0..RING_SIZE
    BY <2>1, UsedBound DEF Holds, Rings
  <2>3. First' \in Nat
    BY <2>2 DEF First, Lost, BytesInv
  <2> QED BY <2>1, <2>2, <2>3, RingSizePositive
<1>3. Contents(ring') = Numbers(First', Used(ring'))
  BY <1>2, HeldContents
<1>4. Range(Contents(ring)) = InRing
  BY <1>1, NumbersRange DEF InRing
<1>5. Range(Contents(ring')) = InRing'
  BY <1>2, <1>3, NumbersRange DEF InRing
<1> QED BY <1>4, <1>5 DEF Overwritten

\* A slice holds what leaves the ring
LEMMA SliceTaken ==
  ASSUME BytesInv, NEW cap \in Nat \ {0},
         \/ ring' = AfterRead(ring, cap) /\ accum' = accum + ring.dropped
         \/ ring' = [AfterRead(ring, cap) EXCEPT !.dropped = ring.dropped] /\ accum' = accum,
         slice' = ReadBytes(ring, cap), taken' = taken + Len(slice'), UNCHANGED reported
  PROVE  InRing \subseteq InRing' \cup Range(slice') /\ (slice' = << >> => InRing = {})
<1>1. PICK l \in 0..Used(ring) :
         /\ First' = First + l /\ Used(ring') = Used(ring) - l /\ slice' = Numbers(First, l)
         /\ (l = 0 <=> Used(ring) = 0)
  BY GetStep
<1>2. First \in Nat /\ l \in Nat /\ Used(ring) \in Nat
  BY BytesFirst, RingSizePositive
<1>3. Range(slice') = (First + 1)..(First + l)
  BY <1>1, <1>2, NumbersRange
<1>4. InRing' = (First + l + 1)..(First + Used(ring))
  BY <1>1, <1>2 DEF InRing
<1>5. InRing \subseteq InRing' \cup Range(slice')
  <2>1. \A x \in InRing : x \in (First + 1)..(First + l) \/ x \in (First + l + 1)..(First + Used(ring))
    BY <1>2 DEF InRing
  <2> QED BY <1>3, <1>4, <2>1
<1>6. l # 0 => slice' # << >>
  BY <1>1, <1>2, NumbersLast
<1>7. l = 0 => InRing = {}
  BY <1>1, <1>2 DEF InRing
<1> QED BY <1>5, <1>6, <1>7

\* The whole panic line is in the ring when it has been pushed
LEMMA LineInRing ==
  ASSUME BytesInv, NEW n \in 1..RING_SIZE, ring' = Write(ring, NewBytes(n)),
         UNCHANGED <<accum, reported, taken, slice>>
  PROVE  Range(NewBytes(n)) \subseteq InRing'
<1>1. /\ First \in Nat /\ Used(ring) \in 0..RING_SIZE /\ Written = First + Used(ring) /\ n \in 0..RING_SIZE
  BY BytesFirst, RingSizePositive
<1>2. First' = First + Excess(ring, n) /\ Used(ring') = Used(ring) + n - Excess(ring, n)
  BY PutStep
<1>3. Range(NewBytes(n)) = (First + Used(ring) + 1)..(First + Used(ring) + n)
  <2>1. NewBytes(n) = Numbers(First + Used(ring), n)
    BY <1>1 DEF NewBytes, Numbers
  <2>2. First + Used(ring) \in Nat /\ n \in Nat
    BY <1>1, RingSizePositive
  <2> QED BY <2>1, <2>2, NumbersRange
<1>4. PICK e \in Nat : e = Excess(ring, n) /\ e <= Used(ring)
  BY <1>1, RingSizePositive DEF Excess
<1>5. InRing' = (First + e + 1)..(First + Used(ring) + n)
  BY <1>1, <1>2, <1>4, RingSizePositive DEF InRing
<1> QED BY <1>1, <1>3, <1>4, <1>5, RingSizePositive

LEMMA OwedInit == BInit => OwedInv
<1> SUFFICES ASSUME BInit PROVE OwedInv
  OBVIOUS
<1>1. /\ chunk = [c \in Cores |-> << >>] /\ owed = {}
      /\ stage = [c \in Cores |-> "running"]
  BY DEF BInit
<1> QED BY <1>1 DEF OwedInv, OwedIn

\* A step of a task
LEMMA OwedStays ==
  ASSUME OwedInv, UNCHANGED <<stage, chunk, gaveUp>>,
         Claimed => /\ owed' \subseteq owed
                    /\ \A x \in owed' : /\ x \in InHand => x \in InHand'
                                        /\ x \in InRing => x \in InRing' \/ x \in InHand'
  PROVE  OwedInv'
<1>1. UNCHANGED Claimed /\ UNCHANGED Panicked
  BY DEF Claimed, Panicked, Running
<1>2. ASSUME Claimed, NEW c \in Cores PROVE OwedIn(c)'
  <2>1. OwedIn(c)
    BY <1>2 DEF OwedInv
  <2>2. stage'[c] = stage[c] /\ chunk'[c] = chunk[c]
    OBVIOUS
  <2> QED BY <1>2, <2>1, <2>2 DEF OwedIn
<1> QED BY <1>1, <1>2 DEF OwedInv

\* A step of a core in on_panic
LEMMA OwedPanics ==
  ASSUME OwedInv, CrumbTypes, NEW core \in Cores, NEW l, stage' = [stage EXCEPT ![core] = l], l # "running",
         DOMAIN chunk' = Cores, \A c \in Cores \ {core} : chunk'[c] = chunk[c],
         l # "poke" => chunk'[core] = << >>,
         Claimed' => OwedIn(core)'
  PROVE  OwedInv'
<1>1. DOMAIN stage = Cores /\ stage'[core] = l /\ \A c \in Cores \ {core} : stage'[c] = stage[c]
  BY DEF CrumbTypes
<1>2. Panicked'
  BY <1>1 DEF Panicked, Running
<1>3. \A c \in Cores : stage'[c] # "poke" => chunk'[c] = << >>
  BY <1>1 DEF OwedInv
<1>4. ASSUME Claimed', NEW c \in Cores, c # core PROVE OwedIn(c)'
  <2>1. \A x \in Cores : x = c \/ x = core
    BY <1>4 DEF Cores
  <2>2. stage'[c] = "running"
    BY <1>1, <1>4, <2>1 DEF Claimed, Running
  <2> QED BY <2>2 DEF OwedIn
<1> QED BY <1>2, <1>3, <1>4 DEF OwedInv

LEMMA OwedStep ==
  ASSUME OwedInv, CrumbIInv, BytesInv, LineInv, [BNext]_allVars
  PROVE  OwedInv'
<1>0. CrumbTypes /\ (boot # "up" => Running("APP"))
  BY DEF CrumbIInv, PanicsCounted
<1>1. BytesInv' /\ Overwritten = InRing \ InRing'
  BY BytesStep, Overwrites
<1>2. CASE UNCHANGED <<stage, chunk, gaveUp, ring, taken, accum, reported, dpc, scratch, owed>>
  <2>1. InRing' = InRing /\ InHand' = InHand
    BY <1>2 DEF InRing, InHand, First, Lost, Used, Running
  <2> QED BY <1>2, <2>1, OwedStays
<1>3. CASE TakeCrumb \/ UNCHANGED allVars
  BY <1>2, <1>3 DEF TakeCrumb, allVars, vars, drainVars, delivery, coreVars
<1>4. CASE Install
  <2>1. UNCHANGED <<stage, chunk, gaveUp, owed>>
    BY <1>4 DEF Install, coreVars
  <2>2. ~Panicked
    BY <1>0, <1>4 DEF Install, Panicked, Cores
  <2>3. Claimed => owed = {}
    BY <2>2 DEF OwedInv
  <2> QED BY <2>1, <2>3, OwedStays
<1>5. ASSUME NEW t \in Producers, ProduceOn(t)
      PROVE  OwedInv'
  <2>1. UNCHANGED <<stage, chunk, gaveUp, dpc, scratch>> /\ (owed' = owed \ Overwritten \/ UNCHANGED <<owed, ring, taken, accum, reported>>)
    BY <1>5 DEF ProduceOn, Log, FormatLine, Produce, PushWrite, SignalDrain, SendWrite,
       SendNoRoom, SpaceReady, SpacePending, drainVars, delivery, coreVars
  <2>2. InHand' = InHand
    BY <2>1 DEF InHand, Running
  <2>3. CASE owed' = owed \ Overwritten
    BY <1>1, <2>1, <2>2, <2>3, OwedStays
  <2>4. CASE UNCHANGED <<owed, ring, taken, accum, reported>>
    BY <1>2, <2>1, <2>4
  <2> QED BY <2>1, <2>3, <2>4
<1>6. CASE DrainOn
  <2>1. UNCHANGED <<stage, chunk, gaveUp>> /\ Running("PRO")
    BY <1>6 DEF DrainOn, coreVars
  <2>2. CASE DrainRead
    <3>1. dpc = "read" /\ slice' = scratch' /\ dpc' = "report" /\ owed' = owed
      BY <1>6, <2>2 DEF DrainRead, DrainOn
    <3>2. Scratch \in Nat \ {0}
      BY ConsoleAssumption
    <3>3. /\ slice' = ReadBytes(ring, Scratch) /\ taken' = taken + Len(slice')
          /\ ring' = AfterRead(ring, Scratch) /\ accum' = accum + ring.dropped
          /\ UNCHANGED reported
      BY <2>2, <3>1 DEF DrainRead, Receive
    <3>4. InRing \subseteq InRing' \cup Range(slice')
      BY <3>2, <3>3, SliceTaken
    <3>5. InHand = {} /\ InHand' = Range(slice')
      BY <2>1, <3>1 DEF InHand, Running
    <3> QED BY <2>1, <3>1, <3>4, <3>5, OwedStays
  <2>3. CASE DrainReport \/ DrainHoldReport \/ DrainWake \/ DrainFreed
    <3>1. /\ UNCHANGED <<ring, scratch, taken, owed>>
          /\ dpc # "read" /\ (dpc' # "read" \/ scratch = << >>)
          /\ accum' + reported' = accum + reported /\ accum' \in Nat /\ reported' \in Nat
      BY <1>6, <2>3 DEF DrainOn, DrainReport, DrainHoldReport, DrainWake, DrainFreed, delivery, BytesInv
    <3>2. InRing' = InRing
      <4>1. StayKind
        BY <1>6, <2>3, <3>1 DEF StayKind, DrainOn, DrainReport, DrainHoldReport, DrainWake, DrainFreed, delivery
      <4> QED BY <3>1, <4>1, StayStep DEF InRing
    <3>3. InHand \subseteq InHand'
      BY <2>1, <3>1, RangeOfNone DEF InHand, Running
    <3> QED BY <2>1, <3>1, <3>2, <3>3, OwedStays
  <2>4. CASE DrainSend
    <3>1. UNCHANGED <<ring, taken, accum, reported, scratch>> /\ dpc = "send" /\ owed' = owed \ Range(scratch)
      BY <1>6, <2>4 DEF DrainOn, DrainSend, delivery
    <3>2. InHand = Range(scratch) /\ InRing' = InRing
      BY <2>1, <3>1 DEF InHand, InRing, First, Lost, Used
    <3> QED BY <2>1, <3>1, <3>2, OwedStays
  <2> QED BY <1>6, <2>2, <2>3, <2>4 DEF DrainOn, Drain
<1>7. ASSUME NEW core \in Cores, Panic(core)
      PROVE  OwedInv'
  <2>1. stage' = [stage EXCEPT ![core] = "crumb"] /\ UNCHANGED <<chunk, gaveUp, owed>> /\ Running(core)
    BY <1>7 DEF Panic, At
  <2>2. ASSUME Claimed' PROVE owed = {}
    <3>1. Claimed
      BY <2>1, <2>2 DEF Claimed
    <3>2. ~Panicked
      BY <1>0, <2>1, <2>2 DEF Claimed, Panicked, CrumbTypes, Running, Cores
    <3> QED BY <3>1, <3>2 DEF OwedInv
  <2>3. Claimed' => OwedIn(core)'
    BY <1>0, <2>1, <2>2 DEF OwedIn, CrumbTypes
  <2>4. DOMAIN chunk' = Cores /\ chunk'[core] = << >>
    BY <2>1 DEF OwedInv, Running
  <2> QED BY <1>0, <2>1, <2>3, <2>4, OwedPanics
<1>8. ASSUME NEW core \in Cores, WriteCrumb(core)
      PROVE  OwedInv'
  <2>1. stage' = [stage EXCEPT ![core] = "push"] /\ UNCHANGED <<chunk, gaveUp, owed>> /\ stage[core] = "crumb"
    BY <1>8 DEF WriteCrumb, At
  <2>2. Claimed' => Claimed
    BY <1>0, <2>1 DEF Claimed, CrumbTypes, Running
  <2>3. Claimed' => OwedIn(core)'
    BY <1>0, <2>1, <2>2 DEF OwedIn, OwedInv, CrumbTypes
  <2> QED BY <1>0, <2>1, <2>3, OwedPanics DEF OwedInv
<1>9. ASSUME NEW core \in Cores, PanicPush(core)
      PROVE  OwedInv'
  <2>1. /\ stage' = [stage EXCEPT ![core] = "read"] /\ UNCHANGED <<chunk, gaveUp>> /\ stage[core] = "push"
        /\ owed' = (owed \ Overwritten) \cup Range(NewBytes(PanicLen))
    BY <1>9 DEF PanicPush, At
  <2>2. Claimed' => Claimed
    BY <1>0, <2>1 DEF Claimed, CrumbTypes, Running
  <2>3. Range(NewBytes(PanicLen)) \subseteq InRing'
    BY <1>9, LineInRing, BootAssumption DEF PanicPush, drainVars, delivery
  <2>4. Claimed' => OwedIn(core)'
    <3>1. Claimed' => owed' \subseteq InRing'
      BY <2>1, <2>2, <2>3 DEF OwedInv, OwedIn
    <3> QED BY <1>0, <2>1, <3>1 DEF OwedIn, CrumbTypes
  <2>5. chunk'[core] = << >>
    BY <2>1 DEF OwedInv
  <2> QED BY <1>0, <2>1, <2>4, <2>5, OwedPanics DEF OwedInv
<1>10. ASSUME NEW core \in Cores, PanicRead(core)
       PROVE  OwedInv'
  <2>1. PanicChunk \in Nat \ {0}
    BY BootAssumption
  <2>2. /\ slice' = ReadBytes(ring, PanicChunk) /\ taken' = taken + Len(slice')
        /\ ring' = [AfterRead(ring, PanicChunk) EXCEPT !.dropped = ring.dropped]
        /\ UNCHANGED <<accum, reported, dpc, scratch, gaveUp, owed>>
        /\ chunk' = [chunk EXCEPT ![core] = slice']
        /\ stage[core] = "read"
        /\ stage' = [stage EXCEPT ![core] = IF slice' = << >> THEN "halted" ELSE "poke"]
    BY <1>10 DEF PanicRead, AfterPanicRead, At
  <2>3. InRing \subseteq InRing' \cup Range(slice') /\ (slice' = << >> => InRing = {})
    BY <2>1, <2>2, SliceTaken
  <2>4. PICK l \in {"poke", "halted"} : l = IF slice' = << >> THEN "halted" ELSE "poke"
    OBVIOUS
  <2>5. stage' = [stage EXCEPT ![core] = l]
    BY <2>2, <2>4
  <2>6. DOMAIN chunk' = Cores /\ chunk'[core] = slice' /\ \A c \in Cores \ {core} : chunk'[c] = chunk[c]
    BY <2>2 DEF OwedInv
  <2>7. Claimed' => Claimed
    BY <1>0, <2>2 DEF Claimed, CrumbTypes, Running
  <2>8. InHand \subseteq InHand'
    BY <1>0, <2>2 DEF InHand, CrumbTypes, Running
  <2>9. Claimed' => OwedIn(core)'
    <3>1. Claimed => owed \subseteq InRing \cup InHand
      BY <2>2, RangeOfNone DEF OwedInv, OwedIn
    <3>2. stage'[core] = l
      BY <1>0, <2>5 DEF CrumbTypes
    <3> QED BY <2>2, <2>3, <2>4, <2>6, <2>7, <2>8, <3>1, <3>2 DEF OwedIn
  <2> QED BY <1>0, <2>4, <2>5, <2>6, <2>9, OwedPanics
<1>11. ASSUME NEW core \in Cores, Poke(core)
       PROVE  OwedInv'
  <2>1. /\ chunk' = [chunk EXCEPT ![core] = << >>] /\ stage[core] = "poke"
        /\ stage' = [stage EXCEPT ![core] = "read"]
        /\ UNCHANGED <<ring, taken, accum, reported, dpc, scratch>>
        /\ \/ owed' = owed \ Range(chunk[core]) /\ UNCHANGED gaveUp
           \/ gaveUp' = TRUE
    BY <1>11 DEF Poke, At, vars, drainVars, delivery
  <2>2. InRing' = InRing
    BY <2>1 DEF InRing, First, Lost, Used
  <2>3. InHand \subseteq InHand'
    BY <1>0, <2>1 DEF InHand, CrumbTypes, Running
  <2>4. Claimed' => Claimed /\ owed' = owed \ Range(chunk[core])
    BY <1>0, <2>1 DEF Claimed, CrumbTypes, Running
  <2>5. Claimed' => OwedIn(core)'
    <3>1. Claimed => owed \subseteq InRing \cup InHand \cup Range(chunk[core])
      BY <2>1 DEF OwedInv, OwedIn
    <3>2. stage'[core] = "read"
      BY <1>0, <2>1 DEF CrumbTypes
    <3> QED BY <2>2, <2>3, <2>4, <3>1, <3>2 DEF OwedIn
  <2>6. DOMAIN chunk' = Cores /\ chunk'[core] = << >> /\ \A c \in Cores \ {core} : chunk'[c] = chunk[c]
    BY <2>1 DEF OwedInv
  <2> QED BY <1>0, <2>1, <2>5, <2>6, OwedPanics
<1>12. CASE Reset
  <2>1. /\ stage' = [c \in Cores |-> "running"] /\ chunk' = [c \in Cores |-> << >>] /\ owed' = {}
    BY <1>12 DEF Reset
  <2> QED BY <2>1 DEF OwedInv, OwedIn
<1> QED BY <1>3, <1>4, <1>5, <1>6, <1>7, <1>8, <1>9, <1>10, <1>11, <1>12 DEF BNext, PanicStep

\* A core that has halted alone has got its line out, whatever the length of the
\* ring, of the line and of the chunks, wherever the drain and the tasks were when
\* it panicked: only a drain that lives may still hold some of it.
THEOREM PanicsAreTold == BSpec => []PanicTold
<1>1. OwedInv /\ CrumbIInv => PanicTold
  <2> SUFFICES ASSUME OwedInv, CrumbIInv, Panicked, \A c \in Cores : stage[c] \in {"running", "halted"},
                      \E c \in Cores : Running(c), ~gaveUp
               PROVE  owed \subseteq (IF Running("PRO") THEN Range(scratch) ELSE {})
    BY DEF PanicTold
  <2>1. PICK c \in Cores : stage[c] = "halted"
    BY DEF Panicked, Running
  <2>2. owed \subseteq InHand
    BY <2>1 DEF OwedInv, OwedIn, Claimed
  <2> QED BY <2>2 DEF InHand
<1>2. CrumbIInv /\ BytesInv /\ LineInv /\ OwedInv /\ [BNext]_allVars
      => (CrumbIInv /\ BytesInv /\ LineInv /\ OwedInv)'
  BY CrumbStep, BytesStep, OwedStep
<1> QED BY <1>1, <1>2, CrumbInit, BytesInit, OwedInit, PTL DEF BSpec
=============================================================================
