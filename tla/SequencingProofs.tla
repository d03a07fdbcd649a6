--------------------------- MODULE SequencingProofs ---------------------------
(***************************************************************************)
(* What the proofs about the sequencers need to know of slots and laps,    *)
(* for every size of the ring.                                             *)
(***************************************************************************)
EXTENDS Sequencing, FiniteSetsExt, WellFoundedInduction, TLAPS

\* The size of the ring, without its being a power of two.
LEMMA BufferSizeNat == BufferSize \in Nat /\ BufferSize >= 1
  BY BufferSizeAssumption

\* A sequence has a slot of the ring.
LEMMA IndexType == \A s \in Int : calculateIndex(s) \in Slots
  BY BufferSizeAssumption DEF calculateIndex, Slots

\* std::min returns one of its arguments, and neither is smaller.
LEMMA LeastIsMin ==
  \A a, b \in Int : /\ Least(a, b) \in Int
                    /\ Least(a, b) = a \/ Least(a, b) = b
                    /\ Least(a, b) <= a /\ Least(a, b) <= b
  BY DEF Least

\* The least-number principle.
LEMMA LeastNumber ==
  ASSUME NEW T \in SUBSET Nat, T # {}
  PROVE  \E x \in T : \A y \in T : x <= y
  <1>1. PICK x \in T : \A y \in T : <<y, x>> \notin OpToRel(<, Nat)
    BY NatLessThanWellFounded, WFMin, Zenon
  <1>2. \A y \in T : ~(y < x)
    BY <1>1 DEF OpToRel
  <1> QED
    BY <1>2

\* getMinimumSequence, and the minimum a barrier takes.
LEMMA MinIsLeast ==
  ASSUME NEW S \in SUBSET Int, S # {}, NEW low \in Int, \A x \in S : low <= x
  PROVE  Min(S) \in S /\ \A y \in S : Min(S) <= y
  <1> DEFINE T == {k \in Nat : low + k \in S}
  <1>1. PICK x \in S : TRUE
    OBVIOUS
  <1>2. x - low \in T
    BY <1>1
  <1>3. PICK k \in T : \A l \in T : k <= l
    BY <1>2, LeastNumber
  <1>4. ASSUME NEW y \in S PROVE low + k <= y
    <2>1. y - low \in T
      BY <1>4
    <2> QED
      BY <1>3, <1>4, <2>1
  <1>5. \E z \in S : \A y \in S : z <= y
    BY <1>3, <1>4
  <1> QED
    BY <1>5, Zenon DEF Min

\* The greatest of numbers that are bounded.
LEMMA MaxIsGreatest ==
  ASSUME NEW S \in SUBSET Int, S # {}, NEW high \in Int, \A x \in S : x <= high
  PROVE  Max(S) \in S /\ \A y \in S : y <= Max(S)
  <1> DEFINE T == {k \in Nat : high - k \in S}
  <1>1. PICK x \in S : TRUE
    OBVIOUS
  <1>2. high - x \in T
    BY <1>1
  <1>3. PICK k \in T : \A l \in T : k <= l
    BY <1>2, LeastNumber
  <1>4. ASSUME NEW y \in S PROVE high - k >= y
    <2>1. high - y \in T
      <3>1. high - y \in Nat /\ high - (high - y) = y
        BY <1>4
      <3> QED
        BY <1>4, <3>1
    <2>2. k <= high - y
      BY <1>3, <2>1
    <2> QED
      BY <1>4, <2>2
  <1>5. \E z \in S : \A y \in S : z >= y
    BY <1>3, <1>4
  <1>6. Max(S) \in S /\ \A y \in S : Max(S) >= y
    BY <1>5, Zenon DEF Max
  <1> QED
    BY <1>6

\* Division with remainder.
LEMMA Division ==
  ASSUME NEW b \in Nat \ {0}, NEW s \in Int
  PROVE  /\ s \div b \in Int
         /\ s % b \in 0..(b - 1)
         /\ s = b * (s \div b) + (s % b)
  <1>1. s \div b \in Int /\ s % b \in 0..(b - 1)
    OBVIOUS
  <1>2. s = b * (s \div b) + (s % b)
    OBVIOUS
  <1> QED
    BY <1>1, <1>2

\* A positive multiple of a number is no smaller than the number.
LEMMA MultipleIsLarger ==
  ASSUME NEW b \in Nat \ {0}, NEW k \in Int, k >= 1
  PROVE  b * k >= b
  OBVIOUS

LEMMA MultiplesSubtract ==
  ASSUME NEW b \in Int, NEW k \in Int, NEW l \in Int
  PROVE  b * k - b * l = b * (k - l)
  OBVIOUS

\* Different numbers less than b apart have different remainders.
LEMMA NearRemaindersDiffer ==
  ASSUME NEW b \in Nat \ {0}, NEW s \in Int, NEW t \in Int, s < t, t - s < b
  PROVE  s % b # t % b
  <1> DEFINE q == s \div b
             r == t \div b
  <1> SUFFICES ASSUME s % b = t % b PROVE FALSE
    OBVIOUS
  <1>1. /\ q \in Int /\ r \in Int /\ s % b \in 0..(b - 1)
        /\ s = b * q + (s % b) /\ t = b * r + (t % b)
    BY Division
  <1> HIDE DEF q, r
  <1>2. b * q \in Int /\ b * r \in Int
    BY <1>1
  <1>3. t - s = b * r - b * q
    BY <1>1, <1>2
  <1>4. t - s = b * (r - q)
    BY <1>1, <1>3, MultiplesSubtract
  <1>5. CASE r - q >= 1
    BY <1>1, <1>4, <1>5, MultipleIsLarger
  <1>6. CASE r - q <= 0
    <2>1. b * (r - q) <= 0
      BY <1>1, <1>6
    <2> QED
      BY <1>4, <2>1
  <1> QED
    BY <1>1, <1>5, <1>6

\* One divisor further: the same remainder, the next quotient.
LEMMA NextLap ==
  ASSUME NEW b \in Nat \ {0}, NEW s \in Int
  PROVE  /\ (s + b) % b = s % b
         /\ (s + b) \div b = (s \div b) + 1
  OBVIOUS

\* Two sequences less than a lap apart have different slots.
LEMMA NearSlotsDiffer ==
  ASSUME NEW s \in Int, NEW t \in Int, s # t, s - t < BufferSize, t - s < BufferSize
  PROVE  calculateIndex(s) # calculateIndex(t)
  <1>0. BufferSize \in Nat \ {0}
    BY BufferSizeAssumption
  <1>1. CASE s < t
    <2>1. s % BufferSize # t % BufferSize
      BY <1>0, <1>1, NearRemaindersDiffer
    <2> QED
      BY <2>1 DEF calculateIndex
  <1>2. CASE t < s
    <2>1. t % BufferSize # s % BufferSize
      BY <1>0, <1>2, NearRemaindersDiffer
    <2> QED
      BY <2>1 DEF calculateIndex
  <1> QED
    BY <1>1, <1>2

\* A sequence and the one a lap later share their slot.
LEMMA LapSharesSlot ==
  ASSUME NEW s \in Int
  PROVE  calculateIndex(s + BufferSize) = calculateIndex(s)
  <1>1. BufferSize \in Nat \ {0}
    BY BufferSizeAssumption
  <1>2. (s + BufferSize) % BufferSize = s % BufferSize
    BY <1>1, NextLap
  <1> QED
    BY <1>2 DEF calculateIndex

=============================================================================
