----------------------------- MODULE CbOpsProof -----------------------------
(***************************************************************************)
(* Lemmas about the index arithmetic of CbOps, for every size of the       *)
(* buffer and width of the counters.  The first ones are what the proofs   *)
(* use of "%": free-running counters are compared and added up modulo      *)
(* their width, and reduced to slots modulo a divisor of it.               *)
(***************************************************************************)
EXTENDS CbOps, TLAPS

\* A number is a multiple of s and its remainder.
LEMMA ModDiv ==
  ASSUME NEW a \in Int, NEW s \in Nat \ {0}
  PROVE  a % s \in 0 .. s-1 /\ \E k \in Int : a = k * s + (a % s)
  <1>1. a = (a \div s) * s + (a % s) /\ a % s \in 0 .. s-1
    OBVIOUS
  <1>2. a \div s \in Int
    OBVIOUS
  <1> QED
    BY <1>1, <1>2

\* The remainder is the only number of its kind.
LEMMA ModUnique ==
  ASSUME NEW s \in Nat \ {0}, NEW k \in Int, NEW r \in 0 .. s-1
  PROVE  (k * s + r) % s = r
  OBVIOUS

\* Whole turns do not change a remainder.
LEMMA ModShift ==
  ASSUME NEW s \in Nat \ {0}, NEW k \in Int, NEW a \in Int
  PROVE  (a + k * s) % s = a % s
  <1>1. PICK r \in 0 .. s-1 : a % s = r
    BY ModDiv
  <1>2. PICK j \in Int : a = j * s + r
    BY ModDiv, <1>1
  <1>3. a + k * s = (j + k) * s + r
    BY <1>2
  <1>4. ((j + k) * s + r) % s = r
    BY ModUnique
  <1> QED
    BY <1>1, <1>3, <1>4

\* A number below s is its own remainder.
LEMMA ModSmall ==
  ASSUME NEW s \in Nat \ {0}, NEW a \in 0 .. s-1
  PROVE  a % s = a
  <1>1. (0 * s + a) % s = a
    BY ModUnique
  <1> QED
    BY <1>1

\* A term may be reduced before it is added.
LEMMA ModSum ==
  ASSUME NEW s \in Nat \ {0}, NEW a \in Int, NEW b \in Int
  PROVE  ((a % s) + b) % s = (a + b) % s
  <1>1. PICK p \in Int : a % s = p
    BY ModDiv
  <1>2. PICK j \in Int : a = j * s + p
    BY ModDiv, <1>1
  <1>3. a + b = (p + b) + j * s
    BY <1>2
  <1>4. p + b \in Int
    OBVIOUS
  <1>5. ((p + b) + j * s) % s = (p + b) % s
    BY ModShift, <1>4
  <1> QED
    BY <1>1, <1>3, <1>5

\* Two numbers closer than s that have the same remainder are equal.
LEMMA ModEq ==
  ASSUME NEW s \in Nat \ {0}, NEW a \in Int, NEW b \in Int,
         a % s = b % s, a - b < s, b - a < s
  PROVE  a = b
  <1>1. PICK p \in Int : a % s = p
    BY ModDiv
  <1>2. PICK j \in Int : a = j * s + p
    BY ModDiv, <1>1
  <1>3. b % s = p
    BY <1>1
  <1>4. PICK k \in Int : b = k * s + p
    BY ModDiv, <1>3
  <1>5. a - b = (j - k) * s
    BY <1>2, <1>4
  <1>6. j - k < 1
    <2> SUFFICES ASSUME j - k >= 1 PROVE FALSE
      OBVIOUS
    <2>1. (j - k) * s >= 1 * s
      OBVIOUS
    <2> QED
      BY <2>1, <1>5
  <1>7. k - j < 1
    <2> SUFFICES ASSUME k - j >= 1 PROVE FALSE
      OBVIOUS
    <2>1. (k - j) * s >= 1 * s
      OBVIOUS
    <2> QED
      BY <2>1, <1>5
  <1>8. j = k
    BY <1>6, <1>7
  <1> QED
    BY <1>8, <1>5

\* Reduction modulo d * s loses nothing that is seen modulo s.
LEMMA ModMod ==
  ASSUME NEW s \in Nat \ {0}, NEW d \in Nat \ {0}, NEW a \in Int, NEW l \in Int
  PROVE  ((a % (d * s)) + l) % s = (a + l) % s
  <1>0. d * s \in Nat \ {0}
    OBVIOUS
  <1>1. PICK t \in Int : a % (d * s) = t
    BY ModDiv, <1>0
  <1>2. PICK j \in Int : a = j * (d * s) + t
    BY ModDiv, <1>0, <1>1
  <1>3. a + l = (t + l) + (j * d) * s
    BY <1>2
  <1>4. j * d \in Int /\ t + l \in Int
    OBVIOUS
  <1>5. ((t + l) + (j * d) * s) % s = (t + l) % s
    BY ModShift, <1>4
  <1> QED
    BY <1>1, <1>3, <1>5

\* A difference of reduced counters is the difference of the counters.
LEMMA ModDiff ==
  ASSUME NEW s \in Nat \ {0}, NEW d \in Nat \ {0}, NEW a \in Int, NEW b \in Int
  PROVE  ((a % (d * s)) - (b % (d * s))) % s = (a - b) % s
  <1>0. d * s \in Nat \ {0}
    OBVIOUS
  <1>1. PICK p \in Int : a % (d * s) = p
    BY ModDiv, <1>0
  <1>2. PICK j \in Int : a = j * (d * s) + p
    BY ModDiv, <1>0, <1>1
  <1>3. PICK q \in Int : b % (d * s) = q
    BY ModDiv, <1>0
  <1>4. PICK k \in Int : b = k * (d * s) + q
    BY ModDiv, <1>0, <1>3
  <1>5. a - b = (p - q) + ((j - k) * d) * s
    BY <1>2, <1>4
  <1>6. (j - k) * d \in Int /\ p - q \in Int
    OBVIOUS
  <1>7. ((p - q) + ((j - k) * d) * s) % s = (p - q) % s
    BY ModShift, <1>6
  <1> QED
    BY <1>1, <1>3, <1>5, <1>7

-----------------------------------------------------------------------------
\* The constants, and the functions of the code on them.

LEMMA SizeFacts == Size \in Nat \ {0} /\ Modulus \in Nat \ {0} /\ Mask = Size - 1
  BY SizeAssumption, ModulusAssumption DEF Mask

LEMMA IdxType == ASSUME NEW a \in Int PROVE Idx(a) \in Slots
  BY SizeFacts, ModDiv DEF Idx, Slots

LEMMA IdxSmall == ASSUME NEW a \in Slots PROVE Idx(a) = a
  BY SizeFacts, ModSmall DEF Idx, Slots

LEMMA IdxSum == ASSUME NEW a \in Int, NEW k \in Int PROVE Idx(Idx(a) + k) = Idx(a + k)
  <1>1. Size \in Nat \ {0}
    BY SizeFacts
  <1>2. ((a % Size) + k) % Size = (a + k) % Size
    BY <1>1, ModSum
  <1> QED
    BY <1>2 DEF Idx

LEMMA IdxDiff == ASSUME NEW a \in Int, NEW b \in Int
                 PROVE  (Idx(a) - Idx(b)) % Size = (a - b) % Size
  <1>1. Size \in Nat \ {0} /\ 1 \in Nat \ {0} /\ 1 * Size = Size
    BY SizeFacts
  <1>2. ((a % (1 * Size)) - (b % (1 * Size))) % Size = (a - b) % Size
    BY <1>1, ModDiff
  <1> QED
    BY <1>1, <1>2 DEF Idx

LEMMA IdxTurn == ASSUME NEW a \in Int PROVE Idx(a + Size) = Idx(a)
  <1>1. Size \in Nat \ {0} /\ 1 * Size = Size
    BY SizeFacts
  <1>2. \A k \in Int : (a + k * Size) % Size = a % Size
    BY <1>1, ModShift
  <1>3. (a + 1 * Size) % Size = a % Size
    BY <1>2
  <1> QED
    BY <1>1, <1>3 DEF Idx

\* Two positions less than Size apart are different slots.
LEMMA OwnSlot == ASSUME NEW a \in Int, NEW b \in Int, a < b, b - a < Size
                 PROVE  Idx(a) # Idx(b)
  <1>1. Size \in Nat \ {0}
    BY SizeFacts
  <1>2. ASSUME a % Size = b % Size PROVE FALSE
    <2>1. a - b < Size
      BY <1>1
    <2>2. a = b
      BY <1>1, <1>2, <2>1, ModEq
    <2> QED
      BY <2>2
  <1> QED
    BY <1>2 DEF Idx

LEMMA IncType == ASSUME NEW a \in Int, NEW k \in Int PROVE Inc(a, k) \in Words
  <1>1. a + k \in Int
    OBVIOUS
  <1> QED
    BY SizeFacts, ModDiv, <1>1 DEF Inc, Words

LEMMA CountType == ASSUME NEW w \in Words, NEW r \in Words
                   PROVE  CbDataCount(w, r) \in Slots /\ CbEmptyCount(w, r) \in Slots
  <1>1. w - r \in Int
    BY SizeFacts DEF Words
  <1>2. (w - r) % Size \in 0 .. Size - 1
    BY SizeFacts, ModDiv, <1>1
  <1> QED
    BY SizeFacts, <1>2 DEF CbDataCount, CbEmptyCount, Slots

\* A counter that has wrapped names the same slots as one that has not.
LEMMA SlotOfWord == ASSUME NEW a \in Int, NEW l \in Int
                    PROVE  Idx((a % Modulus) + l) = Idx(a + l)
  <1>1. PICK m \in 1 .. Modulus : Modulus = m * Size
    BY ModulusAssumption
  <1>2. m \in Nat \ {0}
    BY <1>1, SizeFacts
  <1> QED
    BY <1>1, <1>2, SizeFacts, ModMod DEF Idx

\* The difference of two counters is that of what they count, up to Size.
LEMMA CountOfWords == ASSUME NEW a \in Int, NEW b \in Int, b <= a, a - b < Size
                      PROVE  CbDataCount(a % Modulus, b % Modulus) = a - b
  <1>1. PICK m \in 1 .. Modulus : Modulus = m * Size
    BY ModulusAssumption
  <1>2. m \in Nat \ {0}
    BY <1>1, SizeFacts
  <1>3. ((a % Modulus) - (b % Modulus)) % Size = (a - b) % Size
    BY <1>1, <1>2, SizeFacts, ModDiff
  <1>4. a - b \in 0 .. Size - 1
    BY SizeFacts
  <1>5. (a - b) % Size = a - b
    BY <1>4, SizeFacts, ModSmall
  <1> QED
    BY <1>3, <1>5 DEF CbDataCount

LEMMA IncOfWord == ASSUME NEW a \in Int, NEW k \in Int
                   PROVE  Inc(a % Modulus, k) = (a + k) % Modulus
  BY SizeFacts, ModSum DEF Inc

(***************************************************************************)
(* CbIsFull is true of a buffer that holds one byte, and of no other,      *)
(* whatever room CbEmptyCount says there is (c_buffer.h:90-92).            *)
(***************************************************************************)
THEOREM CbIsFullMeansOneByte ==
  ASSUME Size > 1, NEW w \in Words, NEW r \in Words
  PROVE  CbIsFull(w, r) <=> CbDataCount(w, r) = 1
  <1>1. w \in Int /\ r \in Int /\ r + 1 \in Int /\ w - r \in Int /\ -r \in Int
    BY SizeFacts DEF Words
  <1>2. Idx(1) = 1
    <2>1. 1 \in Slots
      BY SizeFacts DEF Slots
    <2> QED
      BY <2>1, IdxSmall
  <1>3. CbDataCount(w, r) = Idx(w - r)
    BY DEF CbDataCount, Idx
  <1>4. ASSUME Idx(r + 1) = Idx(w) PROVE Idx(w - r) = 1
    <2>1. Idx(Idx(w) + (-r)) = Idx(w + (-r)) /\ w + (-r) = w - r
      BY <1>1, IdxSum
    <2>2. Idx(Idx(r + 1) + (-r)) = Idx((r + 1) + (-r)) /\ (r + 1) + (-r) = 1
      BY <1>1, IdxSum
    <2> QED
      BY <1>2, <1>4, <2>1, <2>2
  <1>5. ASSUME Idx(w - r) = 1 PROVE Idx(r + 1) = Idx(w)
    <2>1. Idx(Idx(w - r) + r) = Idx((w - r) + r) /\ (w - r) + r = w
      BY <1>1, IdxSum
    <2>2. Idx(w - r) + r = r + 1
      BY <1>1, <1>5
    <2> QED
      BY <2>1, <2>2
  <1> QED
    BY <1>3, <1>4, <1>5 DEF CbIsFull

\* The number of bytes, from the two slots.
LEMMA CountOfSlots ==
  ASSUME NEW w \in Int, NEW r \in Int
  PROVE  CbDataCount(w, r) = IF Idx(w) < Idx(r) THEN Idx(w) - Idx(r) + Size ELSE Idx(w) - Idx(r)
  <1>1. PICK a \in Slots : Idx(w) = a
    BY IdxType
  <1>2. PICK b \in Slots : Idx(r) = b
    BY IdxType
  <1>3. CbDataCount(w, r) = Idx(a - b)
    BY <1>1, <1>2, IdxDiff DEF CbDataCount, Idx
  <1>4. CASE a < b
    <2>1. a - b \in Int /\ a - b + Size \in Slots
      BY <1>4, SizeFacts DEF Slots
    <2>2. Idx(a - b + Size) = Idx(a - b)
      BY <2>1, IdxTurn
    <2> QED
      BY <1>1, <1>2, <1>3, <1>4, <2>1, <2>2, IdxSmall
  <1>5. CASE ~(a < b)
    <2>1. a - b \in Slots
      BY <1>5, SizeFacts DEF Slots
    <2> QED
      BY <1>1, <1>2, <1>3, <1>5, <2>1, IdxSmall
  <1> QED
    BY <1>4, <1>5
=============================================================================
