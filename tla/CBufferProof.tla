---------------------------- MODULE CBufferProof ----------------------------
(***************************************************************************)
(* Theorems about CBuffer, for every size of the memory, width of the      *)
(* counters, alphabet and request.  A position is a counter before it      *)
(* wraps; r + i is the position of the byte at distance i from counter r.  *)
(***************************************************************************)
EXTENDS CBuffer, CbOpsProof, SequenceTheorems

\* What a buffer holds, as a function of its memory and its two counters.
Held(d, w, r) == [i \in 1 .. CbDataCount(w, r) |-> d[Idx(r + (i - 1))]]

\* The memory d after the n items have been stored from counter w on.
Put(d, w, items, n) ==
    [s \in Slots |-> IF Idx(s - w) < n THEN items[Idx(s - w) + 1] ELSE d[s]]

\* Bytes held after n more have been written to a buffer that held c.
Kept(c, n) == AtMost(c + n, Mask)

LEMMA Words_Int == ASSUME NEW w \in Words PROVE w \in Int
  BY SizeFacts DEF Words

LEMMA CountIsNat == ASSUME NEW w \in Int, w \in Words, NEW r \in Int, r \in Words
                    PROVE  /\ CbDataCount(w, r) \in Nat
                           /\ 0 <= CbDataCount(w, r) /\ CbDataCount(w, r) < Size
  BY CountType, SizeFacts DEF Slots

LEMMA CountIsIdx == ASSUME NEW w \in Int, w \in Words, NEW r \in Int, r \in Words
                    PROVE  CbDataCount(w, r) = Idx(w - r)
  BY DEF CbDataCount, Idx

\* The write counter stands CbDataCount positions behind the read counter.
LEMMA WriteAt == ASSUME NEW w \in Int, w \in Words, NEW r \in Int, r \in Words, NEW c \in Int, c = CbDataCount(w, r),
                        NEW k \in Int, NEW j \in Int, j = c + k
                 PROVE  Idx(w + k) = Idx(r + j)
  <1>1. w \in Int /\ r \in Int /\ w - r \in Int /\ r + k \in Int
    BY Words_Int
  <1>2. Idx(Idx(w - r) + (r + k)) = Idx((w - r) + (r + k))
    BY <1>1, IdxSum
  <1>3. Idx(w - r) = c
    BY CountIsIdx
  <1>4. (w - r) + (r + k) = w + k /\ c + (r + k) = r + j
    BY <1>1
  <1> QED
    BY <1>2, <1>3, <1>4

\* Two positions d apart have their slots d apart.
LEMMA Apart == ASSUME NEW a \in Int, NEW b \in Int, NEW d \in Int, 0 <= d, d < Size,
                      Idx(a) = Idx(b + d)
               PROVE  Idx(a - b) = d
  <1>1. b + d \in Int /\ a - b \in Int
    OBVIOUS
  <1>2. (Idx(a) - Idx(b)) % Size = (a - b) % Size
    BY IdxDiff
  <1>3. (Idx(b + d) - Idx(b)) % Size = ((b + d) - b) % Size
    BY <1>1, IdxDiff
  <1>4. (b + d) - b = d
    BY <1>1
  <1>5. Idx(d) = d
    <2>1. d \in Slots
      BY SizeFacts DEF Slots
    <2> QED
      BY <2>1, IdxSmall
  <1> QED
    BY <1>2, <1>3, <1>4, <1>5 DEF Idx

\* A counter can be moved on by any number.
LEMMA IncAt == ASSUME NEW w \in Int, w \in Words, NEW n \in Int, NEW k \in Int
               PROVE  Idx(Inc(w, n) + k) = Idx(w + (n + k))
  <1>1. w \in Int /\ w + n \in Int /\ (w + n) + k = w + (n + k)
    BY Words_Int
  <1>2. Idx(((w + n) % Modulus) + k) = Idx((w + n) + k)
    BY <1>1, SlotOfWord
  <1> QED
    BY <1>1, <1>2 DEF Inc

LEMMA IncSlot == ASSUME NEW w \in Int, w \in Words, NEW n \in Int PROVE Idx(Inc(w, n)) = Idx(w + n)
  <1>1. Inc(w, n) \in Int /\ w \in Int
    BY Words_Int, IncType
  <1>2. Idx(Inc(w, n) + 0) = Idx(w + (n + 0))
    BY IncAt
  <1>3. Inc(w, n) + 0 = Inc(w, n) /\ n + 0 = n
    BY <1>1
  <1> QED
    BY <1>2, <1>3

LEMMA HeldIsSeq ==
  ASSUME NEW d \in [Slots -> Byte], NEW w \in Int, w \in Words, NEW r \in Int, r \in Words
  PROVE  Held(d, w, r) \in Seq(Byte) /\ Len(Held(d, w, r)) = CbDataCount(w, r)
  <1>1. PICK c \in Nat : CbDataCount(w, r) = c
    BY CountIsNat
  <1>2. \A i \in 1 .. c : d[Idx(r + (i - 1))] \in Byte
    <2> TAKE i \in 1 .. c
    <2>1. r + (i - 1) \in Int
      BY Words_Int
    <2> QED
      BY <2>1, IdxType
  <1>3. Held(d, w, r) \in [1 .. c -> Byte]
    BY <1>1, <1>2 DEF Held
  <1> QED
    BY <1>1, <1>3

----------------------------------------------------------------------------
(* A write, whichever way it is done *)

LEMMA KeptFacts == ASSUME NEW c \in Int, 0 <= c, c < Size, NEW n \in Int, n = 1 \/ n < Size, n > 0
                   PROVE  /\ Kept(c, n) \in Int /\ 0 <= Kept(c, n) /\ Kept(c, n) < Size
                          /\ Kept(c, n) <= c + n /\ n <= Size
                          /\ c + n < Size => Kept(c, n) = c + n
                          /\ c + n >= Size => Kept(c, n) = Size - 1
  BY SizeFacts DEF Kept, AtMost

\* The number of bytes afterwards.
LEMMA WriteCount ==
  ASSUME NEW w \in Int, w \in Words, NEW r \in Int, r \in Words, NEW r2 \in Int, r2 \in Words,
         NEW n \in Int, n > 0, n = 1 \/ n < Size, NEW c \in Int, c = CbDataCount(w, r),
         NEW j \in Int, j = c + n, NEW m \in Int, m = Kept(c, n), Idx(r2 + m) = Idx(r + j)
  PROVE  CbDataCount(Inc(w, n), r2) = Kept(c, n)
  <1>1. 0 <= c /\ c < Size
    BY CountIsNat
  <1>2. 0 <= m /\ m < Size
    BY <1>1, KeptFacts
  <1>3. PICK a \in Int : a = Inc(w, n)
    BY Words_Int, IncType
  <1>4. Idx(a) = Idx(w + n)
    BY <1>3, IncSlot
  <1>6. Idx(w + n) = Idx(r + j)
    BY WriteAt
  <1>7. r2 \in Int /\ a \in Words
    BY <1>3, IncType, Words_Int
  <1>8. Idx(a) = Idx(r2 + m)
    BY <1>4, <1>6
  <1>9. Idx(a - r2) = m
    BY <1>2, <1>7, <1>8, Apart
  <1> QED
    BY <1>3, <1>7, <1>9, CountIsIdx

LEMMA Offset ==
  ASSUME NEW c \in Int, NEW n \in Int, NEW m \in Int, NEW k \in Int, NEW s \in Int,
         c + n - m <= k, k < c + n, m < s, n <= s, n > 0
  PROVE  /\ (k - c) + s >= n /\ k - c < n /\ k - c < s
         /\ k < c => 0 <= (k - c) + s /\ (k - c) + s < s
         /\ ~(k < c) => 0 <= k - c
  OBVIOUS

\* The byte at each distance afterwards: an old one, or one of those written.
LEMMA WriteByte ==
  ASSUME NEW d \in [Slots -> Byte], NEW w \in Int, w \in Words, NEW r \in Int, r \in Words,
         NEW items, NEW n \in Int, n > 0, n = 1 \/ n < Size,
         NEW c \in Int, c = CbDataCount(w, r), NEW m \in Int, m = Kept(c, n),
         NEW k \in Int, c + n - m <= k, k < c + n
  PROVE  Put(d, w, items, n)[Idx(r + k)] = IF k < c THEN d[Idx(r + k)] ELSE items[k - c + 1]
  <1>0. w \in Int /\ r \in Int
    BY Words_Int
  <1>1. 0 <= c /\ c < Size /\ w \in Int /\ r \in Int /\ r + k \in Int
    BY <1>0, CountIsNat
  <1>2. PICK s \in Slots : s = Idx(r + k)
    BY <1>1, IdxType
  <1>3. s \in Int /\ Idx(s) = s
    BY <1>2, IdxSmall, SizeFacts DEF Slots
  <1>4. PICK e \in Int : e = k - c
    OBVIOUS
  <1>5. Idx(s) = Idx(w + e)
    <2>1. k = c + e
      BY <1>4
    <2>2. Idx(w + e) = Idx(r + k)
      BY <2>1, WriteAt
    <2> QED
      BY <1>2, <1>3, <2>2
  <1>8. PICK z \in Int : z = Size
    BY SizeFacts
  <1>9. m < z /\ n <= z
    BY <1>1, <1>8, KeptFacts
  <1>10. /\ e + z >= n /\ e < n /\ e < z
         /\ k < c => 0 <= e + z /\ e + z < z
         /\ ~(k < c) => 0 <= e
    BY <1>4, <1>9, Offset
  <1>6. CASE k < c
    <2>1. PICK f \in Int : f = e + z
      OBVIOUS
    <2>2. 0 <= f /\ f < Size /\ f >= n
      BY <1>6, <1>8, <1>10, <2>1
    <2>3. Idx(w + f) = Idx(w + e)
      <3>1. w + e \in Int /\ (w + e) + Size = w + f
        BY <1>1, <1>8, <2>1
      <3> QED
        BY <3>1, IdxTurn
    <2>4. Idx(s) = Idx(w + f)
      BY <1>5, <2>3
    <2>5. Idx(s - w) = f
      BY <1>1, <1>3, <2>2, <2>4, Apart
    <2> QED
      BY <1>2, <1>6, <2>2, <2>5 DEF Put
  <1>7. CASE ~(k < c)
    <2>1. 0 <= e /\ e < Size
      BY <1>7, <1>8, <1>10
    <2>2. Idx(s - w) = e
      BY <1>1, <1>3, <1>5, <2>1, Apart
    <2> QED
      BY <1>2, <1>4, <1>7, <1>10, <2>2 DEF Put
  <1> QED
    BY <1>6, <1>7

\* Positions of the same slot stay together.
LEMMA SameSlot == ASSUME NEW a \in Int, NEW b \in Int, Idx(a) = Idx(b), NEW k \in Int,
                         NEW l \in Int, l = b + k
                  PROVE  Idx(a + k) = Idx(l)
  <1>1. Idx(Idx(a) + k) = Idx(a + k) /\ Idx(Idx(b) + k) = Idx(b + k)
    BY IdxSum
  <1> QED
    BY <1>1

LEMMA PartSize == ASSUME NEW a \in Int, NEW b \in Int, a <= b + 1 PROVE \E m \in Int : m = b - a + 1 /\ 0 <= m
  OBVIOUS

LEMMA PartEnds == ASSUME NEW t \in Int, 0 <= t, NEW m \in Int, 0 <= m
                  PROVE  \E a, b \in Int : /\ a = t + 1 /\ b = t + m /\ 1 <= a /\ a <= b + 1
                                           /\ b - a + 1 = m
                                           /\ \A i \in 1 .. m : a + i - 1 = t + i
  <1> WITNESS t + 1 \in Int, t + m \in Int
  <1> QED
    OBVIOUS

LEMMA SeqIs == ASSUME NEW s \in Seq(Byte), NEW m \in Int, m = Len(s) PROVE s = [i \in 1 .. m |-> s[i]]
  OBVIOUS

\* Part of a sequence, as a function.
LEMMA PartIs ==
  ASSUME NEW S \in Seq(Byte), NEW a \in Int, NEW b \in Int, 1 <= a, a <= b + 1, b <= Len(S)
  PROVE  SubSeq(S, a, b) = [i \in 1 .. b - a + 1 |-> S[a + i - 1]] /\ SubSeq(S, a, b) \in Seq(Byte)
  <1>1. \A i \in a .. b : i \in 1 .. Len(S)
    OBVIOUS
  <1>2. \A i \in a .. b : S[i] \in Byte
    BY <1>1, ElementOfSeq
  <1>3. /\ SubSeq(S, a, b) \in Seq(Byte)
        /\ Len(SubSeq(S, a, b)) = IF a <= b THEN b - a + 1 ELSE 0
        /\ \A i \in 1 .. b - a + 1 : SubSeq(S, a, b)[i] = S[a + i - 1]
    BY <1>2, SubSeqProperties
  <1>4. PICK m \in Int : m = b - a + 1 /\ 0 <= m
    BY PartSize
  <1>5. Len(SubSeq(S, a, b)) = m
    BY <1>3, <1>4
  <1>6. \A i \in 1 .. m : SubSeq(S, a, b)[i] = S[a + i - 1]
    BY <1>3, <1>4
  <1>7. SubSeq(S, a, b) = [i \in 1 .. m |-> S[a + i - 1]]
    <2>1. SubSeq(S, a, b) = [i \in 1 .. m |-> SubSeq(S, a, b)[i]]
      BY <1>3, <1>4, <1>5, SeqIs
    <2> QED
      BY <1>6, <2>1, Zenon
  <1> QED
    BY <1>3, <1>4, <1>7

\* m elements of S, after the first t.
IsPart(S, t, m) == t \in Nat /\ m \in Nat /\ t + m <= Len(S)

LEMMA PartOf ==
  ASSUME NEW S \in Seq(Byte), NEW t, NEW m, IsPart(S, t, m)
  PROVE  SubSeq(S, t + 1, t + m) = [i \in 1 .. m |-> S[t + i]] /\ SubSeq(S, t + 1, t + m) \in Seq(Byte)
  <1>1. t \in Int /\ 0 <= t /\ m \in Int /\ 0 <= m /\ t + m <= Len(S)
    BY DEF IsPart
  <1>2. PICK a, b \in Int : /\ a = t + 1 /\ b = t + m /\ 1 <= a /\ a <= b + 1
                            /\ b - a + 1 = m
                            /\ \A i \in 1 .. m : a + i - 1 = t + i
    BY <1>1, PartEnds
  <1>3. SubSeq(S, a, b) = [i \in 1 .. b - a + 1 |-> S[a + i - 1]] /\ SubSeq(S, a, b) \in Seq(Byte)
    <2>1. 1 <= a /\ a <= b + 1
      BY <1>2
    <2>2. b <= Len(S)
      BY <1>1, <1>2
    <2> QED
      BY <2>1, <2>2, PartIs, Zenon
  <1>4. [i \in 1 .. b - a + 1 |-> S[a + i - 1]] = [i \in 1 .. m |-> S[t + i]]
    <2>1. \A i \in 1 .. m : S[a + i - 1] = S[t + i]
      BY <1>2, Zenon
    <2>2. b - a + 1 = m
      BY <1>2
    <2> QED
      BY <2>1, <2>2, Zenon
  <1>5. SubSeq(S, a, b) = SubSeq(S, t + 1, t + m)
    BY <1>2, Zenon
  <1> QED
    BY <1>3, <1>4, <1>5, Zenon

\* Of j bytes the last m are kept and t pushed out.
Trim(j, m, t) == j \in Nat /\ m \in Int /\ t \in Int /\ m = AtMost(j, Mask) /\ t = j - m

\* The write that moves the counters from w and r to Inc(w, n) and r2, where
\* c bytes were held, m are held afterwards and t are pushed out.
WriteStep(d, w, r, r2, n, c, m, t) ==
    /\ d \in [Slots -> Byte] /\ w \in Words /\ r \in Words /\ r2 \in Words
    /\ n \in Int /\ n > 0 /\ (n = 1 \/ n < Size)
    /\ c = CbDataCount(w, r) /\ m = Kept(c, n) /\ t = c + n - m
    /\ Idx(r2) = Idx(r + t)

LEMMA StepInts == ASSUME NEW d, NEW w, NEW r, NEW r2, NEW n, NEW c, NEW m, NEW t,
                         WriteStep(d, w, r, r2, n, c, m, t)
                  PROVE  /\ w \in Int /\ r \in Int /\ r2 \in Int /\ n \in Int /\ c \in Int /\ m \in Int
                         /\ t \in Int /\ t + m = c + n /\ 0 <= c
  <1>1. w \in Int /\ r \in Int /\ r2 \in Int
    BY Words_Int DEF WriteStep
  <1>2. c \in Int /\ 0 <= c /\ c < Size
    BY <1>1, CountIsNat DEF WriteStep
  <1>3. m \in Int
    BY <1>2, KeptFacts DEF WriteStep
  <1> QED
    BY <1>1, <1>2, <1>3 DEF WriteStep

LEMMA TrimRange == ASSUME NEW j, NEW m, NEW t, Trim(j, m, t)
                   PROVE  /\ 0 <= t /\ 0 <= m /\ t + m = j /\ t + m <= j
                          /\ t \in Int /\ m \in Int /\ j \in Int /\ t + 1 \in Int /\ t + m \in Int
                          /\ j <= Mask => t + 1 = 1
                          /\ ~(j <= Mask) => t + 1 = j - Mask + 1
  BY SizeFacts DEF Trim, AtMost

LEMMA StepTrim == ASSUME NEW d, NEW w, NEW r, NEW r2, NEW n, NEW c, NEW m, NEW t,
                         WriteStep(d, w, r, r2, n, c, m, t)
                  PROVE  Trim(c + n, m, t)
  BY StepInts DEF WriteStep, Trim, Kept

\* The last m of j elements.
LEMMA NewestIs ==
  ASSUME NEW S \in Seq(Byte), NEW j, Len(S) = j, NEW m, NEW t, Trim(j, m, t)
  PROVE  Fifo!Newest(S, Mask) = [i \in 1 .. m |-> S[t + i]] /\ Fifo!Newest(S, Mask) \in Seq(Byte)
  <1>2. /\ 0 <= t /\ 0 <= m /\ t + m = j /\ t + m <= j
        /\ t \in Int /\ m \in Int /\ j \in Int /\ t + 1 \in Int /\ t + m \in Int
        /\ j <= Mask => t + 1 = 1
        /\ ~(j <= Mask) => t + 1 = j - Mask + 1
    BY TrimRange
  <1>3. SubSeq(S, t + 1, t + m) = [i \in 1 .. m |-> S[t + i]] /\ SubSeq(S, t + 1, t + m) \in Seq(Byte)
    <2>1. IsPart(S, t, m)
      BY <1>2 DEF IsPart
    <2> QED
      BY <2>1, PartOf
  <1>5. S = SubSeq(S, 1, j)
    BY SubSeqFull
  <1>6. Fifo!Newest(S, Mask) = SubSeq(S, t + 1, t + m)
    BY <1>2, <1>5 DEF Fifo!Newest
  <1> QED
    BY <1>3, <1>6

LEMMA WriteSlots ==
  ASSUME NEW d, NEW w, NEW r, NEW r2, NEW n, NEW c, NEW m, NEW t, WriteStep(d, w, r, r2, n, c, m, t),
         NEW items
  PROVE  /\ 0 <= t /\ 0 <= m /\ CbDataCount(Inc(w, n), r2) = m
         /\ \A i \in 1 .. m : Put(d, w, items, n)[Idx(r2 + (i - 1))] =
                IF t + i <= c THEN d[Idx(r + ((t + i) - 1))] ELSE items[(t + i) - c]
  <1> /\ d \in [Slots -> Byte] /\ w \in Words /\ r \in Words /\ r2 \in Words
      /\ n > 0 /\ (n = 1 \/ n < Size)
      /\ c = CbDataCount(w, r) /\ m = Kept(c, n) /\ t = c + n - m
      /\ Idx(r2) = Idx(r + t)
    BY DEF WriteStep
  <1> /\ w \in Int /\ r \in Int /\ r2 \in Int /\ n \in Int /\ c \in Int /\ m \in Int /\ t \in Int
    BY StepInts
  <1>1. 0 <= c /\ c < Size /\ r + t \in Int
    BY CountIsNat
  <1>2. PICK j \in Int : j = c + n
    OBVIOUS
  <1>3. Idx(r2 + m) = Idx(r + j)
    <2>1. r + j = (r + t) + m /\ r + j \in Int
      BY <1>1, <1>2
    <2> QED
      BY <1>1, <2>1, SameSlot
  <1>4. CbDataCount(Inc(w, n), r2) = m
    BY <1>2, <1>3, WriteCount
  <1>5. 0 <= t /\ 0 <= m
    BY <1>1, KeptFacts
  <1>6. ASSUME NEW i \in Int, 1 <= i, i <= m
        PROVE  Put(d, w, items, n)[Idx(r2 + (i - 1))] =
                 IF t + i <= c THEN d[Idx(r + ((t + i) - 1))] ELSE items[(t + i) - c]
    <2>1. PICK k \in Int : k = (t + i) - 1
      OBVIOUS
    <2>2. Idx(r2 + (i - 1)) = Idx(r + k)
      <3>1. PICK l \in Int : l = r + k
        OBVIOUS
      <3>2. PICK b \in Int : b = r + t
        OBVIOUS
      <3>3. PICK e \in Int : e = i - 1
        OBVIOUS
      <3>4. l = b + e
        BY <2>1, <3>1, <3>2, <3>3
      <3>5. Idx(r2) = Idx(b)
        BY <3>2
      <3>6. Idx(r2 + e) = Idx(l)
        BY <3>4, <3>5, SameSlot
      <3> QED
        BY <3>1, <3>3, <3>6
    <2>3. Put(d, w, items, n)[Idx(r + k)] = IF k < c THEN d[Idx(r + k)] ELSE items[k - c + 1]
      <3>1. c + n - m <= k /\ k < c + n
        BY <1>6, <2>1
      <3> QED
        BY <3>1, WriteByte
    <2>4. (k < c <=> t + i <= c) /\ k - c + 1 = (t + i) - c
      BY <2>1
    <2> QED
      BY <2>1, <2>2, <2>3, <2>4
  <1> QED
    BY <1>4, <1>5, <1>6

\* S is q followed by items.
Joined(S, q, items, c, n) == \A i \in 1 .. c + n : S[i] = IF i <= c THEN q[i] ELSE items[i - c]

LEMMA HeldAt == ASSUME NEW d, NEW w, NEW r, NEW c \in Int, c = CbDataCount(w, r),
                       NEW k \in Int, 1 <= k, k <= c
                PROVE  Held(d, w, r)[k] = d[Idx(r + (k - 1))]
  BY DEF Held

LEMMA JoinedAt == ASSUME NEW S, NEW q, NEW items, NEW c \in Int, NEW n \in Int, Joined(S, q, items, c, n),
                         NEW k \in Int, 1 <= k, k <= c + n
                  PROVE  S[k] = IF k <= c THEN q[k] ELSE items[k - c]
  BY DEF Joined

LEMMA StepHeld ==
  ASSUME NEW d, NEW w, NEW r, NEW r2, NEW n, NEW c, NEW m, NEW t, WriteStep(d, w, r, r2, n, c, m, t),
         NEW items, NEW S, Joined(S, Held(d, w, r), items, c, n)
  PROVE  Held(Put(d, w, items, n), Inc(w, n), r2) = [i \in 1 .. m |-> S[t + i]]
  <1>1. /\ w \in Int /\ r \in Int /\ r2 \in Int /\ n \in Int /\ c \in Int /\ m \in Int
        /\ t \in Int /\ t + m = c + n
    BY StepInts
  <1>2. /\ 0 <= t /\ 0 <= m /\ CbDataCount(Inc(w, n), r2) = m
        /\ \A i \in 1 .. m : Put(d, w, items, n)[Idx(r2 + (i - 1))] =
               IF t + i <= c THEN d[Idx(r + ((t + i) - 1))] ELSE items[(t + i) - c]
    BY WriteSlots
  <1>3. ASSUME NEW i \in 1 .. m PROVE Put(d, w, items, n)[Idx(r2 + (i - 1))] = S[t + i]
    <2>1. PICK k \in Int : k = t + i /\ 1 <= k /\ k <= c + n
      BY <1>1, <1>2
    <2>2. S[k] = IF k <= c THEN Held(d, w, r)[k] ELSE items[k - c]
      BY <1>1, <2>1, JoinedAt
    <2>3. k <= c => Held(d, w, r)[k] = d[Idx(r + (k - 1))]
      BY <1>1, <2>1, HeldAt DEF WriteStep
    <2> QED
      BY <1>2, <2>1, <2>2, <2>3
  <1> QED
    BY <1>2, <1>3 DEF Held

\* What is held after a write is what the queue holds after a Put.
LEMMA JoinIs ==
  ASSUME NEW q \in Seq(Byte), NEW items \in Seq(Byte)
  PROVE  /\ q \o items \in Seq(Byte) /\ Len(q \o items) = Len(q) + Len(items)
         /\ Joined(q \o items, q, items, Len(q), Len(items))
  <1>1. /\ q \o items \in Seq(Byte) /\ Len(q \o items) = Len(q) + Len(items)
        /\ \A i \in 1 .. Len(q) + Len(items) :
               (q \o items)[i] = IF i <= Len(q) THEN q[i] ELSE items[i - Len(q)]
    BY ConcatProperties
  <1> QED
    BY <1>1, Zenon DEF Joined

LEMMA WriteHeld ==
  ASSUME NEW d, NEW w, NEW r, NEW r2, NEW n, NEW c, NEW m, NEW t, WriteStep(d, w, r, r2, n, c, m, t),
         NEW items \in Seq(Byte), Len(items) = n
  PROVE  /\ Held(Put(d, w, items, n), Inc(w, n), r2) = Fifo!Newest(Held(d, w, r) \o items, Mask)
         /\ Held(Put(d, w, items, n), Inc(w, n), r2) \in Seq(Byte)
  <1>1. PICK q \in Seq(Byte) : q = Held(d, w, r) /\ Len(q) = c
    BY HeldIsSeq, StepInts DEF WriteStep
  <1>2. PICK S \in Seq(Byte) : S = q \o items /\ Len(S) = c + n /\ Joined(S, q, items, c, n)
    <2>1. q \o items \in Seq(Byte) /\ Len(q \o items) = c + n /\ Joined(q \o items, q, items, c, n)
      <3>1. /\ q \o items \in Seq(Byte) /\ Len(q \o items) = Len(q) + Len(items)
            /\ Joined(q \o items, q, items, Len(q), Len(items))
        BY JoinIs, Zenon
      <3> QED
        BY <1>1, <3>1, Zenon
    <2> QED
      BY <2>1, Zenon
  <1>3. Held(Put(d, w, items, n), Inc(w, n), r2) = [i \in 1 .. m |-> S[t + i]]
    <2>1. Joined(S, Held(d, w, r), items, c, n)
      BY <1>1, <1>2
    <2> QED
      BY <2>1, StepHeld
  <1>4. Trim(c + n, m, t)
    BY StepTrim
  <1>5. /\ Fifo!Newest(S, Mask) = [i \in 1 .. m |-> S[t + i]]
        /\ Fifo!Newest(S, Mask) \in Seq(Byte)
    BY <1>2, <1>4, NewestIs
  <1> QED
    BY <1>1, <1>2, <1>3, <1>5

----------------------------------------------------------------------------
(* A read, whichever way it is done *)

\* The read that hands over k of the c bytes held.
ReadStep(d, w, r, c, k) ==
    /\ d \in [Slots -> Byte] /\ w \in Words /\ r \in Words
    /\ c = CbDataCount(w, r) /\ k \in Nat /\ k <= c

LEMMA ReadInts == ASSUME NEW d, NEW w, NEW r, NEW c, NEW k, ReadStep(d, w, r, c, k)
                  PROVE  /\ w \in Int /\ r \in Int /\ c \in Int /\ k \in Int /\ 0 <= k /\ k <= c
                         /\ c < Size /\ c - k \in Nat /\ Inc(r, k) \in Words /\ Inc(r, k) \in Int
  <1>1. w \in Int /\ r \in Int
    BY Words_Int DEF ReadStep
  <1>2. c \in Int /\ 0 <= c /\ c < Size
    BY <1>1, CountIsNat DEF ReadStep
  <1>3. Inc(r, k) \in Words /\ Inc(r, k) \in Int
    <2>1. k \in Int
      BY DEF ReadStep
    <2>2. Inc(r, k) \in Words
      BY <1>1, <2>1, IncType
    <2> QED
      BY <2>2, Words_Int
  <1> QED
    BY <1>1, <1>2, <1>3 DEF ReadStep

LEMMA ReadCount == ASSUME NEW d, NEW w, NEW r, NEW c, NEW k, ReadStep(d, w, r, c, k)
                   PROVE  CbDataCount(w, Inc(r, k)) = c - k
  <1>1. /\ w \in Int /\ r \in Int /\ c \in Int /\ k \in Int /\ 0 <= k /\ k <= c
        /\ c < Size /\ Inc(r, k) \in Words /\ Inc(r, k) \in Int
    BY ReadInts
  <1>2. w \in Words /\ r \in Words /\ c = CbDataCount(w, r)
    BY DEF ReadStep
  <1>3. PICK e \in Int : e = c - k /\ 0 <= e /\ e < Size /\ k + e = c
    BY <1>1, SizeFacts
  <1>4. Idx(Inc(r, k) + e) = Idx(r + c)
    BY <1>1, <1>2, <1>3, IncAt
  <1>5. Idx(w + 0) = Idx(r + c)
    BY <1>1, <1>2, WriteAt
  <1>6. Idx(w) = Idx(Inc(r, k) + e)
    BY <1>1, <1>4, <1>5
  <1>7. Idx(w - Inc(r, k)) = e
    BY <1>1, <1>3, <1>6, Apart
  <1> QED
    BY <1>1, <1>2, <1>3, <1>7, CountIsIdx

\* The bytes left and the bytes handed over, of the q held.
HandsOver(d, w, r, k, q) ==
    /\ Held(d, w, Inc(r, k)) = SubSeq(q, k + 1, Len(q))
    /\ [i \in 1 .. k |-> d[Idx(r + (i - 1))]] = SubSeq(q, 1, k)
    /\ [i \in 1 .. k |-> d[Idx(r + (i - 1))]] \in Seq(Byte)

LEMMA ReadHeld ==
  ASSUME NEW d, NEW w, NEW r, NEW c, NEW k, ReadStep(d, w, r, c, k)
  PROVE  HandsOver(d, w, r, k, Held(d, w, r))
  <1>0. PICK q : q = Held(d, w, r)
    OBVIOUS
  <1>1. /\ w \in Int /\ r \in Int /\ c \in Int /\ k \in Int /\ 0 <= k /\ k <= c /\ c - k \in Nat
    BY ReadInts
  <1>2. q \in Seq(Byte) /\ Len(q) = c
    BY <1>0, <1>1, HeldIsSeq DEF ReadStep
  <1>3. \A i \in 1 .. c : q[i] = d[Idx(r + (i - 1))]
    BY <1>0, <1>1, HeldAt DEF ReadStep
  <1>4. /\ SubSeq(q, k + 1, k + (c - k)) = [i \in 1 .. c - k |-> q[k + i]]
        /\ SubSeq(q, k + 1, k + (c - k)) \in Seq(Byte)
    <2>1. IsPart(q, k, c - k)
      BY <1>1, <1>2 DEF IsPart
    <2> QED
      BY <1>2, <2>1, PartOf
  <1>5. /\ SubSeq(q, 0 + 1, 0 + k) = [i \in 1 .. k |-> q[0 + i]]
        /\ SubSeq(q, 0 + 1, 0 + k) \in Seq(Byte)
    <2>1. IsPart(q, 0, k)
      BY <1>1, <1>2 DEF IsPart
    <2> QED
      BY <1>2, <2>1, PartOf
  <1>6. [i \in 1 .. k |-> q[0 + i]] = [i \in 1 .. k |-> d[Idx(r + (i - 1))]]
    <2>1. \A i \in 1 .. k : i \in 1 .. c /\ 0 + i = i
      BY <1>1
    <2>2. \A i \in 1 .. k : q[0 + i] = d[Idx(r + (i - 1))]
      BY <1>3, <2>1
    <2> QED
      BY <2>2, Zenon
  <1>7. Held(d, w, Inc(r, k)) = [i \in 1 .. c - k |-> q[k + i]]
    <2>1. ASSUME NEW i \in 1 .. c - k PROVE q[k + i] = d[Idx(Inc(r, k) + (i - 1))]
      <3>1. PICK e \in Int : e = i - 1
        OBVIOUS
      <3>2. k + i \in 1 .. c /\ (k + i) - 1 = k + e
        BY <1>1, <3>1
      <3>3. q[k + i] = d[Idx(r + ((k + i) - 1))]
        BY <1>3, <3>2, Zenon
      <3>4. Idx(Inc(r, k) + e) = Idx(r + (k + e))
        BY <1>1, IncAt DEF ReadStep
      <3> QED
        BY <3>1, <3>2, <3>3, <3>4
    <2>2. CbDataCount(w, Inc(r, k)) = c - k
      BY ReadCount
    <2> QED
      BY <2>1, <2>2, Zenon DEF Held
  <1>8. k + (c - k) = Len(q) /\ 0 + 1 = 1 /\ 0 + k = k
    BY <1>1, <1>2
  <1> QED
    BY <1>0, <1>2, <1>4, <1>5, <1>6, <1>7, <1>8, Zenon DEF HandsOver

----------------------------------------------------------------------------
(* The memory and the counters of the two ways to write *)

LEMMA PutType ==
  ASSUME NEW d \in [Slots -> Byte], NEW w \in Int, NEW items, NEW n \in Int, items \in [1 .. n -> Byte]
  PROVE  Put(d, w, items, n) \in [Slots -> Byte]
  <1>1. ASSUME NEW s \in Slots, Idx(s - w) < n PROVE items[Idx(s - w) + 1] \in Byte
    <2>1. s - w \in Int
      BY SizeFacts DEF Slots
    <2>2. PICK a \in Int : a = Idx(s - w) /\ 0 <= a
      BY <2>1, IdxType, SizeFacts DEF Slots
    <2>3. a + 1 \in 1 .. n
      BY <1>1, <2>2
    <2> QED
      BY <2>2, <2>3
  <1> QED
    BY <1>1 DEF Put

LEMMA SameIdx == ASSUME NEW a \in Int, NEW b \in Int, Idx(a) = Idx(b) PROVE Idx(a - b) = 0
  <1>1. PICK e \in Int : e = 0 /\ 0 <= e /\ e < Size /\ b + e = b
    BY SizeFacts
  <1>2. Idx(a) = Idx(b + e)
    BY <1>1
  <1> QED
    BY <1>1, <1>2, Apart

LEMMA PutOne == ASSUME NEW d \in [Slots -> Byte], NEW w \in Int, NEW items
                PROVE  [d EXCEPT ![Idx(w)] = items[1]] = Put(d, w, items, 1)
  <1>1. ASSUME NEW s \in Slots
        PROVE  /\ s = Idx(w) => Idx(s - w) = 0
               /\ s # Idx(w) => ~(Idx(s - w) < 1)
    <2>1. s \in Int /\ s - w \in Int /\ 0 < Size
      BY SizeFacts DEF Slots
    <2>2. Idx(s) = s
      BY IdxSmall
    <2>3. ASSUME s = Idx(w) PROVE Idx(s - w) = 0
      <3>1. Idx(s) = Idx(w)
        BY <2>2, <2>3
      <3> QED
        BY <2>1, <3>1, SameIdx
    <2>4. ASSUME Idx(s - w) < 1 PROVE s = Idx(w)
      <3>1. Idx(s - w) = 0
        BY <2>1, <2>4, IdxType, SizeFacts DEF Slots
      <3>2. Idx(Idx(s - w) + w) = Idx((s - w) + w)
        BY <2>1, IdxSum
      <3>3. 0 + w = w /\ (s - w) + w = s
        BY <2>1
      <3> QED
        BY <2>2, <3>1, <3>2, <3>3
    <2> QED
      BY <2>3, <2>4
  <1>2. ASSUME NEW s \in Slots
        PROVE  [d EXCEPT ![Idx(w)] = items[1]][s] = IF Idx(s - w) < 1 THEN items[Idx(s - w) + 1] ELSE d[s]
    <2>1. CASE s = Idx(w)
      BY <1>1, <2>1
    <2>2. CASE s # Idx(w)
      BY <1>1, <2>2
    <2> QED
      BY <2>1, <2>2
  <1> QED
    BY <1>2 DEF Put

LEMMA KeptSplit == ASSUME NEW c \in Int, NEW n \in Int
                   PROVE  /\ c + n > Mask => Kept(c, n) = Mask
                          /\ ~(c + n > Mask) => Kept(c, n) = c + n
  BY SizeFacts DEF Kept, AtMost

\* What is pushed out by a write that finds room, and by one that does not.
LEMMA WithRoom ==
  ASSUME NEW d \in [Slots -> Byte], NEW w \in Int, w \in Words, NEW r \in Int, r \in Words,
         NEW c \in Int, c = CbDataCount(w, r), NEW n \in Int, n > 0, n = 1 \/ n < Size, ~(c + n > Mask)
  PROVE  WriteStep(d, w, r, r, n, c, Kept(c, n), c + n - Kept(c, n))
  <1>1. Kept(c, n) = c + n
    BY KeptSplit
  <1>2. r + (c + n - Kept(c, n)) = r
    BY <1>1
  <1> QED
    BY <1>2 DEF WriteStep

LEMMA WithoutRoom ==
  ASSUME NEW d \in [Slots -> Byte], NEW w \in Int, w \in Words, NEW r \in Int, r \in Words,
         NEW r2 \in Int, r2 \in Words,
         NEW c \in Int, c = CbDataCount(w, r), NEW n \in Int, n > 0, n = 1 \/ n < Size, c + n > Mask,
         Idx(r2) = Idx(w + (n + 1))
  PROVE  WriteStep(d, w, r, r2, n, c, Kept(c, n), c + n - Kept(c, n))
  <1>1. PICK t \in Int : t = c + n - Kept(c, n) /\ t + Size = c + (n + 1)
    BY KeptSplit, SizeFacts
  <1>2. PICK j \in Int : j = c + (n + 1)
    OBVIOUS
  <1>3. Idx(w + (n + 1)) = Idx(r + j)
    BY <1>2, WriteAt
  <1>4. r + t \in Int /\ (r + t) + Size = r + j
    BY <1>1, <1>2, SizeFacts
  <1>5. Idx((r + t) + Size) = Idx(r + t)
    BY <1>4, IdxTurn
  <1> QED
    BY <1>1, <1>3, <1>4, <1>5 DEF WriteStep

LEMMA IncInt == ASSUME NEW a \in Int, NEW k \in Int PROVE Inc(a, k) \in Words /\ Inc(a, k) \in Int
  <1>1. Inc(a, k) \in Words
    BY IncType
  <1> QED
    BY <1>1, Words_Int

LEMMA IncOne == ASSUME NEW a \in Int PROVE Inc(a, 1) \in Words /\ Inc(a, 1) \in Int
  <1>1. PICK e \in Int : e = 1
    OBVIOUS
  <1>2. Inc(a, e) \in Words /\ Inc(a, e) \in Int
    BY IncInt
  <1> QED
    BY <1>1, <1>2

\* One byte: the indices meet when there was no room.
LEMMA StepOne ==
  ASSUME NEW d \in [Slots -> Byte], NEW w \in Int, w \in Words, NEW r \in Int, r \in Words,
         NEW c \in Int, c = CbDataCount(w, r)
  PROVE  /\ CbIsEmpty(Inc(w, 1), r) <=> c + 1 > Mask
         /\ c + 1 > Mask => WriteStep(d, w, r, Inc(r, 1), 1, c, Kept(c, 1), c + 1 - Kept(c, 1))
         /\ ~(c + 1 > Mask) => WriteStep(d, w, r, r, 1, c, Kept(c, 1), c + 1 - Kept(c, 1))
  <1>1. 0 <= c /\ c < Size /\ Size \in Int /\ Mask = Size - 1
    BY CountIsNat, SizeFacts
  <1>2. PICK j \in Int : j = c + 1
    OBVIOUS
  <1>3. Idx(Inc(w, 1)) = Idx(r + j)
    <2>1. Idx(Inc(w, 1)) = Idx(w + 1)
      BY IncSlot
    <2>2. Idx(w + 1) = Idx(r + j)
      BY <1>2, WriteAt
    <2> QED
      BY <2>1, <2>2
  <1>4. CASE c + 1 > Mask
    <2>1. r + j = r + Size
      BY <1>1, <1>2, <1>4
    <2>2. Idx(r + Size) = Idx(r)
      BY IdxTurn
    <2>3. Inc(r, 1) \in Words /\ Inc(r, 1) \in Int
      BY IncOne
    <2>4. Idx(Inc(r, 1)) = Idx(w + (1 + 1))
      <3>1. Idx(Inc(r, 1)) = Idx(r + 1)
        BY IncSlot
      <3>2. PICK e \in Int : e = c + (1 + 1) /\ e = j + 1
        BY <1>2
      <3>3. Idx(w + (1 + 1)) = Idx(r + e)
        BY <3>2, WriteAt
      <3>4. r + 1 \in Int /\ (r + 1) + Size = r + e
        BY <1>1, <1>2, <2>1, <3>2
      <3>5. Idx((r + 1) + Size) = Idx(r + 1)
        BY <3>4, IdxTurn
      <3> QED
        BY <3>1, <3>3, <3>4, <3>5
    <2>5. WriteStep(d, w, r, Inc(r, 1), 1, c, Kept(c, 1), c + 1 - Kept(c, 1))
      BY <1>4, <2>3, <2>4, WithoutRoom
    <2> QED
      BY <1>3, <1>4, <2>1, <2>2, <2>5 DEF CbIsEmpty
  <1>5. CASE ~(c + 1 > Mask)
    <2>1. r + j \in Int /\ r < r + j /\ (r + j) - r < Size
      BY <1>1, <1>2, <1>5
    <2>2. Idx(r) # Idx(r + j)
      BY <2>1, OwnSlot
    <2>3. WriteStep(d, w, r, r, 1, c, Kept(c, 1), c + 1 - Kept(c, 1))
      BY <1>5, WithRoom
    <2> QED
      BY <1>3, <1>5, <2>2, <2>3 DEF CbIsEmpty
  <1> QED
    BY <1>4, <1>5

\* Several bytes: the read index jumps past the new write index.
LEMMA StepMany ==
  ASSUME NEW d \in [Slots -> Byte], NEW w \in Int, w \in Words, NEW r \in Int, r \in Words,
         NEW c \in Int, c = CbDataCount(w, r), NEW n \in Int, n > 0, n < Size
  PROVE  /\ n > CbEmptyCount(w, r) <=> c + n > Mask
         /\ c + n > Mask =>
               WriteStep(d, w, r, Inc(Inc(w, n), 1), n, c, Kept(c, n), c + n - Kept(c, n))
         /\ ~(c + n > Mask) => WriteStep(d, w, r, r, n, c, Kept(c, n), c + n - Kept(c, n))
  <1>1. n > CbEmptyCount(w, r) <=> c + n > Mask
    BY SizeFacts DEF CbEmptyCount
  <1>2. ASSUME c + n > Mask
        PROVE  WriteStep(d, w, r, Inc(Inc(w, n), 1), n, c, Kept(c, n), c + n - Kept(c, n))
    <2>1. Inc(w, n) \in Words /\ Inc(w, n) \in Int
      BY IncInt
    <2>2. Inc(Inc(w, n), 1) \in Words /\ Inc(Inc(w, n), 1) \in Int
      BY <2>1, IncOne
    <2>3. Idx(Inc(Inc(w, n), 1)) = Idx(Inc(w, n) + 1)
      BY <2>1, IncSlot
    <2>4. Idx(Inc(w, n) + 1) = Idx(w + (n + 1))
      <3>1. PICK e \in Int : e = 1
        OBVIOUS
      <3>2. Idx(Inc(w, n) + e) = Idx(w + (n + e))
        BY IncAt
      <3> QED
        BY <3>1, <3>2
    <2> QED
      BY <1>2, <2>2, <2>3, <2>4, WithoutRoom
  <1>3. ASSUME ~(c + n > Mask)
        PROVE  WriteStep(d, w, r, r, n, c, Kept(c, n), c + n - Kept(c, n))
    BY <1>3, WithRoom
  <1> QED
    BY <1>1, <1>2, <1>3

----------------------------------------------------------------------------
(* The program *)

LEMMA ContentsIs == Contents = Held(data, write, read)
  BY DEF Contents, Held, Unread

LEMMA ContentsNext == Contents' = Held(data', write', read')
  BY DEF Contents, Held, Unread

LEMMA CountersAre == ASSUME TypeOK
                     PROVE  /\ data \in [Slots -> Byte]
                            /\ write \in Words /\ read \in Words /\ read_last \in Words /\ full_cnt \in Words
                            /\ write \in Int /\ read \in Int /\ read_last \in Int /\ full_cnt \in Int
  <1>1. /\ data \in [Slots -> Byte]
        /\ write \in Words /\ read \in Words /\ read_last \in Words /\ full_cnt \in Words
    BY DEF TypeOK
  <1> QED
    BY <1>1, Words_Int

LEMMA ItemsAre == ASSUME NEW items \in Items
                  PROVE  \E n \in Int : /\ n > 0 /\ n = Len(items)
                                        /\ items \in [1 .. n -> Byte] /\ items \in Seq(Byte)
  <1>1. PICK n \in Lens : items \in [1 .. n -> Byte]
    BY DEF Items
  <1>2. n \in Nat /\ n > 0
    BY MaxLenAssumption DEF Lens
  <1>3. items \in Seq(Byte) /\ Len(items) = n
    BY <1>1, <1>2
  <1> QED
    BY <1>1, <1>2, <1>3

LEMMA InitHolds == ASSUME CbInit PROVE TypeOK /\ Fifo!Init
  <1>1. 0 \in Words /\ 0 \in Int
    BY SizeFacts DEF Words
  <1>2. TypeOK
    BY <1>1 DEF CbInit, TypeOK
  <1>3. CbDataCount(0, 0) = 0
    <2>1. 0 \in Slots /\ 0 - 0 = 0
      BY SizeFacts DEF Slots
    <2> QED
      BY <2>1, IdxSmall DEF CbDataCount, Idx
  <1>4. Contents = <<>>
    BY <1>3 DEF CbInit, Contents
  <1> QED
    BY <1>2, <1>4 DEF CbInit, Fifo!Init

\* A write that moves the counters as a WriteStep is a Put of the queue.
LEMMA PutStep ==
  ASSUME TypeOK, NEW items \in Seq(Byte), NEW n \in Int, n > 0, n = Len(items), items \in [1 .. n -> Byte],
         NEW c \in Int, c = CbDataCount(write, read), NEW m, NEW t,
         WriteStep(data, write, read, read', n, c, m, t),
         data' = Put(data, write, items, n), write' = Inc(write, n),
         full_cnt' = IF c + n > Mask THEN Inc(full_cnt, 1) ELSE full_cnt,
         read_last' = read' \/ read_last' = read_last, ret' = n, out' = <<>>
  PROVE  TypeOK' /\ Fifo!Put(items)
  <1>1. /\ data \in [Slots -> Byte]
        /\ write \in Words /\ read \in Words /\ read_last \in Words /\ full_cnt \in Words
        /\ write \in Int /\ read \in Int /\ read_last \in Int /\ full_cnt \in Int
    BY CountersAre
  <1>2. TypeOK'
    <2>1. data' \in [Slots -> Byte]
      BY <1>1, PutType
    <2>2. write' \in Words
      BY <1>1, IncInt
    <2>3. read' \in Words
      BY DEF WriteStep
    <2>4. read_last' \in Words
      BY <1>1, <2>3
    <2>5. full_cnt' \in Words
      BY <1>1, IncOne
    <2>6. ret' \in Nat /\ out' \in Seq(Byte)
      OBVIOUS
    <2> QED
      BY <2>1, <2>2, <2>3, <2>4, <2>5, <2>6 DEF TypeOK
  <1>3. Contents' = Fifo!Newest(Contents \o items, Mask)
    <2>1. Held(Put(data, write, items, n), Inc(write, n), read')
             = Fifo!Newest(Held(data, write, read) \o items, Mask)
      BY WriteHeld
    <2> QED
      BY <2>1, ContentsIs, ContentsNext
  <1>4. Len(Contents) = c
    BY <1>1, ContentsIs, HeldIsSeq
  <1>5. Fifo!Fits(Len(items))
    BY SizeFacts DEF Fifo!Fits, WriteStep
  <1>6. full_cnt' = IF Len(Contents) + Len(items) > Mask THEN (full_cnt + 1) % Modulus ELSE full_cnt
    BY <1>4 DEF Inc
  <1> QED
    BY <1>2, <1>3, <1>5, <1>6 DEF Fifo!Put

LEMMA CountIs == ASSUME TypeOK
                 PROVE  \E c \in Int : c = CbDataCount(write, read) /\ 0 <= c /\ c < Size
  <1>1. /\ write \in Words /\ read \in Words /\ write \in Int /\ read \in Int
    BY CountersAre
  <1> QED
    BY <1>1, CountIsNat

LEMMA WriteOneStep ==
  ASSUME TypeOK, NEW items \in Seq(Byte), Len(items) = 1, items \in [1 .. 1 -> Byte],
         CbWriteOne(items[1]), ret' = 1, out' = <<>>
  PROVE  TypeOK' /\ Fifo!Put(items)
  <1>1. /\ data \in [Slots -> Byte]
        /\ write \in Words /\ read \in Words /\ write \in Int /\ read \in Int
    BY CountersAre
  <1>2. PICK c \in Int : c = CbDataCount(write, read)
    BY CountIs
  <1>3. data' = Put(data, write, items, 1)
    BY <1>1, PutOne DEF CbWriteOne
  <1>4. /\ CbIsEmpty(Inc(write, 1), read) <=> c + 1 > Mask
        /\ c + 1 > Mask => WriteStep(data, write, read, Inc(read, 1), 1, c, Kept(c, 1), c + 1 - Kept(c, 1))
        /\ ~(c + 1 > Mask) => WriteStep(data, write, read, read, 1, c, Kept(c, 1), c + 1 - Kept(c, 1))
    BY <1>1, <1>2, StepOne
  <1>5. /\ write' = Inc(write, 1)
        /\ CbIsEmpty(write', read) => read' = Inc(read, 1) /\ read_last' = read' /\ full_cnt' = Inc(full_cnt, 1)
        /\ ~CbIsEmpty(write', read) => read' = read /\ read_last' = read_last /\ full_cnt' = full_cnt
    BY DEF CbWriteOne
  <1>6. WriteStep(data, write, read, read', 1, c, Kept(c, 1), c + 1 - Kept(c, 1))
    BY <1>4, <1>5
  <1>7. /\ full_cnt' = IF c + 1 > Mask THEN Inc(full_cnt, 1) ELSE full_cnt
        /\ read_last' = read' \/ read_last' = read_last
    BY <1>4, <1>5
  <1>8. PICK n \in Int : n = 1 /\ n > 0
    OBVIOUS
  <1> QED
    BY <1>2, <1>3, <1>5, <1>6, <1>7, <1>8, PutStep

LEMMA WriteManyStep ==
  ASSUME TypeOK, NEW items \in Seq(Byte), NEW n \in Int, n > 0, n < Size, n = Len(items),
         items \in [1 .. n -> Byte], CbWriteMany(items), ret' = n, out' = <<>>
  PROVE  TypeOK' /\ Fifo!Put(items)
  <1>1. /\ data \in [Slots -> Byte]
        /\ write \in Words /\ read \in Words /\ write \in Int /\ read \in Int
    BY CountersAre
  <1>2. PICK c \in Int : c = CbDataCount(write, read)
    BY CountIs
  <1>3. data' = Put(data, write, items, n)
    BY DEF CbWriteMany, Stored, Put, Idx
  <1>4. /\ n > CbEmptyCount(write, read) <=> c + n > Mask
        /\ c + n > Mask =>
              WriteStep(data, write, read, Inc(Inc(write, n), 1), n, c, Kept(c, n), c + n - Kept(c, n))
        /\ ~(c + n > Mask) => WriteStep(data, write, read, read, n, c, Kept(c, n), c + n - Kept(c, n))
    BY <1>1, <1>2, StepMany
  <1>5. /\ write' = Inc(write, n)
        /\ n > CbEmptyCount(write, read) =>
              read' = Inc(write', 1) /\ read_last' = read' /\ full_cnt' = Inc(full_cnt, 1)
        /\ ~(n > CbEmptyCount(write, read)) => read' = read /\ read_last' = read_last /\ full_cnt' = full_cnt
    BY DEF CbWriteMany, CbWriteInc
  <1>6. WriteStep(data, write, read, read', n, c, Kept(c, n), c + n - Kept(c, n))
    BY <1>4, <1>5
  <1>7. /\ full_cnt' = IF c + n > Mask THEN Inc(full_cnt, 1) ELSE full_cnt
        /\ read_last' = read' \/ read_last' = read_last
    BY <1>4, <1>5
  <1> QED
    BY <1>2, <1>3, <1>5, <1>6, <1>7, PutStep

LEMMA WriteHolds == ASSUME TypeOK, NEW items \in Items, CbWrite(items)
                    PROVE  TypeOK' /\ (Fifo!Put(items) \/ Fifo!Refuse(items))
  <1>1. PICK n \in Int : n > 0 /\ n = Len(items) /\ items \in [1 .. n -> Byte] /\ items \in Seq(Byte)
    BY ItemsAre
  <1>2. CASE Len(items) = 1 /\ CbWriteOne(items[1]) /\ ret' = 1
    BY <1>1, <1>2, WriteOneStep DEF CbWrite
  <1>3. CASE Len(items) > 1 /\ Len(items) < Size /\ CbWriteMany(items) /\ ret' = Len(items)
    BY <1>1, <1>3, WriteManyStep DEF CbWrite
  <1>4. CASE Len(items) > 1 /\ Len(items) >= Size /\ ret' = 0 /\ UNCHANGED <<data, index>>
    <2>1. out' = <<>> /\ ret' = 0
          /\ UNCHANGED <<data, write, read, read_last, full_cnt>>
      BY <1>4 DEF CbWrite, index
    <2>2. TypeOK'
      BY <2>1 DEF TypeOK
    <2>3. Contents' = Contents
      BY <2>1, ContentsIs, ContentsNext
    <2>4. ~Fifo!Fits(Len(items))
      BY <1>1, <1>4, SizeFacts DEF Fifo!Fits
    <2> QED
      BY <2>1, <2>2, <2>3, <2>4 DEF Fifo!Refuse
  <1> QED
    BY <1>2, <1>3, <1>4 DEF CbWrite

LEMMA UnreadIs == ASSUME TypeOK, NEW c, c = CbDataCount(write, read)
                  PROVE  /\ Len(Contents) = c /\ Contents \in Seq(Byte)
                         /\ \A i \in 1 .. c : Contents[i] = Unread(i - 1)
  <1>1. /\ data \in [Slots -> Byte]
        /\ write \in Words /\ read \in Words /\ write \in Int /\ read \in Int
    BY CountersAre
  <1>2. Len(Contents) = c /\ Contents \in Seq(Byte)
    BY <1>1, ContentsIs, HeldIsSeq
  <1>3. \A i \in 1 .. c : Contents[i] = Unread(i - 1)
    BY DEF Contents
  <1> QED
    BY <1>2, <1>3

LEMMA EmptyIs == ASSUME TypeOK, CbIsEmpty(write, read)
                 PROVE  CbDataCount(write, read) = 0 /\ Contents = <<>>
  <1>1. write \in Words /\ read \in Words /\ write \in Int /\ read \in Int
    BY CountersAre
  <1>2. Idx(write - read) = 0
    BY <1>1, SameIdx DEF CbIsEmpty
  <1>3. CbDataCount(write, read) = 0
    BY <1>2 DEF CbDataCount, Idx
  <1> QED
    BY <1>3 DEF Contents

LEMMA ReadIs ==
  ASSUME NEW c, NEW k, ReadStep(data, write, read, c, k)
  PROVE  /\ Held(data, write, Inc(read, k)) = SubSeq(Contents, k + 1, Len(Contents))
         /\ [i \in 1 .. k |-> data[Idx(read + (i - 1))]] = SubSeq(Contents, 1, k)
         /\ [i \in 1 .. k |-> data[Idx(read + (i - 1))]] \in Seq(Byte)
  <1>1. HandsOver(data, write, read, k, Held(data, write, read))
    BY ReadHeld
  <1>2. HandsOver(data, write, read, k, Contents)
    BY <1>1, ContentsIs
  <1> QED
    BY <1>2, Zenon DEF HandsOver

\* Moving the read index on by k hands the oldest k bytes over.
LEMMA Advance ==
  ASSUME TypeOK, NEW c, c = CbDataCount(write, read), NEW k, k \in Nat, k <= c,
         read' = Inc(read, k), read_last' = read' \/ read_last' = read_last,
         UNCHANGED <<data, write, full_cnt>>, ret' \in Nat, out' \in Seq(Byte)
  PROVE  TypeOK' /\ Contents' = SubSeq(Contents, k + 1, Len(Contents))
  <1>1. /\ data \in [Slots -> Byte]
        /\ write \in Words /\ read \in Words /\ read_last \in Words /\ full_cnt \in Words
    BY CountersAre
  <1>2. ReadStep(data, write, read, c, k)
    BY <1>1 DEF ReadStep
  <1>3. read' \in Words
    BY <1>2, ReadInts
  <1>4. TypeOK'
    BY <1>1, <1>3 DEF TypeOK
  <1>5. Contents = Held(data, write, read)
    BY ContentsIs
  <1>6. Held(data, write, Inc(read, k)) = SubSeq(Contents, k + 1, Len(Contents))
    BY <1>2, ReadIs
  <1> QED
    BY <1>4, <1>5, <1>6, ContentsNext

LEMMA HandOverHolds ==
  ASSUME TypeOK, NEW c, c = CbDataCount(write, read), NEW k, k \in Nat, k <= c, HandOver(k)
  PROVE  TypeOK' /\ Fifo!Take(k)
  <1>1. /\ data \in [Slots -> Byte] /\ write \in Words /\ read \in Words
    BY CountersAre
  <1>2. ReadStep(data, write, read, c, k)
    BY <1>1 DEF ReadStep
  <1>3. AtMost(k, c) = k
    BY DEF AtMost
  <1>4. /\ read' = Inc(read, k) /\ read_last' = read' /\ ret' = k
        /\ UNCHANGED <<data, write, full_cnt>>
    BY <1>3 DEF HandOver, CbReadInc
  <1>5. out' = [i \in 1 .. k |-> data[Idx(read + (i - 1))]]
    BY DEF HandOver, Unread
  <1>6. Contents = Held(data, write, read)
    BY ContentsIs
  <1>7. /\ [i \in 1 .. k |-> data[Idx(read + (i - 1))]] = SubSeq(Contents, 1, k)
        /\ [i \in 1 .. k |-> data[Idx(read + (i - 1))]] \in Seq(Byte)
    BY <1>2, ReadIs
  <1>8. out' = SubSeq(Contents, 1, k) /\ out' \in Seq(Byte)
    BY <1>5, <1>7
  <1>9. TypeOK' /\ Contents' = SubSeq(Contents, k + 1, Len(Contents))
    BY <1>4, <1>8, Advance
  <1> QED
    BY <1>4, <1>8, <1>9 DEF Fifo!Take

LEMMA NothingHolds == ASSUME TypeOK, NothingToRead
                      PROVE  TypeOK' /\ Fifo!Take(0) /\ Len(Contents) = 0
  <1>1. Contents = <<>>
    BY EmptyIs DEF NothingToRead
  <1>2. /\ out' = <<>> /\ ret' = 0
        /\ UNCHANGED <<data, write, read, read_last, full_cnt>>
    BY DEF NothingToRead, index
  <1>3. TypeOK'
    BY <1>2 DEF TypeOK
  <1>4. Contents' = Contents
    BY <1>2, ContentsIs, ContentsNext
  <1>5. Len(Contents) = 0 /\ SubSeq(Contents, 1, 0) = <<>> /\ SubSeq(Contents, 0 + 1, Len(Contents)) = <<>>
    BY <1>1, SubSeqEmpty
  <1> QED
    BY <1>1, <1>2, <1>3, <1>4, <1>5 DEF Fifo!Take

LEMMA LimitIs == ASSUME NEW n \in Int, n > 0, NEW c \in Int, 0 <= c
                 PROVE  /\ AtMost(n, c) \in Nat /\ AtMost(n, c) <= c /\ AtMost(n, c) <= n
                        /\ AtMost(n, c) = IF n <= c THEN n ELSE c
  BY DEF AtMost

LEMMA LensAre == ASSUME NEW n \in Lens PROVE n \in Int /\ n > 0
  BY MaxLenAssumption DEF Lens

LEMMA ReadHolds == ASSUME TypeOK, NEW n \in Lens, CbRead(n) PROVE TypeOK' /\ Fifo!Get(n)
  <1>1. n \in Int /\ n > 0
    BY LensAre
  <1>2. CASE NothingToRead
    BY <1>1, <1>2, NothingHolds DEF Fifo!Get
  <1>3. CASE ~CbIsEmpty(write, read) /\ HandOver(AtMost(n, CbDataCount(write, read)))
    <2>1. PICK c \in Int : c = CbDataCount(write, read) /\ 0 <= c
      BY CountIs
    <2>2. PICK k \in Nat : k = AtMost(n, c) /\ k <= c /\ k = IF n <= c THEN n ELSE c
      BY <1>1, <2>1, LimitIs
    <2>3. Len(Contents) = c
      BY <2>1, UnreadIs
    <2>4. TypeOK' /\ Fifo!Take(k)
      BY <1>3, <2>1, <2>2, HandOverHolds
    <2> QED
      BY <2>2, <2>3, <2>4 DEF Fifo!Get
  <1> QED
    BY <1>2, <1>3 DEF CbRead

LEMMA ReadUntilHolds == ASSUME TypeOK, NEW max \in Lens, NEW byte \in Byte, CbReadUntil(max, byte)
                        PROVE  TypeOK' /\ Fifo!GetUntil(max, byte)
  <1>1. max \in Int /\ max > 0
    BY LensAre
  <1>2. CASE NothingToRead
    <2>1. TypeOK' /\ Fifo!Take(0) /\ Len(Contents) = 0
      BY <1>2, NothingHolds
    <2>2. 0 \in 0 .. Len(Contents) /\ 0 <= max /\ 1 .. 0 - 1 = {}
          /\ 0 = IF max <= Len(Contents) THEN max ELSE Len(Contents)
      BY <1>1, <2>1
    <2> QED
      BY <2>1, <2>2 DEF Fifo!GetUntil
  <1>3. CASE ~NothingToRead
    <2>1. PICK c \in Int : c = CbDataCount(write, read) /\ 0 <= c
      BY CountIs
    <2>2. PICK limit \in Nat : limit = AtMost(max, c) /\ limit <= c /\ limit <= max
                               /\ limit = IF max <= c THEN max ELSE c
      BY <1>1, <2>1, LimitIs
    <2>3. PICK k \in 1 .. limit : /\ k = limit \/ Unread(k - 1) = byte
                                  /\ \A j \in 1 .. k - 1 : ~(j = limit \/ Unread(j - 1) = byte)
                                  /\ HandOver(k)
      BY <1>3, <2>1, <2>2 DEF CbReadUntil
    <2>4. k \in Nat /\ k <= c /\ k > 0 /\ k <= max
      BY <2>1, <2>2, <2>3
    <2>5. Len(Contents) = c /\ \A i \in 1 .. c : Contents[i] = Unread(i - 1)
      BY <2>1, UnreadIs
    <2>6. TypeOK' /\ Fifo!Take(k)
      BY <2>1, <2>3, <2>4, HandOverHolds
    <2>7. \A i \in 1 .. k - 1 : Contents[i] # byte
      <3>1. \A i \in 1 .. k - 1 : i \in 1 .. c
        BY <2>1, <2>4
      <3> QED
        BY <2>3, <2>5, <3>1, Zenon
    <2>8. Contents[k] = byte \/ k = IF max <= Len(Contents) THEN max ELSE Len(Contents)
      BY <2>1, <2>2, <2>3, <2>4, <2>5
    <2>9. k \in 0 .. Len(Contents)
      BY <2>4, <2>5
    <2> QED
      BY <2>4, <2>6, <2>7, <2>8, <2>9 DEF Fifo!GetUntil
  <1> QED
    BY <1>2, <1>3

LEMMA SynStartHolds == ASSUME TypeOK, NEW start_B \in Byte, CbDmaSynStart(start_B)
                       PROVE  TypeOK' /\ Fifo!SkipTo(start_B)
  <1>1. PICK c \in Int : c = CbDataCount(write, read) /\ 0 <= c
    BY CountIs
  <1>2. PICK k \in 0 .. c : /\ \A i \in 0 .. k - 1 : Unread(i) # start_B
                            /\ k < c => Unread(k) = start_B
                            /\ read' = Inc(read, k)
                            /\ read_last' = IF k > 0 THEN read' ELSE read_last
                            /\ out' = <<>> /\ ret' = 0
                            /\ UNCHANGED <<data, write, full_cnt>>
    BY <1>1 DEF CbDmaSynStart
  <1>3. k \in Nat /\ k <= c
    BY <1>1, <1>2
  <1>4. Len(Contents) = c /\ \A i \in 1 .. c : Contents[i] = Unread(i - 1)
    BY <1>1, UnreadIs
  <1>5. TypeOK' /\ Contents' = SubSeq(Contents, k + 1, Len(Contents))
    <2>1. ret' \in Nat /\ out' \in Seq(Byte) /\ (read_last' = read' \/ read_last' = read_last)
      BY <1>2
    <2>2. read' = Inc(read, k) /\ UNCHANGED <<data, write, full_cnt>>
      BY <1>2
    <2> QED
      BY <1>1, <1>3, <2>1, <2>2, Advance
  <1>6. \A i \in 1 .. k : Contents[i] # start_B
    <2>1. \A i \in 1 .. k : i \in 1 .. c /\ i - 1 \in 0 .. k - 1
      BY <1>1, <1>3
    <2> QED
      BY <1>2, <1>4, <2>1, Zenon
  <1>7. k < Len(Contents) => Contents[k + 1] = start_B
    <2> SUFFICES ASSUME k < c PROVE Contents[k + 1] = start_B
      BY <1>4
    <2>1. k + 1 \in 1 .. c /\ (k + 1) - 1 = k
      BY <1>3
    <2>2. Contents[k + 1] = Unread((k + 1) - 1)
      BY <1>4, <2>1, Zenon
    <2> QED
      BY <1>2, <2>1, <2>2
  <1>8. k \in 0 .. Len(Contents)
    BY <1>3, <1>4
  <1> QED
    BY <1>2, <1>5, <1>6, <1>7, <1>8 DEF Fifo!SkipTo

----------------------------------------------------------------------------
(* The contiguous counts *)

\* Where a slot lies, from the slots of the two indices.
LEMMA SlotKinds ==
  ASSUME TypeOK, NEW a, a = Idx(write), NEW b, b = Idx(read), NEW s \in Slots
  PROVE  /\ a \in Slots /\ b \in Slots
         /\ CbDataCount(write, read) = IF a < b THEN a - b + Size ELSE a - b
         /\ IsUnread(s) <=> (IF s < b THEN s - b + Size ELSE s - b) < (IF a < b THEN a - b + Size ELSE a - b)
         /\ IsFree(s) <=> ~IsUnread(s) /\ s # (IF b = 0 THEN Size - 1 ELSE b - 1)
  <1>1. write \in Int /\ read \in Int /\ s \in Int /\ Size \in Int
    BY CountersAre, SizeFacts DEF Slots
  <1>2. a \in Slots /\ b \in Slots
    BY <1>1, IdxType
  <1>3. CbDataCount(write, read) = IF a < b THEN a - b + Size ELSE a - b
    BY <1>1, CountOfSlots
  <1>4. (s - read) % Size = IF s < b THEN s - b + Size ELSE s - b
    <2>1. Idx(s) = s
      BY IdxSmall
    <2>2. CbDataCount(s, read) = IF s < b THEN s - b + Size ELSE s - b
      BY <1>1, <2>1, CountOfSlots
    <2> QED
      BY <2>2 DEF CbDataCount
  <1>5. (read - 1) % Size = IF b = 0 THEN Size - 1 ELSE b - 1
    <2>1. PICK e \in Int : e = -1 /\ read + e = read - 1
      BY <1>1
    <2>2. Idx(b + e) = Idx(read - 1)
      BY <1>1, <2>1, IdxSum
    <2>3. CASE b = 0
      <3>1. b + e + Size = Size - 1 /\ b + e \in Int /\ Size - 1 \in Slots
        BY <1>1, <2>1, <2>3, SizeFacts DEF Slots
      <3>2. Idx(b + e + Size) = Idx(b + e)
        BY <3>1, IdxTurn
      <3> QED
        BY <2>2, <2>3, <3>1, <3>2, IdxSmall DEF Idx
    <2>4. CASE b # 0
      <3>1. b + e = b - 1 /\ b - 1 \in Slots
        BY <1>1, <1>2, <2>1, <2>4 DEF Slots
      <3> QED
        BY <2>2, <2>4, <3>1, IdxSmall DEF Idx
    <2> QED
      BY <2>3, <2>4
  <1> QED
    BY <1>2, <1>3, <1>4, <1>5 DEF IsUnread, IsFree

LEMMA ContiguousHolds == ASSUME TypeOK PROVE ContiguousOK
  <1>1. PICK a \in Slots : a = Idx(write)
    BY CountersAre, IdxType
  <1>2. PICK b \in Slots : b = Idx(read)
    BY CountersAre, IdxType
  <1>3. CbDataCount(write, read) = IF a < b THEN a - b + Size ELSE a - b
    BY <1>1, <1>2, SlotKinds
  <1>4. \A s \in Slots :
           IsUnread(s) <=> (IF s < b THEN s - b + Size ELSE s - b) < (IF a < b THEN a - b + Size ELSE a - b)
    BY <1>1, <1>2, SlotKinds
  <1>5. \A s \in Slots : IsFree(s) <=> ~IsUnread(s) /\ s # (IF b = 0 THEN Size - 1 ELSE b - 1)
    BY <1>1, <1>2, SlotKinds
  <1>6. Size \in Int /\ Size > 0
    BY SizeFacts
  <1>7. LongestRun(Idx(read), CbContiguousDataCount(write, read), IsUnread)
    <2>1. PICK len \in Int : len = IF a < b THEN Size - b ELSE a - b
      <3>1. (IF a < b THEN Size - b ELSE a - b) \in Int
        BY <1>6 DEF Slots
      <3> QED
        BY <3>1, Zenon
    <2>2. CbContiguousDataCount(write, read) = len
      BY <1>1, <1>2, <1>3, <2>1 DEF CbContiguousDataCount
    <2>3. len >= 0 /\ b + len <= Size
      BY <1>6, <2>1 DEF Slots
    <2>4. \A s \in b .. b + len - 1 : IsUnread(s)
      BY <1>4, <1>6, <2>1 DEF Slots
    <2>5. b + len < Size => ~IsUnread(b + len)
      BY <1>4, <1>6, <2>1 DEF Slots
    <2> QED
      BY <1>2, <2>2, <2>3, <2>4, <2>5 DEF LongestRun
  <1>8. LongestRun(Idx(write), CbContiguousEmptyCount(write, read), IsFree)
    <2>1. PICK len \in Int : len = IF a < b THEN b - a - 1 ELSE IF b = 0 THEN Size - a - 1 ELSE Size - a
      <3>1. (IF a < b THEN b - a - 1 ELSE IF b = 0 THEN Size - a - 1 ELSE Size - a) \in Int
        BY <1>6 DEF Slots
      <3> QED
        BY <3>1, Zenon
    <2>2. CbContiguousEmptyCount(write, read) = len
      BY <1>1, <1>2, <1>6, <2>1 DEF CbContiguousEmptyCount, Slots
    <2>3. len >= 0 /\ a + len <= Size
      BY <1>6, <2>1 DEF Slots
    <2>4. \A s \in a .. a + len - 1 : IsFree(s)
      BY <1>4, <1>5, <1>6, <2>1 DEF Slots
    <2>5. a + len < Size => ~IsFree(a + len)
      BY <1>4, <1>5, <1>6, <2>1 DEF Slots
    <2> QED
      BY <1>1, <2>2, <2>3, <2>4, <2>5 DEF LongestRun
  <1> QED
    BY <1>7, <1>8 DEF ContiguousOK

----------------------------------------------------------------------------
(* The theorems *)

LEMMA NextHolds == ASSUME TypeOK, Next PROVE TypeOK' /\ Fifo!Next
  <1>1. CASE \E items \in Items : CbWrite(items)
    <2>1. PICK items \in Items : CbWrite(items)
      BY <1>1
    <2>2. TypeOK' /\ (Fifo!Put(items) \/ Fifo!Refuse(items))
      BY <2>1, WriteHolds
    <2>3. items \in Fifo!Items
      BY DEF Items, Lens, Fifo!Items, Fifo!Lens
    <2> QED
      BY <2>2, <2>3 DEF Fifo!Next
  <1>2. CASE \E n \in Lens : CbRead(n)
    BY <1>2, ReadHolds DEF Fifo!Next, Lens, Fifo!Lens
  <1>3. CASE \E max \in Lens, byte \in Byte : CbReadUntil(max, byte)
    BY <1>3, ReadUntilHolds DEF Fifo!Next, Lens, Fifo!Lens
  <1>4. CASE \E start_B \in Byte : CbDmaSynStart(start_B)
    BY <1>4, SynStartHolds DEF Fifo!Next
  <1> QED
    BY <1>1, <1>2, <1>3, <1>4 DEF Next

LEMMA StutterHolds == ASSUME TypeOK, UNCHANGED vars PROVE TypeOK' /\ UNCHANGED Fifo!vars
  <1>1. UNCHANGED <<data, write, read, read_last, full_cnt, out, ret>>
    BY DEF vars, index
  <1>2. Contents' = Contents
    BY <1>1, ContentsIs, ContentsNext
  <1>3. TypeOK'
    BY <1>1 DEF TypeOK
  <1> QED
    BY <1>1, <1>2, <1>3 DEF Fifo!vars

(***************************************************************************)
(* The counters stay words and the memory an array of bytes, whatever is   *)
(* written and read (c_buffer.h, all operations).                          *)
(***************************************************************************)
THEOREM TypeCorrect == Spec => []TypeOK
  <1>1. CbInit => TypeOK
    BY InitHolds
  <1>2. TypeOK /\ [Next]_vars => TypeOK'
    BY NextHolds, StutterHolds
  <1> QED
    BY <1>1, <1>2, PTL DEF Spec

(***************************************************************************)
(* CbContiguousDataCount counts unread bytes only and all of them up to    *)
(* the end of the memory, CbContiguousEmptyCount free slots alike.         *)
(***************************************************************************)
THEOREM ContiguousOKHolds == Spec => []ContiguousOK
  BY TypeCorrect, ContiguousHolds, PTL

(***************************************************************************)
(* The circular buffer is the queue that overwrites its oldest bytes: no   *)
(* byte is lost, doubled or handed over out of order but those a write had *)
(* no room for, and every such write counts one overrun, also when the     *)
(* counters wrap (CbWrite, CbRead, CbReadUntil and CbDmaSynStart).         *)
(***************************************************************************)
THEOREM ImplementsFifoHolds == Spec => ImplementsFifo
  <1>1. CbInit => Fifo!Init
    BY InitHolds
  <1>2. TypeOK /\ [Next]_vars => [Fifo!Next]_(Fifo!vars)
    BY NextHolds, StutterHolds
  <1> QED
    BY <1>1, <1>2, TypeCorrect, PTL DEF Spec, ImplementsFifo, Fifo!Spec
=============================================================================
