----------------------------- MODULE CbDmaProof -----------------------------
(***************************************************************************)
(* Theorems about CbDma, for every size of the buffer, width of the        *)
(* counters, size of the chunks and of the reader's calls.                 *)
(***************************************************************************)
EXTENDS CbDma, CbOpsProof

----------------------------------------------------------------------------
(* Types *)

LEMMA Sizes == Size \in Nat \ {0} /\ Modulus \in Nat \ {0} /\ Mask = Size - 1
               /\ MaxChunk \in 0 .. Size - 1 /\ MaxStream \in Nat
  BY SizeFacts, ChunkAssumption, StreamAssumption

\* A chunk that has begun to arrive fits into the run.
ChunkFits == ppc = "store" => head + left <= MaxStream

TInv == TypeOK /\ ChunkFits

LEMMA InitTypes == Init => TInv
  <1> SUFFICES ASSUME Init PROVE TInv
    OBVIOUS
  <1>1. 0 \in Slots /\ 0 \in Words /\ 0 \in 0 .. MaxStream /\ Size \in 0 .. Size
    BY Sizes DEF Slots, Words
  <1> QED
    BY <1>1, Sizes DEF Init, TInv, TypeOK, ChunkFits

\* The register stays within the memory, and moves by the size of the chunk.
LEMMA NdtrType == ASSUME ndtr \in 0 .. Size, NEW k \in Nat PROVE NdtrAfter(k) \in 0 .. Size
  <1>1. CASE k <= ndtr
    BY <1>1, Sizes DEF NdtrAfter
  <1>2. CASE k > ndtr
    <2>1. (k - ndtr) % Size \in 0 .. Size - 1
      BY Sizes, ModDiv
    <2> QED
      BY <1>2, <2>1, Sizes DEF NdtrAfter
  <1> QED
    BY <1>1, <1>2

LEMMA ProducedIs == ASSUME NEW k \in 0 .. Size
                    PROVE  Produced(k) = Idx(Size - k) /\ Produced(k) \in Slots
  <1>1. AtMost(IF k < 0 THEN 0 ELSE k, Size) = k
    BY Sizes DEF AtMost
  <1>2. Size - k \in Int
    BY Sizes
  <1> QED
    BY <1>1, <1>2, IdxType DEF Produced

LEMMA DmaTypes == ASSUME TInv, (\E k \in 0 .. MaxChunk : DmaArrive(k)) \/ DmaStep PROVE TInv'
  <1> USE DEF TInv, TypeOK, ChunkFits, cb, cvars, hist
  <1>1. CASE \E k \in 0 .. MaxChunk : DmaArrive(k)
    BY <1>1, Sizes DEF DmaArrive
  <1>2. CASE DmaStore
    <2>1. head + 1 \in 0 .. MaxStream
      BY <1>2, Sizes DEF DmaStore
    <2>2. data' \in [Slots -> 0 .. MaxStream]
      BY <1>2, <2>1 DEF DmaStore
    <2>3. overrun' \in BOOLEAN
      BY <1>2 DEF DmaStore
    <2> QED
      BY <1>2, <2>1, <2>2, <2>3, Sizes DEF DmaStore
  <1>3. CASE DmaWrInc
    <2>1. ndtr' \in 0 .. Size
      BY <1>3, NdtrType DEF DmaWrInc
    <2>2. dma_cnt' \in Slots
      BY <1>3, <2>1, ProducedIs DEF DmaWrInc
    <2>3. Produced(ndtr') - dma_cnt \in Int
      BY <2>1, ProducedIs, Sizes DEF Slots
    <2>4. delta' \in Slots
      BY <1>3, <2>3, IdxType DEF DmaWrInc, Idx
    <2> QED
      BY <1>3, <2>1, <2>2, <2>4 DEF DmaWrInc
  <1>4. CASE DmaGap
    BY <1>4, CountType DEF DmaGap
  <1>5. CASE DmaPublish
    <2>1. write' \in Words
      BY <1>5, IncType, Sizes DEF DmaPublish, Words, Slots
    <2> QED
      BY <1>5, <2>1, Sizes DEF DmaPublish
  <1>6. CASE DmaOverwrite
    <2>1. read' \in Words /\ full_cnt' \in Words
      BY <1>6, IncType, Sizes DEF DmaOverwrite, Words
    <2> QED
      BY <1>6, <2>1 DEF DmaOverwrite
  <1> QED
    BY <1>1, <1>2, <1>3, <1>4, <1>5, <1>6 DEF DmaStep

LEMMA ReaderTypes == ASSUME TInv, ReaderStep PROVE TInv'
  <1> USE DEF TInv, TypeOK, ChunkFits, cb, pvars, hist
  <1>0. CbDataCount(write, read) \in Nat
    BY CountType, Sizes DEF Slots
  <1>1. CASE \E k \in ReadSizes : ReadCall(k)
    BY <1>1, StreamAssumption DEF ReadCall
  <1>2. CASE ReadOne
    <2>1. Idx(read) \in Slots
      BY IdxType, Sizes DEF Words
    <2>2. out' \in Seq(0 .. MaxStream)
      BY <1>2, <2>1 DEF ReadOne
    <2> QED
      BY <1>2, <2>2 DEF ReadOne
  <1>3. CASE ReadCount
    BY <1>0, <1>3 DEF ReadCount, AtMost
  <1>4. CASE ReadCopy
    <2>1. Idx(v_read + Len(out)) \in Slots
      BY IdxType, Sizes DEF Words
    <2>2. out' \in Seq(0 .. MaxStream)
      BY <1>4, <2>1 DEF ReadCopy
    <2> QED
      BY <1>4, <2>2 DEF ReadCopy
  <1>5. CASE ReadAvail
    BY <1>0, <1>5 DEF ReadAvail, AtMost
  <1>6. CASE ReadAdvance
    <2>1. read' \in Words
      BY <1>6, IncType, Sizes DEF ReadAdvance, Words
    <2> QED
      BY <1>6, <2>1 DEF ReadAdvance
  <1> QED
    BY <1>1, <1>2, <1>3, <1>4, <1>5, <1>6 DEF ReaderStep

LEMMA StepTypes == TInv /\ [Next]_vars => TInv'
  <1> SUFFICES ASSUME TInv, [Next]_vars PROVE TInv'
    OBVIOUS
  <1>1. CASE UNCHANGED vars
    BY <1>1 DEF vars, cb, pvars, cvars, hist, TInv, TypeOK, ChunkFits
  <1> QED
    BY <1>1, DmaTypes, ReaderTypes DEF Next

LEMMA TypesAlways == Spec => []TInv
  BY InitTypes, StepTypes, PTL DEF Spec

(***************************************************************************)
(* Type correctness: every counter stays in its word, every count below    *)
(* the size of the buffer, and no access leaves the memory.                *)
(***************************************************************************)
THEOREM TypeCorrect == Spec => []TypeOK
  <1>1. TInv => TypeOK
    BY DEF TInv
  <1> QED
    BY TypesAlways, <1>1, PTL

----------------------------------------------------------------------------
(* The hardware's position *)

\* Bytes of the current chunk that are in memory.
Stored == IF ppc = "store" THEN chunk - left ELSE 0

(***************************************************************************)
(* Nothing the reader does can disturb this.  Outside of CbDmaWrInc the    *)
(* register, dma_cnt and cb->write stand where the last publication ended; *)
(* inside it delta is what cb->write lags behind; and the newest Size      *)
(* bytes are in the slots their numbers name.                              *)
(***************************************************************************)
Placed    == Phys = Idx(head - Stored)
Published == ppc \in {"wait", "store"} => head = pub + Stored /\ dma_cnt = Idx(pub)
Pending   == ppc \in {"gap", "publish"} => head = pub + delta /\ dma_cnt = Idx(head)
Counted   == ppc = "overwrite" => head = pub /\ dma_cnt = Idx(head)
WriteIs   == write = pub % Modulus
Newest    == \A i \in 1 .. head : head - i < Size => data[Idx(i - 1)] = i

HInv == TInv /\ Placed /\ Published /\ Pending /\ Counted /\ WriteIs /\ Newest

LEMMA InitHardware == Init => HInv
  <1> SUFFICES ASSUME Init PROVE HInv
    OBVIOUS
  <1>1. Idx(0) = 0 /\ 0 % Modulus = 0
    BY Sizes, ModSmall DEF Idx
  <1>2. Phys = Idx(head - Stored)
    BY Sizes DEF Init, Phys, Stored
  <1> QED
    BY <1>1, <1>2, InitTypes, Sizes
       DEF Init, HInv, Placed, Published, Pending, Counted, WriteIs, Newest, Stored

\* Advancing the register advances the position it stands for.
LEMMA NdtrMoves == ASSUME ndtr \in 0 .. Size, NEW k \in Nat, NEW a \in Int, Phys = Idx(a)
                   PROVE  Idx(Size - NdtrAfter(k)) = Idx(a + k)
  <1>1. Idx((Size - ndtr) + k) = Idx(a + k)
    <2>1. Size - ndtr \in Int
      BY Sizes
    <2>2. Idx(Idx(Size - ndtr) + k) = Idx((Size - ndtr) + k)
      BY <2>1, IdxSum
    <2>3. Idx(Idx(a) + k) = Idx(a + k)
      BY IdxSum
    <2> QED
      BY <2>2, <2>3 DEF Phys
  <1>2. CASE k <= ndtr
    <2>1. Size - NdtrAfter(k) = (Size - ndtr) + k
      BY <1>2, Sizes DEF NdtrAfter
    <2> QED
      BY <2>1, <1>1
  <1>3. CASE k > ndtr
    <2>1. k - ndtr \in Int
      OBVIOUS
    <2>2. PICK t \in Slots : Idx(k - ndtr) = t
      BY <2>1, IdxType
    <2>3. Size - NdtrAfter(k) = t
      BY <1>3, <2>2, Sizes DEF NdtrAfter, Idx, Slots
    <2>4. (k - ndtr) + Size = (Size - ndtr) + k
      BY Sizes
    <2>5. Idx((k - ndtr) + Size) = t
      BY <2>1, <2>2, IdxTurn
    <2> QED
      BY <2>2, <2>3, <2>4, <2>5, <1>1, IdxSmall
  <1> QED
    BY <1>2, <1>3

LEMMA StoreHardware == ASSUME HInv, DmaStore PROVE HInv'
  <1> USE DEF HInv, TInv, TypeOK
  <1>0. TInv'
    BY DmaTypes DEF DmaStep
  <1>1. head' = head + 1 /\ Stored' = Stored + 1 /\ Stored = chunk - left
    BY Sizes DEF DmaStore, Stored
  <1>2. Idx(Phys + (chunk - left)) = Idx(head)
    <2>1. head - Stored \in Int /\ Stored \in Int /\ (head - Stored) + Stored = head
      BY <1>1, Sizes
    <2>2. Idx(Idx(head - Stored) + Stored) = Idx((head - Stored) + Stored)
      BY <2>1, IdxSum
    <2> QED
      BY <1>1, <2>1, <2>2 DEF Placed
  <1>3. data' = [data EXCEPT ![Idx(head)] = head + 1]
    BY <1>2 DEF DmaStore
  <1>4. Newest'
    <2> SUFFICES ASSUME NEW i \in 1 .. head', head' - i < Size
                 PROVE  data'[Idx(i - 1)] = i
      BY Zenon DEF Newest
    <2>0. i \in 1 .. head + 1 /\ head + 1 - i < Size /\ i - 1 \in Int /\ head \in Int
      BY <1>1
    <2>1. Idx(i - 1) \in Slots /\ Idx(head) \in Slots
      BY <2>0, IdxType
    <2>2. CASE i = head + 1
      <3>1. i - 1 = head
        BY <2>2, Sizes
      <3> QED
        BY <2>1, <2>2, <3>1, <1>3
    <2>3. CASE i # head + 1
      <3>1. i \in 1 .. head /\ i - 1 < head /\ head - (i - 1) < Size /\ head - i < Size
        BY <2>0, <2>3, Sizes
      <3>2. Idx(i - 1) # Idx(head)
        BY <3>1, OwnSlot, Sizes
      <3> QED
        BY <3>1, <3>2, <2>1, <1>3 DEF Newest
    <2> QED
      BY <2>2, <2>3
  <1>5. head' - Stored' = head - Stored /\ Phys' = Phys
    BY <1>1, Sizes DEF DmaStore, Phys
  <1>6. Placed'
    BY <1>5 DEF Placed
  <1>7. Published'
    BY <1>1, Sizes DEF Published, DmaStore
  <1> QED
    BY <1>0, <1>4, <1>6, <1>7 DEF Pending, Counted, WriteIs, DmaStore

LEMMA WrIncHardware == ASSUME HInv, DmaWrInc PROVE HInv'
  <1> USE DEF HInv, TInv, TypeOK
  <1>0. TInv'
    BY DmaTypes DEF DmaStep
  <1>1. Stored = chunk /\ Stored' = 0 /\ head = pub + chunk /\ dma_cnt = Idx(pub)
    BY Sizes DEF DmaWrInc, Stored, Published
  <1>2. Phys = Idx(pub) /\ ndtr \in 0 .. Size /\ chunk \in 0 .. Size - 1 /\ pub \in Int
    <2>1. head - Stored = pub
      BY <1>1, Sizes
    <2> QED
      BY <2>1, Sizes DEF Placed
  <1>3. Idx(Size - ndtr') = Idx(head)
    BY <1>1, <1>2, NdtrMoves DEF DmaWrInc
  <1>4. dma_cnt' = Idx(head)
    BY <1>0, <1>3, ProducedIs DEF DmaWrInc
  <1>5. delta' = chunk
    <2>1. delta' = (Idx(head) - Idx(pub)) % Size
      BY <1>1, <1>4 DEF DmaWrInc
    <2>2. (Idx(head) - Idx(pub)) % Size = (head - pub) % Size
      BY <1>2, Sizes, IdxDiff
    <2>3. head - pub = chunk /\ chunk \in Slots
      BY <1>1, <1>2, Sizes DEF Slots
    <2>4. chunk % Size = chunk
      BY <2>3, IdxSmall DEF Idx
    <2> QED
      BY <2>1, <2>2, <2>3, <2>4
  <1>6. Placed'
    <2>1. head' - Stored' = head
      BY <1>1, Sizes DEF DmaWrInc, hist
    <2> QED
      BY <1>3, <2>1 DEF Placed, Phys
  <1>7. Pending'
    BY <1>1, <1>4, <1>5 DEF Pending, DmaWrInc, hist
  <1> QED
    BY <1>0, <1>6, <1>7 DEF Published, Counted, WriteIs, Newest, DmaWrInc, hist

LEMMA DmaHardware ==
  ASSUME HInv, (\E k \in 0 .. MaxChunk : DmaArrive(k)) \/ DmaStep
  PROVE  HInv'
  <1> USE DEF HInv
  <1>0. TInv'
    BY DmaTypes
  <1>1. CASE \E k \in 0 .. MaxChunk : DmaArrive(k)
    <2>1. head' = head /\ pub' = pub /\ write' = write /\ data' = data /\ dma_cnt' = dma_cnt
          /\ ndtr' = ndtr /\ ppc' = "store" /\ ppc = "wait"
      BY <1>1 DEF DmaArrive, cb, hist
    <2>2. Stored = 0 /\ Stored' = 0
      BY <1>1, Sizes DEF DmaArrive, Stored
    <2> QED
      BY <1>0, <2>1, <2>2 DEF Placed, Published, Pending, Counted, WriteIs, Newest, Phys
  <1>2. CASE DmaStore
    BY <1>2, StoreHardware
  <1>3. CASE DmaWrInc
    BY <1>3, WrIncHardware
  <1>4. CASE DmaGap
    BY <1>0, <1>4 DEF DmaGap, cb, hist, Stored, Placed, Published, Pending, Counted, WriteIs,
       Newest, Phys
  <1>5. CASE DmaPublish
    <2>1. head = pub + delta /\ dma_cnt = Idx(head) /\ delta \in Int /\ pub \in Int
      BY <1>5, Sizes DEF DmaPublish, Pending, TInv, TypeOK, Slots
    <2>2. write' = head % Modulus
      BY <1>5, <2>1, IncOfWord DEF DmaPublish, WriteIs
    <2>3. head' = head /\ pub' = head /\ dma_cnt' = dma_cnt /\ data' = data /\ ndtr' = ndtr
          /\ ppc' \in {"overwrite", "wait"} /\ Stored = 0 /\ Stored' = 0
      BY <1>5 DEF DmaPublish, Stored
    <2>4. head = head + 0
      BY <2>1
    <2> QED
      BY <1>0, <2>1, <2>2, <2>3, <2>4
         DEF Placed, Published, Pending, Counted, WriteIs, Newest, Phys
  <1>6. CASE DmaOverwrite
    <2>1. head' = head /\ pub' = pub /\ dma_cnt' = dma_cnt /\ data' = data /\ ndtr' = ndtr
          /\ write' = write /\ ppc' = "wait" /\ Stored = 0 /\ Stored' = 0
      BY <1>6 DEF DmaOverwrite, Stored, hist
    <2>2. head = pub + 0 /\ dma_cnt = Idx(pub)
      BY <1>6, Sizes DEF DmaOverwrite, Counted, TInv, TypeOK
    <2> QED
      BY <1>0, <2>1, <2>2 DEF Placed, Published, Pending, Counted, WriteIs, Newest, Phys
  <1> QED
    BY <1>1, <1>2, <1>3, <1>4, <1>5, <1>6 DEF DmaStep

\* The reader touches none of it.
LEMMA ReaderHardware ==
  ASSUME HInv, ReaderStep \/ UNCHANGED vars
  PROVE  HInv'
  <1>1. TInv'
    BY ReaderTypes, StepTypes DEF HInv
  <1>2. UNCHANGED <<data, write, dma_cnt, pvars, head, pub>>
    BY DEF ReaderStep, ReadCall, ReadOne, ReadCount, ReadCopy, ReadAvail, ReadAdvance,
           vars, cb, hist
  <1> QED
    BY <1>1, <1>2 DEF HInv, Stored, Placed, Published, Pending, Counted, WriteIs, Newest,
       Phys, pvars

LEMMA StepHardware == HInv /\ [Next]_vars => HInv'
  BY DmaHardware, ReaderHardware DEF Next

LEMMA HardwareAlways == Spec => []HInv
  BY InitHardware, StepHardware, PTL DEF Spec

(***************************************************************************)
(* Whatever the reader does, and for every size and stream, the published  *)
(* index, dma_cnt and the register name the slot behind the last byte      *)
(* stored, and the newest bytes are where the index says (c_buffer.h:234-  *)
(* 244, main.c:46-72).                                                     *)
(***************************************************************************)
THEOREM TracksHardwareHolds == Spec => []TracksHardware
  <1>1. HInv => TracksHardware
    <2> SUFFICES ASSUME HInv, ppc = "wait"
                 PROVE  /\ Idx(write) = Idx(head) /\ dma_cnt = Idx(head) /\ Phys = Idx(head)
                        /\ \A i \in 1 .. AtMost(head, Size) :
                             data[Idx(write - i)] = head - i + 1
      BY DEF TracksHardware, Idx
    <2>0. head \in Nat
      BY DEF HInv, TInv, TypeOK
    <2>1. Stored = 0 /\ head = pub /\ head - Stored = head
      BY <2>0 DEF HInv, TInv, TypeOK, Published, Stored
    <2>2. \A l \in Int : Idx(write + l) = Idx(head + l)
      BY <2>0, <2>1, SlotOfWord DEF HInv, WriteIs
    <2>3. Idx(write) = Idx(head)
      <3>1. write \in Int
        BY Sizes DEF HInv, TInv, TypeOK, Words
      <3>2. Idx(write + 0) = Idx(head + 0)
        BY <2>2
      <3>3. write + 0 = write /\ head + 0 = head
        BY <2>0, <3>1
      <3> QED
        BY <3>2, <3>3
    <2>4. ASSUME NEW i \in 1 .. AtMost(head, Size)
          PROVE  data[Idx(write - i)] = head - i + 1
      <3>1. i \in 1 .. head /\ i <= Size /\ write \in Int
        BY <2>0, Sizes DEF AtMost, HInv, TInv, TypeOK, Words
      <3>2. Idx(write + (-i)) = Idx(head + (-i))
        BY <2>2, <3>1
      <3>3. write + (-i) = write - i /\ head + (-i) = (head - i + 1) - 1
        BY <3>1, <2>0
      <3>4. head - i + 1 \in 1 .. head /\ head - (head - i + 1) < Size
        BY <3>1, <2>0, Sizes
      <3> QED
        BY <3>2, <3>3, <3>4 DEF HInv, Newest
    <2> QED
      BY <2>1, <2>3, <2>4 DEF HInv, Published, Placed
  <1> QED
    BY HardwareAlways, <1>1, PTL

----------------------------------------------------------------------------
(* What the reader is given *)

(***************************************************************************)
(* As long as the reader keeps up: it is never more than Mask bytes behind *)
(* the hardware, so the byte it is about to read is among the newest Size; *)
(* its index is where it stopped; a call never settles for more than is    *)
(* published; and the room CbWriteInc found suffices for what it is about  *)
(* to publish, because the reader can only have made more.                 *)
(***************************************************************************)
Behind    == taken <= pub /\ head - taken <= Mask
ReadIs    == read = taken % Modulus
NoLoss    == ppc # "overwrite" /\ full_cnt = 0
Room      == ppc = "publish" => delta <= gap
Plan      ==
    /\ cpc = "one" => taken < pub
    /\ cpc = "one" => n = 1
    /\ cpc \in {"copy", "advance"} => v_read = read /\ Len(out) <= n
    /\ cpc \in {"copy", "advance"} => n <= pub - taken
    /\ cpc = "advance" => n = Len(out)
    /\ cpc = "count" => Len(out) = 0
Keeping   == Behind /\ ReadIs /\ NoLoss /\ Room /\ Plan /\ InOrder

DInv == HInv /\ (~overrun => Keeping)

LEMMA InitDelivery == Init => DInv
  <1> SUFFICES ASSUME Init PROVE Keeping
    BY InitHardware DEF DInv
  <1>1. 0 % Modulus = 0
    BY Sizes, ModSmall
  <1> QED
    BY <1>1, Sizes DEF Init, Keeping, Behind, ReadIs, NoLoss, Room, Plan, InOrder

\* What the buffer says it holds is what has been published and not taken.
LEMMA CountIs == ASSUME HInv, Keeping
                 PROVE  /\ CbDataCount(write, read) = pub - taken
                        /\ CbEmptyCount(write, read) = Mask - (pub - taken)
                        /\ pub - taken \in 0 .. Mask
  <1>1. pub \in Int /\ taken \in Int /\ taken <= pub /\ pub - taken < Size
        /\ pub - taken \in 0 .. Mask
    BY Sizes DEF HInv, TInv, TypeOK, Keeping, Behind
  <1>2. CbDataCount(pub % Modulus, taken % Modulus) = pub - taken
    BY <1>1, CountOfWords
  <1> QED
    BY <1>1, <1>2 DEF HInv, WriteIs, Keeping, ReadIs, CbEmptyCount

LEMMA EmptyIs == ASSUME HInv, Keeping, ~CbIsEmpty(write, read) PROVE taken < pub
  <1>1. pub \in Int /\ taken \in Int /\ taken <= pub
    BY DEF HInv, TInv, TypeOK, Keeping, Behind
  <1>2. write = read <=> (pub % Modulus) = (taken % Modulus)
    BY DEF HInv, WriteIs, Keeping, ReadIs
  <1>3. taken # pub
    BY <1>2 DEF CbIsEmpty
  <1> QED
    BY <1>1, <1>3

\* The slot the reader looks at holds the byte it should.
LEMMA ByteIs == ASSUME HInv, Keeping, NEW l \in Nat, l < pub - taken
                PROVE  data[Idx(read + l)] = taken + l + 1
  <1>1. pub \in Int /\ head \in Int /\ taken \in Nat /\ pub <= head /\ head - taken < Size
    BY Sizes DEF HInv, TInv, TypeOK, Keeping, Behind
  <1>2. Idx(read + l) = Idx(taken + l)
    BY <1>1, SlotOfWord DEF Keeping, ReadIs
  <1>3. taken + l + 1 \in 1 .. head /\ head - (taken + l + 1) < Size
        /\ (taken + l + 1) - 1 = taken + l
    BY <1>1, Sizes
  <1> QED
    BY <1>2, <1>3 DEF HInv, Newest

\* What is left between two counters grows with the leading one, and shrinks with the other.
LEMMA MoreAhead == ASSUME NEW a \in Int, NEW b \in Int, NEW c \in Int, NEW k \in Int,
                          a <= b, k <= a - c
                   PROVE  k <= b - c
  <1>1. a - c <= b - c
    OBVIOUS
  <1> QED
    BY <1>1

LEMMA LessBehind == ASSUME NEW a \in Int, NEW b \in Int, NEW c \in Int, NEW k \in Int,
                           a <= b, c - a <= k
                    PROVE  c - b <= k
  <1>1. c - b <= c - a
    OBVIOUS
  <1> QED
    BY <1>1

\* A reader that has been lapped is never forgiven.
LEMMA OverrunStays == ASSUME Next, ~overrun' PROVE ~overrun /\ (DmaStore => ~(head - taken >= Mask))
  <1>1. CASE DmaStore
    BY <1>1, Zenon DEF DmaStore
  <1>2. CASE (\E k \in 0 .. MaxChunk : DmaArrive(k)) \/ DmaWrInc \/ DmaGap \/ DmaPublish \/ DmaOverwrite
    <2>1. overrun' = overrun /\ ~DmaStore
      BY <1>2 DEF DmaArrive, DmaWrInc, DmaGap, DmaPublish, DmaOverwrite, DmaStore, hist
    <2> QED
      BY <2>1
  <1>3. CASE ReaderStep
    <2>1. overrun' = overrun /\ head' = head
      BY <1>3 DEF ReaderStep, ReadCall, ReadOne, ReadCount, ReadCopy, ReadAvail, ReadAdvance, hist
    <2> QED
      BY <2>1, Zenon DEF DmaStore
  <1> QED
    BY <1>1, <1>2, <1>3 DEF Next, DmaStep

LEMMA DmaDelivery ==
  ASSUME DInv, (\E k \in 0 .. MaxChunk : DmaArrive(k)) \/ DmaStep, ~overrun'
  PROVE  Keeping'
  <1>0. HInv /\ Keeping /\ ~overrun
    BY OverrunStays DEF DInv, Next
  <1>1. UNCHANGED <<cvars, taken>>
    BY DEF DmaStep, DmaArrive, DmaStore, DmaWrInc, DmaGap, DmaPublish, DmaOverwrite, hist
  <1>2. InOrder'
    BY <1>0, <1>1 DEF Keeping, InOrder, cvars
  <1>3. pub <= pub' /\ pub \in Nat /\ pub' \in Nat /\ taken \in Nat /\ head \in Nat
    BY <1>0 DEF DmaStep, DmaArrive, DmaStore, DmaWrInc, DmaGap, DmaPublish, DmaOverwrite, hist,
                HInv, TInv, TypeOK
  <1>4. ASSUME UNCHANGED read PROVE Plan'
    <2>1. n \in Nat
      BY <1>0 DEF HInv, TInv, TypeOK
    <2>2. cpc' = cpc /\ n' = n /\ v_read' = v_read /\ out' = out /\ taken' = taken /\ read' = read
      BY <1>1, <1>4 DEF cvars
    <2>3. taken < pub => taken < pub'
      BY <1>3
    <2>4. n <= pub - taken => n <= pub' - taken
      <3> SUFFICES ASSUME n <= pub - taken PROVE n <= pub' - taken
        OBVIOUS
      <3>1. n \in Int /\ pub \in Int /\ pub' \in Int /\ taken \in Int /\ pub <= pub'
        BY <1>3, <2>1
      <3> QED
        BY <3>1, MoreAhead
    <2>5. Plan
      BY <1>0 DEF Keeping
    <2> QED
      BY <2>2, <2>3, <2>4, <2>5, Zenon DEF Plan
  <1>5. CASE \E k \in 0 .. MaxChunk : DmaArrive(k)
    BY <1>0, <1>1, <1>2, <1>4, <1>5
       DEF DmaArrive, cb, hist, Keeping, Behind, ReadIs, NoLoss, Room
  <1>6. CASE DmaStore
    <2>1. head' = head + 1 /\ head - taken < Mask
      <3>1. head' = head + 1 /\ ~(head - taken >= Mask)
        BY <1>6, OverrunStays DEF DmaStore, Next, DmaStep
      <3> QED
        BY <3>1, <1>3, Sizes
    <2> QED
      BY <1>0, <1>1, <1>2, <1>3, <1>4, <1>6, <2>1, Sizes
         DEF DmaStore, Keeping, Behind, ReadIs, NoLoss, Room
  <1>7. CASE DmaWrInc
    BY <1>0, <1>1, <1>2, <1>4, <1>7
       DEF DmaWrInc, hist, Keeping, Behind, ReadIs, NoLoss, Room
  <1>8. CASE DmaGap
    <2>1. delta <= Mask - (pub - taken) /\ delta \in Int
      BY <1>0, <1>3, <1>8, Sizes
         DEF DmaGap, HInv, Pending, Keeping, Behind, TInv, TypeOK, Slots
    <2>2. Room'
      BY <1>0, <1>8, <2>1, CountIs DEF DmaGap, Room
    <2> QED
      BY <1>0, <1>1, <1>2, <1>4, <1>8, <2>2
         DEF DmaGap, cb, hist, Keeping, Behind, ReadIs, NoLoss
  <1>9. CASE DmaPublish
    <2>1. delta <= gap /\ delta \in Int /\ gap \in Int
      BY <1>0, <1>9, Sizes DEF DmaPublish, Keeping, Room, HInv, TInv, TypeOK, Slots
    <2>2. ppc' = "wait"
      BY <1>9, <2>1 DEF DmaPublish
    <2>3. pub' = head /\ head' = head /\ pub <= head /\ UNCHANGED <<read, full_cnt>>
      BY <1>0, <1>9 DEF DmaPublish, HInv, TInv, TypeOK
    <2> QED
      BY <1>0, <1>1, <1>2, <1>3, <1>4, <2>2, <2>3
         DEF Keeping, Behind, ReadIs, NoLoss, Room
  <1>10. CASE DmaOverwrite
    BY <1>0, <1>10 DEF DmaOverwrite, Keeping, NoLoss
  <1> QED
    BY <1>5, <1>6, <1>7, <1>8, <1>9, <1>10 DEF DmaStep

LEMMA ReaderDelivery ==
  ASSUME DInv, ReaderStep, ~overrun'
  PROVE  Keeping'
  <1>0. HInv /\ Keeping /\ ~overrun
    BY OverrunStays DEF DInv, Next
  <1> USE <1>0
  <1>1. UNCHANGED <<write, full_cnt, pvars, head, pub>>
    BY DEF ReaderStep, ReadCall, ReadOne, ReadCount, ReadCopy, ReadAvail, ReadAdvance, cb, hist
  <1>2. pub \in Nat /\ taken \in Nat /\ head \in Nat /\ n \in Nat /\ out \in Seq(0 .. MaxStream)
        /\ Len(out) \in Nat
    BY DEF HInv, TInv, TypeOK
  <1>3. ASSUME taken <= taken', taken' <= pub, taken' \in Nat
        PROVE  Behind' /\ NoLoss' /\ Room'
    <2>1. Behind'
      <3>1. head' = head /\ pub' = pub
        BY <1>1
      <3>2. head - taken <= Mask /\ Mask \in Int
        BY Sizes DEF Keeping, Behind
      <3>3. head - taken' <= Mask
        <4>1. head \in Int /\ taken \in Int /\ taken' \in Int /\ taken <= taken'
          BY <1>2, <1>3
        <4> QED
          BY <3>2, <4>1, LessBehind
      <3> QED
        BY <1>3, <3>1, <3>3 DEF Behind
    <2>2. NoLoss' /\ Room'
      BY <1>1 DEF Keeping, NoLoss, Room, pvars
    <2> QED
      BY <2>1, <2>2
  <1>4. ASSUME taken' = taken PROVE Behind' /\ NoLoss' /\ Room'
    BY <1>2, <1>3, <1>4 DEF Keeping, Behind
  <1>5. CASE \E k \in ReadSizes : ReadCall(k)
    <2>1. PICK k \in ReadSizes : ReadCall(k)
      BY <1>5
    <2>2. UNCHANGED <<read, taken, v_read>> /\ out' = <<>> /\ Len(out') = 0 /\ n' = k
      BY <2>1 DEF ReadCall, cb, hist
    <2>3. cpc' = "one" => k = 1
      BY <2>1 DEF ReadCall
    <2>4. cpc' \in {"idle", "one", "count"} /\ (cpc' # "idle" => ~CbIsEmpty(write, read))
      BY <2>1 DEF ReadCall
    <2>5. cpc' = "one" => taken < pub
      BY <2>4, EmptyIs
    <2>6. Plan'
      BY <1>1, <2>2, <2>3, <2>4, <2>5 DEF Plan
    <2>7. InOrder'
      BY <2>2 DEF InOrder
    <2> QED
      BY <1>4, <2>2, <2>6, <2>7 DEF Keeping, ReadIs
  <1>6. CASE ReadOne
    <2>1. UNCHANGED <<read, taken, n>> /\ v_read' = read /\ cpc' = "advance"
          /\ out' = <<data[Idx(read)]>>
      BY <1>6 DEF ReadOne, cb, hist
    <2>2. n = 1 /\ taken < pub
      BY <1>6 DEF ReadOne, Keeping, Plan
    <2>3. data[Idx(read + 0)] = taken + 0 + 1
      BY <1>2, <2>2, ByteIs
    <2>4. read + 0 = read
      BY Sizes DEF HInv, TInv, TypeOK, Words
    <2>5. out' = <<taken + 1>> /\ Len(out') = 1
      BY <1>2, <2>1, <2>3, <2>4
    <2>6. Plan'
      BY <1>1, <1>2, <2>1, <2>2, <2>5 DEF Plan
    <2>7. InOrder'
      BY <2>1, <2>5 DEF InOrder
    <2> QED
      BY <1>4, <2>1, <2>6, <2>7 DEF Keeping, ReadIs
  <1>7. CASE ReadCount
    <2>1. UNCHANGED <<read, taken, out>> /\ v_read' = read /\ cpc = "count" /\ cpc' = "copy"
          /\ n' = AtMost(n, pub - taken)
      BY <1>7, CountIs DEF ReadCount, cb, hist
    <2>2. n' \in Nat /\ n' <= pub - taken /\ Len(out) = 0
      BY <1>2, <2>1, CountIs DEF AtMost, Keeping, Plan
    <2>3. Plan'
      BY <1>1, <2>1, <2>2 DEF Plan
    <2>4. InOrder'
      BY <2>1, <2>2 DEF InOrder
    <2> QED
      BY <1>4, <2>1, <2>3, <2>4 DEF Keeping, ReadIs
  <1>8. CASE ReadCopy
    <2>1. UNCHANGED <<read, taken, n, v_read, cpc>> /\ cpc = "copy" /\ Len(out) < n /\ v_read = read
          /\ out' = Append(out, data[Idx(read + Len(out))]) /\ n <= pub - taken
      BY <1>8 DEF ReadCopy, cb, hist, Keeping, Plan
    <2>2. data[Idx(read + Len(out))] = taken + Len(out) + 1
      BY <1>2, <2>1, ByteIs
    <2>3. out' = Append(out, taken + Len(out) + 1) /\ Len(out') = Len(out) + 1
      BY <1>2, <2>1, <2>2
    <2>4. Plan'
      BY <1>1, <1>2, <2>1, <2>3 DEF Plan
    <2>5. InOrder'
      <3>1. \A i \in 1 .. Len(out) : out[i] = taken + i
        BY <2>1 DEF Keeping, InOrder
      <3>2. \A i \in 1 .. Len(out') : out'[i] = taken + i
        BY <1>2, <2>3, <3>1
      <3> QED
        BY <2>1, <3>2 DEF InOrder
    <2> QED
      BY <1>4, <2>1, <2>4, <2>5 DEF Keeping, ReadIs
  <1>9. CASE ReadAvail
    <2>1. UNCHANGED <<read, taken, out>> /\ v_read' = read /\ cpc = "copy" /\ cpc' = "advance"
          /\ n' = AtMost(n, pub - taken) /\ Len(out) = n /\ n <= pub - taken
      BY <1>9, CountIs DEF ReadAvail, cb, hist, Keeping, Plan
    <2>2. n' = n
      BY <1>2, <2>1 DEF AtMost
    <2>3. Plan'
      BY <1>1, <1>2, <2>1, <2>2 DEF Plan
    <2>4. InOrder'
      BY <2>1 DEF Keeping, InOrder
    <2> QED
      BY <1>4, <2>1, <2>3, <2>4 DEF Keeping, ReadIs
  <1>10. CASE ReadAdvance
    <2>1. read' = Inc(read, n) /\ taken' = taken + n /\ n = Len(out) /\ n <= pub - taken
          /\ UNCHANGED out /\ cpc = "advance" /\ cpc' = "idle"
      BY <1>10 DEF ReadAdvance, Keeping, Plan
    <2>2. ReadIs'
      BY <1>2, <2>1, IncOfWord DEF Keeping, ReadIs
    <2>3. Behind' /\ NoLoss' /\ Room'
      BY <1>2, <1>3, <2>1
    <2>4. InOrder'
      BY <1>2, <2>1 DEF Keeping, InOrder
    <2> QED
      BY <2>1, <2>2, <2>3, <2>4 DEF Keeping, Plan
  <1> QED
    BY <1>5, <1>6, <1>7, <1>8, <1>9, <1>10 DEF ReaderStep

LEMMA StepDelivery == DInv /\ [Next]_vars => DInv'
  <1> SUFFICES ASSUME DInv, [Next]_vars PROVE DInv'
    OBVIOUS
  <1>1. HInv'
    BY StepHardware DEF DInv
  <1>2. CASE UNCHANGED vars
    BY <1>1, <1>2 DEF vars, cb, pvars, cvars, hist, DInv, Keeping, Behind, ReadIs, NoLoss, Room,
       Plan, InOrder
  <1> QED
    BY <1>1, <1>2, DmaDelivery, ReaderDelivery DEF Next, DInv

(***************************************************************************)
(* As long as the reader keeps up, sharing the buffer without a lock is    *)
(* safe for every size, chunk and request: the bytes are delivered in      *)
(* order, none lost and none twice, and full_cnt stays 0 (c_buffer.h:122-  *)
(* 137, 180-204).                                                          *)
(***************************************************************************)
THEOREM ExactDeliveryHolds == Spec => []ExactDelivery
  <1>1. DInv => ExactDelivery
    BY DEF DInv, Keeping, NoLoss, ExactDelivery
  <1> QED
    BY InitDelivery, StepDelivery, <1>1, PTL DEF Spec
=============================================================================
