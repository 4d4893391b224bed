------------------------------- MODULE CbDma -------------------------------
(***************************************************************************)
(* The program of src/main.c: a DMA thread (dma_th) fills the memory of a  *)
(* circular buffer and publishes its progress with CbDmaWrInc, while the   *)
(* main thread drains it with CbRead.  Nothing locks the cb_t, so every    *)
(* access of one thread can fall between any two of the other.             *)
(*                                                                         *)
(* Grain: one step per byte moved and per store to a shared field; an      *)
(* expression that reads shared fields is evaluated within the step that   *)
(* uses it.  "cb->read += n" may reuse a value of cb->read that the same   *)
(* call loaded before, or load it again: both are steps of the model.      *)
(* cb->read_last is a copy of cb->read that nothing reads; it is left out. *)
(*                                                                         *)
(* The i-th byte that arrives is the number i, so that a reader can tell   *)
(* which bytes it was given; 0 is what the memory held before.             *)
(***************************************************************************)
EXTENDS CbOps, Sequences

CONSTANTS
    MaxChunk,  \* largest chunk the hardware delivers at once
    MaxStream, \* bytes that arrive in a run (bound)
    ReadSizes  \* the n of the reader's calls CbRead(cb, out, n)

\* main.c:43 draws chunks below 50 for a buffer of 4096 bytes, and reads 1 or 512.
ASSUME ChunkAssumption == MaxChunk \in Nat /\ MaxChunk < Size
ASSUME StreamAssumption == MaxStream \in Nat /\ ReadSizes \subseteq Nat \ {0}

VARIABLES
    data, write, read, dma_cnt, full_cnt, \* the shared cb_t
    ppc,       \* where the DMA thread is
    ndtr,      \* its countdown register
    chunk,     \* size of the chunk being delivered
    left,      \* bytes of the chunk not stored yet
    delta,     \* local of CbDmaWrInc: bytes to publish
    gap,       \* local of CbWriteInc: room before the publication
    cpc,       \* where the reader is inside CbRead
    n,         \* its argument, then what it settled for
    v_read,    \* the value of cb->read it works from
    out,       \* bytes copied to the caller so far
    head,      \* (history) bytes stored by the hardware
    pub,       \* (history) bytes published through cb->write
    taken,     \* (history) bytes the reader is done with
    overrun    \* (history) a byte was stored with Mask bytes outstanding

cb    == <<data, write, read, dma_cnt, full_cnt>>
pvars == <<ppc, ndtr, chunk, left, delta, gap>>
cvars == <<cpc, n, v_read, out>>
hist  == <<head, pub, taken, overrun>>
vars  == <<cb, pvars, cvars, hist>>

Init ==
    /\ data = [s \in Slots |-> 0]
    /\ write = 0 /\ read = 0 /\ dma_cnt = 0 /\ full_cnt = 0
    /\ ppc = "wait" /\ ndtr = Size /\ chunk = 0 /\ left = 0 /\ delta = 0 /\ gap = 0
    /\ cpc = "idle" /\ n = 0 /\ v_read = 0 /\ out = <<>>
    /\ head = 0 /\ pub = 0 /\ taken = 0 /\ overrun = FALSE

----------------------------------------------------------------------------
(* dma_th *)

\* Where the hardware stores next: NDTR counts down to the end of the memory.
Phys == Idx(Size - ndtr)

\* A chunk of any size arrives, none of it stored yet.
DmaArrive(k) ==
    /\ ppc = "wait" /\ head + k <= MaxStream
    /\ ppc' = "store" /\ chunk' = k /\ left' = k
    /\ UNCHANGED <<cb, ndtr, delta, gap, cvars, hist>>

\* One byte goes to memory, wherever the reader is.
DmaStore ==
    /\ ppc = "store" /\ left > 0
    /\ data' = [data EXCEPT ![Idx(Phys + (chunk - left))] = head + 1]
    /\ left' = left - 1
    /\ head' = head + 1
    /\ overrun' = (overrun \/ head - taken >= Mask)
    /\ UNCHANGED <<write, read, dma_cnt, full_cnt, ppc, ndtr, chunk, delta, gap, cvars, pub, taken>>

\* The register counts down and reloads at the end of the memory.
NdtrAfter(k) == IF k <= ndtr THEN ndtr - k ELSE Size - ((k - ndtr) % Size)

\* CbDmaWrInc clamps NDTR into 0..Size before it uses it.
Produced(nd) == Idx(Size - AtMost(IF nd < 0 THEN 0 ELSE nd, Size))

\* Faulty variant: the difference is not masked.
DmaWrInc_NoMask ==
    /\ ppc = "store" /\ left = 0
    /\ ndtr'    = NdtrAfter(chunk)
    /\ delta'   = Produced(ndtr') - dma_cnt
    /\ dma_cnt' = Produced(ndtr')
    /\ ppc'     = "gap"
    /\ UNCHANGED <<data, write, read, full_cnt, chunk, left, gap, cvars, hist>>

\* Faulty variant: dma_cnt is not brought up to date.
DmaWrInc_StaleCount ==
    /\ ppc = "store" /\ left = 0
    /\ ndtr'    = NdtrAfter(chunk)
    /\ delta'   = (Produced(ndtr') - dma_cnt) % Size
    /\ ppc'     = "gap"
    /\ UNCHANGED <<data, write, read, dma_cnt, full_cnt, chunk, left, gap, cvars, hist>>

DmaWrInc ==
    /\ ppc = "store" /\ left = 0
    /\ ndtr'    = NdtrAfter(chunk)
    /\ delta'   = (Produced(ndtr') - dma_cnt) % Size
    /\ dma_cnt' = Produced(ndtr')
    /\ ppc'     = "gap"
    /\ UNCHANGED <<data, write, read, full_cnt, chunk, left, gap, cvars, hist>>

\* CbWriteInc, first statement: how much room is there?
DmaGap ==
    /\ ppc = "gap"
    /\ gap' = CbEmptyCount(write, read)
    /\ ppc' = "publish"
    /\ UNCHANGED <<cb, ndtr, chunk, left, delta, cvars, hist>>

DmaPublish ==
    /\ ppc = "publish"
    /\ write' = Inc(write, delta)
    /\ pub'   = head
    /\ ppc'   = IF delta > gap THEN "overwrite" ELSE "wait"
    /\ UNCHANGED <<data, read, dma_cnt, full_cnt, ndtr, chunk, left, delta, gap, cvars,
                   head, taken, overrun>>

\* The DMA thread moves the reader's index.
DmaOverwrite ==
    /\ ppc = "overwrite"
    /\ read'     = Inc(write, 1)
    /\ full_cnt' = Inc(full_cnt, 1)
    /\ ppc'      = "wait"
    /\ UNCHANGED <<data, write, dma_cnt, ndtr, chunk, left, delta, gap, cvars, hist>>

----------------------------------------------------------------------------
(* The main thread, in CbRead *)

ReadCall(k) ==
    /\ cpc = "idle"
    /\ out' = <<>>
    /\ n' = k
    /\ cpc' = IF CbIsEmpty(write, read) THEN "idle"
              ELSE IF k = 1 THEN "one" ELSE "count"
    /\ UNCHANGED <<cb, pvars, v_read, hist>>

\* n == 1: take the byte, then increment cb->read without looking at cb->write.
ReadOne ==
    /\ cpc = "one"
    /\ out'    = <<data[Idx(read)]>>
    /\ v_read' = read
    /\ cpc'    = "advance"
    /\ UNCHANGED <<cb, pvars, n, hist>>

\* Faulty variant: the request is not cut to what is there.
ReadCount_NoCap ==
    /\ cpc = "count"
    /\ v_read' = read
    /\ cpc'    = "copy"
    /\ UNCHANGED <<cb, pvars, n, out, hist>>

ReadCount ==
    /\ cpc = "count"
    /\ n'      = AtMost(n, CbDataCount(write, read))
    /\ v_read' = read
    /\ cpc'    = "copy"
    /\ UNCHANGED <<cb, pvars, out, hist>>

ReadCopy ==
    /\ cpc = "copy" /\ Len(out) < n
    /\ out' = Append(out, data[Idx(v_read + Len(out))])
    /\ UNCHANGED <<cb, pvars, cpc, n, v_read, hist>>

\* Faulty variant: always leaves one byte behind.
ReadAvail_LeaveOne ==
    /\ cpc = "copy" /\ Len(out) = n
    /\ n'      = AtMost(n, CbDataCount(write, read) - 1)
    /\ v_read' = read
    /\ cpc'    = "advance"
    /\ UNCHANGED <<cb, pvars, out, hist>>

\* CbReadInc, first statement: never advance beyond what is there.
ReadAvail ==
    /\ cpc = "copy" /\ Len(out) = n
    /\ n'      = AtMost(n, CbDataCount(write, read))
    /\ v_read' = read
    /\ cpc'    = "advance"
    /\ UNCHANGED <<cb, pvars, out, hist>>

\* cb->read += n, from the value loaded before or from a new load.
ReadAdvance ==
    /\ cpc = "advance"
    /\ \E r \in {v_read, read} : read' = Inc(r, n)
    /\ taken' = taken + Len(out)
    /\ cpc'   = "idle"
    /\ UNCHANGED <<data, write, dma_cnt, full_cnt, pvars, n, v_read, out, head, pub, overrun>>

----------------------------------------------------------------------------
DmaStep    == DmaStore \/ DmaWrInc \/ DmaGap \/ DmaPublish \/ DmaOverwrite
ReaderStep == (\E k \in ReadSizes : ReadCall(k)) \/ ReadOne \/ ReadCount \/ ReadCopy
              \/ ReadAvail \/ ReadAdvance

Next == (\E k \in 0..MaxChunk : DmaArrive(k)) \/ DmaStep \/ ReaderStep

(***************************************************************************)
(* The threads are scheduled by the operating system and neither waits for *)
(* the other; main polls every 50 ms for ever.  Nothing says that bytes    *)
(* keep arriving.                                                          *)
(***************************************************************************)
Spec == Init /\ [][Next]_vars /\ WF_vars(DmaStep) /\ WF_vars(ReaderStep)

----------------------------------------------------------------------------
TypeOK ==
    /\ data \in [Slots -> 0..MaxStream]
    /\ write \in Words /\ read \in Words /\ full_cnt \in Words /\ v_read \in Words
    /\ dma_cnt \in Slots
    /\ ndtr \in 0..Size
    /\ chunk \in 0..MaxChunk /\ left \in 0..chunk
    /\ delta \in Slots /\ gap \in Slots
    /\ ppc \in {"wait", "store", "gap", "publish", "overwrite"}
    /\ cpc \in {"idle", "one", "count", "copy", "advance"}
    /\ n \in Nat
    /\ out \in Seq(0..MaxStream)
    /\ head \in 0..MaxStream /\ pub \in 0..head /\ taken \in Nat
    /\ overrun \in BOOLEAN

\* The reader has been given exactly the bytes that follow those it had.
InOrder == \A i \in 1..Len(out) : out[i] = (IF cpc = "idle" THEN taken - Len(out) ELSE taken) + i

(***************************************************************************)
(* As long as the reader keeps up (no byte was ever stored while Mask      *)
(* bytes were outstanding), sharing the buffer without a lock is safe:     *)
(* CbRead hands over the bytes that arrived, in their order, none lost,    *)
(* none twice, none torn, and the DMA thread never moves the reader's      *)
(* index or counts an overrun (c_buffer.h:122-137, 180-204).               *)
(***************************************************************************)
ExactDelivery == ~overrun => InOrder /\ full_cnt = 0

(***************************************************************************)
(* Whatever the reader does, the index the program publishes stays on the  *)
(* hardware's position: outside of CbDmaWrInc cb->write, dma_cnt and NDTR  *)
(* name the slot behind the last byte stored, and the newest bytes are     *)
(* where the index says (c_buffer.h:234-244, main.c:46-72).                *)
(***************************************************************************)
TracksHardware ==
    ppc = "wait" =>
        /\ Idx(write) = head % Size /\ dma_cnt = head % Size /\ Phys = head % Size
        /\ \A i \in 1..AtMost(head, Size) : data[Idx(write - i)] = head - i + 1

(***************************************************************************)
(* When no more bytes arrive the reader empties the buffer and it stays    *)
(* empty, even after the two threads have overwritten each other's         *)
(* cb->read; if the reader always kept up it has then had every byte.      *)
(***************************************************************************)
Drained == <>[](CbIsEmpty(write, read) /\ (~overrun => taken = head))

(***************************************************************************)
(* "politica overwrite centralizada en CbWriteInc" (c_buffer.h:241): bytes *)
(* are only overwritten by decision of CbWriteInc, which counts it in      *)
(* full_cnt.  Between calls, a reader that was not given the bytes in      *)
(* order finds a count.                                                    *)
(***************************************************************************)
LossIsCounted == ppc = "wait" /\ cpc = "idle" /\ ~InOrder => full_cnt > 0
=============================================================================
