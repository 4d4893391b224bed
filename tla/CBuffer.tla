------------------------------ MODULE CBuffer ------------------------------
(***************************************************************************)
(* The circular buffer of include/c_buffer.h used by one thread: CbWrite,  *)
(* CbRead, CbReadUntil and CbDmaSynStart, one action per call.  CbDma      *)
(* models the same buffer shared by a producer and a consumer thread.      *)
(***************************************************************************)
EXTENDS CbOps, Sequences

CONSTANTS
    Byte,      \* the values of a byte
    MaxLen     \* longest request a caller makes

ASSUME MaxLenAssumption == MaxLen \in Nat

VARIABLES
    data,      \* cb->data
    write,     \* cb->write
    read,      \* cb->read
    read_last, \* cb->read_last
    full_cnt,  \* cb->full_cnt
    out,       \* what the last call stored through its out pointer
    ret        \* what the last call returned

index == <<write, read, read_last, full_cnt>>
vars  == <<data, write, read, read_last, full_cnt, out, ret>>

Lens  == 1 .. MaxLen
Items == UNION {[1..n -> Byte] : n \in Lens}

\* CbInit does not clear the memory it is given.
CbInit ==
    /\ data \in [Slots -> Byte]
    /\ write = 0 /\ read = 0 /\ read_last = 0 /\ full_cnt = 0
    /\ out = <<>> /\ ret = 0

\* The byte at distance i from the read index, in the order they are read.
Unread(i) == data[Idx(read + i)]

(***************************************************************************)
(* The two index updates.  Overwriting is decided in CbWriteInc alone: the *)
(* read index jumps to one past the new write index, which leaves Mask     *)
(* readable bytes.                                                         *)
(***************************************************************************)

\* Faulty variant: the read index jumps onto the write index.
CbWriteInc_Empties(num) ==
    /\ write' = Inc(write, num)
    /\ IF num > CbEmptyCount(write, read)
         THEN /\ read'      = write'
              /\ read_last' = read'
              /\ full_cnt'  = Inc(full_cnt, 1)
         ELSE UNCHANGED <<read, read_last, full_cnt>>

CbWriteInc(num) ==
    /\ write' = Inc(write, num)
    /\ IF num > CbEmptyCount(write, read)
         THEN /\ read'      = Inc(write', 1)
              /\ read_last' = read'
              /\ full_cnt'  = Inc(full_cnt, 1)
         ELSE UNCHANGED <<read, read_last, full_cnt>>

CbReadInc(num) ==
    /\ read'      = Inc(read, AtMost(num, CbDataCount(write, read)))
    /\ read_last' = read'
    /\ UNCHANGED <<write, full_cnt>>

\* The memory after items have been stored from the write index on.
Stored(items) ==
    [s \in Slots |-> LET at == (s - write) % Size
                     IN  IF at < Len(items) THEN items[at + 1] ELSE data[s]]

(***************************************************************************)
(* CbWrite.  One byte goes in by a path of its own, which moves the read   *)
(* index only when the two indices meet.                                   *)
(***************************************************************************)
CbWriteOne(b) ==
    /\ data'  = [data EXCEPT ![Idx(write)] = b]
    /\ write' = Inc(write, 1)
    /\ IF CbIsEmpty(write', read)
         THEN /\ read'      = Inc(read, 1)
              /\ read_last' = read'
              /\ full_cnt'  = Inc(full_cnt, 1)
         ELSE UNCHANGED <<read, read_last, full_cnt>>

CbWriteMany(items) ==
    /\ data' = Stored(items)
    /\ CbWriteInc(Len(items))

CbWrite(items) ==
    /\ out' = <<>>
    /\ \/ Len(items) = 1 /\ CbWriteOne(items[1]) /\ ret' = 1
       \/ Len(items) > 1 /\ Len(items) < Size /\ CbWriteMany(items) /\ ret' = Len(items)
       \/ Len(items) > 1 /\ Len(items) >= Size /\ ret' = 0 /\ UNCHANGED <<data, index>>

\* What every read does once it knows that k bytes are to be handed over.
HandOver(k) ==
    /\ out' = [i \in 1..k |-> Unread(i - 1)]
    /\ ret' = k
    /\ CbReadInc(k)
    /\ UNCHANGED data

NothingToRead ==
    /\ CbIsEmpty(write, read)
    /\ out' = <<>> /\ ret' = 0
    /\ UNCHANGED <<data, index>>

CbRead(n) ==
    \/ NothingToRead
    \/ ~CbIsEmpty(write, read) /\ HandOver(AtMost(n, CbDataCount(write, read)))

CbReadUntil(max, byte) ==
    \/ NothingToRead
    \/ /\ ~CbIsEmpty(write, read)
       /\ LET limit   == AtMost(max, CbDataCount(write, read))
              Stop(i) == i = limit \/ Unread(i - 1) = byte
          IN  \E i \in 1..limit :
                  /\ Stop(i) /\ \A j \in 1 .. i - 1 : ~Stop(j)
                  /\ HandOver(i)

\* CbDmaSynStart: drop bytes, one CbReadInc(1) at a time, until start_B leads.
CbDmaSynStart(start_B) ==
    \E k \in 0..CbDataCount(write, read) :
        /\ \A i \in 0 .. k - 1 : Unread(i) # start_B
        /\ k < CbDataCount(write, read) => Unread(k) = start_B
        /\ read'      = Inc(read, k)
        /\ read_last' = IF k > 0 THEN read' ELSE read_last
        /\ out' = <<>> /\ ret' = 0
        /\ UNCHANGED <<data, write, full_cnt>>

Next ==
    \/ \E items \in Items : CbWrite(items)
    \/ \E n \in Lens : CbRead(n)
    \/ \E max \in Lens, byte \in Byte : CbReadUntil(max, byte)
    \/ \E start_B \in Byte : CbDmaSynStart(start_B)

Spec == CbInit /\ [][Next]_vars

----------------------------------------------------------------------------
TypeOK ==
    /\ data \in [Slots -> Byte]
    /\ {write, read, read_last, full_cnt} \subseteq Words
    /\ out \in Seq(Byte)
    /\ ret \in Nat

(***************************************************************************)
(* CbContiguousDataCount and CbContiguousEmptyCount are what a caller that *)
(* copies with memcpy or programs a DMA transfer relies on.  The first     *)
(* covers unread bytes only, the second free slots only, neither runs past *)
(* the end of the memory, and neither stops early: the next slot is either *)
(* past the end or of the other kind.                                      *)
(***************************************************************************)
IsUnread(s) == (s - read) % Size < CbDataCount(write, read)

LongestRun(first, len, Good(_)) ==
    /\ len >= 0 /\ first + len <= Size
    /\ \A s \in first .. first + len - 1 : Good(s)
    /\ first + len < Size => ~Good(first + len)

\* The slot before the read index is never filled: it tells full from empty.
IsFree(s) == ~IsUnread(s) /\ s # (read - 1) % Size

ContiguousOK ==
    /\ LongestRun(Idx(read), CbContiguousDataCount(write, read), IsUnread)
    /\ LongestRun(Idx(write), CbContiguousEmptyCount(write, read), IsFree)

(***************************************************************************)
(* The buffer is a queue of Size - 1 bytes that overwrites the oldest and  *)
(* counts the overruns in full_cnt (c_buffer.h:154).                       *)
(***************************************************************************)
Contents == [i \in 1..CbDataCount(write, read) |-> Unread(i - 1)]

Fifo == INSTANCE OverwriteFifo
          WITH Cap <- Mask, CountMod <- Modulus, q <- Contents, overruns <- full_cnt

ImplementsFifo == Fifo!Spec
=============================================================================
