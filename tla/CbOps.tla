------------------------------- MODULE CbOps -------------------------------
(***************************************************************************)
(* Index arithmetic of the circular buffer of include/c_buffer.h.          *)
(*                                                                         *)
(* cb->write and cb->read are free-running size_t counters: they wrap at   *)
(* Modulus = 2^w and are reduced to a slot with "& cb->mask" only when the *)
(* memory is touched.  For a Size that is a power of two, "x & mask" is    *)
(* "x % Size", and because Size divides 2^w the unsigned difference        *)
(* "(write - read) & mask" is "(write - read) % Size".                     *)
(***************************************************************************)
EXTENDS Integers

CONSTANTS
    Size,      \* cb->size, number of bytes of the memory handed to CbInit
    Modulus    \* 2^w, w the width of size_t

(***************************************************************************)
(* CbCheckSize accepts the powers of two and nothing else.  CbInit asserts *)
(* it, so the other operations are only ever used with such a size.        *)
(***************************************************************************)
CbCheckSize(size) == \E k \in 0..size : size = 2^k

ASSUME SizeAssumption    == Size \in Nat \ {0} /\ CbCheckSize(Size)
ASSUME ModulusAssumption == Modulus \in Nat \ {0} /\ \E m \in 1..Modulus : Modulus = m * Size

Slots == 0 .. Size - 1
Words == 0 .. Modulus - 1
Mask  == Size - 1

Idx(n)    == n % Size

\* Faulty variant: the counter has no width.
Inc_NoWrap(a, n) == a + n

Inc(a, n) == (a + n) % Modulus

CbIsEmpty(w, r)    == Idx(w) = Idx(r)
CbIsFull(w, r)     == Idx(r + 1) = Idx(w)
CbDataCount(w, r)  == (w - r) % Size
CbEmptyCount(w, r) == Mask - CbDataCount(w, r)

\* Bytes that can be read from Idx(r) on without wrapping.
CbContiguousDataCount(w, r) ==
    IF Idx(w) < Idx(r) THEN Size - Idx(r) ELSE CbDataCount(w, r)

\* Faulty variant: forgets that one slot stays unused.
CbContiguousEmptyCount_AllSlots(w, r) ==
    IF Idx(w) < Idx(r) THEN Idx(r) - Idx(w) - 1 ELSE Size - Idx(w)

\* Bytes that can be written from Idx(w) on without wrapping or overwriting.
CbContiguousEmptyCount(w, r) ==
    IF Idx(w) < Idx(r)
      THEN Idx(r) - Idx(w) - 1
      ELSE LET end == Size - Idx(w)
           IN  IF Idx(r) = 0 THEN end - 1 ELSE end

AtMost(a, b) == IF a <= b THEN a ELSE b
=============================================================================
