--------------------------- MODULE OverwriteFifo ---------------------------
(***************************************************************************)
(* What the circular buffer promises to its single user: a first-in        *)
(* first-out queue of at most Cap bytes in which a write never fails for   *)
(* lack of room but pushes the oldest bytes out, and says so by counting   *)
(* an overrun.  Only a multi-byte write that could never fit is refused.   *)
(***************************************************************************)
EXTENDS Integers, Sequences

CONSTANTS
    Cap,       \* bytes the queue can hold
    Byte,      \* the values of a byte
    MaxLen,    \* longest request a caller makes
    CountMod   \* the overrun counter wraps at this value

VARIABLES
    q,         \* the bytes held, oldest first
    overruns,  \* writes that pushed unread bytes out
    out,       \* bytes handed over by the last operation
    ret        \* value returned by the last operation

vars == <<q, overruns, out, ret>>

Lens    == 1 .. MaxLen
Items   == UNION {[1..n -> Byte] : n \in Lens}
Fits(n) == n = 1 \/ n <= Cap

\* The newest n elements of s.
Newest(s, n) == IF Len(s) <= n THEN s ELSE SubSeq(s, Len(s) - n + 1, Len(s))

Init == q = <<>> /\ overruns = 0 /\ out = <<>> /\ ret = 0

Put(items) ==
    /\ Fits(Len(items))
    /\ q'        = Newest(q \o items, Cap)
    /\ overruns' = IF Len(q) + Len(items) > Cap THEN (overruns + 1) % CountMod ELSE overruns
    /\ ret'      = Len(items)
    /\ out'      = <<>>

Refuse(items) ==
    /\ ~Fits(Len(items))
    /\ ret' = 0
    /\ out' = <<>>
    /\ UNCHANGED <<q, overruns>>

\* Hand over the oldest k bytes and forget them.
Take(k) ==
    /\ out' = SubSeq(q, 1, k)
    /\ q'   = SubSeq(q, k + 1, Len(q))
    /\ ret' = k
    /\ UNCHANGED overruns

Get(n) == Take(IF n <= Len(q) THEN n ELSE Len(q))

\* The shortest prefix that ends in byte, or as much as max allows.
GetUntil(max, byte) ==
    \E k \in 0..Len(q) :
        /\ k <= max
        /\ \A i \in 1 .. k - 1 : q[i] # byte
        /\ \/ k > 0 /\ q[k] = byte
           \/ k = (IF max <= Len(q) THEN max ELSE Len(q))
        /\ Take(k)

\* Forget bytes until byte is the oldest one.
SkipTo(byte) ==
    \E k \in 0..Len(q) :
        /\ \A i \in 1..k : q[i] # byte
        /\ k < Len(q) => q[k + 1] = byte
        /\ q'   = SubSeq(q, k + 1, Len(q))
        /\ out' = <<>>
        /\ ret' = 0
        /\ UNCHANGED overruns

Next ==
    \/ \E items \in Items : Put(items) \/ Refuse(items)
    \/ \E n \in Lens : Get(n)
    \/ \E max \in Lens, byte \in Byte : GetUntil(max, byte)
    \/ \E byte \in Byte : SkipTo(byte)

Spec == Init /\ [][Next]_vars
=============================================================================
