------------------------------- MODULE Capacity -------------------------------
(***************************************************************************)
(* validateCapacity (part_003), which CreateVolume and                     *)
(* ControllerExpandVolume call on the request's CapacityRange before they  *)
(* touch the claim.  It rejects a missing range, a zero minimum and a      *)
(* limit below the minimum, rounds the minimum up to the next multiple of  *)
(* 512 (the qcow2 image size must be one) and rejects a rounded capacity   *)
(* above the limit.                                                        *)
(*                                                                         *)
(* The arithmetic is Go's on int64: + and * wrap around in two's           *)
(* complement and / truncates towards zero.  TLC's integers are 32 bits    *)
(* wide, so the width is a constant: the rounding and the wrap-around do   *)
(* not depend on it, only where the wrap-around starts does.               *)
(***************************************************************************)
EXTENDS Integers

CONSTANTS
    Width,          \* bits of Go's int64
    RequiredBytes,  \* CapacityRange.RequiredBytes the CO may send
    LimitBytes,     \* CapacityRange.LimitBytes the CO may send
    NoRange         \* a request without a CapacityRange

MaxInt == 2^(Width - 1) - 1
MinInt == -(2^(Width - 1))

ASSUME Width > 10 /\ RequiredBytes \subseteq 0..MaxInt /\ LimitBytes \subseteq 0..MaxInt

\* The result of an int64 + or *: the mathematical value wrapped into
\* MinInt..MaxInt.
Wrap(x) == ((x - MinInt) % 2^Width) + MinInt

\* Go's integer division by a positive divisor, truncated towards zero.
Quot(a, b) == IF a >= 0 THEN a \div b ELSE -((-a) \div b)

\* The error return: -1 for all three values and a status error.
Rejected == [err |-> TRUE, capacity |-> -1]

CapacityRanges == {NoRange} \cup [required : RequiredBytes, limit : LimitBytes]

validateCapacity(capacityRange) ==
    LET minCapacity == capacityRange.required
        maxCapacity == capacityRange.limit
        capacity    == Wrap(Quot(Wrap(minCapacity + 511), 512) * 512)
    IN  IF \/ capacityRange = NoRange
           \/ minCapacity = 0
           \/ maxCapacity # 0 /\ maxCapacity < minCapacity
           \/ maxCapacity # 0 /\ maxCapacity < capacity
        THEN Rejected
        ELSE [err |-> FALSE, capacity |-> capacity]

VARIABLES
    req,      \* the CapacityRange of the request being handled
    returned, \* validateCapacity has returned
    result    \* what it returned

vars == <<req, returned, result>>

\* A CreateVolume or ControllerExpandVolume request arrives.
Init ==
    /\ req \in CapacityRanges
    /\ returned = FALSE
    /\ result = Rejected

\* The handler calls validateCapacity and returns its error, if any, before
\* doing anything else.
HandleCapacityRange ==
    /\ ~returned
    /\ returned' = TRUE
    /\ result' = validateCapacity(req)
    /\ UNCHANGED req

Next == HandleCapacityRange

Spec == Init /\ [][Next]_vars

-----------------------------------------------------------------------------

\* The reference: the smallest multiple of 512 not below n, in unbounded
\* integers.
RoundedUp(n) == n + ((512 - (n % 512)) % 512)

\* What the request asks for, in terms of the CSI spec and the comment at
\* part_003:734: a capacity that is a multiple of 512, at least the minimum
\* and, when a limit is set, at most the limit; an error when no int64
\* value is such a capacity.
Expected(capacityRange) ==
    IF \/ capacityRange = NoRange
       \/ capacityRange.required = 0
       \/ RoundedUp(capacityRange.required) > MaxInt
       \/ capacityRange.limit # 0
          /\ capacityRange.limit < RoundedUp(capacityRange.required)
    THEN Rejected
    ELSE [err |-> FALSE, capacity |-> RoundedUp(capacityRange.required)]

\* validateCapacity returns what the request asks for: the minimum rounded
\* up to a multiple of 512, or an error.  The handlers pass its capacity on
\* unchecked: CreateVolume to qemu-img create and the capacity annotation,
\* ControllerExpandVolume to qemu-img resize and the annotation.
CapacityIsRoundedMinimum ==
    returned => result = Expected(req)

=============================================================================
