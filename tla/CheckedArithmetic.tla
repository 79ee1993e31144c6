------------------------- MODULE CheckedArithmetic -------------------------
(***************************************************************************)
(* checked_add, checked_sub, checked_mul (include/qiven/                   *)
(* checked_arithmetic.hpp), checked_integer_cast, checked_subspan and the  *)
(* functions of alignment.hpp, with the tests they make before they        *)
(* compute.                                                                *)
(*                                                                         *)
(* An integer type is its least and its greatest value; an optional is a   *)
(* set of at most one element.                                             *)
(***************************************************************************)
EXTENDS Integers, Sequences

Unsigned(most) == [least |-> 0, most |-> most]
Signed(most) == [least |-> -most - 1, most |-> most]
IntegerTypes == {Unsigned(n) : n \in Nat} \cup {Signed(n) : n \in Nat}
Values(type) == type.least .. type.most

\* static_cast to the type, and the division of the language, which truncates.
Wrapped(value, type) ==
    type.least + ((value - type.least) % (type.most - type.least + 1))
Quotient(a, b) ==
    LET magnitude == (IF a < 0 THEN -a ELSE a) \div (IF b < 0 THEN -b ELSE b)
    IN  IF (a < 0) = (b < 0) THEN magnitude ELSE -magnitude

AddOverflows(lhs, rhs, type) ==
    IF type.least < 0
    THEN \/ rhs > 0 /\ lhs > type.most - rhs
         \/ rhs < 0 /\ lhs < type.least - rhs
    ELSE rhs > type.most - lhs

SubOverflows(lhs, rhs, type) ==
    IF type.least < 0
    THEN \/ rhs > 0 /\ lhs < type.least + rhs
         \/ rhs < 0 /\ lhs > type.most + rhs
    ELSE rhs > lhs

MulOverflows(lhs, rhs, type) ==
    IF type.least < 0
    THEN /\ lhs # 0 /\ rhs # 0
         /\ \/ lhs > 0 /\ rhs > 0 /\ lhs > Quotient(type.most, rhs)
            \/ lhs > 0 /\ rhs < 0 /\ rhs < Quotient(type.least, lhs)
            \/ lhs < 0 /\ rhs > 0 /\ lhs < Quotient(type.least, rhs)
            \/ lhs < 0 /\ rhs < 0 /\ lhs < Quotient(type.most, rhs)
    ELSE lhs # 0 /\ rhs > Quotient(type.most, lhs)

CheckedAdd(lhs, rhs, type) ==
    IF AddOverflows(lhs, rhs, type) THEN {} ELSE {Wrapped(lhs + rhs, type)}
CheckedSub(lhs, rhs, type) ==
    IF SubOverflows(lhs, rhs, type) THEN {} ELSE {Wrapped(lhs - rhs, type)}
CheckedMul(lhs, rhs, type) ==
    IF MulOverflows(lhs, rhs, type) THEN {} ELSE {Wrapped(lhs * rhs, type)}

CheckedCast(value, to) ==
    IF value \notin Values(to) THEN {} ELSE {Wrapped(value, to)}

\* The low bits that an alignment masks are the remainder by it, as it is a power of
\* two; that it is one, and in align_up that the sum does not wrap, is asserted.
IsAligned(value, alignment) == value % alignment = 0
AlignDown(value, alignment) == value - (value % alignment)
CheckedAlignUp(value, alignment, type) ==
    LET mask == alignment - 1 IN
    IF value > type.most - mask THEN {} ELSE {AlignDown(value + mask, alignment)}

\* A span is the sequence of its elements.
CheckedSubspan(source, offset, count) ==
    IF offset > Len(source) \/ count > Len(source) - offset THEN {}
    ELSE {SubSeq(source, offset + 1, offset + count)}
=============================================================================
