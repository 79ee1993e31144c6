-------------------------- MODULE ByteAccumulator --------------------------
(***************************************************************************)
(* What qiven::ByteBuilder promises: a bounded sequence of bytes that an   *)
(* append extends as a whole or not at all, a failure that stays until it  *)
(* is reset, and a reserve that no append within it can fail for.          *)
(***************************************************************************)
EXTENDS Integers, Sequences

CONSTANTS
    Builders,       \* the variables that hold a builder
    Spans,          \* sequences of bytes that may be appended
    Bounds          \* bounds a builder may be created with

VARIABLE content    \* for each builder: its bytes, bound, reserve and status

Nothing == [bytes |-> <<>>, bound |-> 0, reserve |-> 0, status |-> "ok"]

Init == content = [b \in Builders |-> Nothing]

Create(b) ==
    \E bound \in Bounds : content' = [content EXCEPT ![b] = [Nothing EXCEPT !.bound = bound]]

\* Within the bound the bytes go in, and the reserve grows only when it must.
Accept(b, bytes) ==
    LET old == content[b]
        needed == Len(old.bytes) + Len(bytes)
    IN  /\ old.status = "ok"
        /\ \E reserve \in needed .. old.bound :
              /\ IF needed <= old.reserve THEN reserve = old.reserve ELSE reserve > old.reserve
              /\ content' = [content EXCEPT ![b].bytes = @ \o bytes, ![b].reserve = reserve]

\* Only what exceeds the bound is refused for that, and only what exceeds the reserve
\* for want of memory.
Refuse(b, bytes) ==
    LET old == content[b]
        needed == Len(old.bytes) + Len(bytes)
    IN  /\ old.status = "ok"
        /\ \/ /\ needed > old.bound
              /\ content' = [content EXCEPT ![b].status = "capacity_exceeded"]
           \/ /\ old.reserve < needed /\ needed <= old.bound
              /\ content' = [content EXCEPT ![b].status = "allocation_failed"]

Reset(b) == content' = [content EXCEPT ![b].bytes = <<>>, ![b].status = "ok"]

\* Everything moves, and an inert nothing stays behind.
Move(b, other) ==
    /\ b # other
    /\ content' = [content EXCEPT ![b] = content[other], ![other] = Nothing]

Destroy(b) == content' = [content EXCEPT ![b] = Nothing]

Next ==
    \/ \E b \in Builders : Create(b) \/ Reset(b) \/ Destroy(b)
    \/ \E b \in Builders, bytes \in Spans : Accept(b, bytes) \/ Refuse(b, bytes)
    \/ \E b, other \in Builders : Move(b, other)

Spec == Init /\ [][Next]_content
=============================================================================
